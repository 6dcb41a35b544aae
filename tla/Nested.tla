------------------------------- MODULE Nested -------------------------------
(***************************************************************************)
(* The operators that run whole pipelines inside a Generate source:        *)
(* Concat (StartWith, EndWith), Amb of one, Catch, Using, Retry,           *)
(* Materialize, TapError, Finally and IgnoreElements.  A nested run has    *)
(* its own context, derived from the source's, which is cancelled when the *)
(* consumer leaves; its ForEach hands every item to yield.                 *)
(*                                                                         *)
(* A nested pipeline is a source with a channel of one place: it emits n   *)
(* items and then ends, fails, fails with context.Canceled, or waits for   *)
(* its context.                                                            *)
(***************************************************************************)
EXTENDS Integers, SequencesExt

CONSTANTS
  Ops,        \* the operators of the run
  Pipelines,  \* nested pipelines: records with n and end: "ok", "err", "canceled" or "never"
  Runs,       \* nested runs of an operator that makes several (Catch makes two)
  OutCap      \* buffer of the source's channel

VARIABLES
  op,        \* name: the operator; hooked: whether the run has a hook or a gate; max: Retry's MaxAttempts
  nested,    \* nested[k]: the pipeline of the k-th nested run
  k, pc,     \* the nested run, and where the operator is
  pos, buf, src,  \* the nested source: items emitted, its channel, and "run" or how it ended
  each, item,     \* the nested ForEach: "take", "yield" or "end"; the item it yields
  nctx, nres,     \* cancel() has been called; first error of the nested run, or "nil"
  stopped,   \* yield has returned false
  sctx, ctx, left,  \* the source's context, the run's; the drain channel is closed
  ch, gone,  \* the source's channel; nobody empties it any more
  ret,       \* "run", or what the source returned: "nil" or an error
  sent, calls, ends \* history: items sent; callbacks made; results of nested runs

nestedVars == <<pos, buf, src, each, item, nctx, nres>>
outVars == <<ch, sent>>
opVars == <<k, pc, stopped, ret, calls, ends>>
envVars == <<sctx, ctx, left, gone>>
vars == <<op, nested, nestedVars, outVars, opVars, envVars>>

Is(o) == op.name = o
Multi == {"concat", "catch", "retry"}
Canceled(e) == e \in {"canceled", "ctx"}
StageDone == sctx \/ ctx

Init ==
  /\ op \in Ops /\ nested \in [1..Runs -> Pipelines]
  /\ op.name \notin Multi => \A j \in 1..Runs : nested[j] = nested[1]
  \* bounds the attempts of RetryForever
  /\ op.name = "retry" /\ op.max = 0 => nested[Runs].end \in {"ok", "never"}
  /\ k = 1 /\ pc = "start" /\ stopped = FALSE /\ ret = "run" /\ calls = << >> /\ ends = << >>
  /\ pos = 0 /\ buf = << >> /\ src = "none" /\ each = "end" /\ item = << >> /\ nctx = FALSE /\ nres = "nil"
  /\ sctx = FALSE /\ ctx = FALSE /\ left = FALSE /\ gone = FALSE /\ ch = << >> /\ sent = << >>

-----------------------------------------------------------------------------
(* The nested run. *)
nRest == <<op, nested, opVars, envVars>>
NDone == nctx \/ StageDone \/ nres # "nil"
First(e) == nres' = IF nres = "nil" THEN e ELSE nres

Emit ==
  /\ src = "run" /\ pos < nested[k].n /\ Len(buf) < 1
  /\ buf' = Append(buf, <<k, pos + 1>>) /\ pos' = pos + 1
  /\ UNCHANGED <<nRest, outVars, src, each, item, nctx, nres>>
SourceEnds ==
  /\ src = "run"
  /\ \/ pos = nested[k].n /\ nested[k].end = "ok" /\ src' = "end" /\ UNCHANGED nres
     \/ pos = nested[k].n /\ nested[k].end \in {"err", "canceled"} /\ src' = "end" /\ First(nested[k].end)
     \/ NDone /\ src' = "end" /\ First("ctx")
  /\ UNCHANGED <<nRest, outVars, pos, buf, each, item, nctx>>
EachTakes ==
  /\ each = "take" /\ buf # << >>
  /\ item' = Head(buf) /\ buf' = Tail(buf) /\ each' = "yield"
  /\ UNCHANGED <<nRest, outVars, pos, src, nctx, nres>>
EachEnds ==
  /\ each = "take"
  /\ \/ buf = << >> /\ src = "end" /\ UNCHANGED nres
     \/ NDone /\ First("ctx")
  /\ each' = "end" /\ UNCHANGED <<nRest, outVars, pos, buf, src, item, nctx>>

Value == IF Is("materialize") THEN <<"next", item>> ELSE item
Put(v) == ch' = Append(ch, v) /\ sent' = Append(sent, v)

\* What the nested ForEach does with yield's answer.
Answered(ok) ==
  /\ stopped' = (stopped \/ (~ok /\ ~Is("amb")))
  /\ IF Is("amb") /\ ~ok THEN First("canceled") /\ each' = "end" /\ UNCHANGED nctx
     ELSE /\ each' = "take" /\ nctx' = (nctx \/ ~ok) /\ UNCHANGED nres

\* yield: the channel, the drain channel or, in a run with a hook, the
\* context.  Without a hook an item that was sent still counts as refused
\* once the context is cancelled.
Yield ==
  /\ each = "yield"
  /\ \/ Is("ignore") /\ each' = "take" /\ UNCHANGED <<outVars, stopped, nctx, nres>>
     \/ ~Is("ignore") /\ Len(ch) < OutCap /\ Put(Value) /\ Answered(op.hooked \/ ~StageDone)
     \/ ~Is("ignore") /\ (left \/ (op.hooked /\ StageDone)) /\ Answered(FALSE) /\ UNCHANGED outVars
  /\ UNCHANGED <<op, nested, k, pc, ret, calls, ends, envVars, pos, buf, src, item>>

NestedStep == Emit \/ SourceEnds \/ EachTakes \/ EachEnds \/ Yield
RunOver == src = "end" /\ each = "end"

-----------------------------------------------------------------------------
(* The operator. *)
oRest == <<op, nested, envVars, stopped>>

\* acquire of Using; Retry's look at the context; then Run of the next nested
\* pipeline.
StartRun ==
  /\ pc = "start"
  /\ IF Is("retry") /\ StageDone
     THEN pc' = "done" /\ ret' = (IF ctx THEN "ctx" ELSE "nil") /\ UNCHANGED <<nestedVars, calls>>
     ELSE /\ pc' = "run" /\ src' = "run" /\ each' = "take" /\ pos' = 0 /\ buf' = << >> /\ item' = << >>
          /\ nctx' = FALSE /\ nres' = "nil" /\ UNCHANGED ret
          /\ calls' = IF Is("using") THEN Append(calls, "acquire") ELSE calls
  /\ UNCHANGED <<oRest, outVars, k, ends>>
AcquireFails ==
  /\ pc = "start" /\ Is("using") /\ pc' = "done" /\ ret' = "err"
  /\ UNCHANGED <<oRest, outVars, nestedVars, k, calls, ends>>

\* Generate takes a cancellation for its own doing unless the run is cancelled.
Result(e) == ret' = IF Canceled(e) /\ ~ctx THEN "nil" ELSE e
Returns(e) == pc' = "done" /\ Result(e) /\ UNCHANGED k
Again == k' = k + 1 /\ pc' = "start" /\ UNCHANGED ret
Calls(c) == calls' = Append(calls, c)

\* The nested run of operator o has returned.
Over(o) ==
  /\ Is(o) /\ pc = "run" /\ RunOver /\ ends' = Append(ends, nres)
  /\ UNCHANGED <<oRest, outVars, nestedVars>>
Clean == stopped \/ nres = "nil"

AfterConcat ==
  /\ Over("concat") /\ UNCHANGED calls
  /\ CASE stopped -> Returns("nil")
       [] ~Clean /\ ~Canceled(nres) -> Returns(nres)
       [] ~stopped /\ (Clean \/ Canceled(nres)) ->
            IF StageDone THEN Returns("ctx") ELSE IF k < Runs THEN Again ELSE Returns("nil")
AfterAmb == Over("amb") /\ Returns(IF Canceled(nres) THEN "nil" ELSE nres) /\ UNCHANGED calls
AfterIgnore == Over("ignore") /\ Returns(nres) /\ UNCHANGED calls

\* Mutant: the context is not looked at before the fallback starts.
AfterCatchMutant ==
  /\ Over("catch")
  /\ IF k = 1 /\ ~Clean THEN Again /\ Calls("fn")
     ELSE Returns(IF Clean \/ (Canceled(nres) /\ ~StageDone) THEN "nil" ELSE nres) /\ UNCHANGED calls

AfterCatch ==
  /\ Over("catch")
  /\ IF k = 1 /\ ~Clean
     THEN IF StageDone THEN Returns("ctx") /\ UNCHANGED calls ELSE Again /\ Calls("fn")
     ELSE Returns(IF Clean \/ (Canceled(nres) /\ ~StageDone) THEN "nil" ELSE nres) /\ UNCHANGED calls
AfterRetry ==
  /\ Over("retry")
  /\ IF Clean \/ StageDone \/ k = op.max
     THEN Returns(IF stopped THEN "nil" ELSE IF StageDone THEN "ctx" ELSE nres) /\ UNCHANGED calls
     ELSE pc' = "wait" /\ Calls("onRetry") /\ UNCHANGED <<k, ret>>
AfterMaterialize ==
  /\ Over("materialize") /\ UNCHANGED calls
  /\ IF stopped \/ StageDone THEN Returns(IF stopped THEN "nil" ELSE "ctx") ELSE pc' = "last" /\ UNCHANGED <<k, ret>>
AfterUsing == Over("using") /\ Returns(IF stopped THEN "nil" ELSE nres) /\ Calls("release")
AfterTapError ==
  /\ Over("tapError") /\ Returns(IF stopped THEN "nil" ELSE nres)
  /\ IF ~Clean /\ ~StageDone THEN Calls("fn") ELSE UNCHANGED calls
AfterFinally == Over("finally") /\ Returns(IF stopped THEN "nil" ELSE nres) /\ Calls("fn")

\* Retry's backoff.
Backoff ==
  /\ pc = "wait"
  /\ \/ Again /\ UNCHANGED ends
     \/ StageDone /\ Returns("ctx") /\ UNCHANGED ends
  /\ UNCHANGED <<oRest, outVars, nestedVars, calls>>

\* Materialize yields the outcome.
YieldOutcome ==
  /\ pc = "last"
  /\ \/ Len(ch) < OutCap /\ Put(IF nres = "nil" THEN <<"complete">> ELSE <<"error", nres>>)
     \/ (left \/ (op.hooked /\ StageDone)) /\ UNCHANGED outVars
  /\ Returns("nil") /\ UNCHANGED <<oRest, nestedVars, calls, ends>>

Operate ==
  \/ StartRun \/ Backoff \/ YieldOutcome \/ AfterConcat \/ AfterAmb \/ AfterIgnore \/ AfterCatch
  \/ AfterRetry \/ AfterMaterialize \/ AfterUsing \/ AfterTapError \/ AfterFinally

-----------------------------------------------------------------------------
(* The consumer, Generate's watcher, and the caller. *)
eRest == <<op, nested, nestedVars, opVars, sent>>
Consume == ~gone /\ ch # << >> /\ ch' = Tail(ch) /\ UNCHANGED <<eRest, envVars>>
Leave == ret = "run" /\ ~left /\ left' = TRUE /\ gone' \in (IF ctx THEN {FALSE} ELSE BOOLEAN) /\ UNCHANGED <<eRest, ch, sctx, ctx>>
Watch == ret = "run" /\ left /\ ~sctx /\ sctx' = TRUE /\ UNCHANGED <<eRest, ch, ctx, left, gone>>
Cancel == ret = "run" /\ ~ctx /\ ctx' = TRUE /\ UNCHANGED <<eRest, ch, sctx, left, gone>>
Halted == ret # "run" /\ UNCHANGED vars

Next == NestedStep \/ Operate \/ AcquireFails \/ Consume \/ Leave \/ Watch \/ Cancel \/ Halted

\* Goroutines go on, and a pipeline that may end does.
Fairness ==
  /\ WF_vars(Emit) /\ WF_vars(SourceEnds) /\ WF_vars(EachTakes \/ EachEnds) /\ WF_vars(Yield)
  /\ WF_vars(Operate) /\ WF_vars(Consume) /\ WF_vars(Watch)

Spec == Init /\ [][Next]_vars /\ Fairness

-----------------------------------------------------------------------------
\* The positions of the items among what has been sent, and the items;
\* Materialize wraps them.
Values == {p \in DOMAIN sent : Is("materialize") => sent[p][1] = "next"}
Item(p) == IF Is("materialize") THEN sent[p][2] ELSE sent[p]
OfRun(j) == {Item(p)[2] : p \in {q \in Values : Item(q)[1] = j}}
Whole == ret # "run" /\ ~left /\ ~ctx

\* What comes out is the output of the nested runs, one after the other, each
\* in order and without a gap, and all of a run that ended well; Materialize
\* adds the outcome, once, at the end.
Concatenated ==
  ~left /\ ~ctx =>
    /\ \A p, q \in Values : p < q =>
         \/ Item(p)[1] < Item(q)[1]
         \/ Item(p)[1] = Item(q)[1] /\ Item(p)[2] < Item(q)[2]
    /\ \A j \in 1..Runs : \E n \in 0..nested[j].n : OfRun(j) = 1..n
    /\ \A j \in DOMAIN ends : ends[j] = "nil" /\ ~Is("ignore") => OfRun(j) = 1..nested[j].n
    /\ \A p \in DOMAIN sent \ Values :
         p = Len(sent) /\ sent[p] = IF ends[1] = "nil" THEN <<"complete">> ELSE <<"error", ends[1]>>
    /\ Is("materialize") /\ Whole => Values # DOMAIN sent

\* The result and the callbacks tell what happened to the nested runs.  A
\* failure of the last run is the result, unless Materialize has sent it on;
\* Concat ends well only after all its runs; Catch starts its fallback
\* for a failure of its first run, and only then, and Retry a new attempt only
\* for a failure of the last, never for the cancellation of this run or a
\* parting consumer; Using releases once what it acquired, Finally calls its
\* function once, and TapError its own only for a failure.  A nested pipeline
\* that returns context.Canceled while this run is not cancelled may count as
\* failed: to the code it has, though the comments speak of "non-context
\* errors", so nothing is demanded of that case.
OutcomeTold ==
  LET failure(j) == ends[j] \in {"err", "canceled"}
      last == Len(ends) IN
  /\ Whole /\ last > 0 =>
       /\ (ret = "err") = (ends[last] = "err" /\ ~Is("materialize"))
       /\ Is("concat") /\ ret = "nil" => last = Runs
       /\ Is("catch") => /\ ends[1] = "err" => last = 2
                         /\ last = 2 => failure(1)
  /\ op.name \in {"catch", "retry"} => \A j \in 1..last - 1 : failure(j)
  /\ Is("retry") /\ op.max > 0 => last <= op.max
  /\ Is("using") /\ ret # "run" => calls = IF last = 0 THEN << >> ELSE <<"acquire", "release">>
  /\ Is("finally") /\ ret # "run" => calls = <<"fn">>
  /\ op.name \in {"tapError", "catch"} /\ calls # << >> => failure(1)

\* Nothing that the source waits for lasts for ever.
MustEnd == left \/ ctx \/ \A j \in 1..Runs : nested[j].end # "never"
=============================================================================
