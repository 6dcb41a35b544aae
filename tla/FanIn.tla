-------------------------------- MODULE FanIn --------------------------------
(***************************************************************************)
(* The stages with two inputs, reading the branches of FanOut: Merge, Zip, *)
(* CombineLatest, LatestFrom, SampleWith and the terminal SequenceEqual;   *)
(* or, with "each", a consumer per branch (MergeRunners).                  *)
(*                                                                         *)
(* Goroutine k reads branch k; Zip and SequenceEqual have one goroutine    *)
(* that reads branch 1, then branch 2.                                     *)
(***************************************************************************)
EXTENDS FanOut

Is(k) == kind.in = k
Lockstep == {"zip", "sequenceEqual"}
\* Operators that call a user function before they send.
Calls == {"zip", "combineLatest", "latestFrom"}

Worker(pc, val, why) == [pc |-> pc, val |-> val, why |-> why]
Idle == << >>

Init ==
  /\ kind \in Kinds
  /\ FanOutInit
  /\ w = [k \in B |-> IF k = 2 /\ kind.in \in Lockstep THEN Worker("end", Idle, "none") ELSE Worker("recv", Idle, "none")]
  /\ lat = [k \in B |-> 0] /\ stage = "run" /\ out = << >> /\ took = [k \in B |-> << >>]
  /\ eaten = 0 /\ left = FALSE /\ ctx = FALSE /\ panic = FALSE

-----------------------------------------------------------------------------
\* Branch b is taken from; it is closed and empty.
TakeFrom(b) ==
  /\ ch[b] # << >>
  /\ ch' = [ch EXCEPT ![b] = Tail(@)] /\ took' = [took EXCEPT ![b] = Append(@, Head(ch[b]))]
AtEnd(b) == ch[b] = << >> /\ shut[b]

Goes(k, pc, val) == w' = [w EXCEPT ![k] = Worker(pc, val, "none")]
Ends(k, why) == w' = [w EXCEPT ![k] = Worker("end", Idle, why)]
\* Worker k returns; nothing else changes.
WorkerEnds(k, why) ==
  Ends(k, why) /\ UNCHANGED <<kind, foVars, lat, stage, out, took, envVars, ch, refs, panic>>

\* What a goroutine that is not the stage itself sees of the end of the run.
\* Merge's workers have an inner context the stage cancels.
Stopped == ctx \/ (Is("merge") /\ stage = "stop")

WorkerEof(k) == w[k].pc = "recv" /\ AtEnd(k) /\ kind.in \notin Lockstep /\ WorkerEnds(k, "eof")
WorkerCtxDone(k) == w[k].pc \in {"recv", "second", "send"} /\ Stopped /\ WorkerEnds(k, "ctx")
\* Merge leaves this to the stage, SequenceEqual and the terminals have none.
WorkerDrained(k) ==
  /\ w[k].pc \in {"recv", "second"} /\ left
  /\ kind.in \in {"zip", "combineLatest", "latestFrom", "sampleWith"}
  /\ WorkerEnds(k, "drain")
\* The user's function returns an error instead of the value to be sent.
WorkerFails(k) == w[k].pc = "send" /\ kind.in \in Calls /\ MayFail /\ WorkerEnds(k, "err")

-----------------------------------------------------------------------------
\* Receiving.
MergeRecv(k) == Is("merge") /\ TakeFrom(k) /\ Goes(k, "send", <<k, Head(ch[k])>>) /\ UNCHANGED lat
EachRecv(k) == Is("each") /\ TakeFrom(k) /\ UNCHANGED <<w, lat>>

\* Both values are stored and read under the lock, the pair is sent outside.
CombineRecv(k) ==
  /\ Is("combineLatest") /\ TakeFrom(k)
  /\ lat' = [lat EXCEPT ![k] = Head(ch[k])]
  /\ IF 0 \in {lat'[1], lat'[2]} THEN UNCHANGED w ELSE Goes(k, "send", <<lat'[1], lat'[2]>>)

\* Branch 1 is the main one, branch 2 only leaves its latest value.
LatestRecv(k) ==
  /\ Is("latestFrom") /\ TakeFrom(k)
  /\ IF k = 2 THEN lat' = [lat EXCEPT ![2] = Head(ch[2])] /\ UNCHANGED w
     ELSE /\ UNCHANGED lat
          /\ IF lat[2] = 0 THEN UNCHANGED w ELSE Goes(1, "send", <<Head(ch[1]), lat[2]>>)

\* Branch 2 is the sampler: it takes the latest value of branch 1, and ends
\* the stage when there can be no further one.
SourceDone == w[1].why = "eof"
SampleRecv(k) ==
  /\ Is("sampleWith") /\ TakeFrom(k)
  /\ IF k = 1 THEN lat' = [lat EXCEPT ![1] = Head(ch[1])] /\ UNCHANGED w
     ELSE /\ lat' = [lat EXCEPT ![1] = 0]
          /\ CASE lat[1] # 0 -> w' = [w EXCEPT ![2] = Worker("send", <<lat[1]>>, IF SourceDone THEN "eof" ELSE "none")]
               [] lat[1] = 0 /\ SourceDone -> Ends(2, "eof")
               [] OTHER -> UNCHANGED w

Received(k) ==
  /\ w[k].pc = "recv"
  /\ MergeRecv(k) \/ EachRecv(k) \/ CombineRecv(k) \/ LatestRecv(k) \/ SampleRecv(k)
  /\ UNCHANGED <<kind, foVars, stage, out, envVars, refs, panic>>

\* One from each; Zip ends with the first branch that ends.
ZipRecv ==
  /\ Is("zip")
  /\ \/ w[1].pc = "recv" /\ TakeFrom(1) /\ Goes(1, "second", <<Head(ch[1])>>)
     \/ w[1].pc = "second" /\ TakeFrom(2) /\ Goes(1, "send", <<w[1].val[1], Head(ch[2])>>)
     \/ /\ (w[1].pc = "recv" /\ AtEnd(1)) \/ (w[1].pc = "second" /\ AtEnd(2))
        /\ Ends(1, "eof") /\ UNCHANGED <<ch, took>>
  /\ UNCHANGED <<kind, foVars, lat, stage, out, envVars, refs, panic>>

\* The same, until two items or the two ends differ; 0 is the end of branch 1.
EqualRecv ==
  /\ Is("sequenceEqual")
  /\ \/ w[1].pc = "recv" /\ TakeFrom(1) /\ Goes(1, "second", <<Head(ch[1])>>)
     \/ w[1].pc = "recv" /\ AtEnd(1) /\ Goes(1, "second", <<0>>) /\ UNCHANGED <<ch, took>>
     \/ /\ w[1].pc = "second" /\ TakeFrom(2)
        /\ IF w[1].val[1] = Head(ch[2]) THEN Goes(1, "recv", Idle) ELSE Ends(1, "differ")
     \/ /\ w[1].pc = "second" /\ AtEnd(2) /\ UNCHANGED <<ch, took>>
        /\ Ends(1, IF w[1].val = <<0>> THEN "eof" ELSE "differ")
  /\ UNCHANGED <<kind, foVars, lat, stage, out, envVars, refs, panic>>

\* outbox.Send.  The stage may have returned and closed its output while a
\* goroutine of CombineLatest is still about to send: that panics.
Returned == stage \notin {"run", "stop"}
WorkerSend(k) ==
  /\ w[k].pc = "send"
  /\ \/ /\ ~Returned /\ Len(out) - eaten < OutCap
        /\ out' = Append(out, w[k].val) /\ UNCHANGED panic
        /\ IF w[k].why = "none" THEN Goes(k, "recv", Idle) ELSE Ends(k, w[k].why)
     \/ Returned /\ panic' = TRUE /\ UNCHANGED <<out, w>>
  /\ UNCHANGED <<kind, foVars, lat, stage, took, envVars, ch, refs>>

Work(k) ==
  ~panic /\ (WorkerEof(k) \/ WorkerCtxDone(k) \/ WorkerDrained(k) \/ Received(k) \/ WorkerSend(k)
             \/ (k = 1 /\ (ZipRecv \/ EqualRecv)))

-----------------------------------------------------------------------------
\* The stage returns: it signals both branches, closes its output, and an
\* error cancels the run.
Return(why) ==
  /\ stage' = why /\ refs' = (IF Is("each") THEN refs ELSE refs - 2)
  /\ ctx' = (ctx \/ why = "err")
  /\ UNCHANGED <<kind, foVars, w, lat, out, took, eaten, left, ch, panic>>

Gone(k) == w[k].pc = "end"
MergeStops ==
  /\ stage = "run" /\ Is("merge") /\ (left \/ ctx)
  /\ stage' = "stop"
  /\ UNCHANGED <<kind, foVars, w, lat, out, took, envVars, ch, refs, panic>>

\* Mutant: the stage does not wait for its workers.
MergeReturnsMutant ==
  /\ Is("merge") /\ \E k \in B : Gone(k)
  /\ stage = "run" /\ Return(IF ctx THEN "ctx" ELSE "eof")

MergeReturns ==
  /\ Is("merge") /\ \A k \in B : Gone(k)
  /\ \/ stage = "run" /\ Return(IF ctx THEN "ctx" ELSE "eof")
     \/ stage = "stop" /\ left /\ Return("drain")
     \/ stage = "stop" /\ ctx /\ Return("ctx")

\* The stage of CombineLatest waits for both goroutines, but returns with the
\* first error.
CombineReturns ==
  /\ Is("combineLatest") /\ ~Returned
  /\ \/ \E k \in B : w[k].why \in {"err", "ctx"} /\ Return(w[k].why)
     \/ /\ \A k \in B : Gone(k) /\ w[k].why \in {"eof", "drain"}
        /\ Return(IF \E k \in B : w[k].why = "drain" THEN "drain" ELSE "eof")

\* The others return with their main goroutine.
MainOf == IF Is("sampleWith") THEN 2 ELSE 1
MainReturns ==
  /\ kind.in \in {"zip", "sequenceEqual", "latestFrom", "sampleWith"} /\ ~Returned
  /\ Gone(MainOf) /\ Return(w[MainOf].why)

\* Each of two consumers signals its own branch, once; one may stop early.
EachLeaves(k) ==
  /\ Is("each") /\ w[k].pc = "recv" /\ ~panic
  /\ w' = [w EXCEPT ![k] = Worker("end", Idle, "self")]
  /\ UNCHANGED <<kind, foVars, lat, stage, out, took, envVars, ch, refs, panic>>
EachSignals(k) ==
  /\ Is("each") /\ Gone(k) /\ w[k].val = Idle
  /\ w' = [w EXCEPT ![k].val = <<"signalled">>] /\ refs' = refs - 1
  /\ UNCHANGED <<kind, foVars, lat, stage, out, took, envVars, ch, panic>>
EachReturns == Is("each") /\ ~Returned /\ (\A k \in B : w[k].val = <<"signalled">>) /\ Return("eof")

FanInStep == ~panic /\ (MergeStops \/ MergeReturns \/ CombineReturns \/ MainReturns \/ EachReturns
                        \/ \E k \in B : EachSignals(k))

\* Mutant: a consumer that stops early leaves its branch as it is.
DiscardingMutant(k) == Returned /\ stage # "drain"

\* go DrainChan(branch): unless the stage left because its consumer had.
Discarding(k) == IF Is("each") THEN Gone(k) ELSE Returned /\ stage # "drain"
Discard(k) ==
  /\ ~panic /\ Discarding(k) /\ ch[k] # << >>
  /\ ch' = [ch EXCEPT ![k] = Tail(@)]
  /\ UNCHANGED <<kind, foVars, fiVars, envVars, refs, panic>>

\* The consumer behind the fan-in receives, or leaves and discards.
Consume ==
  /\ ~panic /\ eaten < Len(out) /\ eaten' = eaten + 1
  /\ UNCHANGED <<kind, foVars, fiVars, left, ctx, ch, refs, panic>>
Leave ==
  /\ ~panic /\ ~left /\ ~Returned /\ kind.in \notin {"each", "sequenceEqual"} /\ left' = TRUE
  /\ UNCHANGED <<kind, foVars, fiVars, eaten, ctx, ch, refs, panic>>
Cancel ==
  /\ ~panic /\ MayFail /\ ~ctx /\ ~(shut[1] /\ shut[2]) /\ ctx' = TRUE
  /\ UNCHANGED <<kind, foVars, fiVars, eaten, left, ch, refs, panic>>
=============================================================================
