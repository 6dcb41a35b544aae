----------------------------- MODULE InnerProofs ----------------------------
(***************************************************************************)
(* Proofs about the operators that run streams inside a stage, for any     *)
(* input, any nested pipelines, factories, buffers and parallelism: what   *)
(* happened to the streams inside is what the stage reports.               *)
(***************************************************************************)
EXTENDS Inner, Sequences, SequenceTheorems, FiniteSets, TLAPS

-----------------------------------------------------------------------------
(* Amb. *)
Goroutines == [n : Nat, up : BOOLEAN, ch : Seq(Nat)]

\* The first error is a failed factory's, and a cancelled loser that fails
\* has told it before it is gone.
AmbInv ==
  /\ ends \in [Factories -> {"ok", "err", "never", "late"}]
  /\ f \in [Factories -> Goroutines]
  /\ firstErr \in {"nil", "err"} /\ ret \in {"run", "nil", "err"}
  /\ firstErr = "err" => \E i \in Factories : ends[i] \in {"err", "late"} /\ ~f[i].up
  /\ \A i \in Factories : ends[i] = "late" /\ ~f[i].up => firstErr = "err"
  /\ ret = "err" => firstErr = "err"
  /\ ret = "nil" /\ ~left /\ ~ctx => \A i \in Factories : ends[i] # "late"

\* Taking an item from a factory's channel leaves the factory as it is.
LEMMA AmbTakes ==
  ASSUME AmbInv, NEW i \in Factories, A!ForwarderTakes(i)
  PROVE  ends' = ends /\ f' \in [Factories -> Goroutines] /\ \A j \in Factories : f'[j].up = f[j].up
<1> USE DEF AmbInv
<1>a. /\ f[i] \in Goroutines
      /\ \A s \in Seq(Nat) : s # << >> => Tail(s) \in Seq(Nat)
  OBVIOUS
<1>1. ends' = ends /\ (f' = f \/ (f[i].ch # << >> /\ f' = [f EXCEPT ![i].ch = Tail(@)]))
  BY DEF A!ForwarderTakes, A!wRest
<1>2. ASSUME f[i].ch # << >>, f' = [f EXCEPT ![i].ch = Tail(@)]
      PROVE  f' \in [Factories -> Goroutines] /\ \A j \in Factories : f'[j].up = f[j].up
  <2>1. Tail(f[i].ch) \in Seq(Nat)
    BY <1>a, <1>2 DEF Goroutines
  <2>2. /\ f \in [Factories -> Goroutines]
        /\ f' = [j \in Factories |-> IF j = i THEN [f[i] EXCEPT !.ch = Tail(f[i].ch)] ELSE f[j]]
    BY <1>2
  <2>3. /\ [f[i] EXCEPT !.ch = Tail(f[i].ch)] \in Goroutines
        /\ [f[i] EXCEPT !.ch = Tail(f[i].ch)].up = f[i].up
    BY <1>a, <2>1 DEF Goroutines
  <2> HIDE DEF AmbInv
  <2> QED BY <2>2, <2>3
<1> QED BY <1>1, <1>2

\* A goroutine's step keeps the channel's and the counter's types.
LEMMA AmbTypeStep ==
  ASSUME AmbInv, [A!Next]_ambVars
  PROVE  /\ ends' = ends /\ f' \in [Factories -> Goroutines]
         /\ \A i \in Factories : ~f[i].up => ~f'[i].up
<1>a. ASSUME NEW s \in Seq(Nat), NEW n \in Nat PROVE Append(s, n) \in Seq(Nat) /\ (s # << >> => Tail(s) \in Seq(Nat))
  OBVIOUS
<1> USE DEF AmbInv
<1>0. ASSUME NEW i \in Factories PROVE f[i] \in Goroutines /\ f[i].n \in Nat /\ f[i].up \in BOOLEAN /\ f[i].ch \in Seq(Nat)
  BY DEF Goroutines
<1>1. ASSUME NEW i \in Factories, A!FactorySends(i) PROVE ends' = ends /\ f' \in [Factories -> Goroutines] /\ \A j \in Factories : f'[j].up = f[j].up
  <2>1. ends' = ends /\ f' = [f EXCEPT ![i].n = @ + 1, ![i].ch = Append(@, f[i].n + 1)]
    BY <1>1 DEF A!FactorySends, A!fRest
  <2>2. f[i].n + 1 \in Nat /\ Append(f[i].ch, f[i].n + 1) \in Seq(Nat)
    <3>1. f[i].n + 1 \in Nat
      BY <1>0
    <3> QED BY <1>0, <1>a, <3>1
  <2> QED BY <1>0, <2>1, <2>2 DEF Goroutines
<1>2. ASSUME NEW i \in Factories, A!FactoryEnds(i) PROVE ends' = ends /\ f' = [f EXCEPT ![i].up = FALSE]
  BY <1>2 DEF A!FactoryEnds, A!fRest
<1>3. ASSUME NEW i \in Factories, A!ForwarderTakes(i) PROVE ends' = ends /\ f' \in [Factories -> Goroutines] /\ \A j \in Factories : f'[j].up = f[j].up
  BY <1>3, AmbTakes
<1>4. ASSUME NEW i \in Factories, A!ForwarderSends(i) PROVE ends' = ends /\ f' = f
  BY <1>4 DEF A!ForwarderSends, A!wRest
<1>5. ASSUME A!Source \/ A!Cancel \/ A!Leave \/ A!Halted \/ UNCHANGED ambVars PROVE ends' = ends /\ f' = f
  BY <1>5 DEF A!Source, A!Take, A!Yield, A!Return, A!Cancel, A!Leave, A!Halted, A!sRest, A!eRest, ambVars, A!vars
<1>6. ASSUME NEW i \in Factories, f' = [f EXCEPT ![i].up = FALSE]
      PROVE  f' \in [Factories -> Goroutines] /\ \A j \in Factories : ~f[j].up => ~f'[j].up
  BY <1>6 DEF Goroutines
<1> QED
  BY <1>1, <1>2, <1>3, <1>4, <1>5, <1>6 DEF A!Next, A!Goroutine

\* Every step keeps what Amb knows of the failures.
LEMMA AmbStep == AmbInv /\ [A!Next]_ambVars => AmbInv'
<1> SUFFICES ASSUME AmbInv, [A!Next]_ambVars PROVE AmbInv'
  OBVIOUS
<1>1. /\ ends' = ends /\ f' \in [Factories -> Goroutines]
      /\ \A i \in Factories : ~f[i].up => ~f'[i].up
  BY AmbTypeStep
<1> USE <1>1 DEF AmbInv
<1>2. ASSUME NEW i \in Factories, A!FactorySends(i) PROVE AmbInv'
  <2>1. \A j \in Factories : f'[j].up = f[j].up
    BY <1>2 DEF A!FactorySends, Goroutines
  <2> QED BY <1>2, <2>1 DEF A!FactorySends, A!fRest
<1>3. ASSUME NEW i \in Factories, A!FactoryEnds(i) PROVE AmbInv'
  <2>1. f[i].up /\ ~f'[i].up /\ \A j \in Factories : j # i => f'[j].up = f[j].up
    BY <1>3 DEF A!FactoryEnds, Goroutines
  <2>2. UNCHANGED <<ret, left, ctx>>
    BY <1>3 DEF A!FactoryEnds, A!fRest
  <2>3. \/ firstErr' = firstErr /\ ends[i] # "late"
        \/ firstErr' = "err" /\ ends[i] \in {"err", "late"}
    BY <1>3 DEF A!FactoryEnds
  <2> QED BY <2>1, <2>2, <2>3
<1>4. ASSUME NEW i \in Factories, A!ForwarderTakes(i) PROVE AmbInv'
  <2>1. \A j \in Factories : f'[j].up = f[j].up
    BY <1>4, AmbTakes
  <2> QED BY <1>4, <2>1 DEF A!ForwarderTakes, A!wRest
<1>5. ASSUME NEW i \in Factories, A!ForwarderSends(i) PROVE AmbInv'
  BY <1>5 DEF A!ForwarderSends, A!wRest
<1>6. CASE A!Take
  BY <1>6 DEF A!Take, A!sRest
<1>7. CASE A!Yield
  BY <1>7 DEF A!Yield, A!sRest
<1>8. CASE A!Return
  BY <1>8 DEF A!Return, A!sRest
<1>9. CASE A!Cancel \/ A!Leave \/ A!Halted \/ UNCHANGED ambVars
  BY <1>9 DEF A!Cancel, A!Leave, A!Halted, A!eRest, ambVars, A!vars
<1> QED
  BY <1>2, <1>3, <1>4, <1>5, <1>6, <1>7, <1>8, <1>9 DEF A!Next, A!Goroutine, A!Source

LEMMA AmbInit == A!Init => AmbInv
<1> SUFFICES ASSUME A!Init PROVE AmbInv
  OBVIOUS
<1>1. ends \in [Factories -> {"ok", "err", "never", "late"}]
  BY InnerAssumption DEF A!Init, InnerAssumption
<1>2. [n |-> 0, up |-> TRUE, ch |-> << >>] \in Goroutines
  BY DEF Goroutines
<1>3. f \in [Factories -> Goroutines] /\ \A i \in Factories : f[i].up
  BY <1>2 DEF A!Init
<1> QED BY <1>1, <1>3 DEF A!Init, AmbInv

\* Amb fails exactly when a factory's run has failed.
LEMMA AmbTells == AmbInv => A!ErrorOfAFactory
BY DEF AmbInv, A!ErrorOfAFactory

-----------------------------------------------------------------------------
(* Nested. *)
Results == {"nil", "err", "canceled", "ctx"}
Failure(j) == ends[j] \in {"err", "canceled"}

NestedType ==
  /\ op \in Ops /\ nested \in [1..Runs -> Pipelines]
  /\ k \in 1..Runs /\ pc \in {"start", "run", "wait", "last", "done"}
  /\ nres \in Results /\ ret \in Results \cup {"run"} /\ ends \in Seq(Results)
  /\ nctx \in BOOLEAN /\ stopped \in BOOLEAN /\ sctx \in BOOLEAN /\ ctx \in BOOLEAN /\ left \in BOOLEAN

\* Where the operator is: which run, how many have ended, and what becomes of
\* their number.
PlaceInv ==
  /\ pc = "done" <=> ret # "run"
  /\ pc \in {"start", "run"} => Len(ends) = k - 1
  /\ pc \in {"wait", "last"} => Len(ends) = k
  /\ pc = "done" => Len(ends) \in {k - 1, k}
  /\ pc = "wait" => op.name = "retry"
  /\ pc = "last" => op.name = "materialize"
  /\ op.name \notin N!Multi => k = 1
  /\ op.name = "catch" => k <= 2
  /\ op.name = "retry" /\ op.max > 0 => k <= op.max /\ (pc = "wait" => k < op.max)
  /\ op.name = "retry" /\ op.max = 0 => nested[Runs].end \in {"ok", "never"} /\ (pc = "wait" => k < Runs)

\* A run is cut short only because yield has refused an item or the stage's
\* context is done, and those have a cause outside.
CauseInv ==
  /\ sctx => left
  /\ stopped => left \/ ctx
  /\ nctx => stopped
  /\ nres = "ctx" => stopped \/ sctx \/ ctx
  /\ \A j \in 1..Len(ends) : ends[j] = "ctx" => stopped \/ sctx \/ ctx
  /\ pc = "run" /\ nres \in {"err", "canceled"} /\ op.name # "amb" => nested[k].end = nres

\* The callbacks made so far.
CallsInv ==
  /\ op.name = "using" =>
       calls = CASE pc = "start" -> << >>
                 [] pc = "run" -> <<"acquire">>
                 [] OTHER -> IF Len(ends) = 0 THEN << >> ELSE <<"acquire", "release">>
  /\ op.name = "finally" => calls = IF pc \in {"start", "run"} THEN << >> ELSE <<"fn">>
  /\ op.name = "tapError" /\ pc \in {"start", "run"} => calls = << >>
  /\ op.name \in {"tapError", "catch"} /\ calls # << >> => Len(ends) > 0 /\ Failure(1)

\* What the operator has returned, or why it goes on.
ToldInv ==
  /\ op.name \in {"catch", "retry"} =>
       \A j \in 1..Len(ends) : j < Len(ends) \/ pc \in {"start", "run", "wait"} => Failure(j)
  /\ ret # "run" /\ ~left /\ ~ctx /\ Len(ends) > 0 =>
       /\ ret = "err" <=> ends[Len(ends)] = "err" /\ op.name # "materialize"
       /\ op.name = "concat" /\ ret = "nil" => Len(ends) = Runs
       /\ op.name = "catch" => (Len(ends) = 2 <=> Failure(1))

NestedInv == NestedType /\ PlaceInv /\ CauseInv /\ CallsInv /\ ToldInv

LEMMA NestedInit == N!Init => NestedInv
<1> SUFFICES ASSUME N!Init PROVE NestedInv
  OBVIOUS
<1> USE InnerAssumption DEF InnerAssumption, N!Init
<1>1. NestedType
  <2>1. << >> \in Seq(Results) /\ 1 \in 1..Runs
    OBVIOUS
  <2> QED BY <2>1 DEF NestedType, Results
<1>2. PlaceInv
  <2>1. op.name = "retry" /\ op.max = 0 => nested[Runs].end \in {"ok", "never"}
    OBVIOUS
  <2>2. op.max \in 0..Runs
    OBVIOUS
  <2> QED BY <2>1, <2>2 DEF PlaceInv
<1>3. CauseInv
  BY DEF CauseInv
<1>4. CallsInv
  BY DEF CallsInv
<1>5. ToldInv
  BY DEF ToldInv
<1> QED BY <1>1, <1>2, <1>3, <1>4, <1>5 DEF NestedInv

\* A run that ends is the k-th.
LEMMA RunEnds ==
  ASSUME NestedInv, NEW o, N!Over(o)
  PROVE  /\ op.name = o /\ pc = "run" /\ ret = "run" /\ Len(ends) = k - 1
         /\ ends' \in Seq(Results) /\ Len(ends') = k /\ ends'[k] = nres
         /\ \A j \in 1..(k - 1) : ends'[j] = ends[j]
         /\ UNCHANGED <<op, nested, nctx, nres, stopped, sctx, ctx, left>>
<1>1. ends' = Append(ends, nres) /\ op.name = o /\ pc = "run"
  BY DEF N!Over, N!Is
<1>2. UNCHANGED <<op, nested, nctx, nres, stopped, sctx, ctx, left>>
  BY DEF N!Over, N!oRest, N!nestedVars, N!envVars
<1>3. ends \in Seq(Results) /\ nres \in Results /\ Len(ends) = k - 1 /\ ret = "run" /\ k \in 1..Runs
  BY <1>1 DEF NestedInv, NestedType, PlaceInv
<1> QED BY <1>1, <1>2, <1>3

\* What a step of the nested run may do: its first error has a cause, and so
\* has its cancellation.
LEMMA RunSteps ==
  ASSUME NestedInv, N!NestedStep
  PROVE  /\ UNCHANGED <<op, nested, k, pc, ret, calls, ends, sctx, ctx, left>>
         /\ nres' \in Results /\ nctx' \in BOOLEAN /\ stopped' \in BOOLEAN
         /\ stopped => stopped'
         /\ stopped' => left \/ ctx
         /\ nctx' => stopped'
         /\ \/ nres' = nres
            \/ nres' \in {"err", "canceled"} /\ nres' = nested[k].end
            \/ nres' = "ctx" /\ (stopped \/ sctx \/ ctx)
            \/ nres' = "canceled" /\ op.name = "amb"
<1> USE DEF NestedInv, NestedType, CauseInv, Results
<1>1. CASE N!Emit \/ N!EachTakes
  BY <1>1 DEF N!Emit, N!EachTakes, N!nRest, N!opVars, N!envVars
<1>2. CASE N!SourceEnds
  BY <1>2 DEF N!SourceEnds, N!First, N!NDone, N!StageDone, N!nRest, N!opVars, N!envVars
<1>3. CASE N!EachEnds
  BY <1>3 DEF N!EachEnds, N!First, N!NDone, N!StageDone, N!nRest, N!opVars, N!envVars
<1>4. CASE N!Yield
  <2>1. UNCHANGED <<op, nested, k, pc, ret, calls, ends, sctx, ctx, left>>
    BY <1>4 DEF N!Yield, N!envVars
  <2>2. CASE UNCHANGED <<stopped, nctx, nres>>
    BY <2>1, <2>2
  <2>3. ASSUME NEW ok \in BOOLEAN, N!Answered(ok), ok \/ left \/ ctx
        PROVE  /\ nres' \in Results /\ nctx' \in BOOLEAN /\ stopped' \in BOOLEAN
               /\ stopped => stopped'
               /\ stopped' => left \/ ctx
               /\ nctx' => stopped'
               /\ nres' = nres \/ (nres' = "canceled" /\ op.name = "amb")
    <3>1. CASE ok
      <4>1. stopped' = stopped /\ nctx' = nctx /\ nres' = nres
        BY <2>3, <3>1 DEF N!Answered, N!Is
      <4> QED BY <2>1, <4>1
    <3>2. CASE ~ok
      <4>1. CASE op.name = "amb"
        BY <2>3, <3>2, <4>1 DEF N!Answered, N!First, N!Is
      <4>2. CASE op.name # "amb"
        <5>1. stopped' = TRUE /\ nctx' = TRUE /\ nres' = nres
          BY <2>3, <3>2, <4>2 DEF N!Answered, N!Is
        <5> QED BY <2>3, <3>2, <5>1
      <4> QED BY <4>1, <4>2
    <3> QED BY <3>1, <3>2
  <2>4. N!StageDone => left \/ ctx
    BY DEF N!StageDone
  <2>5. CASE N!Answered(op.hooked \/ ~N!StageDone)
    BY <2>1, <2>3, <2>4, <2>5
  <2>6. CASE N!Answered(FALSE) /\ (left \/ ctx)
    BY <2>1, <2>3, <2>6
  <2> QED BY <1>4, <2>2, <2>4, <2>5, <2>6 DEF N!Yield
<1> QED BY <1>1, <1>2, <1>3, <1>4 DEF N!NestedStep

\* Steps of the nested run and of those around the stage.
LEMMA NestedQuiet ==
  ASSUME NestedInv,
         UNCHANGED <<op, nested, k, pc, ret, calls, ends>>,
         nres' \in Results, nctx' \in BOOLEAN, stopped' \in BOOLEAN, sctx' \in BOOLEAN, ctx' \in BOOLEAN, left' \in BOOLEAN,
         stopped => stopped', sctx => sctx', ctx => ctx', left => left',
         left' # left \/ ctx' # ctx => ret = "run",
         sctx' => left', stopped' => left' \/ ctx', nctx' => stopped',
         \/ nres' = nres
         \/ nres' \in {"err", "canceled"} /\ nres' = nested[k].end
         \/ nres' = "ctx" /\ (stopped \/ sctx \/ ctx)
         \/ nres' = "canceled" /\ op.name = "amb"
  PROVE  NestedInv'
<1> USE DEF NestedInv
<1>1. NestedType'
  BY DEF NestedType
<1>2. PlaceInv'
  BY DEF PlaceInv, NestedType, N!Multi
<1>3. CauseInv'
  BY DEF CauseInv, NestedType
<1>4. CallsInv'
  BY DEF CallsInv, NestedType, Failure
<1>5. ToldInv'
  BY DEF ToldInv, NestedType, Failure
<1> QED BY <1>1, <1>2, <1>3, <1>4, <1>5

\* A run that ends: the operator returns, starts the next, waits for it or has
\* something left to send.
LEMMA OverKeeps ==
  ASSUME NestedInv, NEW o, N!Over(o),
         \/ pc' = "done" /\ k' = k /\ ret' \in Results
         \/ pc' = "start" /\ k' = k + 1 /\ ret' = "run" /\ k < Runs /\ (o = "concat" \/ (o = "catch" /\ k = 1))
         \/ pc' = "wait" /\ k' = k /\ ret' = "run" /\ o = "retry" /\ k # op.max /\ nested[k].end \notin {"ok", "never"}
         \/ pc' = "last" /\ k' = k /\ ret' = "run" /\ o = "materialize"
  PROVE  NestedType' /\ PlaceInv' /\ CauseInv'
<1>1. /\ op.name = o /\ pc = "run" /\ ret = "run" /\ Len(ends) = k - 1
      /\ ends' \in Seq(Results) /\ Len(ends') = k /\ ends'[k] = nres
      /\ \A j \in 1..(k - 1) : ends'[j] = ends[j]
      /\ UNCHANGED <<op, nested, nctx, nres, stopped, sctx, ctx, left>>
  BY RunEnds
<1>2. op.max \in 0..Runs /\ Runs \in Nat /\ k \in 1..Runs
  BY InnerAssumption DEF InnerAssumption, NestedInv, NestedType
<1>3. NestedType'
  BY <1>1, <1>2 DEF NestedInv, NestedType
<1>4. PlaceInv'
  <2>1. (op.name \notin N!Multi => k = 1)' /\ (op.name = "catch" => k <= 2)'
    BY <1>1, <1>2 DEF NestedInv, PlaceInv, N!Multi
  <2>2. (op.name = "retry" /\ op.max > 0 => k <= op.max /\ (pc = "wait" => k < op.max))'
    BY <1>1, <1>2 DEF NestedInv, PlaceInv
  <2>3. (op.name = "retry" /\ op.max = 0 => nested[Runs].end \in {"ok", "never"} /\ (pc = "wait" => k < Runs))'
    BY <1>1, <1>2 DEF NestedInv, PlaceInv
  <2>4. (/\ pc = "done" <=> ret # "run"
         /\ pc \in {"start", "run"} => Len(ends) = k - 1
         /\ pc \in {"wait", "last"} => Len(ends) = k
         /\ pc = "done" => Len(ends) \in {k - 1, k}
         /\ pc = "wait" => op.name = "retry"
         /\ pc = "last" => op.name = "materialize")'
    BY <1>1, <1>2 DEF Results
  <2> QED BY <2>1, <2>2, <2>3, <2>4 DEF PlaceInv, N!Multi
<1>5. CauseInv'
  <2>1. ASSUME NEW j \in 1..Len(ends'), ends'[j] = "ctx" PROVE stopped \/ sctx \/ ctx
    BY <1>1, <1>2, <2>1 DEF NestedInv, CauseInv
  <2> QED BY <1>1, <2>1 DEF NestedInv, CauseInv
<1> QED BY <1>3, <1>4, <1>5

\* While nobody has left or cancelled, a run ends by itself.
LEMMA Unhindered ==
  ASSUME NestedInv, ~left, ~ctx
  PROVE  ~stopped /\ ~N!StageDone /\ nres \in {"nil", "err", "canceled"}
BY DEF NestedInv, NestedType, CauseInv, N!StageDone, Results

\* An error of a run that nothing has cut short is its pipeline's.
LEMMA OwnFailure ==
  ASSUME NestedInv, ~N!Clean, ~N!StageDone
  PROVE  nres \in {"err", "canceled"} /\ (pc = "run" /\ op.name # "amb" => nested[k].end = nres)
BY DEF NestedInv, NestedType, CauseInv, N!StageDone, N!Clean, Results

LEMMA ResultsKnown ==
  ASSUME NEW e \in Results, N!Result(e)
  PROVE  /\ ret' \in Results
         /\ ret' = "err" <=> e = "err"
BY DEF N!Result, N!Canceled, Results

LEMMA ConcatStep == ASSUME NestedInv, N!AfterConcat PROVE NestedInv'
<1>1. /\ op.name = "concat" /\ pc = "run" /\ ret = "run" /\ Len(ends) = k - 1
      /\ ends' \in Seq(Results) /\ Len(ends') = k /\ ends'[k] = nres
      /\ \A j \in 1..(k - 1) : ends'[j] = ends[j]
      /\ UNCHANGED <<op, nested, nctx, nres, stopped, sctx, ctx, left>>
      /\ N!Over("concat") /\ calls' = calls
  BY RunEnds DEF N!AfterConcat
<1>2. nres \in Results /\ k \in 1..Runs
  BY DEF NestedInv, NestedType
<1>3. \/ pc' = "done" /\ k' = k /\ ret' \in Results /\ (~left /\ ~ctx => (ret' = "err" <=> nres = "err") /\ (ret' = "nil" => k = Runs))
      \/ pc' = "start" /\ k' = k + 1 /\ ret' = "run" /\ k < Runs
  <2>1. CASE stopped
    <3>1. N!Returns("nil") /\ (left \/ ctx)
      BY <2>1, Unhindered DEF N!AfterConcat, N!Clean
    <3> QED BY <3>1, ResultsKnown DEF N!Returns, Results
  <2>2. CASE ~N!Clean /\ ~N!Canceled(nres)
    <3>1. ~stopped /\ nres \in {"err"}
      BY <1>2, <2>2 DEF N!Clean, N!Canceled, Results
    <3> QED BY <1>1, <1>2, <2>2, <3>1, ResultsKnown DEF N!AfterConcat, N!Returns, N!Result, N!Canceled
  <2>3. CASE ~stopped /\ (N!Clean \/ N!Canceled(nres))
    <3>1. IF N!StageDone THEN N!Returns("ctx") ELSE IF k < Runs THEN N!Again ELSE N!Returns("nil")
      BY <2>3 DEF N!AfterConcat
    <3>2. nres # "err"
      BY <2>3 DEF N!Clean, N!Canceled
    <3>3. "nil" \in Results /\ "ctx" \in Results
      BY DEF Results
    <3>4. CASE N!StageDone
      BY <3>1, <3>3, <3>4, Unhindered, ResultsKnown DEF N!Returns
    <3>5. CASE ~N!StageDone /\ k < Runs
      BY <1>1, <3>1, <3>5 DEF N!Again
    <3>6. CASE ~N!StageDone /\ ~(k < Runs)
      <4>1. k = Runs
        BY <1>2, <3>6, InnerAssumption DEF InnerAssumption
      <4> QED BY <3>1, <3>2, <3>3, <3>6, <4>1, ResultsKnown DEF N!Returns
    <3> QED BY <3>4, <3>5, <3>6
  <2> QED BY <2>1, <2>2, <2>3 DEF N!Clean
<1>4. NestedType' /\ PlaceInv' /\ CauseInv'
  BY <1>1, <1>3, OverKeeps
<1>5. CallsInv' /\ ToldInv'
  BY <1>1, <1>2, <1>3 DEF CallsInv, ToldInv
<1> QED BY <1>4, <1>5 DEF NestedInv

\* The operators that return as soon as their run has ended: with its error,
\* unless nobody is there to hear it.
LEMMA ReturnStep ==
  ASSUME NestedInv, NEW o, N!Over(o), NEW e \in Results, N!Returns(e),
         o \in {"amb", "ignore", "using", "tapError", "finally"},
         ~left /\ ~ctx => (e = "err" <=> nres = "err"),
         CallsInv'
  PROVE  NestedInv'
<1>1. /\ op.name = o /\ pc = "run" /\ ret = "run" /\ Len(ends) = k - 1
      /\ ends' \in Seq(Results) /\ Len(ends') = k /\ ends'[k] = nres
      /\ UNCHANGED <<op, nested, nctx, nres, stopped, sctx, ctx, left>>
  BY RunEnds
<1>2. pc' = "done" /\ k' = k /\ ret' \in Results /\ (ret' = "err" <=> e = "err")
  BY ResultsKnown DEF N!Returns
<1>3. NestedType' /\ PlaceInv' /\ CauseInv'
  BY <1>2, OverKeeps
<1>4. ToldInv'
  BY <1>1, <1>2 DEF ToldInv
<1> QED BY <1>3, <1>4 DEF NestedInv

LEMMA AppendFacts ==
  ASSUME NEW C, NEW s \in Seq(C), NEW b \in C
  PROVE  /\ Append(s, b) \in Seq(C) /\ Len(Append(s, b)) = Len(s) + 1
         /\ \A i \in 1..Len(s) : Append(s, b)[i] = s[i]
         /\ Append(s, b)[Len(s) + 1] = b
BY AppendProperties

LEMMA TwoCalls == ASSUME NEW C, NEW a \in C, NEW b \in C PROVE Append(<<a>>, b) = <<a, b>>
<1> DEFINE s == <<a>>
           t == Append(s, b)
           u == <<a, b>>
<1>1. s \in Seq(C)
  OBVIOUS
<1>2. Len(s) = 1 /\ s[1] = a
  OBVIOUS
<1>3. u \in Seq(C)
  OBVIOUS
<1>4. Len(u) = 2 /\ u[1] = a /\ u[2] = b
  OBVIOUS
<1> HIDE DEF s, u
<1>5. t \in Seq(C) /\ Len(t) = Len(s) + 1 /\ (\A i \in 1..Len(s) : t[i] = s[i]) /\ t[Len(s) + 1] = b
  BY AppendFacts, <1>1
<1> HIDE DEF t
<1>6. Len(t) = 2 /\ t[1] = a /\ t[2] = b
  BY <1>2, <1>5
<1>7. \A i \in 1..Len(t) : t[i] = u[i]
  BY <1>4, <1>6
<1>8. t = u
  BY <1>3, <1>4, <1>5, <1>6, <1>7, SeqEqual
<1> QED BY <1>8 DEF s, t, u

\* Amb of one, IgnoreElements, Using and Finally.
LEMMA SimpleSteps == ASSUME NestedInv, N!AfterAmb \/ N!AfterIgnore \/ N!AfterUsing \/ N!AfterFinally PROVE NestedInv'
<1>1. "nil" \in Results /\ nres \in Results /\ k \in 1..Runs
  BY DEF NestedInv, NestedType, Results
<1>2. CASE N!AfterAmb
  <2>1. N!Over("amb") /\ N!Returns(IF N!Canceled(nres) THEN "nil" ELSE nres) /\ op.name = "amb" /\ op' = op
    BY <1>2, RunEnds DEF N!AfterAmb
  <2>2. (IF N!Canceled(nres) THEN "nil" ELSE nres) \in Results /\ ((IF N!Canceled(nres) THEN "nil" ELSE nres) = "err" <=> nres = "err")
    BY <1>1 DEF N!Canceled
  <2>3. CallsInv'
    BY <2>1 DEF CallsInv
  <2> QED BY <2>1, <2>2, <2>3, ReturnStep
<1>3. CASE N!AfterIgnore
  <2>1. N!Over("ignore") /\ N!Returns(nres) /\ op.name = "ignore" /\ op' = op
    BY <1>3, RunEnds DEF N!AfterIgnore
  <2>2. CallsInv'
    BY <2>1 DEF CallsInv
  <2> QED BY <1>1, <2>1, <2>2, ReturnStep
<1>4. ~left /\ ~ctx => ((IF stopped THEN "nil" ELSE nres) = "err" <=> nres = "err")
  BY Unhindered
<1>5. (IF stopped THEN "nil" ELSE nres) \in Results
  BY <1>1
<1>6. CASE N!AfterUsing
  <2>1. N!Over("using") /\ N!Returns(IF stopped THEN "nil" ELSE nres) /\ op.name = "using" /\ op' = op /\ pc = "run" /\ Len(ends') = k
    BY <1>6, RunEnds DEF N!AfterUsing
  <2>2. calls' = Append(calls, "release") /\ pc' = "done"
    BY <1>6 DEF N!AfterUsing, N!Calls, N!Returns
  <2>3. calls = <<"acquire">>
    BY <2>1 DEF NestedInv, CallsInv
  <2>4. calls' = <<"acquire", "release">>
    <3>1. Append(<<"acquire">>, "release") = <<"acquire", "release">>
      BY TwoCalls, "acquire" \in {"acquire", "release"}, "release" \in {"acquire", "release"}
    <3> QED BY <2>2, <2>3, <3>1
  <2>5. op'.name = "using" /\ pc' = "done" /\ Len(ends') # 0
    BY <1>1, <2>1, <2>2
  <2>6. CallsInv'
    BY <2>4, <2>5 DEF CallsInv
  <2> QED BY <1>4, <1>5, <2>1, <2>6, ReturnStep
<1>7. CASE N!AfterFinally
  <2>1. N!Over("finally") /\ N!Returns(IF stopped THEN "nil" ELSE nres) /\ op.name = "finally" /\ op' = op /\ pc = "run"
    BY <1>7, RunEnds DEF N!AfterFinally
  <2>2. calls' = Append(calls, "fn") /\ pc' = "done"
    BY <1>7 DEF N!AfterFinally, N!Calls, N!Returns
  <2>3. calls = << >>
    BY <2>1 DEF NestedInv, CallsInv
  <2>4. calls' = <<"fn">>
    <3>1. Append(<< >>, "fn") = <<"fn">>
      OBVIOUS
    <3> QED BY <2>2, <2>3, <3>1
  <2>5. op'.name = "finally" /\ pc' = "done"
    BY <2>1, <2>2
  <2>6. CallsInv'
    BY <2>4, <2>5 DEF CallsInv
  <2> QED BY <1>4, <1>5, <2>1, <2>6, ReturnStep
<1> QED BY <1>2, <1>3, <1>6, <1>7

LEMMA TapErrorStep == ASSUME NestedInv, N!AfterTapError PROVE NestedInv'
<1>1. N!Over("tapError") /\ N!Returns(IF stopped THEN "nil" ELSE nres) /\ op.name = "tapError" /\ op' = op /\ pc = "run"
      /\ Len(ends') = k /\ ends'[k] = nres
  BY RunEnds DEF N!AfterTapError
<1>2. (IF stopped THEN "nil" ELSE nres) \in Results /\ pc' = "done" /\ k = 1 /\ calls = << >>
  BY <1>1 DEF NestedInv, NestedType, PlaceInv, CallsInv, N!Multi, N!Returns, Results
<1>3. ~left /\ ~ctx => ((IF stopped THEN "nil" ELSE nres) = "err" <=> nres = "err")
  BY Unhindered
<1>4. CallsInv'
  <2>1. CASE ~N!Clean /\ ~N!StageDone
    BY <1>1, <1>2, <2>1, OwnFailure DEF CallsInv, Failure
  <2>2. CASE N!Clean \/ N!StageDone
    BY <1>1, <1>2, <2>2 DEF CallsInv, N!AfterTapError
  <2> QED BY <2>1, <2>2
<1> QED BY <1>1, <1>2, <1>3, <1>4, ReturnStep

LEMMA CatchStep == ASSUME NestedInv, N!AfterCatch PROVE NestedInv'
<1>1. /\ op.name = "catch" /\ pc = "run" /\ ret = "run" /\ Len(ends) = k - 1
      /\ ends' \in Seq(Results) /\ Len(ends') = k /\ ends'[k] = nres
      /\ \A j \in 1..(k - 1) : ends'[j] = ends[j]
      /\ UNCHANGED <<op, nested, nctx, nres, stopped, sctx, ctx, left>>
      /\ N!Over("catch")
  BY RunEnds DEF N!AfterCatch
<1>2. /\ nres \in Results /\ k \in 1..2 /\ Runs >= 2 /\ "nil" \in Results /\ "ctx" \in Results
      /\ (k = 2 => Failure(1)) /\ (calls # << >> => Len(ends) > 0 /\ Failure(1))
  BY <1>1, InnerAssumption DEF InnerAssumption, NestedInv, NestedType, PlaceInv, CallsInv, ToldInv, Results
<1>3. CASE k = 1 /\ ~N!Clean /\ ~N!StageDone
  <2>1. pc' = "start" /\ k' = 2 /\ ret' = "run" /\ nres \in {"err", "canceled"}
    BY <1>1, <1>3, OwnFailure DEF N!AfterCatch, N!Again
  <2>2. NestedType' /\ PlaceInv' /\ CauseInv'
    <3>1. k' = k + 1 /\ k < Runs
      BY <1>2, <1>3, <2>1, InnerAssumption DEF InnerAssumption
    <3> QED BY <1>1, <1>3, <2>1, <3>1, OverKeeps
  <2>3. CallsInv' /\ ToldInv'
    BY <1>1, <1>2, <1>3, <2>1 DEF CallsInv, ToldInv, Failure
  <2> QED BY <2>2, <2>3 DEF NestedInv
<1>4. CASE ~(k = 1 /\ ~N!Clean /\ ~N!StageDone)
  <2>1. pc' = "done" /\ k' = k /\ calls' = calls /\ ret' \in Results /\ (~left /\ ~ctx => (ret' = "err" <=> nres = "err"))
    <3>1. CASE k = 1 /\ ~N!Clean
      BY <1>1, <1>2, <1>4, <3>1, ResultsKnown, Unhindered DEF N!AfterCatch, N!Returns
    <3>2. CASE ~(k = 1 /\ ~N!Clean)
      <4> DEFINE e == IF N!Clean \/ (N!Canceled(nres) /\ ~N!StageDone) THEN "nil" ELSE nres
      <4>1. N!Returns(e) /\ calls' = calls
        BY <3>2 DEF N!AfterCatch
      <4>2. e \in Results /\ (~left /\ ~ctx => (e = "err" <=> nres = "err"))
        BY <1>2, Unhindered DEF N!Clean, N!Canceled
      <4> HIDE DEF e
      <4> QED BY <4>1, <4>2, ResultsKnown DEF N!Returns
    <3> QED BY <3>1, <3>2
  <2>2. NestedType' /\ PlaceInv' /\ CauseInv'
    BY <1>1, <2>1, OverKeeps
  <2>3. CallsInv'
    BY <1>1, <1>2, <2>1 DEF CallsInv, Failure
  <2>4. ~left /\ ~ctx => (k = 2 <=> ends'[1] \in {"err", "canceled"})
    <3>1. k = 1 /\ ~left /\ ~ctx => nres = "nil"
      BY <1>4, Unhindered DEF N!Clean
    <3> QED BY <1>1, <1>2, <3>1 DEF Failure
  <2>5. ToldInv'
    BY <1>1, <1>2, <2>1, <2>4 DEF ToldInv, Failure
  <2> QED BY <2>2, <2>3, <2>5 DEF NestedInv
<1> QED BY <1>3, <1>4

LEMMA RetryStep == ASSUME NestedInv, N!AfterRetry PROVE NestedInv'
<1>1. /\ op.name = "retry" /\ pc = "run" /\ ret = "run" /\ Len(ends) = k - 1
      /\ ends' \in Seq(Results) /\ Len(ends') = k /\ ends'[k] = nres
      /\ \A j \in 1..(k - 1) : ends'[j] = ends[j]
      /\ UNCHANGED <<op, nested, nctx, nres, stopped, sctx, ctx, left>>
      /\ N!Over("retry")
  BY RunEnds DEF N!AfterRetry
<1>2. nres \in Results /\ k \in 1..Runs /\ Runs \in Nat /\ "nil" \in Results /\ "ctx" \in Results /\ \A j \in 1..(k - 1) : Failure(j)
  BY <1>1, InnerAssumption DEF InnerAssumption, NestedInv, NestedType, ToldInv, Results
<1>3. CASE N!Clean \/ N!StageDone \/ k = op.max
  <2> DEFINE e == IF stopped THEN "nil" ELSE IF N!StageDone THEN "ctx" ELSE nres
  <2>1. N!Returns(e) /\ e \in Results /\ (~left /\ ~ctx => e = nres)
    BY <1>2, <1>3, Unhindered DEF N!AfterRetry
  <2> HIDE DEF e
  <2>2. pc' = "done" /\ k' = k /\ ret' \in Results /\ (~left /\ ~ctx => (ret' = "err" <=> nres = "err"))
    BY <2>1, ResultsKnown DEF N!Returns
  <2>3. NestedType' /\ PlaceInv' /\ CauseInv'
    BY <1>1, <2>2, OverKeeps
  <2>4. CallsInv' /\ ToldInv'
    BY <1>1, <1>2, <2>2 DEF CallsInv, ToldInv, Failure
  <2> QED BY <2>3, <2>4 DEF NestedInv
<1>4. CASE ~(N!Clean \/ N!StageDone \/ k = op.max)
  <2>1. pc' = "wait" /\ k' = k /\ ret' = "run" /\ nres \in {"err", "canceled"} /\ nested[k].end = nres
    BY <1>1, <1>4, OwnFailure DEF N!AfterRetry
  <2>2. NestedType' /\ PlaceInv' /\ CauseInv'
    BY <1>1, <1>4, <2>1, OverKeeps
  <2>4. CallsInv' /\ ToldInv'
    BY <1>1, <1>2, <2>1 DEF CallsInv, ToldInv, Failure
  <2> QED BY <2>2, <2>4 DEF NestedInv
<1> QED BY <1>3, <1>4

LEMMA MaterializeStep == ASSUME NestedInv, N!AfterMaterialize PROVE NestedInv'
<1>1. /\ op.name = "materialize" /\ pc = "run" /\ ret = "run" /\ Len(ends') = k
      /\ UNCHANGED <<op, left, ctx>> /\ N!Over("materialize")
  BY RunEnds DEF N!AfterMaterialize
<1>2. "nil" \in Results /\ "ctx" \in Results
  BY DEF Results
<1>3. \/ pc' = "done" /\ k' = k /\ ret' \in Results /\ ret' # "err" /\ (left \/ ctx)
      \/ pc' = "last" /\ k' = k /\ ret' = "run"
  <2>1. CASE stopped \/ N!StageDone
    <3>1. N!Returns(IF stopped THEN "nil" ELSE "ctx")
      BY <2>1 DEF N!AfterMaterialize
    <3>2. (IF stopped THEN "nil" ELSE "ctx") \in Results /\ (IF stopped THEN "nil" ELSE "ctx") # "err"
      BY <1>2
    <3> QED BY <2>1, <3>1, <3>2, ResultsKnown, Unhindered DEF N!Returns
  <2>2. CASE ~(stopped \/ N!StageDone)
    BY <1>1, <2>2 DEF N!AfterMaterialize
  <2> QED BY <2>1, <2>2
<1>4. NestedType' /\ PlaceInv' /\ CauseInv'
  BY <1>1, <1>3, OverKeeps
<1>5. CallsInv' /\ ToldInv'
  BY <1>1, <1>3 DEF CallsInv, ToldInv
<1> QED BY <1>4, <1>5 DEF NestedInv

\* Steps in which no run ends.
LEMMA OtherSteps ==
  ASSUME NestedInv, N!StartRun \/ N!AcquireFails \/ N!Backoff \/ N!YieldOutcome
  PROVE  NestedInv'
<1>1. UNCHANGED <<op, nested, stopped, sctx, ctx, left, ends>> /\ op.max \in 0..Runs /\ Runs \in Nat
  BY InnerAssumption DEF InnerAssumption, NestedInv, NestedType, N!StartRun, N!AcquireFails, N!Backoff, N!YieldOutcome, N!oRest, N!envVars
<1>2. "nil" \in Results /\ "ctx" \in Results /\ "err" \in Results /\ "run" \notin Results
  BY DEF Results
<1> USE <1>1, <1>2 DEF NestedInv
<1>3. CASE N!StartRun
  <2>1. CASE op.name = "retry" /\ N!StageDone
    <3>1. pc = "start" /\ pc' = "done" /\ ret' \in {"ctx", "nil"} /\ UNCHANGED <<k, calls, nctx, nres>> /\ (left \/ ctx)
      BY <1>3, <2>1, Unhindered DEF N!StartRun, N!Is, N!nestedVars
    <3> QED BY <2>1, <3>1 DEF NestedType, PlaceInv, CauseInv, CallsInv, ToldInv, N!Multi, Failure
  <2>2. CASE ~(op.name = "retry" /\ N!StageDone)
    <3>1. /\ pc = "start" /\ pc' = "run" /\ nctx' = FALSE /\ nres' = "nil" /\ UNCHANGED <<k, ret>>
          /\ calls' = IF op.name = "using" THEN Append(calls, "acquire") ELSE calls
      BY <1>3, <2>2 DEF N!StartRun, N!Is
    <3>2. op.name = "using" => calls' = <<"acquire">>
      <4>1. Append(<< >>, "acquire") = <<"acquire">>
        OBVIOUS
      <4> QED BY <3>1, <4>1 DEF CallsInv
    <3>3. NestedType' /\ CauseInv'
      BY <3>1 DEF NestedType, CauseInv
    <3>4. PlaceInv'
      BY <3>1 DEF NestedType, PlaceInv, N!Multi
    <3>5. CallsInv' /\ ToldInv'
      BY <3>1, <3>2 DEF PlaceInv, CallsInv, ToldInv, Failure
    <3> QED BY <3>3, <3>4, <3>5
  <2> QED BY <2>1, <2>2
<1>4. CASE N!AcquireFails
  <2>1. pc = "start" /\ op.name = "using" /\ pc' = "done" /\ ret' = "err" /\ UNCHANGED <<k, calls, nctx, nres>>
    BY <1>4 DEF N!AcquireFails, N!Is, N!nestedVars
  <2>2. k = 1 /\ Len(ends) = 0 /\ calls = << >>
    BY <2>1 DEF PlaceInv, CallsInv, N!Multi
  <2> QED BY <2>1, <2>2 DEF NestedType, PlaceInv, CauseInv, CallsInv, ToldInv, N!Multi, Failure
<1>5. CASE N!Backoff
  <2>1. pc = "wait" /\ op.name = "retry" /\ ret = "run" /\ UNCHANGED <<calls, nctx, nres>>
    BY <1>5 DEF N!Backoff, N!nestedVars, PlaceInv
  <2>2. CASE N!Again
    <3>1. pc' = "start" /\ k' = k + 1 /\ ret' = ret /\ k < Runs /\ (op.max > 0 => k < op.max)
      BY <2>1, <2>2 DEF N!Again, NestedType, PlaceInv
    <3>2. NestedType' /\ PlaceInv'
      BY <2>1, <3>1 DEF NestedType, PlaceInv, N!Multi
    <3>3. CauseInv' /\ CallsInv' /\ ToldInv'
      BY <2>1, <3>1 DEF NestedType, CauseInv, CallsInv, ToldInv, Failure
    <3> QED BY <3>2, <3>3
  <2>3. CASE N!StageDone /\ N!Returns("ctx")
    <3>1. pc' = "done" /\ k' = k /\ ret' \in Results /\ (left \/ ctx)
      BY <2>3, ResultsKnown, Unhindered DEF N!Returns
    <3> QED BY <2>1, <3>1 DEF NestedType, PlaceInv, CauseInv, CallsInv, ToldInv, N!Multi, Failure
  <2> QED BY <1>5, <2>2, <2>3 DEF N!Backoff
<1>6. CASE N!YieldOutcome
  <2>1. pc = "last" /\ op.name = "materialize" /\ ret = "run" /\ UNCHANGED <<calls, nctx, nres>> /\ N!Returns("nil")
    BY <1>6 DEF N!YieldOutcome, N!nestedVars, PlaceInv
  <2>2. pc' = "done" /\ k' = k /\ ret' \in Results /\ ret' # "err"
    BY <2>1, ResultsKnown DEF N!Returns
  <2> QED BY <2>1, <2>2 DEF NestedType, PlaceInv, CauseInv, CallsInv, ToldInv, N!Multi, Failure
<1> QED BY <1>3, <1>4, <1>5, <1>6

LEMMA NestedStep == NestedInv /\ [N!Next]_nestedVars => NestedInv'
<1> SUFFICES ASSUME NestedInv, [N!Next]_nestedVars PROVE NestedInv'
  OBVIOUS
<1>1. CASE N!NestedStep
  BY <1>1, RunSteps, NestedQuiet DEF NestedInv, NestedType, CauseInv
<1>2. CASE N!Consume \/ N!Leave \/ N!Watch \/ N!Cancel \/ N!Halted \/ UNCHANGED nestedVars
  <2>1. UNCHANGED <<op, nested, k, pc, ret, calls, ends, nres, nctx, stopped>>
    BY <1>2 DEF N!Consume, N!Leave, N!Watch, N!Cancel, N!Halted, N!eRest, N!envVars, N!opVars, N!nestedVars, N!outVars, nestedVars, N!vars
  <2>2. \/ UNCHANGED <<sctx, ctx, left>>
        \/ left' = TRUE /\ ret = "run" /\ UNCHANGED <<sctx, ctx>>
        \/ sctx' = TRUE /\ left = TRUE /\ UNCHANGED <<ctx, left>>
        \/ ctx' = TRUE /\ ret = "run" /\ UNCHANGED <<sctx, left>>
    <3>0. left \in BOOLEAN
      BY DEF NestedInv, NestedType
    <3>1. CASE N!Consume \/ N!Halted \/ UNCHANGED nestedVars
      BY <3>1 DEF N!Consume, N!Halted, N!eRest, N!envVars, nestedVars, N!vars
    <3>2. CASE N!Leave
      BY <3>2 DEF N!Leave
    <3>3. CASE N!Watch
      BY <3>0, <3>3 DEF N!Watch
    <3>4. CASE N!Cancel
      BY <3>4 DEF N!Cancel
    <3> QED BY <1>2, <3>1, <3>2, <3>3, <3>4
  <2>3. /\ sctx => sctx'
        /\ ctx => ctx'
        /\ left => left'
        /\ sctx' \in BOOLEAN /\ ctx' \in BOOLEAN /\ left' \in BOOLEAN
        /\ left' # left \/ ctx' # ctx => ret = "run"
        /\ sctx' => left'
    <3>1. sctx \in BOOLEAN /\ ctx \in BOOLEAN /\ left \in BOOLEAN /\ (sctx => left)
      BY DEF NestedInv, NestedType, CauseInv
    <3>2. CASE UNCHANGED <<sctx, ctx, left>>
      BY <3>1, <3>2
    <3>3. CASE left' = TRUE /\ ret = "run" /\ UNCHANGED <<sctx, ctx>>
      BY <3>1, <3>3
    <3>4. CASE sctx' = TRUE /\ left = TRUE /\ UNCHANGED <<ctx, left>>
      BY <3>1, <3>4
    <3>5. CASE ctx' = TRUE /\ ret = "run" /\ UNCHANGED <<sctx, left>>
      BY <3>1, <3>5
    <3> QED BY <2>2, <3>2, <3>3, <3>4, <3>5
  <2>4. /\ nres' \in Results /\ nctx' \in BOOLEAN /\ stopped' \in BOOLEAN
        /\ stopped => stopped'
        /\ nctx' => stopped'
        /\ stopped' => left \/ ctx
        /\ nres' = nres
    BY <2>1 DEF NestedInv, NestedType, CauseInv
  <2>5. stopped' => left' \/ ctx'
    BY <2>3, <2>4
  <2> QED BY <2>1, <2>3, <2>4, <2>5, NestedQuiet
<1> QED
  BY <1>1, <1>2, ConcatStep, SimpleSteps, TapErrorStep, CatchStep, RetryStep, MaterializeStep, OtherSteps DEF N!Next, N!Operate

\* The result and the callbacks tell what happened to the nested runs.
LEMMA NestedTells == NestedInv => N!OutcomeTold
<1> SUFFICES ASSUME NestedInv PROVE N!OutcomeTold
  OBVIOUS
<1>1. Len(ends) \in Nat /\ (pc = "done" <=> ret # "run")
  BY DEF NestedInv, NestedType, PlaceInv
<1>2. N!Whole /\ Len(ends) > 0 =>
       /\ (ret = "err") = (ends[Len(ends)] = "err" /\ ~N!Is("materialize"))
       /\ N!Is("concat") /\ ret = "nil" => Len(ends) = Runs
       /\ N!Is("catch") => (Len(ends) = 2) = (ends[1] \in {"err", "canceled"})
  BY DEF NestedInv, ToldInv, N!Whole, N!Is, Failure
<1>3. op.name \in {"catch", "retry"} => \A j \in 1..Len(ends) - 1 : ends[j] \in {"err", "canceled"}
  BY <1>1 DEF NestedInv, ToldInv, Failure
<1>4. N!Is("retry") /\ op.max > 0 => Len(ends) <= op.max
  <2>1. op.max \in 0..Runs /\ Runs \in Nat /\ k \in 1..Runs
    BY InnerAssumption DEF InnerAssumption, NestedInv, NestedType
  <2> QED BY <2>1 DEF NestedInv, NestedType, PlaceInv, N!Is
<1>5. N!Is("using") /\ ret # "run" => calls = IF Len(ends) = 0 THEN << >> ELSE <<"acquire", "release">>
  BY <1>1 DEF NestedInv, CallsInv, N!Is
<1>6. N!Is("finally") /\ ret # "run" => calls = <<"fn">>
  BY <1>1 DEF NestedInv, CallsInv, N!Is
<1>7. op.name \in {"tapError", "catch"} /\ calls # << >> => ends[1] \in {"err", "canceled"}
  BY DEF NestedInv, CallsInv, Failure
<1> QED BY <1>2, <1>3, <1>4, <1>5, <1>6, <1>7 DEF N!OutcomeTold

-----------------------------------------------------------------------------
(* SubStreams. *)
Calls == [pc : {"none", "call", "wait", "send", "done", "skip", "user", "ctx"}, n : Nat, j : Nat, tries : Nat]
Parallel == {"concurrent", "ordered"}
Off == ctx \/ consumer # "reading"

SubType ==
  /\ kind \in SubKinds /\ next \in 1..(NItems + 1)
  /\ disp \in [pc : {"recv", "next", "sem", "wait"}, why : {"none", "closed", "ctx", "drain", "inner", "user"}]
  /\ batch \in Seq(1..NItems)
  /\ g \in [1..NItems -> Calls]
  /\ errs \in {"nil", "user", "ctx"} /\ inner \in BOOLEAN
  /\ line \in Seq(1..NItems)
  /\ dr \in [pc : {"take", "get", "send", "end"}, item : 0..NItems, err : {"nil", "user", "ctx"}]
  /\ dr.pc \in {"get", "send"} => dr.item \in 1..NItems
  /\ ctx \in BOOLEAN /\ ret \in {"run", "nil", "user", "ctx"}

\* An item is started once: the batch holds the last ones received, and none
\* of them, nor any after them, has been started.
BatchInv ==
  /\ Len(batch) < next
  /\ \A p \in 1..Len(batch) : batch[p] = next - 1 - Len(batch) + p
  /\ \A i \in 1..NItems : i >= next - Len(batch) => g[i].pc = "none"
  /\ disp.pc = "sem" => batch # << >>

\* Why the receiving loop has ended, and what stands in the error channel.
WhyInv ==
  /\ disp.pc = "wait" <=> disp.why # "none"
  /\ disp.why = "ctx" => ctx
  /\ disp.why = "drain" => consumer # "reading"
  /\ disp.why = "inner" => kind \in Parallel
  /\ disp.why = "user" => \E i \in 1..NItems : g[i].pc = "user"
  /\ errs = "user" => \E i \in 1..NItems : g[i].pc = "user"
  /\ errs = "ctx" => kind = "concurrent" /\ Off
  /\ kind = "concurrent" /\ inner => errs # "nil" \/ consumer # "reading"

\* The drainer of an ordered stage: an item that has been started stands in
\* the line, is being waited for, or is over without an error.
DrainerInv ==
  /\ kind # "ordered" => dr.pc = "end" /\ dr.err = "nil"
  /\ dr.err # "nil" => dr.pc = "end"
  /\ dr.err = "user" => \E i \in 1..NItems : g[i].pc = "user"
  /\ dr.err = "ctx" => Off
  /\ kind = "ordered" =>
       /\ inner => consumer # "reading" \/ dr.err # "nil"
       /\ \A i \in 1..NItems : g[i].pc = "ctx" => Off \/ dr.err # "nil"
       /\ dr.pc = "end" /\ dr.err = "nil" => disp.pc = "wait" /\ line = << >>
       /\ \A i \in 1..NItems : g[i].pc \in {"none", "done", "skip"} \/ dr.err # "nil"
            \/ (dr.pc = "get" /\ dr.item = i) \/ (\E p \in 1..Len(line) : line[p] = i)

\* A failure nobody handled is kept where the stage will find it.
KeptInv ==
  /\ \A i \in failed : i \in 1..NItems /\ g[i].pc = "user"
  /\ kind \in {"fast", "serial"} /\ failed # {} => disp.why \in {"ctx", "user"}
  /\ kind = "concurrent" /\ failed # {} => errs # "nil"
  /\ kind \in {"switch", "exhaust"} /\ failed # {} => errs # "nil" \/ disp.why = "user"
  /\ ret # "run" => disp.pc = "wait" /\ dr.pc = "end" /\ \A i \in 1..NItems : g[i].pc \notin {"call", "wait", "send"}

ReturnInv ==
  /\ ret = "nil" /\ ~Off => failed = {}
  /\ ret = "user" => \E i \in 1..NItems : g[i].pc = "user"
  /\ ret = "ctx" => ctx \/ (consumer # "reading" /\ kind \in Parallel)

SubInv == SubType /\ BatchInv /\ WhyInv /\ DrainerInv /\ KeptInv /\ ReturnInv

LEMMA SubInit == S!Init => SubInv
<1> SUFFICES ASSUME S!Init PROVE SubInv
  OBVIOUS
<1> USE InnerAssumption DEF InnerAssumption, S!Init, S!Items
<1>1. g \in [1..NItems -> Calls] /\ \A i \in 1..NItems : g[i].pc = "none"
  BY DEF Calls
<1>2. SubType
  <2>1. << >> \in Seq(1..NItems) /\ 1 \in 1..(NItems + 1)
    OBVIOUS
  <2>2. dr \in [pc : {"take", "get", "send", "end"}, item : 0..NItems, err : {"nil", "user", "ctx"}] /\ dr.pc \notin {"get", "send"}
    OBVIOUS
  <2> QED BY <1>1, <2>1, <2>2 DEF SubType
<1>3. BatchInv /\ WhyInv
  BY <1>1 DEF BatchInv, WhyInv
<1>4. DrainerInv
  BY <1>1 DEF DrainerInv
<1>5. KeptInv /\ ReturnInv
  BY <1>1 DEF KeptInv, ReturnInv
<1> QED BY <1>2, <1>3, <1>4, <1>5 DEF SubInv

\* What the updates of a goroutine's record leave alone.
Moved(i, p) ==
  /\ g' \in [1..NItems -> Calls] /\ g'[i].pc = p
  /\ \A j \in 1..NItems \ {i} : g'[j].pc = g[j].pc

LEMMA Moves ==
  ASSUME SubType, NEW i \in 1..NItems, NEW p \in {"none", "call", "wait", "send", "done", "skip", "user", "ctx"}
  PROVE  /\ g' = [g EXCEPT ![i].pc = p] => Moved(i, p)
         /\ g' = [g EXCEPT ![i].pc = p, ![i].tries = 0] => Moved(i, p)
         /\ g' = [g EXCEPT ![i].pc = p, ![i].tries = @ + 1] => Moved(i, p)
         /\ \A n \in Nat : g' = [g EXCEPT ![i].pc = p, ![i].n = n] => Moved(i, p)
         /\ \A n \in Nat : g' = [g EXCEPT ![i].pc = p, ![i].n = n, ![i].tries = 0] => Moved(i, p)
         /\ g' = [g EXCEPT ![i].j = @ + 1] => Moved(i, g[i].pc)
<1>1. g \in [1..NItems -> Calls] /\ g[i].tries + 1 \in Nat /\ g[i].j + 1 \in Nat
  BY DEF SubType, Calls
<1>2. ASSUME g' = [g EXCEPT ![i].pc = p] PROVE Moved(i, p)
  <2>1. g' \in [1..NItems -> Calls]
    BY <1>1, <1>2 DEF Calls
  <2>2. g'[i].pc = p /\ \A l \in 1..NItems \ {i} : g'[l] = g[l]
    BY <1>1, <1>2 DEF Calls
  <2> QED BY <2>1, <2>2 DEF Moved
<1>3. ASSUME g' = [g EXCEPT ![i].pc = p, ![i].tries = 0] PROVE Moved(i, p)
  <2>1. g' \in [1..NItems -> Calls]
    BY <1>1, <1>3 DEF Calls
  <2>2. g'[i].pc = p /\ \A l \in 1..NItems \ {i} : g'[l] = g[l]
    BY <1>1, <1>3 DEF Calls
  <2> QED BY <2>1, <2>2 DEF Moved
<1>4. ASSUME g' = [g EXCEPT ![i].pc = p, ![i].tries = @ + 1] PROVE Moved(i, p)
  <2>1. g' \in [1..NItems -> Calls]
    BY <1>1, <1>4 DEF Calls
  <2>2. g'[i].pc = p /\ \A l \in 1..NItems \ {i} : g'[l] = g[l]
    BY <1>1, <1>4 DEF Calls
  <2> QED BY <2>1, <2>2 DEF Moved
<1>5. ASSUME NEW n \in Nat, g' = [g EXCEPT ![i].pc = p, ![i].n = n] PROVE Moved(i, p)
  <2>1. g' \in [1..NItems -> Calls]
    BY <1>1, <1>5 DEF Calls
  <2>2. g'[i].pc = p /\ \A l \in 1..NItems \ {i} : g'[l] = g[l]
    BY <1>1, <1>5 DEF Calls
  <2> QED BY <2>1, <2>2 DEF Moved
<1>6. ASSUME NEW n \in Nat, g' = [g EXCEPT ![i].pc = p, ![i].n = n, ![i].tries = 0] PROVE Moved(i, p)
  <2>1. g' \in [1..NItems -> Calls]
    <3>1. g'[i] = [pc |-> p, n |-> n, j |-> g[i].j, tries |-> 0]
      BY <1>1, <1>6 DEF Calls
    <3>2. g'[i] \in Calls
      BY <1>1, <3>1 DEF Calls
    <3>3. g' = [x \in 1..NItems |-> g'[x]] /\ \A l \in 1..NItems \ {i} : g'[l] = g[l]
      BY <1>1, <1>6
    <3> QED BY <1>1, <3>2, <3>3
  <2>2. g'[i].pc = p /\ \A l \in 1..NItems \ {i} : g'[l] = g[l]
    BY <1>1, <1>6 DEF Calls
  <2> QED BY <2>1, <2>2 DEF Moved
<1>7. ASSUME g' = [g EXCEPT ![i].j = @ + 1] PROVE Moved(i, g[i].pc)
  <2>1. g' \in [1..NItems -> Calls]
    BY <1>1, <1>7 DEF Calls
  <2>2. g'[i].pc = g[i].pc /\ \A l \in 1..NItems \ {i} : g'[l] = g[l]
    BY <1>1, <1>7 DEF Calls
  <2> QED BY <2>1, <2>2 DEF Moved
<1> QED BY <1>2, <1>3, <1>4, <1>5, <1>6, <1>7

\* A step of the goroutine of item i: it goes on, or ends with an error that
\* it reports as its stage does.
Reported(i, e) ==
  LET kept == IF errs = "nil" THEN e ELSE errs IN
  \/ kind \in {"fast", "serial"} /\ disp' = [pc |-> "wait", why |-> e] /\ UNCHANGED <<errs, inner>>
  \/ kind = "concurrent" /\ errs' = kept /\ inner' = TRUE /\ UNCHANGED disp
  \/ kind = "ordered" /\ UNCHANGED <<errs, inner, disp>>
  \/ kind \in {"switch", "exhaust"} /\ errs' = (IF S!Done(i) THEN errs ELSE kept) /\ UNCHANGED <<inner, disp>>

LEMMA KindKnown == ASSUME SubInv PROVE kind \in {"fast", "serial", "concurrent", "ordered", "switch", "exhaust"}
BY InnerAssumption DEF InnerAssumption, SubInv, SubType

LEMMA FinishEffect ==
  ASSUME SubInv, NEW i \in 1..NItems, NEW e \in {"nil", "user", "ctx"}, S!Finish(i, e)
  PROVE  /\ Moved(i, IF e = "nil" THEN "done" ELSE e)
         /\ e = "nil" => UNCHANGED <<errs, inner, disp>>
         /\ e # "nil" => Reported(i, e)
<1>1. Moved(i, IF e = "nil" THEN "done" ELSE e)
  <2>1. g' = [g EXCEPT ![i].pc = IF e = "nil" THEN "done" ELSE e, ![i].tries = 0]
    BY DEF S!Finish
  <2>2. (IF e = "nil" THEN "done" ELSE e) \in {"none", "call", "wait", "send", "done", "skip", "user", "ctx"}
    OBVIOUS
  <2> DEFINE p == IF e = "nil" THEN "done" ELSE e
  <2>3. g' = [g EXCEPT ![i].pc = p, ![i].tries = 0] /\ p \in {"none", "call", "wait", "send", "done", "skip", "user", "ctx"}
    BY <2>1, <2>2
  <2> HIDE DEF p
  <2>4. Moved(i, p)
    BY <2>3, Moves DEF SubInv
  <2> QED BY <2>4 DEF p
<1>2. e = "nil" => UNCHANGED <<errs, inner, disp>>
  BY DEF S!Finish
<1>3. e # "nil" => Reported(i, e)
  BY KindKnown DEF S!Finish, S!Alone, S!Is, S!Ends, Reported
<1> QED BY <1>1, <1>2, <1>3

\* All that a step of a goroutine does.
LEMMA WorkEffect ==
  ASSUME SubInv, NEW i \in S!Items, S!Work(i) \/ S!Fail(i)
  PROVE  /\ UNCHANGED <<kind, next, batch, line, dr, consumer, ctx, ret>>
         /\ i \in 1..NItems /\ g[i].pc \in {"call", "wait", "send"}
         /\ \/ /\ \E p \in {"call", "wait", "send", "done", "skip"} : Moved(i, p)
               /\ UNCHANGED <<errs, inner, disp, failed>>
            \/ /\ Moved(i, "user") /\ Reported(i, "user")
               /\ failed' = IF S!Done(i) THEN failed ELSE failed \cup {i}
            \/ Moved(i, "ctx") /\ Reported(i, "ctx") /\ S!Done(i) /\ UNCHANGED failed
<1>0. i \in 1..NItems /\ SubType
  BY DEF S!Items, SubInv
<1>a. \A p \in {"call", "wait", "send", "done", "skip"} :
        p \in {"none", "call", "wait", "send", "done", "skip", "user", "ctx"}
  OBVIOUS
<1>1. CASE S!Succeed(i)
  <2>1. UNCHANGED <<kind, next, batch, line, dr, consumer, ctx, ret, errs, inner, disp, failed>> /\ g[i].pc = "call"
    BY <1>1 DEF S!Succeed, S!workRest
  <2>2. PICK n \in Widths : \/ g' = [g EXCEPT ![i].pc = "done", ![i].n = n, ![i].tries = 0]
                            \/ g' = [g EXCEPT ![i].pc = "send", ![i].n = n]
    BY <1>1 DEF S!Succeed
  <2>3. n \in Nat
    BY InnerAssumption DEF InnerAssumption
  <2>4. CASE g' = [g EXCEPT ![i].pc = "done", ![i].n = n, ![i].tries = 0]
    BY <1>0, <2>1, <2>3, <2>4, Moves
  <2>5. CASE g' = [g EXCEPT ![i].pc = "send", ![i].n = n]
    BY <1>0, <2>1, <2>3, <2>5, Moves
  <2> QED BY <2>2, <2>4, <2>5
<1>2. CASE S!Fail(i)
  <2>1. UNCHANGED <<kind, next, batch, line, dr, consumer, ctx, ret>> /\ g[i].pc \in {"call", "send"}
    BY <1>2 DEF S!Fail, S!workRest
  <2>2. CASE S!Finish(i, "user") /\ failed' = IF S!Done(i) THEN failed ELSE failed \cup {i}
    BY <1>0, <2>1, <2>2, FinishEffect
  <2>3. CASE UNCHANGED <<errs, inner, disp, failed>> /\ g' = [g EXCEPT ![i].pc = "skip", ![i].tries = 0]
    BY <1>0, <2>1, <2>3, Moves
  <2>4. CASE UNCHANGED <<errs, inner, disp, failed>> /\ g' = [g EXCEPT ![i].pc = "wait", ![i].tries = @ + 1]
    BY <1>0, <2>1, <2>4, Moves
  <2> QED BY <1>2, <2>2, <2>3, <2>4 DEF S!Fail
<1>3. CASE S!Backoff(i)
  <2>1. UNCHANGED <<kind, next, batch, line, dr, consumer, ctx, ret, failed>> /\ g[i].pc = "wait"
    BY <1>3 DEF S!Backoff, S!workRest
  <2>2. CASE S!Start(i) /\ UNCHANGED <<errs, inner, disp>>
    BY <1>0, <2>1, <2>2, Moves DEF S!Start
  <2>3. CASE S!Done(i) /\ S!Finish(i, "ctx")
    BY <1>0, <2>1, <2>3, FinishEffect
  <2> QED BY <1>3, <2>2, <2>3 DEF S!Backoff
<1>4. CASE S!Send(i)
  <2>1. UNCHANGED <<kind, next, batch, line, dr, consumer, ctx, ret, failed>> /\ g[i].pc = "send"
    BY <1>4 DEF S!Send, S!workRest
  <2>2. CASE S!Finish(i, "nil")
    BY <1>0, <2>1, <2>2, FinishEffect
  <2>3. CASE g' = [g EXCEPT ![i].j = @ + 1] /\ UNCHANGED <<errs, inner, disp>>
    BY <1>0, <2>1, <2>3, Moves
  <2>4. CASE S!Done(i) /\ S!Finish(i, "ctx")
    BY <1>0, <2>1, <2>4, FinishEffect
  <2> QED BY <1>4, <2>2, <2>3, <2>4 DEF S!Send
<1> QED BY <1>1, <1>2, <1>3, <1>4 DEF S!Work

\* While a goroutine works, the stage has not returned, the item is no longer
\* in the batch, and an ordered stage has it in line.
LEMMA WorkingFacts ==
  ASSUME SubInv, NEW i \in 1..NItems, g[i].pc \in {"call", "wait", "send"}
  PROVE  /\ ret = "run" /\ i < next - Len(batch) /\ i \notin failed
         /\ kind = "ordered" => dr.err # "nil" \/ (dr.pc = "get" /\ dr.item = i) \/ (\E p \in 1..Len(line) : line[p] = i)
<1>1. ret = "run" /\ i \notin failed
  BY DEF SubInv, KeptInv
<1>2. i < next - Len(batch)
  BY DEF SubInv, SubType, BatchInv
<1>3. kind = "ordered" => dr.err # "nil" \/ (dr.pc = "get" /\ dr.item = i) \/ (\E p \in 1..Len(line) : line[p] = i)
  BY DEF SubInv, DrainerInv
<1> QED BY <1>1, <1>2, <1>3

LEMMA WorkGoesOn ==
  ASSUME SubInv, NEW i \in 1..NItems, g[i].pc \in {"call", "wait", "send"},
         UNCHANGED <<kind, next, batch, line, dr, consumer, ctx, ret, errs, inner, disp, failed>>,
         NEW p \in {"call", "wait", "send", "done", "skip"}, Moved(i, p)
  PROVE  SubInv'
<1>1. \A l \in 1..NItems : l # i => g'[l].pc = g[l].pc
  BY DEF Moved
<1>2. ret = "run" /\ i < next - Len(batch) /\ i \notin failed
      /\ (kind = "ordered" => dr.err # "nil" \/ (dr.pc = "get" /\ dr.item = i) \/ (\E q \in 1..Len(line) : line[q] = i))
  BY WorkingFacts
<1>3. g'[i].pc = p /\ g' \in [1..NItems -> Calls] /\ p \notin {"none", "user", "ctx"}
  BY DEF Moved
<1>4. (\E l \in 1..NItems : g[l].pc = "user") => \E l \in 1..NItems : g'[l].pc = "user"
  BY <1>1
<1>5. SubType'
  BY <1>3 DEF SubInv, SubType
<1>6. BatchInv'
  BY <1>1, <1>2 DEF SubInv, SubType, BatchInv
<1>7. WhyInv'
  BY <1>4 DEF SubInv, WhyInv, Off
<1>8. DrainerInv'
  <2>1. (kind # "ordered" => dr.pc = "end" /\ dr.err = "nil")' /\ (dr.err # "nil" => dr.pc = "end")'
        /\ (dr.err = "user" => \E l \in 1..NItems : g[l].pc = "user")' /\ (dr.err = "ctx" => Off)'
    BY <1>4 DEF SubInv, DrainerInv, Off
  <2>2. (kind = "ordered" =>
           /\ inner => consumer # "reading" \/ dr.err # "nil"
           /\ \A l \in 1..NItems : g[l].pc = "ctx" => Off \/ dr.err # "nil"
           /\ dr.pc = "end" /\ dr.err = "nil" => disp.pc = "wait" /\ line = << >>)'
    BY <1>1, <1>3 DEF SubInv, DrainerInv, Off
  <2>3. ASSUME NEW l \in 1..NItems, kind = "ordered"
        PROVE  g'[l].pc \in {"none", "done", "skip"} \/ dr.err # "nil"
                 \/ (dr.pc = "get" /\ dr.item = l) \/ (\E q \in 1..Len(line) : line[q] = l)
    BY <1>1, <1>2, <2>3 DEF SubInv, DrainerInv
  <2> QED BY <2>1, <2>2, <2>3 DEF DrainerInv
<1>9. KeptInv' /\ ReturnInv'
  BY <1>1, <1>2, <1>3, <1>4 DEF SubInv, KeptInv, ReturnInv, Off
<1> QED BY <1>5, <1>6, <1>7, <1>8, <1>9 DEF SubInv

\* Why a goroutine's context is done.
LEMMA DoneCause ==
  ASSUME SubInv, NEW i \in 1..NItems, S!Done(i)
  PROVE  /\ kind \in {"fast", "serial", "exhaust"} => ctx
         /\ kind = "concurrent" => Off \/ errs # "nil"
         /\ kind = "ordered" => Off \/ dr.err # "nil"
BY DEF S!Done, S!Is, SubInv, WhyInv, DrainerInv, Off

LEMMA WorkEnds ==
  ASSUME SubInv, NEW i \in 1..NItems, g[i].pc \in {"call", "wait", "send"},
         UNCHANGED <<kind, next, batch, line, dr, consumer, ctx, ret>>,
         NEW e \in {"user", "ctx"}, Moved(i, e), Reported(i, e),
         IF e = "ctx" THEN S!Done(i) /\ failed' = failed ELSE failed' = IF S!Done(i) THEN failed ELSE failed \cup {i}
  PROVE  SubInv'
<1>1. \A l \in 1..NItems : l # i => g'[l].pc = g[l].pc
  BY DEF Moved
<1>2. ret = "run" /\ i < next - Len(batch) /\ i \notin failed
      /\ (kind = "ordered" => dr.err # "nil" \/ (dr.pc = "get" /\ dr.item = i) \/ (\E q \in 1..Len(line) : line[q] = i))
  BY WorkingFacts
<1>3. g'[i].pc = e /\ g' \in [1..NItems -> Calls]
  BY DEF Moved
<1>4. ((\E l \in 1..NItems : g[l].pc = "user") \/ e = "user") => \E l \in 1..NItems : g'[l].pc = "user"
  BY <1>1, <1>3
<1>5. /\ kind \in {"fast", "serial", "concurrent", "ordered", "switch", "exhaust"}
      /\ errs \in {"nil", "user", "ctx"} /\ inner \in BOOLEAN
      /\ disp \in [pc : {"recv", "next", "sem", "wait"}, why : {"none", "closed", "ctx", "drain", "inner", "user"}]
  BY KindKnown DEF SubInv, SubType
<1>6. /\ errs' \in {"nil", "user", "ctx"} /\ inner' \in BOOLEAN
      /\ disp' = disp \/ (kind \in {"fast", "serial"} /\ disp' = [pc |-> "wait", why |-> e])
      /\ disp' \in [pc : {"recv", "next", "sem", "wait"}, why : {"none", "closed", "ctx", "drain", "inner", "user"}]
  <2>1. disp' = disp \/ (kind \in {"fast", "serial"} /\ disp' = [pc |-> "wait", why |-> e])
    BY DEF Reported
  <2>2. [pc |-> "wait", why |-> e] \in [pc : {"recv", "next", "sem", "wait"}, why : {"none", "closed", "ctx", "drain", "inner", "user"}]
    OBVIOUS
  <2>3. errs' \in {"nil", "user", "ctx"} /\ inner' \in BOOLEAN
    BY <1>5 DEF Reported
  <2> QED BY <1>5, <2>1, <2>2, <2>3
<1>7. SubType'
  BY <1>3, <1>6 DEF SubInv, SubType
<1>8. BatchInv'
  <2>1. disp'.pc = "sem" => disp.pc = "sem"
    BY <1>6
  <2> QED BY <1>1, <1>2, <2>1 DEF SubInv, SubType, BatchInv
<1>9. WhyInv'
  <2>1. (/\ disp.pc = "wait" <=> disp.why # "none"
         /\ disp.why = "ctx" => ctx
         /\ disp.why = "drain" => consumer # "reading"
         /\ disp.why = "inner" => kind \in Parallel
         /\ disp.why = "user" => \E l \in 1..NItems : g[l].pc = "user")'
    <3>1. CASE disp' = disp
      BY <1>4, <3>1 DEF SubInv, WhyInv
    <3>2. CASE kind \in {"fast", "serial"} /\ disp' = [pc |-> "wait", why |-> e]
      BY <1>4, <3>2, DoneCause
    <3> QED BY <1>6, <3>1, <3>2
  <2>2. (/\ errs = "user" => \E l \in 1..NItems : g[l].pc = "user"
         /\ errs = "ctx" => kind = "concurrent" /\ Off
         /\ kind = "concurrent" /\ inner => errs # "nil" \/ consumer # "reading")'
    BY <1>4, <1>5, DoneCause DEF SubInv, WhyInv, Reported, Off
  <2> QED BY <2>1, <2>2 DEF WhyInv
<1>10. DrainerInv'
  <2>1. (kind # "ordered" => dr.pc = "end" /\ dr.err = "nil")' /\ (dr.err # "nil" => dr.pc = "end")'
        /\ (dr.err = "user" => \E l \in 1..NItems : g[l].pc = "user")' /\ (dr.err = "ctx" => Off)'
    BY <1>4 DEF SubInv, DrainerInv, Off
  <2>2. kind = "ordered" => UNCHANGED <<inner, disp>>
    BY DEF Reported
  <2>3. (kind = "ordered" =>
           /\ inner => consumer # "reading" \/ dr.err # "nil"
           /\ dr.pc = "end" /\ dr.err = "nil" => disp.pc = "wait" /\ line = << >>)'
    BY <2>2 DEF SubInv, DrainerInv
  <2>4. ASSUME NEW l \in 1..NItems, kind = "ordered", g'[l].pc = "ctx" PROVE Off \/ dr.err # "nil"
    BY <1>1, <1>3, <2>4, DoneCause DEF SubInv, DrainerInv
  <2>5. ASSUME NEW l \in 1..NItems, kind = "ordered"
        PROVE  g'[l].pc \in {"none", "done", "skip"} \/ dr.err # "nil"
                 \/ (dr.pc = "get" /\ dr.item = l) \/ (\E q \in 1..Len(line) : line[q] = l)
    BY <1>1, <1>2, <2>5 DEF SubInv, DrainerInv
  <2> QED BY <2>1, <2>3, <2>4, <2>5 DEF DrainerInv, Off
<1>11. KeptInv'
  <2>1. \A l \in failed' : l \in 1..NItems /\ g'[l].pc = "user"
    BY <1>1, <1>2, <1>3 DEF SubInv, KeptInv
  <2>2. failed' # failed => ~S!Done(i)
    OBVIOUS
  <2>3. kind \in {"fast", "serial"} => disp'.why = e
    BY DEF Reported
  <2>4. kind = "concurrent" => errs' # "nil"
    BY <1>5 DEF Reported
  <2>5. kind \in {"switch", "exhaust"} /\ failed' # {} => errs' # "nil" \/ disp'.why = "user"
    BY <2>2 DEF SubInv, KeptInv, Reported
  <2> QED BY <1>2, <2>1, <2>3, <2>4, <2>5 DEF KeptInv
<1>12. ReturnInv'
  BY <1>2 DEF ReturnInv
<1> QED BY <1>7, <1>8, <1>9, <1>10, <1>11, <1>12 DEF SubInv

LEMMA WorkKeeps ==
  ASSUME SubInv, NEW i \in S!Items, S!Work(i) \/ S!Fail(i)
  PROVE  SubInv'
<1>1. UNCHANGED <<kind, next, batch, line, dr, consumer, ctx, ret>> /\ i \in 1..NItems /\ g[i].pc \in {"call", "wait", "send"}
  BY WorkEffect
<1>2. CASE (\E p \in {"call", "wait", "send", "done", "skip"} : Moved(i, p)) /\ UNCHANGED <<errs, inner, disp, failed>>
  BY <1>1, <1>2, WorkGoesOn
<1>3. CASE Moved(i, "user") /\ Reported(i, "user") /\ failed' = IF S!Done(i) THEN failed ELSE failed \cup {i}
  BY <1>1, <1>3, WorkEnds
<1>4. CASE Moved(i, "ctx") /\ Reported(i, "ctx") /\ S!Done(i) /\ UNCHANGED failed
  BY <1>1, <1>4, WorkEnds
<1> QED BY <1>2, <1>3, <1>4, WorkEffect

\* The stage's own goroutine: it takes an item, works on it or starts a
\* goroutine for it.
LEMMA StartKeeps ==
  ASSUME SubInv, disp.pc # "wait",
         UNCHANGED <<kind, errs, inner, dr, consumer, ctx, ret, failed>>,
         next' \in 1..(NItems + 1), batch' \in Seq(1..NItems), Len(batch') < next',
         disp' \in [pc : {"recv", "next", "sem"}, why : {disp.why}],
         disp'.pc = "sem" => batch' # << >>,
         \A p \in 1..Len(batch') : batch'[p] = next' - 1 - Len(batch') + p,
         next - Len(batch) <= next' - Len(batch'),
         \/ UNCHANGED <<g, line>>
         \/ \E i \in 1..NItems :
              /\ g[i].pc = "none" /\ Moved(i, "call") /\ i < next' - Len(batch')
              /\ IF kind = "ordered" THEN line' = Append(line, i) ELSE line' = line
  PROVE  SubInv'
<1>1. /\ disp'.pc # "wait" /\ disp'.why = disp.why
      /\ disp' \in [pc : {"recv", "next", "sem", "wait"}, why : {"none", "closed", "ctx", "drain", "inner", "user"}]
      /\ SubType /\ ret = "run"
  BY DEF SubInv, SubType, KeptInv
<1>2. \A l \in 1..NItems : g'[l].pc = g[l].pc \/ (g[l].pc = "none" /\ g'[l].pc = "call")
  BY DEF Moved
<1>3. g' \in [1..NItems -> Calls] /\ line' \in Seq(1..NItems)
  <2>1. ASSUME NEW i \in 1..NItems, line' = Append(line, i) PROVE line' \in Seq(1..NItems)
    BY <1>1, <2>1 DEF SubType
  <2> QED BY <1>1, <2>1 DEF SubType, Moved
<1>4. (\E l \in 1..NItems : g[l].pc = "user") => \E l \in 1..NItems : g'[l].pc = "user"
  BY <1>2
<1>5. SubType'
  BY <1>1, <1>3 DEF SubType
<1>6. BatchInv'
  <2>0. next \in Nat /\ next' \in Nat /\ Len(batch) \in Nat /\ Len(batch') \in Nat
    BY <1>1 DEF SubType
  <2>1. ASSUME NEW l \in 1..NItems, l >= next' - Len(batch') PROVE g'[l].pc = "none"
    <3>1. l >= next - Len(batch)
      BY <2>0, <2>1
    <3>2. g[l].pc = "none"
      BY <3>1 DEF SubInv, BatchInv
    <3>3. CASE g' = g
      BY <3>2, <3>3
    <3>4. ASSUME NEW i \in 1..NItems, Moved(i, "call"), i < next' - Len(batch') PROVE g'[l].pc = "none"
      <4>1. l # i
        BY <2>0, <2>1, <3>4
      <4> QED BY <3>2, <3>4, <4>1 DEF Moved
    <3> QED BY <3>3, <3>4
  <2> QED BY <2>1 DEF BatchInv
<1>7. WhyInv'
  BY <1>1, <1>4 DEF SubInv, WhyInv, Off
<1>8. DrainerInv'
  <2>1. (kind # "ordered" => dr.pc = "end" /\ dr.err = "nil")' /\ (dr.err # "nil" => dr.pc = "end")'
        /\ (dr.err = "user" => \E l \in 1..NItems : g[l].pc = "user")' /\ (dr.err = "ctx" => Off)'
    BY <1>4 DEF SubInv, DrainerInv, Off
  <2>2. kind = "ordered" => ~(dr.pc = "end" /\ dr.err = "nil")
    BY DEF SubInv, DrainerInv
  <2>3. (kind = "ordered" =>
           /\ inner => consumer # "reading" \/ dr.err # "nil"
           /\ \A l \in 1..NItems : g[l].pc = "ctx" => Off \/ dr.err # "nil")'
    BY <1>2 DEF SubInv, DrainerInv, Off
  <2>4. ASSUME NEW l \in 1..NItems, kind = "ordered"
        PROVE  g'[l].pc \in {"none", "done", "skip"} \/ dr.err # "nil"
                 \/ (dr.pc = "get" /\ dr.item = l) \/ (\E q \in 1..Len(line') : line'[q] = l)
    <3>1. CASE UNCHANGED <<g, line>>
      BY <2>4, <3>1 DEF SubInv, DrainerInv
    <3>2. ASSUME NEW i \in 1..NItems, Moved(i, "call"), line' = Append(line, i)
          PROVE  g'[l].pc \in {"none", "done", "skip"} \/ dr.err # "nil"
                 \/ (dr.pc = "get" /\ dr.item = l) \/ (\E q \in 1..Len(line') : line'[q] = l)
      <4>1. /\ Len(line') = Len(line) + 1 /\ line'[Len(line) + 1] = i /\ Len(line) \in Nat
            /\ \A q \in 1..Len(line) : line'[q] = line[q]
        BY <1>1, <3>2, AppendFacts DEF SubType
      <4>2. CASE l = i
        BY <4>1, <4>2
      <4>3. CASE l # i
        <5>1. g'[l].pc = g[l].pc
          BY <3>2, <4>3 DEF Moved
        <5>2. g[l].pc \in {"none", "done", "skip"} \/ dr.err # "nil"
                \/ (dr.pc = "get" /\ dr.item = l) \/ (\E q \in 1..Len(line) : line[q] = l)
          BY <2>4 DEF SubInv, DrainerInv
        <5>3. ASSUME NEW q \in 1..Len(line), line[q] = l PROVE \E r \in 1..Len(line') : line'[r] = l
          <6>1. q \in 1..Len(line') /\ line'[q] = l
            BY <4>1, <5>3
          <6> QED BY <6>1
        <5> QED BY <5>1, <5>2, <5>3
      <4> QED BY <4>2, <4>3
    <3> QED BY <2>4, <3>1, <3>2
  <2> QED BY <2>1, <2>2, <2>3, <2>4 DEF DrainerInv
<1>9. KeptInv' /\ ReturnInv'
  BY <1>1, <1>2, <1>4 DEF SubInv, KeptInv, ReturnInv, Off
<1> QED BY <1>5, <1>6, <1>7, <1>8, <1>9 DEF SubInv

\* The steps of the receiving loop.
LEMMA LoopKeeps == ASSUME SubInv, S!Receive \/ S!Fill \/ S!TakeUp \/ S!Spawn PROVE SubInv'
<1>1. /\ SubType /\ next \in 1..(NItems + 1) /\ NItems \in Nat /\ batch \in Seq(1..NItems) /\ Len(batch) \in Nat
      /\ Len(batch) < next
      /\ \A p \in 1..Len(batch) : batch[p] = next - 1 - Len(batch) + p
      /\ \A i \in 1..NItems : i >= next - Len(batch) => g[i].pc = "none"
      /\ disp.pc = "sem" => batch # << >>
  BY InnerAssumption DEF InnerAssumption, SubInv, SubType, BatchInv
<1>2. UNCHANGED <<kind, errs, inner, dr, consumer, ctx, ret, failed>>
  BY DEF S!Receive, S!Fill, S!TakeUp, S!Spawn, S!dispRest
<1>3. ASSUME NEW i \in 1..NItems, S!Start(i) PROVE Moved(i, "call")
  BY <1>1, <1>3, Moves DEF S!Start
<1>4. ASSUME NEW p \in {"recv", "next", "sem"}, S!Goes(p)
      PROVE disp' \in [pc : {"recv", "next", "sem"}, why : {disp.why}] /\ disp'.pc = p
  BY <1>1, <1>4 DEF S!Goes, SubType
<1>5. CASE S!Receive
  <2>1. disp.pc = "recv" /\ next \in 1..NItems /\ batch = << >> /\ next' = next + 1 /\ line' = line /\ Len(batch) = 0
    BY <1>1, <1>5 DEF S!Receive
  <2>2. g[next].pc = "none"
    BY <1>1, <2>1
  <2>3. CASE S!SwitchRecv \/ S!ExhaustRecv
    <3>1. kind # "ordered" /\ (g' = g \/ Moved(next, "call")) /\ batch' = << >> /\ disp' = disp /\ Len(batch') = 0
      BY <1>3, <2>1, <2>3 DEF S!SwitchRecv, S!ExhaustRecv, S!Is
    <3>2. disp' \in [pc : {"recv", "next", "sem"}, why : {disp.why}] /\ disp'.pc = "recv"
      BY <1>1, <2>1, <3>1 DEF SubType
    <3> QED BY <1>1, <1>2, <2>1, <2>2, <3>1, <3>2, StartKeeps
  <2>4. CASE S!FlatRecv
    <3>1. batch' = <<next>> /\ g' = g /\ (S!Goes("next") \/ S!Goes("sem"))
      BY <2>4 DEF S!FlatRecv
    <3>2. batch' \in Seq(1..NItems) /\ Len(batch') = 1 /\ batch'[1] = next /\ batch' # << >>
      BY <2>1, <3>1
    <3>3. disp' \in [pc : {"recv", "next", "sem"}, why : {disp.why}]
      BY <1>4, <3>1
    <3>4. \A p \in 1..Len(batch') : batch'[p] = next' - 1 - Len(batch') + p
      BY <1>1, <2>1, <3>2
    <3>5. next' \in 1..(NItems + 1) /\ Len(batch') < next' /\ next - Len(batch) <= next' - Len(batch')
      BY <1>1, <2>1, <3>2
    <3> QED BY <1>1, <1>2, <2>1, <3>1, <3>2, <3>3, <3>4, <3>5, StartKeeps
  <2> QED BY <1>5, <2>3, <2>4 DEF S!Receive
<1>6. CASE S!Fill
  <2>1. disp' = disp /\ disp.pc = "next" /\ next \in 1..NItems /\ batch' = Append(batch, next) /\ next' = next + 1 /\ UNCHANGED <<g, line>>
    BY <1>1, <1>6 DEF S!Fill
  <2>2. /\ batch' \in Seq(1..NItems) /\ Len(batch') = Len(batch) + 1
        /\ \A p \in 1..Len(batch) : batch'[p] = batch[p]
        /\ batch'[Len(batch) + 1] = next
    BY <1>1, <2>1, AppendFacts
  <2>3. ASSUME NEW p \in 1..Len(batch') PROVE batch'[p] = next' - 1 - Len(batch') + p
    <3>1. CASE p = Len(batch) + 1
      BY <1>1, <2>1, <2>2, <3>1
    <3>2. CASE p # Len(batch) + 1
      <4>1. p \in 1..Len(batch)
        BY <1>1, <2>2, <3>2
      <4>2. batch'[p] = next - 1 - Len(batch) + p
        BY <1>1, <2>2, <4>1
      <4> QED BY <1>1, <2>1, <2>2, <4>2
    <3> QED BY <3>1, <3>2
  <2>4. next' \in 1..(NItems + 1) /\ Len(batch') < next' /\ next - Len(batch) <= next' - Len(batch')
    BY <1>1, <2>1, <2>2
  <2>5. disp' \in [pc : {"recv", "next", "sem"}, why : {disp.why}] /\ disp'.pc # "sem"
    BY <1>1, <2>1 DEF SubType
  <2> QED BY <1>2, <2>1, <2>2, <2>3, <2>4, <2>5, StartKeeps
<1>7. CASE S!TakeUp
  <2>1. disp.pc = "next" /\ kind # "ordered" /\ next' = next /\ line' = line
    BY <1>7 DEF S!TakeUp, S!Alone
  <2>2. CASE batch = << >>
    <3>1. S!Goes("recv") /\ UNCHANGED <<g, batch>>
      BY <1>7, <2>2 DEF S!TakeUp
    <3>2. disp' \in [pc : {"recv", "next", "sem"}, why : {disp.why}] /\ disp'.pc # "sem"
      BY <1>4, <3>1
    <3> QED BY <1>1, <1>2, <2>1, <3>1, <3>2, StartKeeps
  <2>3. CASE batch # << >>
    <3>1. S!Start(batch[1]) /\ batch' = Tail(batch) /\ disp' = disp
      BY <1>7, <2>3 DEF S!TakeUp
    <3>2. /\ batch' \in Seq(1..NItems) /\ Len(batch') = Len(batch) - 1 /\ Len(batch) > 0
          /\ \A p \in 1..Len(batch') : batch'[p] = batch[p + 1]
      BY <1>1, <2>3, <3>1
    <3>3. batch[1] \in 1..NItems /\ batch[1] = next - Len(batch) /\ g[batch[1]].pc = "none"
      BY <1>1, <3>2
    <3>4. Moved(batch[1], "call")
      BY <1>3, <3>1, <3>3
    <3>5. \A p \in 1..Len(batch') : batch'[p] = next' - 1 - Len(batch') + p
      BY <1>1, <2>1, <3>2
    <3>6. Len(batch') < next' /\ next - Len(batch) <= next' - Len(batch') /\ batch[1] < next' - Len(batch')
      BY <1>1, <2>1, <3>2, <3>3
    <3>7. disp' \in [pc : {"recv", "next", "sem"}, why : {disp.why}] /\ disp'.pc # "sem"
      BY <1>1, <2>1, <3>1 DEF SubType
    <3> QED BY <1>1, <1>2, <2>1, <3>2, <3>3, <3>4, <3>5, <3>6, <3>7, StartKeeps
  <2> QED BY <2>2, <2>3
<1>8. CASE S!Spawn
  <2>1. /\ disp.pc = "sem" /\ S!Start(batch[1]) /\ batch' = << >> /\ S!Goes("recv") /\ next' = next
        /\ IF kind = "ordered" THEN line' = Append(line, batch[1]) ELSE line' = line
    BY <1>8 DEF S!Spawn, S!Is
  <2>2. Len(batch) > 0 /\ batch[1] \in 1..NItems /\ batch[1] = next - Len(batch) /\ g[batch[1]].pc = "none"
    BY <1>1, <2>1
  <2>3. Moved(batch[1], "call")
    BY <1>3, <2>1, <2>2
  <2>4. disp' \in [pc : {"recv", "next", "sem"}, why : {disp.why}] /\ disp'.pc # "sem"
    BY <1>4, <2>1
  <2>5. batch' \in Seq(1..NItems) /\ Len(batch') = 0
    BY <2>1
  <2>6. Len(batch') < next' /\ next - Len(batch) <= next' - Len(batch') /\ batch[1] < next' - Len(batch')
    BY <1>1, <2>1, <2>2, <2>5
  <2> QED BY <1>1, <1>2, <2>1, <2>2, <2>3, <2>4, <2>5, <2>6, StartKeeps
<1> QED BY <1>5, <1>6, <1>7, <1>8

\* The receiving loop ends.
LEMMA StopKeeps == ASSUME SubInv, S!Stop PROVE SubInv'
<1>1. /\ disp.pc \in {"recv", "sem"} /\ UNCHANGED <<kind, ctx, consumer, failed, next, batch, g, line, dr, ret>>
      /\ errs \in {"nil", "user", "ctx"} /\ SubType /\ inner \in BOOLEAN
  BY DEF S!Stop, S!dispRest, SubInv, SubType
<1>2. \/ S!Ends("closed") /\ UNCHANGED <<inner, errs>>
      \/ S!Ends("ctx") /\ ctx /\ UNCHANGED <<inner, errs>>
      \/ S!Ends("drain") /\ consumer # "reading" /\ inner' = (kind \in Parallel) /\ UNCHANGED errs
      \/ kind \in {"switch", "exhaust"} /\ errs # "nil" /\ S!Ends(errs) /\ errs' = "nil" /\ UNCHANGED inner
      \/ kind \in Parallel /\ S!Ends("inner") /\ UNCHANGED <<inner, errs>>
  BY DEF S!Stop, S!Left, S!Is, Parallel
<1>3. PICK why \in {"closed", "ctx", "drain", "inner", "user"} : disp' = [pc |-> "wait", why |-> why]
  <2>1. kind \in {"switch", "exhaust"} /\ errs # "nil" => errs = "user"
    BY <1>1 DEF SubInv, WhyInv
  <2> QED BY <1>2, <2>1 DEF S!Ends
<1>4. /\ disp' \in [pc : {"recv", "next", "sem", "wait"}, why : {"none", "closed", "ctx", "drain", "inner", "user"}]
      /\ disp'.pc = "wait" /\ disp'.why = why
  BY <1>3
<1>5. /\ why = "ctx" => ctx
      /\ why = "drain" => consumer # "reading"
      /\ why = "inner" => kind \in Parallel
      /\ why = "user" => errs = "user"
  <2>1. kind \in {"switch", "exhaust"} /\ errs # "nil" => errs = "user"
    BY <1>1 DEF SubInv, WhyInv
  <2>2. ASSUME NEW w, S!Ends(w) PROVE why = w
    BY <1>4, <2>2 DEF S!Ends
  <2> QED BY <1>2, <2>1, <2>2
<1>6. /\ errs' = errs \/ (kind \in {"switch", "exhaust"} /\ errs' = "nil" /\ why = "user")
      /\ inner' = inner \/ (consumer # "reading" /\ inner' = (kind \in Parallel))
  <2>1. kind \in {"switch", "exhaust"} /\ errs # "nil" => errs = "user"
    BY <1>1 DEF SubInv, WhyInv
  <2>2. ASSUME NEW w, S!Ends(w) PROVE why = w
    BY <1>4, <2>2 DEF S!Ends
  <2> QED BY <1>2, <2>1, <2>2
<1>7. SubType'
  <2>1. inner' \in BOOLEAN /\ errs' \in {"nil", "user", "ctx"}
    <3>1. CASE inner' = inner
      BY <1>1, <1>6, <3>1
    <3>2. CASE inner' = (kind \in Parallel)
      <4>1. inner' \in BOOLEAN
        BY <3>2
      <4> QED BY <1>1, <1>6, <4>1
    <3> QED BY <1>6, <3>1, <3>2
  <2> QED BY <1>1, <1>4, <2>1 DEF SubType
<1>8. BatchInv'
  BY <1>1, <1>4 DEF SubInv, BatchInv
<1>9. WhyInv'
  BY <1>1, <1>4, <1>5, <1>6 DEF SubInv, WhyInv, Off
<1>10. DrainerInv'
  BY <1>1, <1>4, <1>6 DEF SubInv, DrainerInv, Off
<1>11. KeptInv' /\ ReturnInv'
  <2>1. ret = "run" /\ disp.why = "none"
    BY <1>1 DEF SubInv, KeptInv, WhyInv
  <2>2. KeptInv'
    BY <1>1, <1>4, <1>6, <2>1 DEF SubInv, KeptInv
  <2> QED BY <1>1, <2>1, <2>2 DEF SubInv, ReturnInv, Off
<1> QED BY <1>7, <1>8, <1>9, <1>10, <1>11 DEF SubInv

\* The stage returns: what is in the error channel, in its hands or in the
\* drainer's is the result.
LEMMA ReturnKeeps == ASSUME SubInv, S!Return PROVE SubInv'
<1>1. /\ disp.pc = "wait" /\ ret = "run" /\ dr.pc = "end" /\ SubType
      /\ UNCHANGED <<kind, ctx, consumer, failed, next, disp, batch, g, inner, errs, line, dr>>
  BY DEF S!Return, S!dispRest, SubInv
<1>2. \A i \in 1..NItems : g[i].pc \notin {"call", "wait", "send"}
  BY DEF S!Return, S!Live, S!Items
<1>3. ret' = CASE kind = "switch" -> (IF disp.why = "user" THEN "user" ELSE errs)
               [] kind = "exhaust" -> (IF disp.why \in {"ctx", "user"} THEN disp.why
                                       ELSE IF disp.why = "closed" THEN errs ELSE "nil")
               [] kind = "concurrent" -> errs
               [] kind = "ordered" -> dr.err
               [] OTHER -> (IF disp.why \in {"ctx", "user"} THEN disp.why ELSE "nil")
  BY DEF S!Return, S!Is
<1>4. /\ errs \in {"nil", "user", "ctx"} /\ dr.err \in {"nil", "user", "ctx"}
      /\ disp.why \in {"closed", "ctx", "drain", "inner", "user"}
  BY <1>1 DEF SubInv, SubType, WhyInv
<1>5. CASE kind = "switch"
  <2>1. ret' = IF disp.why = "user" THEN "user" ELSE errs
    BY <1>3, <1>5
  <2>2. ret' \in {"nil", "user"} /\ (ret' = "user" => \E i \in 1..NItems : g[i].pc = "user") /\ (ret' = "nil" => failed = {})
    BY <1>4, <1>5, <2>1 DEF SubInv, WhyInv, KeptInv
  <2>3. ReturnInv' /\ SubType'
    BY <1>1, <2>2 DEF ReturnInv, SubType
  <2> QED BY <1>1, <1>2, <2>3 DEF SubInv, BatchInv, WhyInv, DrainerInv, KeptInv, Off
<1>6. CASE kind = "exhaust"
  <2>1. ret' = IF disp.why \in {"ctx", "user"} THEN disp.why ELSE IF disp.why = "closed" THEN errs ELSE "nil"
    BY <1>3, <1>6
  <2>2. /\ ret' \in {"nil", "user", "ctx"} /\ (ret' = "user" => \E i \in 1..NItems : g[i].pc = "user")
        /\ ret' = "nil" => failed = {} \/ consumer # "reading"
        /\ ret' = "ctx" => ctx
    BY <1>4, <1>6, <2>1 DEF SubInv, WhyInv, KeptInv, Parallel
  <2>3. ReturnInv' /\ SubType'
    BY <1>1, <2>2 DEF ReturnInv, SubType, Off
  <2> QED BY <1>1, <1>2, <2>3 DEF SubInv, BatchInv, WhyInv, DrainerInv, KeptInv, Off
<1>7. CASE kind = "concurrent"
  <2>1. ret' = errs
    BY <1>3, <1>7
  <2>2. /\ ret' = "user" => \E i \in 1..NItems : g[i].pc = "user"
        /\ ret' = "nil" => failed = {}
        /\ ret' = "ctx" => Off
    BY <1>4, <1>7, <2>1 DEF SubInv, WhyInv, KeptInv
  <2>3. ReturnInv' /\ SubType'
    BY <1>1, <1>4, <1>7, <2>1, <2>2 DEF ReturnInv, SubType, Off, Parallel
  <2> QED BY <1>1, <1>2, <2>3 DEF SubInv, BatchInv, WhyInv, DrainerInv, KeptInv, Off
<1>8. CASE kind = "ordered"
  <2>1. ret' = dr.err
    BY <1>3, <1>8
  <2>2. ASSUME dr.err = "nil", NEW i \in failed PROVE FALSE
    <3>1. i \in 1..NItems /\ g[i].pc = "user" /\ line = << >>
      BY <1>1, <1>8, <2>2 DEF SubInv, KeptInv, DrainerInv
    <3>2. \E p \in 1..Len(line) : line[p] = i
      BY <1>1, <1>8, <2>2, <3>1 DEF SubInv, DrainerInv
    <3> QED BY <3>1, <3>2
  <2>3. /\ ret' = "user" => \E i \in 1..NItems : g[i].pc = "user"
        /\ ret' = "nil" => failed = {}
        /\ ret' = "ctx" => Off
    BY <2>1, <2>2 DEF SubInv, DrainerInv
  <2>4. ReturnInv' /\ SubType'
    BY <1>1, <1>4, <1>8, <2>1, <2>3 DEF ReturnInv, SubType, Off, Parallel
  <2> QED BY <1>1, <1>2, <2>4 DEF SubInv, BatchInv, WhyInv, DrainerInv, KeptInv, Off
<1>9. CASE kind \in {"fast", "serial"}
  <2>1. ret' = IF disp.why \in {"ctx", "user"} THEN disp.why ELSE "nil"
    BY <1>3, <1>9
  <2>2. /\ ret' \in {"nil", "user", "ctx"} /\ (ret' = "user" => \E i \in 1..NItems : g[i].pc = "user")
        /\ ret' = "nil" => failed = {}
        /\ ret' = "ctx" => ctx
    BY <1>4, <1>9, <2>1 DEF SubInv, WhyInv, KeptInv
  <2>3. ReturnInv' /\ SubType'
    BY <1>1, <2>2 DEF ReturnInv, SubType, Off
  <2> QED BY <1>1, <1>2, <2>3 DEF SubInv, BatchInv, WhyInv, DrainerInv, KeptInv, Off
<1> QED BY <1>5, <1>6, <1>7, <1>8, <1>9, KindKnown

\* The drainer's steps.
LEMMA DrainerKeeps == ASSUME SubInv, S!Drainer PROVE SubInv'
<1>1. /\ UNCHANGED <<kind, next, disp, batch, errs, consumer, ctx, ret, failed>> /\ SubType
      /\ kind = "ordered" /\ dr.err = "nil" /\ dr.pc \in {"take", "get", "send"} /\ ret = "run"
  BY DEF S!Drainer, S!DrainerTakes, S!DrainerGets, S!DrainerSends, S!drainRest, SubInv, DrainerInv, KeptInv
<1>2. g' \in [1..NItems -> Calls] /\ \A l \in 1..NItems : g'[l].pc = g[l].pc
  <2>1. g' = g \/ (dr.pc = "send" /\ g' = [g EXCEPT ![dr.item].j = @ + 1])
    BY DEF S!Drainer, S!DrainerTakes, S!DrainerGets, S!DrainerSends
  <2>2. dr.pc = "send" => dr.item \in 1..NItems /\ "call" \in {"none", "call", "wait", "send", "done", "skip", "user", "ctx"}
    BY <1>1 DEF SubType
  <2>3. ASSUME NEW i \in 1..NItems, g' = [g EXCEPT ![i].j = @ + 1] PROVE Moved(i, g[i].pc)
    <3>1. "call" \in {"none", "call", "wait", "send", "done", "skip", "user", "ctx"}
      OBVIOUS
    <3> QED BY <1>1, <2>3, <3>1, Moves
  <2> QED BY <1>1, <2>1, <2>2, <2>3 DEF SubType, Moved
<1>3. ASSUME line' \in Seq(1..NItems), dr' \in [pc : {"take", "get", "send", "end"}, item : 0..NItems, err : {"nil", "user", "ctx"}],
             dr'.pc \in {"get", "send"} => dr'.item \in 1..NItems,
             inner' \in BOOLEAN,
             inner' => inner \/ dr'.err # "nil",
             dr'.err # "nil" => dr'.pc = "end",
             dr'.err = "user" => \E l \in 1..NItems : g[l].pc = "user",
             dr'.err = "ctx" => Off,
             dr'.pc = "end" /\ dr'.err = "nil" => disp.pc = "wait" /\ line' = << >>,
             dr'.err = "nil" => \A l \in 1..NItems : g[l].pc \in {"none", "done", "skip"}
               \/ (dr'.pc = "get" /\ dr'.item = l) \/ (\E p \in 1..Len(line') : line'[p] = l)
      PROVE  SubInv'
  <2>1. SubType'
    BY <1>1, <1>2, <1>3 DEF SubType
  <2>2. BatchInv' /\ WhyInv' /\ KeptInv' /\ ReturnInv'
    BY <1>1, <1>2 DEF SubInv, BatchInv, WhyInv, KeptInv, ReturnInv, Off
  <2>3. DrainerInv'
    <3>1. inner' => consumer # "reading" \/ dr'.err # "nil"
      BY <1>1, <1>3 DEF SubInv, DrainerInv
    <3>2. \A l \in 1..NItems : g[l].pc = "ctx" => Off
      BY <1>1 DEF SubInv, DrainerInv
    <3> QED BY <1>1, <1>2, <1>3, <3>1, <3>2 DEF DrainerInv, Off
  <2> QED BY <2>1, <2>2, <2>3 DEF SubInv
<1>4. /\ line \in Seq(1..NItems) /\ inner \in BOOLEAN
      /\ dr \in [pc : {"take", "get", "send", "end"}, item : 0..NItems, err : {"nil", "user", "ctx"}]
      /\ dr.pc \in {"get", "send"} => dr.item \in 1..NItems
  BY <1>1 DEF SubType
<1>5. \A l \in 1..NItems : g[l].pc \in {"none", "done", "skip"}
        \/ (dr.pc = "get" /\ dr.item = l) \/ (\E p \in 1..Len(line) : line[p] = l)
  BY <1>1 DEF SubInv, DrainerInv
<1>6. CASE S!DrainerTakes
  <2>1. CASE line # << >> /\ line' = Tail(line) /\ dr' = [dr EXCEPT !.pc = "get", !.item = Head(line)]
    <3>1. /\ Head(line) = line[1] /\ line[1] \in 1..NItems /\ line' \in Seq(1..NItems) /\ Len(line') = Len(line) - 1
          /\ Len(line) \in Nat /\ Len(line) > 0
          /\ \A p \in 1..Len(line') : line'[p] = line[p + 1]
      <4>1. ASSUME NEW s \in Seq(1..NItems), s # << >>
            PROVE  /\ Head(s) = s[1] /\ s[1] \in 1..NItems /\ Tail(s) \in Seq(1..NItems) /\ Len(Tail(s)) = Len(s) - 1
                   /\ Len(s) \in Nat /\ Len(s) > 0
                   /\ \A p \in 1..Len(Tail(s)) : Tail(s)[p] = s[p + 1]
        <5>1. /\ Tail(s) \in Seq(1..NItems) /\ Len(Tail(s)) = Len(s) - 1
              /\ \A p \in 1..Len(Tail(s)) : Tail(s)[p] = s[p + 1]
          BY <4>1, HeadTailProperties
        <5>2. Len(s) \in Nat /\ Len(s) > 0
          BY <4>1, EmptySeq, LenProperties
        <5>3. Head(s) = s[1]
          BY <4>1, SMT
        <5>5. 1 \in 1..Len(s)
          BY <5>2
        <5>4. s[1] \in 1..NItems
          BY <5>5, ElementOfSeq, Zenon
        <5> QED BY <5>1, <5>2, <5>3, <5>4
      <4> QED BY <1>4, <2>1, <4>1
    <3>2. /\ dr' \in [pc : {"take", "get", "send", "end"}, item : 0..NItems, err : {"nil", "user", "ctx"}]
          /\ dr'.pc = "get" /\ dr'.item = line[1] /\ dr'.err = "nil"
      <4>1. dr' = [dr EXCEPT !.pc = "get", !.item = line[1]] /\ line[1] \in 0..NItems
        BY <2>1, <3>1, InnerAssumption DEF InnerAssumption
      <4> QED BY <1>1, <1>4, <4>1
    <3>3. dr.pc = "take" /\ inner' = inner
      BY <1>6 DEF S!DrainerTakes
    <3>4. ASSUME NEW l \in 1..NItems
          PROVE  g[l].pc \in {"none", "done", "skip"} \/ dr'.item = l \/ (\E p \in 1..Len(line') : line'[p] = l)
      <4>1. ASSUME NEW p \in 1..Len(line), line[p] = l PROVE dr'.item = l \/ (\E q \in 1..Len(line') : line'[q] = l)
        <5>1. CASE p = 1
          BY <3>2, <4>1, <5>1
        <5>2. CASE p # 1
          <6>1. p - 1 \in 1..Len(line') /\ line'[p - 1] = l
            BY <3>1, <4>1, <5>2
          <6> QED BY <6>1
        <5> QED BY <5>1, <5>2
      <4> QED BY <1>5, <3>3, <4>1
    <3> QED BY <1>3, <1>4, <3>1, <3>2, <3>3, <3>4
  <2>2. CASE line = << >> /\ disp.pc = "wait" /\ dr' = [dr EXCEPT !.pc = "end"] /\ UNCHANGED line
    <3>1. /\ dr' \in [pc : {"take", "get", "send", "end"}, item : 0..NItems, err : {"nil", "user", "ctx"}]
          /\ dr'.pc = "end" /\ dr'.err = "nil"
      BY <1>1, <1>4, <2>2
    <3>2. dr.pc = "take" /\ inner' = inner
      BY <1>6 DEF S!DrainerTakes
    <3> QED BY <1>3, <1>4, <1>5, <2>2, <3>1, <3>2
  <2> QED BY <1>6, <2>1, <2>2 DEF S!DrainerTakes
<1>7. CASE S!DrainerGets
  <2>1. dr.pc = "get" /\ line' = line /\ dr.item \in 1..NItems
    BY <1>4, <1>7 DEF S!DrainerGets
  <2>2. CASE g[dr.item].pc \in {"done", "skip"}
    <3>1. (dr' = [dr EXCEPT !.pc = "send"] \/ dr' = [dr EXCEPT !.pc = "take"]) /\ inner' = inner
      BY <1>7, <2>2 DEF S!DrainerGets
    <3>2. /\ dr' \in [pc : {"take", "get", "send", "end"}, item : 0..NItems, err : {"nil", "user", "ctx"}]
          /\ dr'.pc \in {"take", "send"} /\ dr'.err = "nil" /\ dr'.item = dr.item
      BY <1>1, <1>4, <3>1
    <3> QED BY <1>3, <1>4, <1>5, <2>1, <2>2, <3>1, <3>2
  <2>3. CASE g[dr.item].pc \in {"user", "ctx"}
    <3>1. dr' = [dr EXCEPT !.pc = "end", !.err = g[dr.item].pc] /\ inner' = TRUE
      BY <1>7, <2>3 DEF S!DrainerGets
    <3>2. /\ dr' \in [pc : {"take", "get", "send", "end"}, item : 0..NItems, err : {"nil", "user", "ctx"}]
          /\ dr'.pc = "end" /\ dr'.err = g[dr.item].pc
      BY <1>4, <2>3, <3>1
    <3>3. g[dr.item].pc = "ctx" => Off
      BY <1>1, <2>1 DEF SubInv, DrainerInv
    <3> QED BY <1>3, <1>4, <2>1, <2>3, <3>1, <3>2, <3>3
  <2>4. g[dr.item].pc \in {"done", "skip", "user", "ctx"}
    BY <1>7 DEF S!DrainerGets
  <2> QED BY <2>2, <2>3, <2>4
<1>8. CASE S!DrainerSends
  <2>1. dr.pc = "send" /\ line' = line /\ dr.item \in 1..NItems
    BY <1>4, <1>8 DEF S!DrainerSends
  <2>2. CASE (dr' = [dr EXCEPT !.pc = "take"] \/ dr' = [dr EXCEPT !.pc = "send"]) /\ inner' = inner
    <3>1. /\ dr' \in [pc : {"take", "get", "send", "end"}, item : 0..NItems, err : {"nil", "user", "ctx"}]
          /\ dr'.pc \in {"take", "send"} /\ dr'.err = "nil" /\ dr'.item = dr.item
      BY <1>1, <1>4, <2>2
    <3> QED BY <1>3, <1>4, <1>5, <2>1, <2>2, <3>1
  <2>3. CASE (inner \/ ctx) /\ dr' = [dr EXCEPT !.pc = "end", !.err = "ctx"] /\ inner' = TRUE
    <3>1. /\ dr' \in [pc : {"take", "get", "send", "end"}, item : 0..NItems, err : {"nil", "user", "ctx"}]
          /\ dr'.pc = "end" /\ dr'.err = "ctx"
      BY <1>4, <2>3
    <3>2. Off
      BY <1>1, <2>3 DEF SubInv, DrainerInv, Off
    <3> QED BY <1>3, <1>4, <2>1, <2>3, <3>1, <3>2
  <2> QED BY <1>8, <2>2, <2>3 DEF S!DrainerSends
<1> QED BY <1>6, <1>7, <1>8 DEF S!Drainer

LEMMA SubStep == SubInv /\ [S!Next]_subVars => SubInv'
<1> SUFFICES ASSUME SubInv, [S!Next]_subVars PROVE SubInv'
  OBVIOUS
<1>1. CASE S!Consume \/ S!Leave \/ S!Cancel \/ S!Halted \/ UNCHANGED subVars
  <2>1. /\ UNCHANGED <<kind, next, disp, batch, g, inner, errs, line, dr, ret, failed>>
    BY <1>1 DEF S!Consume, S!Leave, S!Cancel, S!Halted, S!envRest, S!stageVars, subVars, S!vars
  <2>2. ctx' \in BOOLEAN /\ (ctx => ctx') /\ (consumer # "reading" => consumer' # "reading")
    BY <1>1 DEF S!Consume, S!Leave, S!Cancel, S!Halted, subVars, S!vars, SubInv, SubType
  <2>3. SubType' /\ BatchInv'
    BY <2>1, <2>2 DEF SubInv, SubType, BatchInv
  <2>4. WhyInv' /\ DrainerInv'
    BY <2>1, <2>2 DEF SubInv, WhyInv, DrainerInv, Off
  <2>5. KeptInv' /\ ReturnInv'
    BY <2>1, <2>2 DEF SubInv, KeptInv, ReturnInv, Off
  <2> QED BY <2>3, <2>4, <2>5 DEF SubInv
<1> QED BY <1>1, LoopKeeps, StopKeeps, ReturnKeeps, DrainerKeeps, WorkKeeps DEF S!Next, S!Dispatch

\* A failure nobody handled is the stage's result.
LEMMA SubTells == SubInv => S!FailureSurfaces
BY DEF SubInv, ReturnInv, S!FailureSurfaces, S!Whole, S!Left, S!Items, Off, Parallel

-----------------------------------------------------------------------------
InnerInv ==
  /\ which = "sub" => SubInv
  /\ which = "nested" => NestedInv
  /\ which = "amb" => AmbInv

LEMMA InnerInvHolds == Spec => []InnerInv
<1>1. Init => InnerInv
  BY SubInit, NestedInit, AmbInit DEF Init, InnerInv
<1>2. InnerInv /\ [Next]_vars => InnerInv'
  <2> SUFFICES ASSUME InnerInv, [Next]_vars PROVE InnerInv'
    OBVIOUS
  <2>1. which' = which
    BY DEF Next, vars
  <2>2. CASE which = "sub"
    <3>1. [S!Next]_subVars
      BY <2>2 DEF Next, vars, subVars, S!vars, S!stageVars, onlySub
    <3> QED BY <2>1, <2>2, <3>1, SubStep DEF InnerInv
  <2>3. CASE which = "nested"
    <3>1. [N!Next]_nestedVars
      BY <2>3 DEF Next, vars, nestedVars, N!vars, N!nestedVars, N!outVars, N!opVars, N!envVars, onlyNested
    <3> QED BY <2>1, <2>3, <3>1, NestedStep DEF InnerInv
  <2>4. CASE which = "amb"
    <3>1. [A!Next]_ambVars
      BY <2>4 DEF Next, vars, ambVars, A!vars, onlyAmb
    <3> QED BY <2>1, <2>4, <3>1, AmbStep DEF InnerInv
  <2> QED BY <2>1, <2>2, <2>3, <2>4 DEF InnerInv
<1> QED BY <1>1, <1>2, PTL DEF Spec

\* What happened to the streams inside is what the stage reports: a failure
\* nobody handled is the result of a FlatMap, SwitchMap or ExhaustMap; Catch,
\* Retry, Concat, Using, Finally, TapError and Materialize go on, call and
\* return as their runs ended; Amb fails exactly for a failed factory.
THEOREM TellsOutcomes == Spec => []OutcomesTold
<1>1. Init => which \in {"sub", "nested", "amb"}
  BY DEF Init
<1>2. which \in {"sub", "nested", "amb"} /\ [Next]_vars => (which \in {"sub", "nested", "amb"})'
  BY DEF Next, vars
<1>3. InnerInv /\ which \in {"sub", "nested", "amb"} => OutcomesTold
  BY SubTells, NestedTells, AmbTells DEF InnerInv, OutcomesTold
<1> QED BY <1>1, <1>2, <1>3, InnerInvHolds, PTL DEF Spec
=============================================================================
