-------------------------------- MODULE Inner --------------------------------
(***************************************************************************)
(* The operators that run streams inside a stage: SubStreams, Nested and   *)
(* Amb, one of them per behaviour.                                         *)
(***************************************************************************)
EXTENDS Integers

CONSTANTS
  SubKinds, NItems, Concurrency, Widths, OutCap, Retryable, Batch,  \* see SubStreams
  Ops, Pipelines, Runs,                                             \* see Nested
  Factories, NPerRun, Endings, FactCap                              \* see Amb

ASSUME InnerAssumption ==
  /\ SubKinds \subseteq {"fast", "serial", "concurrent", "ordered", "switch", "exhaust"}
  /\ NItems \in Nat /\ Concurrency \in Nat \ {0} /\ Widths \subseteq Nat /\ OutCap \in Nat \ {0}
  /\ Batch \in Nat \ {0}
  /\ Runs \in Nat /\ Runs >= 2
  /\ \A o \in Ops : o.hooked \in BOOLEAN /\ o.max \in 0..Runs
  /\ \A p \in Pipelines : p.n \in Nat /\ p.end \in {"ok", "err", "canceled", "never"}
  /\ Factories # {} /\ 0 \notin Factories /\ NPerRun \in Nat \ {0} /\ FactCap \in Nat \ {0}
  /\ \A e \in Endings : e \in [Factories -> {"ok", "err", "never", "late"}]

VARIABLES
  which,  \* the component of this behaviour; the others' variables stay Idle
  kind, next, disp, batch, g, cur, over, errs, line, dr, consumer, failed,
  op, nested, k, pos, buf, src, each, nctx, nres, stopped, sctx, gone, calls,
  f, fwd, merged, fctx, winner, firstErr,
  inner, ch, ctx, ret, sent, pc, item, left, ends

S == INSTANCE SubStreams
N == INSTANCE Nested
A == INSTANCE Amb

Idle == "idle"
subVars == S!vars
nestedVars == N!vars
ambVars == A!vars
onlySub == <<kind, next, disp, batch, g, cur, over, errs, line, dr, consumer, failed>>
onlyNested == <<op, nested, k, pos, buf, src, each, nctx, nres, stopped, sctx, gone, calls>>
onlyAmb == <<f, fwd, merged, fctx, winner, firstErr>>

SubIdle == kind = Idle /\ next = Idle /\ disp = Idle /\ batch = Idle /\ g = Idle /\ cur = Idle /\ over = Idle /\ errs = Idle /\ line = Idle /\ dr = Idle /\ consumer = Idle /\ failed = Idle
NestedIdle == op = Idle /\ nested = Idle /\ k = Idle /\ pos = Idle /\ buf = Idle /\ src = Idle /\ each = Idle /\ nctx = Idle /\ nres = Idle /\ stopped = Idle /\ sctx = Idle /\ gone = Idle /\ calls = Idle
AmbIdle == f = Idle /\ fwd = Idle /\ merged = Idle /\ fctx = Idle /\ winner = Idle /\ firstErr = Idle

Init ==
  \/ which = "sub" /\ S!Init /\ NestedIdle /\ AmbIdle /\ pc = Idle /\ item = Idle /\ left = Idle /\ ends = Idle
  \/ which = "nested" /\ N!Init /\ SubIdle /\ AmbIdle /\ inner = Idle
  \/ which = "amb" /\ A!Init /\ SubIdle /\ NestedIdle /\ ch = Idle

Next ==
  \/ which = "sub" /\ S!Next /\ UNCHANGED <<which, onlyNested, onlyAmb, pc, item, left, ends>>
  \/ which = "nested" /\ N!Next /\ UNCHANGED <<which, onlySub, onlyAmb, inner>>
  \/ which = "amb" /\ A!Next /\ UNCHANGED <<which, onlySub, onlyNested, ch>>

vars == <<which, onlySub, onlyNested, onlyAmb, inner, ch, ctx, ret, sent, pc, item, left, ends>>

\* Each component's own fairness.
Fairness ==
  /\ WF_subVars(which = "sub" /\ S!Dispatch) /\ WF_subVars(which = "sub" /\ S!Drainer)
  /\ WF_subVars(which = "sub" /\ S!Consume)
  /\ \A i \in 1..NItems : WF_subVars(which = "sub" /\ S!Work(i))
  /\ WF_nestedVars(which = "nested" /\ N!Emit) /\ WF_nestedVars(which = "nested" /\ N!SourceEnds)
  /\ WF_nestedVars(which = "nested" /\ (N!EachTakes \/ N!EachEnds)) /\ WF_nestedVars(which = "nested" /\ N!Yield)
  /\ WF_nestedVars(which = "nested" /\ N!Operate) /\ WF_nestedVars(which = "nested" /\ N!Consume)
  /\ WF_nestedVars(which = "nested" /\ N!Watch)
  /\ WF_ambVars(which = "amb" /\ A!Source)
  /\ \A i \in Factories :
       /\ WF_ambVars(which = "amb" /\ A!FactorySends(i)) /\ WF_ambVars(which = "amb" /\ A!FactoryEnds(i))
       /\ WF_ambVars(which = "amb" /\ A!ForwarderTakes(i)) /\ WF_ambVars(which = "amb" /\ A!ForwarderSends(i))

Spec == Init /\ [][Next]_vars /\ Fairness

-----------------------------------------------------------------------------
\* What comes out of a stage is the streams it ran: each in order, once and
\* without a gap, one after the other where the operator promises it, all of
\* the ones it did not drop or switch away from, and of one factory in Amb.
OutputsWhole ==
  CASE which = "sub" -> S!SubStreamsWhole
    [] which = "nested" -> N!Concatenated
    [] which = "amb" -> A!OneWinner

\* What happened to the streams inside is what the stage reports: failures
\* surface, handlers and callbacks run for what they are there for, and
\* neither a cancellation of the run nor a parting consumer passes for a
\* failure.
OutcomesTold ==
  CASE which = "sub" -> S!FailureSurfaces
    [] which = "nested" -> N!OutcomeTold
    [] which = "amb" -> A!ErrorOfAFactory

\* The stage ends, with all goroutines it started, once its inner streams can
\* end, its consumer leaves or the run is cancelled; a send to a consumer that
\* has left cooperatively is the only thing that may hold it.
InnerEnds ==
  (CASE which = "sub" -> TRUE
     [] which = "nested" -> N!MustEnd
     [] which = "amb" -> A!MustEnd)
  ~>
  (CASE which = "sub" -> S!Ended
     [] which = "nested" -> ret # "run"
     [] which = "amb" -> A!AllGone)
=============================================================================
