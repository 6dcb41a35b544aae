------------------------------ MODULE Failures ------------------------------
(***************************************************************************)
(* What the library does about failures of the user's code: a supervised   *)
(* stage or successive runs of an Effect per behaviour.                    *)
(***************************************************************************)
EXTENDS Integers

CONSTANTS
  Stages,                                      \* configurations of a stage, see Supervise
  NItems, MaxFails, Initial, MaxDelay, Bits,
  Policies,                                    \* policies of an Effect, see Effects
  KeyOf(_), EffItems, MaxRuns, EffCap

ASSUME FailuresAssumption ==
  /\ NItems \in Nat /\ MaxFails \in Nat
  /\ Initial \in Nat \ {0} /\ MaxDelay \in Nat /\ Initial <= MaxDelay
  /\ Bits \in Nat \ {0} /\ MaxDelay < 2^(Bits - 1)

VARIABLES
  which,  \* the component of this behaviour; the other's variables stay Idle
  next,
  cfg, pc, attempt, delay, itemDone, err, restarts, age, ctxDone, drained, ret, emitted, skipped,
  lost, reported, quiet, streak, again, wasted,
  policy, run, kind, phase, e, seen, stats, ch, cap, cch, consumer, ctx, snap, late, did,
  claims, episodes, outs, got

V == INSTANCE Supervise WITH Configs <- Stages
E == INSTANCE Effects WITH Key <- KeyOf

ASSUME StagesAssumption == Stages \subseteq V!Config
ASSUME EffectsAssumption ==
  /\ Policies \subseteq [idem : {"none", "run", "store"}, len : Nat, max : Nat,
                         dry : BOOLEAN, required : BOOLEAN, seg : BOOLEAN]
  /\ MaxRuns \in Nat \ {0} /\ EffCap \in Nat

Idle == "idle"
onlyStage == <<cfg, pc, attempt, delay, itemDone, err, restarts, age, ctxDone, drained, ret, emitted, skipped,
  lost, reported, quiet, streak, again, wasted>>
onlyEffect == <<policy, run, kind, phase, e, seen, stats, ch, cap, cch, consumer, ctx, snap, late, did,
  claims, episodes, outs, got>>
StageIdle ==
  /\ cfg = Idle /\ pc = Idle /\ attempt = Idle /\ delay = Idle /\ itemDone = Idle /\ restarts = Idle /\ age = Idle
  /\ ctxDone = Idle /\ drained = Idle /\ ret = Idle /\ emitted = Idle /\ skipped = Idle /\ lost = Idle /\ reported = Idle
  /\ quiet = Idle /\ streak = Idle /\ err = Idle /\ again = Idle /\ wasted = Idle
EffectIdle ==
  /\ policy = Idle /\ run = Idle /\ kind = Idle /\ phase = Idle /\ e = Idle /\ seen = Idle /\ stats = Idle
  /\ ch = Idle /\ cap = Idle /\ cch = Idle /\ consumer = Idle /\ ctx = Idle /\ snap = Idle /\ late = Idle
  /\ did = Idle /\ claims = Idle /\ episodes = Idle /\ outs = Idle /\ got = Idle

Init ==
  \/ which = "stage" /\ V!Init /\ EffectIdle
  \/ which = "effect" /\ E!Init /\ StageIdle

Next ==
  \/ which = "stage" /\ V!Next /\ UNCHANGED <<which, onlyEffect>>
  \/ which = "effect" /\ E!Next /\ UNCHANGED <<which, onlyStage>>

vars == <<which, next, onlyStage, onlyEffect>>
Spec == Init /\ [][Next]_vars

-----------------------------------------------------------------------------
\* Retries and restarts neither repeat nor lose an item silently: every item
\* received is emitted, skipped, lost or in hand, in exactly one of these
\* ways, each lost one is paid for by a reported restart or the error being
\* dealt with or that ended the stage, and a stage that reports success and
\* was not asked to stop has read its whole input.
NoSilentLoss == which = "stage" => V!NoSilentLoss /\ V!ReadsAll

\* While a retry waits, its delay is at most the cap, and at least the
\* initial one until the doubling leaves the range of a Duration.
BackoffInRange == which = "stage" => V!BackoffInRange

\* A stage gives up on an error it may restart after only when its restarts
\* since the last quiet period are used up, and without a Window it never
\* restarts more often than MaxRestarts.
RestartBudget == which = "stage" => V!RestartBudget

\* After a cancellation at most one more loop of the stage is begun, at most
\* one more item is lost, and the stage ends with the context's error.
StopsOnCancel == which = "stage" => V!StopsOnCancel

\* The counters and the outcome of a run tell what became of its effects.
OutcomesAccounted == which = "effect" => E!OutcomesAccounted

\* Of the items of one idempotency key the function is called for one at
\* most, over runs, crashes and retries, and a duplicate is one of an item
\* that claimed the key before.
OncePerKey == which = "effect" => E!OncePerKey

\* A replay delivers what the segment sent in an earlier run, in its order,
\* less what could not be marshalled or comes after what cannot be decoded,
\* and a run that ends by itself has saved its snapshot, or failed to, before
\* it returns.
SnapshotsReplayed == which = "effect" => E!SnapshotsReplayed
=============================================================================
