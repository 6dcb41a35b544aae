---------------------------- MODULE FailuresProofs ---------------------------
(***************************************************************************)
(* Proofs about Failures. Supervise, for any input, any chain of error     *)
(* handlers and any supervision policy: no item is lost silently, restarts *)
(* stay within their budget, and a cancellation is outlived by one loop at *)
(* most. Effects, for any policies, keys, inputs, buffers and number of    *)
(* runs: one item of an idempotency key is attempted, a replay delivers    *)
(* what an earlier run sent, and the counters tell what became of an item. *)
(***************************************************************************)
EXTENDS Failures, Sequences, FiniteSets, FiniteSetTheorems, TLAPS

-----------------------------------------------------------------------------
(***************************************************************************)
(* Supervise.                                                              *)
(***************************************************************************)
stageVars == V!vars

\* What the invariants need of the types.
StageType ==
  /\ cfg \in Stages
  /\ next \in 1..(NItems + 1)
  /\ pc \in {"recv", "call", "backoff", "send", "failed", "pause", "end"}
  /\ pc = "failed" => err \in V!Errors
  /\ attempt \in 0..MaxFails /\ (pc = "backoff" => attempt < MaxFails)
  /\ restarts \in Nat /\ reported \in Nat /\ streak \in Nat
  /\ age \in Int /\ quiet \in Nat
  /\ pc \in {"call", "backoff", "send"} => next > 1

\* An item is in one place.
ItemInv ==
  /\ emitted \cup skipped \cup lost \cup V!InHand = 1..V!Cur
  /\ emitted \cap (skipped \cup lost \cup V!InHand) = {}
  /\ skipped \cap (lost \cup V!InHand) = {} /\ lost \cap V!InHand = {}

\* While the stage runs, every lost item is paid for by a reported restart;
\* the error being dealt with, or that ended it, may have lost one more.
LossInv ==
  /\ IsFiniteSet(lost)
  /\ pc # "end" => ret = "running"
  /\ pc \notin {"failed", "end"} => Cardinality(lost) = reported
  /\ pc = "failed" => Cardinality(lost) = reported + 1
  /\ pc = "end" => /\ ret # "running"
                   /\ Cardinality(lost) <= reported + 1
                   /\ ret = "nil" /\ cfg.onPanic # "skip"
                        => Cardinality(lost) = reported /\ (drained \/ next > NItems)

\* The window starts with a restart, no later than the last crash.
WindowInv ==
  /\ age # V!NoWindow => age >= quiet
  /\ age = V!NoWindow => restarts = 0
  /\ restarts <= streak
  /\ cfg.window = 0 => streak = restarts /\ restarts <= cfg.maxRestarts
  /\ (ret \in {"transient", "permanent", "deadline", "panic"} /\ ~cfg.panicOnly)
       => streak >= cfg.maxRestarts

\* A loop begun in a cancelled run is the only one, and was decided on before:
\* once the run is cancelled nothing leads to another restart.
CancelInv ==
  /\ again \in 0..1 /\ wasted \in 0..1
  /\ ~ctxDone => again = 0 /\ wasted = 0
  /\ pc \in {"failed", "pause"} => again = 0
  /\ pc # "end" => wasted = 0
  /\ pc = "pause" \/ again = 1 => cfg.maxRestarts > 0
  /\ again = 1 /\ pc = "end" /\ ~cfg.panicOnly => ret \in {"ctx", "nil", "crash"}

-----------------------------------------------------------------------------
\* The stage ends: it reports success only for a panic that is skipped, and an
\* error it may restart after only when the restarts are used up.
Ends(o) ==
  /\ V!End(o) /\ UNCHANGED V!budget
  /\ o \in V!Errors \cup {"nil", "crash"}
  /\ o = "nil" => cfg.onPanic = "skip"
  /\ (o \in {"transient", "permanent", "deadline", "panic"} /\ ~cfg.panicOnly)
       => V!Count >= cfg.maxRestarts
\* So does a failure that ends it, and in a cancelled run with its error.
FailEnds(o) ==
  Ends(o) /\ (ctxDone /\ cfg.maxRestarts > 0 /\ ~cfg.panicOnly => o \in {"ctx", "nil", "crash"})

\* What follows a failure of the loop: a restart is considered, only if the
\* run is not cancelled, or the stage ends.
LEMMA FailCases ==
  ASSUME StageType, NEW x \in V!Errors, NEW p \in BOOLEAN, V!Fail(x, p)
  PROVE  \/ pc' = "failed" /\ err' = x /\ ~ctxDone /\ UNCHANGED <<V!budget, ret, again>>
         \/ \E o \in V!Errors \cup {"nil", "crash"} : FailEnds(o)
<1>1. cfg.maxRestarts \in Nat /\ V!Count \in Nat
  BY StagesAssumption DEF StageType, V!Config, V!Count
<1>2. CASE p /\ cfg.onPanic # "restart"
  BY <1>2 DEF V!Fail, V!Outcome, Ends, FailEnds, V!Errors
<1>3. CASE ~(p /\ cfg.onPanic # "restart") /\ ~p /\ (~V!HasSupervision \/ cfg.panicOnly)
  BY <1>1, <1>3 DEF V!Fail, V!Outcome, V!HasSupervision, Ends, FailEnds, V!Errors
<1>4. CASE ~(p /\ cfg.onPanic # "restart") /\ ~(~p /\ (~V!HasSupervision \/ cfg.panicOnly))
  <2>1. V!Outcome(x, p) = IF ctxDone THEN "ctx" ELSE "failed"
    BY <1>4 DEF V!Outcome
  <2> QED BY <1>1, <2>1 DEF V!Fail, Ends, FailEnds, V!Errors
<1> QED BY <1>2, <1>3, <1>4

\* A loop that waits for input ends when the run is cancelled.
LEMMA CancelSeen ==
  ASSUME V!RecvCtxDone
  PROVE  Ends("ctx")
<1>1. V!Fail("ctx", FALSE) /\ ctxDone
  BY Zenon DEF V!RecvCtxDone
<1>2. V!Outcome("ctx", FALSE) = "ctx"
  BY <1>1 DEF V!Outcome
<1>3. V!Fail("ctx", FALSE) => V!End("ctx") /\ UNCHANGED V!budget
  BY <1>2, Zenon DEF V!Fail
<1> QED BY <1>1, <1>3 DEF Ends, V!Errors

Hand == {"call", "backoff", "send"}
StageInv == StageType /\ ItemInv /\ LossInv /\ WindowInv /\ CancelInv

\* An item in hand goes to one place.
LEMMA ItemPlaced ==
  ASSUME StageType, ItemInv, pc \in Hand, pc' \notin Hand, UNCHANGED next,
         \/ emitted' = emitted \cup {V!Cur} /\ UNCHANGED <<skipped, lost>>
         \/ skipped' = skipped \cup {V!Cur} /\ UNCHANGED <<emitted, lost>>
         \/ lost' = lost \cup {V!Cur} /\ UNCHANGED <<emitted, skipped>>
  PROVE  ItemInv'
<1>1. V!InHand = {V!Cur} /\ V!InHand' = {} /\ V!Cur' = V!Cur
  BY DEF V!InHand, V!Cur, Hand
<1> HIDE DEF V!Cur
<1> QED BY <1>1 DEF ItemInv

\* Steps that move no item.
LEMMA ItemKept ==
  ASSUME ItemInv, pc \in Hand <=> pc' \in Hand, UNCHANGED <<next, emitted, skipped, lost>>
  PROVE  ItemInv'
<1>1. V!InHand' = V!InHand /\ V!Cur' = V!Cur
  BY DEF V!InHand, V!Cur, Hand
<1> QED BY <1>1 DEF ItemInv

\* After a restart the budget is still kept: a crash after a quiet window
\* finds the window over and the counter reset.
LEMMA WindowRestart ==
  ASSUME StageType, WindowInv, V!Restart, ret = "running"
  PROVE  /\ WindowInv'
         /\ restarts' \in Nat /\ reported' = reported + 1 /\ streak' \in Nat
         /\ age' \in Int /\ quiet' \in Nat
<1>1. cfg.window \in Nat /\ cfg.maxRestarts \in Nat /\ V!Count < cfg.maxRestarts /\ UNCHANGED cfg
  BY StagesAssumption DEF StageType, V!Config, V!Restart, V!given
<1>2. V!Count \in Nat /\ V!Count <= restarts
  BY DEF StageType, V!Count
<1>3. /\ restarts' \in Nat /\ reported' = reported + 1 /\ streak' \in Nat
      /\ age' \in Int /\ quiet' \in Nat
  BY <1>2 DEF StageType, V!Restart
<1>4. /\ age' # V!NoWindow => age' >= quiet'
      /\ age' # V!NoWindow
  BY <1>1 DEF StageType, WindowInv, V!Restart, V!Expired, V!NoWindow
<1>5. restarts' <= streak'
  BY <1>1, <1>2 DEF StageType, WindowInv, V!Restart, V!Expired, V!NoWindow, V!Count
<1>6. cfg.window = 0 => streak' = restarts' /\ restarts' <= cfg.maxRestarts
  BY <1>1, <1>2 DEF StageType, WindowInv, V!Restart, V!Expired, V!Count
<1>7. ret' = "running"
  BY DEF V!Restart
<1> QED BY <1>1, <1>3, <1>4, <1>5, <1>6, <1>7 DEF WindowInv

\* The stage's end keeps the budget.
LEMMA WindowEnd ==
  ASSUME StageType, WindowInv, UNCHANGED <<cfg, restarts, age, quiet, streak>>,
         (ret' \in {"transient", "permanent", "deadline", "panic"} /\ ~cfg.panicOnly)
           => V!Count >= cfg.maxRestarts
  PROVE  WindowInv'
<1>1. cfg.maxRestarts \in Nat
  BY StagesAssumption DEF StageType, V!Config
<1>2. V!Count \in Nat /\ V!Count <= restarts
  BY DEF StageType, V!Count
<1> QED BY <1>1, <1>2 DEF WindowInv, StageType, V!NoWindow

\* A failure with an item in hand: the item is lost, and the loss is paid for
\* by the restart or by the stage's end.
LEMMA FailItemStep ==
  ASSUME StageInv, pc \in Hand, NEW x \in V!Errors, NEW p \in BOOLEAN, V!FailItem(x, p),
         UNCHANGED <<next, attempt, cfg, ctxDone, drained>>
  PROVE  StageInv'
<1> USE DEF StageInv
<1>0. V!Fail(x, p) /\ lost' = lost \cup {V!Cur} /\ UNCHANGED <<emitted, skipped>>
  BY DEF V!FailItem
<1>1. V!Cur \notin lost
  BY DEF ItemInv, V!InHand, Hand
<1>2. IsFiniteSet(lost') /\ Cardinality(lost') = Cardinality(lost) + 1
  BY <1>0, <1>1, FS_AddElement DEF LossInv
<1>3. ret = "running" /\ Cardinality(lost) = reported
  BY DEF LossInv, Hand
<1>6. wasted' = IF ctxDone THEN wasted + 1 ELSE wasted
  BY DEF V!FailItem
<1>7. wasted = 0 /\ wasted' \in 0..1 /\ (ctxDone \/ wasted' = 0) /\ again \in 0..1
  BY <1>6 DEF CancelInv, Hand
<1>4. CASE pc' = "failed" /\ err' = x /\ ~ctxDone /\ UNCHANGED <<V!budget, ret, again>>
  <2>1. StageType' /\ WindowInv'
    BY <1>3, <1>4 DEF StageType, WindowInv, V!budget, V!NoWindow
  <2>2. ItemInv'
    BY <1>0, <1>4, ItemPlaced DEF Hand
  <2>3. LossInv'
    BY <1>2, <1>3, <1>4 DEF LossInv, V!budget
  <2>4. CancelInv'
    BY <1>4, <1>7 DEF CancelInv
  <2> QED BY <2>1, <2>2, <2>3, <2>4
<1>5. ASSUME NEW o \in V!Errors \cup {"nil", "crash"}, FailEnds(o) PROVE StageInv'
  <2>1. Ends(o) /\ pc' = "end" /\ ret' = o /\ UNCHANGED <<restarts, age, reported, quiet, streak, again>>
    BY <1>5 DEF FailEnds, Ends, V!End, V!budget
  <2>2. StageType'
    BY <2>1 DEF StageType
  <2>3. ItemInv'
    BY <1>0, <2>1, ItemPlaced DEF Hand
  <2>4. LossInv'
    BY <1>2, <1>3, <2>1 DEF LossInv, Ends, StageType, V!Errors
  <2>5. WindowInv'
    BY <2>1, WindowEnd DEF Ends
  <2>6. CancelInv'
    BY <1>5, <1>7, <2>1 DEF CancelInv, FailEnds
  <2> QED BY <2>2, <2>3, <2>4, <2>5, <2>6
<1> QED BY <1>0, <1>4, <1>5, FailCases

\* Steps that leave the supervision alone.
LEMMA QuietStep ==
  ASSUME StageInv, pc' \in Hand \cup {"recv"} \/ pc' = pc, pc \in Hand \/ pc' = pc, pc # "end",
         UNCHANGED <<next, V!supervision, cfg>>, ctxDone => ctxDone', attempt' \in 0..MaxFails,
         pc' = "backoff" => attempt' < MaxFails,
         \/ UNCHANGED V!history /\ (pc \in Hand <=> pc' \in Hand)
         \/ /\ pc \in Hand /\ pc' = "recv" /\ UNCHANGED <<lost, wasted>>
            /\ \/ emitted' = emitted \cup {V!Cur} /\ UNCHANGED skipped
               \/ skipped' = skipped \cup {V!Cur} /\ UNCHANGED emitted
  PROVE  StageInv'
<1> USE DEF StageInv, V!supervision, V!budget
<1>1. UNCHANGED <<lost, wasted>>
  BY DEF V!history
<1>2. StageType'
  BY DEF StageType, Hand
<1>3. ItemInv'
  BY ItemKept, ItemPlaced DEF Hand, V!history
<1>4. LossInv'
  BY <1>1 DEF LossInv, Hand
<1>5. WindowInv'
  BY DEF WindowInv, V!NoWindow
<1>6. CancelInv'
  BY <1>1 DEF CancelInv, Hand
<1> QED BY <1>2, <1>3, <1>4, <1>5, <1>6

\* The result of an item is sent, or the item is lost with the cancelled run.
LEMMA DeliverStep ==
  ASSUME StageInv, pc \in Hand, V!Deliver, UNCHANGED <<next, attempt, cfg, ctxDone, drained>>
  PROVE  StageInv'
<1>1. CASE ctxDone
  <2>1. V!FailItem("ctx", FALSE)
    BY <1>1 DEF V!Deliver
  <2> QED BY <2>1, FailItemStep DEF V!Errors
<1>2. CASE ~ctxDone
  <2>1. pc' = "send" /\ UNCHANGED <<V!supervision, V!history>>
    BY <1>2 DEF V!Deliver
  <2> QED BY <2>1, QuietStep DEF Hand, StageInv, StageType
<1> QED BY <1>1, <1>2

\* Every step of the stage, its timers and its caller keeps the invariant.
LEMMA StageStep ==
  ASSUME StageInv, [V!Next]_stageVars
  PROVE  StageInv'
<1>1. CASE UNCHANGED stageVars
  BY <1>1 DEF stageVars, V!vars, StageInv, StageType, ItemInv, LossInv, WindowInv, CancelInv, V!InHand, V!Cur, V!NoWindow
<1>2. CASE V!Recv
  <2> USE <1>2 DEF V!Recv, V!given, V!supervision, V!budget, V!history, StageInv
  <2>1. StageType'
    BY FailuresAssumption DEF StageType
  <2>2. ItemInv'
    <3>1. next \in Nat /\ next >= 1
      BY DEF StageType
    <3>2. V!InHand = {} /\ V!InHand' = {next} /\ V!Cur = next - 1 /\ V!Cur' = next
      BY <3>1 DEF V!InHand, V!Cur
    <3>3. 1..next = (1..(next - 1)) \cup {next} /\ next \notin 1..(next - 1)
      BY <3>1
    <3> QED BY <3>2, <3>3 DEF ItemInv
  <2>3. LossInv' /\ WindowInv' /\ CancelInv'
    BY DEF LossInv, WindowInv, CancelInv, V!NoWindow
  <2> QED BY <2>1, <2>2, <2>3
<1>3. CASE V!RecvEnd
  <2> USE <1>3 DEF V!RecvEnd, V!End, V!given, V!budget, V!history, StageInv
  <2>1. StageType' /\ LossInv'
    BY DEF StageType, LossInv, V!itemVars
  <2>2. ItemInv'
    BY ItemKept DEF Hand
  <2>3. WindowInv' /\ CancelInv'
    BY WindowEnd DEF CancelInv
  <2> QED BY <2>1, <2>2, <2>3
<1>4. CASE V!RecvCtxDone
  <2> USE <1>4 DEF V!RecvCtxDone, V!given, StageInv
  <2>1. PICK o \in V!Errors \cup {"nil", "crash"} : Ends(o) /\ o = "ctx"
    <3>1. Ends("ctx")
      BY CancelSeen
    <3> QED BY <3>1 DEF V!Errors
  <2>2. pc' = "end" /\ ret' = o /\ UNCHANGED <<restarts, age, reported, quiet, streak, again>>
    BY <2>1 DEF Ends, V!End, V!budget
  <2>3. StageType'
    BY <2>2 DEF StageType, V!itemVars
  <2>4. ItemInv'
    BY <2>2, ItemKept DEF Hand, V!history
  <2>5. LossInv' /\ CancelInv'
    BY <2>1, <2>2 DEF LossInv, CancelInv, V!history, StageType, V!Errors
  <2>6. WindowInv'
    BY <2>1, <2>2, WindowEnd DEF Ends
  <2> QED BY <2>3, <2>4, <2>5, <2>6
<1>5. CASE V!CallOk
  BY <1>5, DeliverStep DEF V!CallOk, V!itemVars, V!given, Hand
<1>6. ASSUME NEW x \in {"transient", "permanent"}, V!CallError(x) PROVE StageInv'
  <2> USE <1>6 DEF V!CallError, V!given
  <2>0. pc = "call" /\ attempt < MaxFails /\ UNCHANGED <<next, attempt, cfg, ctxDone, drained>>
    OBVIOUS
  <2>1. CASE pc' = "backoff" /\ UNCHANGED <<V!supervision, V!history>>
    BY <2>0, <2>1, QuietStep DEF Hand, StageInv, StageType
  <2>2. CASE pc' = "recv" /\ skipped' = skipped \cup {V!Cur} /\ UNCHANGED <<V!supervision, emitted, lost, wasted>>
    BY <2>0, <2>2, QuietStep DEF Hand, StageInv, StageType
  <2>3. CASE V!Deliver
    BY <2>0, <2>3, DeliverStep DEF Hand
  <2>4. CASE V!FailItem(x, FALSE)
    BY <2>0, <2>4, FailItemStep DEF Hand, V!Errors
  <2> QED BY <2>1, <2>2, <2>3, <2>4
<1>7. CASE V!CallPanic
  BY <1>7, FailItemStep DEF V!CallPanic, V!itemVars, V!given, Hand, V!Errors
<1>8. CASE V!BackoffOver
  <2>1. attempt' \in 0..MaxFails
    BY <1>8, FailuresAssumption DEF V!BackoffOver, StageInv, StageType
  <2> QED BY <1>8, <2>1, QuietStep DEF V!BackoffOver, V!given, Hand
<1>9. CASE V!BackoffCtxDone
  BY <1>9, FailItemStep DEF V!BackoffCtxDone, V!itemVars, V!given, Hand, V!Errors
<1>10. CASE V!Send
  <2>1. CASE pc' = "recv" /\ emitted' = emitted \cup {V!Cur} /\ UNCHANGED <<V!supervision, skipped, lost, wasted>>
    BY <1>10, <2>1, QuietStep DEF V!Send, V!itemVars, V!given, Hand, StageInv, StageType
  <2>2. CASE V!FailItem("ctx", FALSE)
    BY <1>10, <2>2, FailItemStep DEF V!Send, V!itemVars, V!given, Hand, V!Errors
  <2> QED BY <1>10, <2>1, <2>2 DEF V!Send
<1>11. CASE V!PauseOver
  <2> USE <1>11 DEF V!PauseOver, V!StartLoop, V!given, V!budget, V!history, StageInv
  <2>1. StageType' /\ LossInv' /\ WindowInv' /\ CancelInv'
    BY DEF StageType, LossInv, WindowInv, CancelInv, V!itemVars, V!NoWindow
  <2>2. ItemInv'
    BY ItemKept DEF Hand
  <2> QED BY <2>1, <2>2
<1>17. CASE V!Restart
  <2> USE DEF StageInv
  <2>1. WindowInv' /\ restarts' \in Nat /\ reported' = reported + 1 /\ streak' \in Nat
        /\ age' \in Int /\ quiet' \in Nat
    BY <1>17, WindowRestart DEF V!Restart, LossInv
  <2>2. /\ pc = "failed" /\ ret' = ret /\ UNCHANGED <<next, attempt, cfg, drained, emitted, skipped, lost, wasted, ctxDone>>
        /\ \/ pc' = "pause" /\ UNCHANGED again
           \/ pc' = "recv" /\ again' = IF ctxDone THEN again + 1 ELSE again
    BY <1>17 DEF V!Restart, V!StartLoop, V!itemVars, V!given, V!history
  <2>3. StageType'
    BY <2>1, <2>2 DEF StageType
  <2>4. ItemInv'
    BY <2>2, ItemKept DEF Hand
  <2>5. LossInv'
    BY <2>1, <2>2 DEF LossInv
  <2>6. CancelInv'
    <3>1. V!Count \in Nat /\ V!Count < cfg.maxRestarts /\ cfg.maxRestarts \in Nat
      BY <1>17, StagesAssumption DEF StageType, V!Config, V!Count, V!Restart
    <3> QED BY <2>2, <3>1 DEF CancelInv
  <2> QED BY <2>1, <2>3, <2>4, <2>5, <2>6
<1>18. CASE V!GiveUp
  <2> USE DEF StageInv
  <2>1. /\ pc = "failed" /\ pc' = "end" /\ ret' = err /\ err \in V!Errors /\ V!Count >= cfg.maxRestarts
        /\ UNCHANGED <<next, attempt, cfg, drained, restarts, age, reported, quiet, streak, again, emitted, skipped, lost, wasted, ctxDone>>
    BY <1>18 DEF V!GiveUp, V!End, V!itemVars, V!budget, V!given, V!history, StageType
  <2>2. StageType'
    BY <2>1 DEF StageType
  <2>3. ItemInv'
    BY <2>1, ItemKept DEF Hand
  <2>4. LossInv' /\ CancelInv'
    BY <2>1 DEF LossInv, CancelInv, StageType, V!Errors
  <2>5. WindowInv'
    BY <2>1, WindowEnd
  <2> QED BY <2>2, <2>3, <2>4, <2>5
<1>12. CASE V!PauseCtxDone
  <2> USE <1>12 DEF V!PauseCtxDone, V!End, V!given, V!budget, V!history, StageInv
  <2>1. StageType' /\ LossInv'
    BY DEF StageType, LossInv, V!itemVars
  <2>2. ItemInv'
    BY ItemKept DEF Hand
  <2>3. WindowInv' /\ CancelInv'
    BY WindowEnd DEF CancelInv
  <2> QED BY <2>1, <2>2, <2>3
<1>13. CASE V!Tick
  <2> USE <1>13 DEF V!Tick, V!given, StageInv
  <2>1. cfg.window \in Nat
    BY StagesAssumption DEF StageType, V!Config
  <2>2. StageType' /\ LossInv'
    BY <2>1 DEF StageType, LossInv, V!Later, V!itemVars, V!history
  <2>3. ItemInv'
    BY ItemKept DEF V!history
  <2>4. WindowInv' /\ CancelInv'
    BY <2>1 DEF WindowInv, CancelInv, StageType, V!Later, V!NoWindow, V!history
  <2> QED BY <2>2, <2>3, <2>4
<1>14. CASE V!ItemTimeout
  BY <1>14, QuietStep DEF V!ItemTimeout, V!given, Hand, StageInv, StageType
<1>15. CASE V!Ask
  BY <1>15, QuietStep DEF V!Ask, V!itemVars, Hand, StageInv, StageType
<1>16. CASE V!Stopped
  BY <1>1, <1>16 DEF V!Stopped, stageVars
<1> QED
  BY <1>1, <1>2, <1>3, <1>4, <1>5, <1>6, <1>7, <1>8, <1>9, <1>10, <1>11, <1>12, <1>13, <1>14,
     <1>15, <1>16, <1>17, <1>18 DEF V!Next

-----------------------------------------------------------------------------
\* A stage starts in the invariant.
LEMMA StageInit == V!Init => StageInv
<1> SUFFICES ASSUME V!Init PROVE StageInv
  OBVIOUS
<1>1. StageType
  BY FailuresAssumption DEF V!Init, StageType, V!NoWindow
<1>2. ItemInv
  BY DEF V!Init, ItemInv, V!InHand, V!Cur
<1>3. LossInv
  BY FS_EmptySet DEF V!Init, LossInv
<1>4. WindowInv
  <2>1. cfg.maxRestarts \in Nat
    BY StagesAssumption DEF V!Init, V!Config
  <2> QED BY <2>1 DEF V!Init, WindowInv, V!NoWindow
<1>5. CancelInv
  BY DEF V!Init, CancelInv
<1> QED BY <1>1, <1>2, <1>3, <1>4, <1>5 DEF StageInv

SuperviseInv == which = "stage" => StageInv

\* The parts together are inductive.
LEMMA SuperviseInvHolds == Spec => []SuperviseInv
<1>1. Init => SuperviseInv
  BY StageInit DEF Init, SuperviseInv
<1>2. SuperviseInv /\ [Next]_vars => SuperviseInv'
  <2> SUFFICES ASSUME SuperviseInv, [Next]_vars, which' = "stage" PROVE StageInv'
    BY DEF SuperviseInv
  <2>1. which = "stage" /\ [V!Next]_stageVars
    BY DEF Next, vars, stageVars, V!vars, onlyStage
  <2> QED BY <2>1, StageStep DEF SuperviseInv
<1> QED BY <1>1, <1>2, PTL DEF Spec

\* Supervise counts with the same operator as the facts about finite sets.
LEMMA SameCount == ASSUME NEW S PROVE V!Cardinality(S) = Cardinality(S)
  BY DEF V!Cardinality, Cardinality

\* The sizes of two sets that share nothing add up.
LEMMA TwoSets ==
  ASSUME NEW S, NEW T, IsFiniteSet(S), IsFiniteSet(T), S \cap T = {}
  PROVE  IsFiniteSet(S \cup T) /\ Cardinality(S \cup T) = Cardinality(S) + Cardinality(T)
<1>1. Cardinality(S \cap T) = 0
  BY FS_EmptySet
<1>2. Cardinality(S) \in Nat /\ Cardinality(T) \in Nat
  BY FS_CardinalityType
<1>3. Cardinality(S \cup T) = Cardinality(S) + Cardinality(T) - Cardinality(S \cap T)
  BY FS_Union
<1> QED BY <1>1, <1>2, <1>3, FS_Union

\* Whatever the handlers, the policy and the failures: every received item is
\* emitted, skipped, lost or in hand, in one of these ways only; a lost one is
\* paid for by a reported restart or the error at hand or at the end; and a
\* stage that reports success without being asked to stop has read its input.
THEOREM NoItemLostSilently == Spec => []NoSilentLoss
<1>1. StageInv => V!NoSilentLoss
  <2> SUFFICES ASSUME StageInv PROVE V!NoSilentLoss
    OBVIOUS
  <2>1. V!Cur \in Nat
    BY DEF StageInv, StageType, V!Cur
  <2>2. IsFiniteSet(1..V!Cur) /\ Cardinality(1..V!Cur) = V!Cur
    BY <2>1, FS_Interval
  <2>3. /\ IsFiniteSet(emitted) /\ IsFiniteSet(skipped)
        /\ IsFiniteSet(lost) /\ IsFiniteSet(V!InHand)
    BY <2>2, FS_Subset DEF StageInv, ItemInv
  <2>4. Cardinality(emitted) + Cardinality(skipped) + Cardinality(lost) + Cardinality(V!InHand) = V!Cur
    <3> DEFINE A == emitted \cup skipped
               B == A \cup lost
    <3>1. /\ emitted \cap skipped = {} /\ A \cap lost = {} /\ B \cap V!InHand = {}
          /\ B \cup V!InHand = 1..V!Cur
      BY DEF StageInv, ItemInv
    <3>2. IsFiniteSet(A) /\ Cardinality(A) = Cardinality(emitted) + Cardinality(skipped)
      BY <2>3, <3>1, TwoSets
    <3>3. IsFiniteSet(B) /\ Cardinality(B) = Cardinality(A) + Cardinality(lost)
      BY <2>3, <3>1, <3>2, TwoSets
    <3>4. Cardinality(B \cup V!InHand) = Cardinality(B) + Cardinality(V!InHand)
      BY <2>3, <3>1, <3>3, TwoSets
    <3> HIDE DEF A, B
    <3> QED BY <2>2, <3>1, <3>2, <3>3, <3>4
  <2>5. Cardinality(lost)
          <= reported + (IF pc # "failed" /\ ret \in {"running", "nil"} /\ cfg.onPanic # "skip" THEN 0 ELSE 1)
    <3>1. Cardinality(lost) \in Nat /\ reported \in Nat
      BY <2>3, FS_CardinalityType DEF StageInv, StageType
    <3> QED BY <3>1 DEF StageInv, LossInv
  <2> QED BY <2>4, <2>5, SameCount DEF StageInv, ItemInv, V!NoSilentLoss
<1>2. StageInv => V!ReadsAll
  BY DEF StageInv, StageType, LossInv, V!ReadsAll
<1>3. SuperviseInv => NoSilentLoss
  BY <1>1, <1>2 DEF SuperviseInv, NoSilentLoss
<1> QED BY <1>3, SuperviseInvHolds, PTL

\* Without a Window a stage is restarted at most MaxRestarts times, and in any
\* case it gives up on an error only when it has used its restarts since the
\* last quiet period.
THEOREM RestartsBudgeted == Spec => []RestartBudget
<1>1. SuperviseInv => RestartBudget
  BY DEF SuperviseInv, StageInv, WindowInv, RestartBudget, V!RestartBudget
<1> QED BY <1>1, SuperviseInvHolds, PTL

\* However a cancellation falls between a failure, the look at the context,
\* the restart and its pause, at most one more loop is begun and one more item
\* lost, and that loop's failure ends the stage with the context's error.
THEOREM CancelOutlivedOnce == Spec => []StopsOnCancel
<1>1. SuperviseInv => StopsOnCancel
  BY DEF SuperviseInv, StageInv, CancelInv, StopsOnCancel, V!StopsOnCancel
<1> QED BY <1>1, SuperviseInvHolds, PTL

-----------------------------------------------------------------------------
\* ExponentialBackoff never exceeds the cap; and it is at least the initial
\* delay unless the conversion to a Duration overflows.  (That the doubled
\* delay is an integer and at least the initial one is arithmetic of powers of
\* two, by an induction the provers lack.)
Powers == \A k \in 0..MaxFails : Initial * 2^k \in Int /\ Initial * 2^k >= Initial

LEMMA BackoffBounds ==
  ASSUME Powers, NEW k \in 0..MaxFails, NEW d \in V!Backoff(k)
  PROVE  d <= MaxDelay /\ (d >= Initial \/ Initial * 2^k >= 2^(Bits - 1))
<1> DEFINE x == Initial * 2^k
           top == 2^(Bits - 1)
<1>0. Initial \in Nat /\ Initial <= MaxDelay /\ MaxDelay \in Int /\ MaxDelay < top /\ top \in Int
  BY FailuresAssumption
<1>1. x \in Int /\ x >= Initial
  BY DEF Powers
<1>2. V!ToDuration(x) = IF x < top THEN {x} ELSE {-top, top - 1}
  BY DEF V!ToDuration
<1>3. PICK y \in V!ToDuration(x) : d = IF y > MaxDelay THEN MaxDelay ELSE y
  BY DEF V!Backoff
<1> HIDE DEF x, top
<1>4. y \in Int /\ d <= MaxDelay
  BY <1>0, <1>1, <1>2, <1>3
<1>5. d >= Initial \/ x >= top
  BY <1>0, <1>1, <1>2, <1>3
<1> QED BY <1>4, <1>5 DEF x, top

\* While a retry waits, its delay is at most the cap, and at least the initial
\* one until the doubling overflows, for any chain of handlers and any number
\* of retries.
THEOREM BackoffsBounded == ASSUME Powers PROVE Spec => []BackoffInRange
<1>1. Init => BackoffInRange
  BY DEF Init, BackoffInRange, V!BackoffInRange, V!Init
<1>2. SuperviseInv /\ BackoffInRange /\ [Next]_vars => BackoffInRange'
  <2> SUFFICES ASSUME SuperviseInv, BackoffInRange, [Next]_vars, which' = "stage", pc' = "backoff"
               PROVE  delay' <= MaxDelay /\ (delay' >= Initial \/ Initial * 2^(attempt') >= 2^(Bits - 1))
    BY DEF BackoffInRange, V!BackoffInRange
  <2>1. which = "stage" /\ [V!Next]_stageVars
    BY DEF Next, vars, stageVars, V!vars, onlyStage
  <2>2. CASE pc = "backoff" /\ delay' = delay /\ attempt' = attempt
    BY <2>1, <2>2 DEF BackoffInRange, V!BackoffInRange
  <2>3. ASSUME NEW x \in {"transient", "permanent"}, V!CallError(x)
        PROVE  delay' <= MaxDelay /\ (delay' >= Initial \/ Initial * 2^(attempt') >= 2^(Bits - 1))
    <3>1. attempt \in 0..MaxFails /\ attempt' = attempt
      BY <2>1, <2>3 DEF SuperviseInv, StageInv, StageType, V!CallError
    <3>2. delay' \in V!Backoff(attempt)
      BY <2>3 DEF V!CallError, V!Deliver, V!FailItem, V!Fail, V!End
    <3> QED BY <3>1, <3>2, BackoffBounds
  <2>4. ASSUME NEW x, NEW p \in BOOLEAN, V!Fail(x, p) PROVE FALSE
    BY <2>4 DEF V!Fail, V!End
  <2> QED
    BY <2>1, <2>2, <2>3, <2>4 DEF V!Next, V!Recv, V!RecvEnd, V!RecvCtxDone, V!CallOk, V!CallPanic,
       V!BackoffOver, V!BackoffCtxDone, V!Send, V!Restart, V!GiveUp, V!StartLoop, V!PauseOver,
       V!PauseCtxDone, V!Tick, V!ItemTimeout, V!Ask, V!Stopped, V!Deliver, V!FailItem, V!End,
       V!itemVars, V!vars, stageVars
<1> QED BY <1>1, <1>2, SuperviseInvHolds, PTL DEF Spec

-----------------------------------------------------------------------------
(***************************************************************************)
(* Effects.                                                                *)
(***************************************************************************)
effectVars == E!vars
How == {"none", "dry", "dup", "fail", "ok"}
Out == Nat \X How
Effect == [pc : {"recv", "try", "call", "wait", "send", "end"}, item : Nat, tries : Nat, how : How]
Stats == [ok : Nat, fail : Nat, dup : Nat]
Capture == [pc : {"recv", "send", "save", "write", "end"}, item : Out \cup {<< >>}, buf : Seq(Out),
            took : Seq(Out)]

\* The types of the Effect's own variables and of those around it.
EffectType ==
  /\ policy \in Policies /\ run \in 1..MaxRuns /\ kind \in {"live", "replay"} /\ next \in Nat \ {0}
  /\ e \in Effect
  /\ stats \in Stats
  /\ outs \in [1..MaxRuns -> Seq(Out)]
StreamType ==
  /\ ch \in Seq(Out) /\ cch \in Seq(Out) /\ got \in Seq(Out)
  /\ cap \in Capture
  /\ cap.pc = "send" => cap.item \in Out
  /\ snap \in [how : {"none", "torn", "ok"}, items : Seq(Out)]
  /\ late \subseteq (1..MaxRuns) \X Seq(Out)

-----------------------------------------------------------------------------
\* Every step keeps the types of the Effect.
LEMMA EffectTypeStep ==
  ASSUME EffectType, [E!Next]_effectVars
  PROVE  EffectType'
<1> USE DEF EffectType
<1>1. CASE UNCHANGED <<policy, run, kind, next, e, stats, outs>>
  BY <1>1
<1>2. ASSUME NEW l \in {"recv", "try", "call", "wait", "send", "end"}, NEW i \in Nat, NEW n \in Nat, NEW how \in How, E!At(l, i, n, how)
      PROVE  e' \in Effect
  BY <1>2 DEF E!At, Effect
<1>3. ASSUME NEW h \in {"ok", "fail", "dup"}, E!Counts(h)
      PROVE  stats' \in Stats
  BY <1>3 DEF E!Counts, Stats
<1>6. e.item \in Nat /\ e.tries \in Nat /\ e.tries + 1 \in Nat /\ e.how \in How
  BY DEF Effect
<1>4. CASE E!Receive
  <2>1. next' \in Nat \ {0} /\ UNCHANGED <<policy, run, kind, outs>>
    BY <1>4 DEF E!Receive, E!eRest
  <2>2. e' \in Effect
    BY <1>2, <1>4 DEF How, E!Receive
  <2>3. stats' \in Stats
    BY <1>3, <1>4 DEF E!Receive
  <2> QED BY <2>1, <2>2, <2>3
<1>5. CASE E!Attempt \/ E!Return \/ E!Backoff
  <2>1. UNCHANGED <<policy, run, kind, next, outs>>
    BY <1>5 DEF E!Attempt, E!Return, E!Backoff, E!eRest
  <2>2. e' \in Effect
    BY <1>2, <1>6, <1>5 DEF How, E!Attempt, E!Return, E!Backoff, E!Outcome
  <2>3. stats' \in Stats
    BY <1>3, <1>5 DEF E!Attempt, E!Return, E!Backoff, E!Outcome
  <2> QED BY <2>1, <2>2, <2>3
<1>7. CASE E!Send
  <2>1. <<e.item, e.how>> \in Out
    BY <1>6 DEF Out
  <2>2. outs' \in [1..MaxRuns -> Seq(Out)]
    BY <1>7, <2>1 DEF E!Send
  <2>3. e' \in Effect
    BY <1>7 DEF E!Send, E!Idle, Effect, How
  <2> QED BY <1>7, <2>2, <2>3 DEF E!Send, E!eRest
<1>8. CASE E!EffectEnds
  <2>1. e' \in Effect
    BY <1>8 DEF E!EffectEnds, E!Idle, Effect, How
  <2> QED BY <1>8, <2>1 DEF E!EffectEnds, E!eRest
<1>9. CASE E!ReplaySends \/ E!ReplayFails
  BY <1>9 DEF E!ReplaySends, E!ReplayFails, E!ReplayOn, E!repRest
<1>10. CASE E!NextRun
  <2>1. run' \in 1..MaxRuns
    BY <1>10, EffectsAssumption DEF E!NextRun
  <2>2. e' \in Effect
    BY <1>10 DEF E!NextRun, E!Idle, Effect, How
  <2>3. stats' \in Stats
    BY <1>10 DEF E!NextRun, E!NoStats, Stats
  <2> QED BY <1>10, <2>1, <2>2, <2>3 DEF E!NextRun, E!Begins
<1> QED
  BY <1>1, <1>4, <1>5, <1>7, <1>8, <1>9, <1>10
     DEF E!Next, E!CaptureTakes, E!CaptureSends, E!CaptureEnds, E!Save, E!Write, E!LateSave, E!Consume,
         E!ConsumerEnds, E!RunReturns, E!Crash, E!Done, E!cRest, E!rRest, E!vars, effectVars

\* What is left of a sequence of outcomes is one.
LEMMA ThinnedType ==
  ASSUME NEW q \in Seq(Out), NEW t \in E!Thinned(q)
  PROVE  t \in Seq(Out) /\ E!Thins(t, q)
<1>1. PICK k \in 0..Len(q) : t \in [1..k -> E!ToSet(q)]
  BY DEF E!Thinned
<1>2. E!ToSet(q) \subseteq Out
  BY DEF E!ToSet
<1>3. t \in [1..k -> Out] /\ k \in Nat
  BY <1>1, <1>2
<1> QED BY <1>3 DEF E!Thinned

\* Every step keeps the types of the channels, the capture and the snapshots.
LEMMA StreamTypeStep ==
  ASSUME EffectType, StreamType, [E!Next]_effectVars
  PROVE  StreamType'
<1> USE DEF StreamType
<1>1. CASE UNCHANGED <<ch, cch, got, cap, snap, late>>
  BY <1>1
<1>2. CASE E!Send
  <2>1. <<e.item, e.how>> \in Out
    BY DEF EffectType, Effect, Out
  <2> QED BY <1>2, <2>1 DEF E!Send, E!eRest
<1>3. CASE E!CaptureTakes
  <2>1. Head(ch) \in Out /\ ch' \in Seq(Out) /\ cap.buf \in Seq(Out) /\ cap.took \in Seq(Out)
    BY <1>3 DEF E!CaptureTakes, Capture
  <2>2. cap' \in Capture /\ cap'.item \in Out
    <3>1. PICK b \in {cap.buf, Append(cap.buf, Head(ch))} :
            cap' = [pc |-> "send", item |-> Head(ch), buf |-> b, took |-> Append(cap.took, Head(ch))]
      BY <1>3 DEF E!CaptureTakes
    <3>2. \A q \in Seq(Out), x \in Out : Append(q, x) \in Seq(Out)
      OBVIOUS
    <3>3. b \in Seq(Out) /\ Append(cap.took, Head(ch)) \in Seq(Out)
      BY <2>1, <3>1, <3>2
    <3> DEFINE q == Append(cap.took, Head(ch))
    <3> HIDE DEF q
    <3>4. cap'.item = Head(ch)
      BY <3>1
    <3> QED BY <2>1, <3>1, <3>3, <3>4 DEF Capture, q
  <2> QED BY <1>3, <2>1, <2>2 DEF E!CaptureTakes, E!cRest
<1>4. ASSUME NEW l \in {"recv", "save", "write", "end"}, cap' = [cap EXCEPT !.pc = l],
             UNCHANGED <<ch, got, late>>, cch' \in Seq(Out),
             snap' \in [how : {"none", "torn", "ok"}, items : Seq(Out)]
      PROVE  StreamType'
  <2>1. cap' \in Capture /\ cap'.pc # "send"
    BY <1>4 DEF Capture
  <2> QED BY <1>4, <2>1
<1>11. CASE E!CaptureSends
  <2>1. cap.item \in Out
    BY <1>11 DEF E!CaptureSends
  <2> QED BY <1>4, <1>11, <2>1 DEF E!CaptureSends, E!cRest
<1>12. CASE E!CaptureEnds
  BY <1>4, <1>12 DEF E!CaptureEnds, E!cRest
<1>13. CASE E!Save
  <2>1. snap' \in [how : {"none", "torn", "ok"}, items : Seq(Out)]
    <3>1. snap' = snap \/ snap' = [how |-> "torn", items |-> << >>]
      BY <1>13 DEF E!Save
    <3>2. [how |-> "torn", items |-> << >>] \in [how : {"none", "torn", "ok"}, items : Seq(Out)]
      OBVIOUS
    <3> QED BY <3>1, <3>2
  <2> QED BY <1>4, <1>13, <2>1 DEF E!Save, E!cRest
<1>14. CASE E!Write
  <2>1. cap.buf \in Seq(Out)
    BY DEF Capture
  <2> QED BY <1>4, <1>14, <2>1 DEF E!Write, E!Saved, E!cRest
<1>5. CASE E!LateSave
  <2>1. PICK x \in late : snap' = [how |-> "ok", items |-> x[2]] /\ late' = late \ {x}
    BY <1>5 DEF E!LateSave, E!Saved
  <2>2. x[2] \in Seq(Out)
    OBVIOUS
  <2> QED BY <1>5, <2>1, <2>2 DEF E!LateSave, E!cRest
<1>6. CASE E!ReplaySends \/ E!ReplayFails
  <2>1. CASE E!ReplaySends
    <3>1. next \in 1..Len(cap.buf) /\ cap.buf \in Seq(Out)
      BY <2>1 DEF E!ReplaySends, E!ReplayOn, EffectType, Capture
    <3> QED BY <2>1, <3>1 DEF E!ReplaySends, E!repRest
  <2>2. CASE E!ReplayFails
    <3>1. snap' \in [how : {"none", "torn", "ok"}, items : Seq(Out)]
      BY <2>2 DEF E!ReplayFails, E!repRest
    <3> QED BY <1>4, <2>2, <3>1 DEF E!ReplayFails, E!repRest
  <2> QED BY <1>6, <2>1, <2>2
<1>7. CASE E!Consume
  <2>1. E!Final \in Seq(Out) /\ E!Final # << >>
    BY <1>7 DEF E!Consume, E!Final
  <2>2. got' \in Seq(Out)
    BY <1>7, <2>1 DEF E!Consume
  <2>3. ch' \in Seq(Out) /\ cch' \in Seq(Out)
    <3>1. CASE policy.seg
      <4>1. cch # << >> /\ cch' = Tail(cch) /\ UNCHANGED ch
        BY <1>7, <3>1 DEF E!Consume, E!Final
      <4> QED BY <4>1
    <3>2. CASE ~policy.seg
      <4>1. ch # << >> /\ ch' = Tail(ch) /\ UNCHANGED cch
        BY <1>7, <3>2 DEF E!Consume, E!Final
      <4> QED BY <4>1
    <3> QED BY <3>1, <3>2
  <2> QED BY <1>7, <2>2, <2>3 DEF E!Consume, E!rRest
<1>8. CASE E!RunReturns
  <2>1. ASSUME NEW x \in E!Pending PROVE x \in (1..MaxRuns) \X Seq(Out)
    <3>1. PICK t \in E!Thinned(ch) : x = <<run, cap.buf \o t>>
      BY <2>1 DEF E!Pending
    <3>2. t \in Seq(Out)
      BY <3>1, ThinnedType
    <3> DEFINE b == cap.buf
    <3>3. b \in Seq(Out) /\ run \in 1..MaxRuns /\ x = <<run, b \o t>>
      BY <3>1 DEF EffectType, Capture
    <3> HIDE DEF b
    <3>4. b \o t \in Seq(Out)
      BY <3>2, <3>3
    <3> QED BY <3>3, <3>4
  <2>2. late' \subseteq late \cup E!Pending
    BY <1>8 DEF E!RunReturns
  <2>3. UNCHANGED <<ch, cch, got, cap, snap>>
    BY <1>8 DEF E!RunReturns
  <2> HIDE DEF E!Pending
  <2> QED BY <2>1, <2>2, <2>3
<1>9. CASE E!NextRun
  <2>1. snap.items \in Seq(Out)
    OBVIOUS
  <2>2. cap' \in Capture /\ cap'.pc # "send"
    <3> DEFINE b == IF E!Begins = "replay" THEN snap.items ELSE << >>
    <3>1. b \in Seq(Out)
      BY <2>1
    <3>2. cap' = [pc |-> "recv", item |-> << >>, buf |-> b, took |-> << >>]
      BY <1>9 DEF E!NextRun, E!NoCapture
    <3> HIDE DEF b
    <3> QED BY <3>1, <3>2 DEF Capture
  <2> QED BY <1>9, <2>2 DEF E!NextRun
<1>10. CASE E!Crash
  BY <1>10 DEF E!Crash
<1> QED
  BY <1>1, <1>2, <1>3, <1>5, <1>6, <1>7, <1>8, <1>9, <1>10, <1>11, <1>12, <1>13, <1>14
     DEF E!Next, E!Receive, E!Attempt, E!Return, E!Backoff, E!EffectEnds, E!ConsumerEnds, E!Done,
         E!eRest, E!rRest, E!vars, effectVars

-----------------------------------------------------------------------------
\* Episodes a and b are for the same key, in the scope of one store.
Same(a, b) == E!HasKey(a[2]) /\ KeyOf(a[2]) = KeyOf(b[2]) /\ (policy.idem = "run" => a[1] = b[1])

\* The store holds the claimed keys of its scope and no others; only an item
\* that claimed its key is attempted; what was reported has its reason.
ClaimInv ==
  /\ \A x \in claims \cup episodes : x = <<x[1], x[2]>> /\ x[1] \in 1..run
  /\ \A x \in claims : x[2] \in Nat /\ (x[1] = run /\ kind = "live" => x[2] < next)
  /\ policy.idem # "none" =>
       /\ \A x \in claims :
            E!HasKey(x[2]) /\ (policy.idem = "run" => x[1] = run) => KeyOf(x[2]) \in seen
       /\ \A key \in seen : \E x \in claims :
            E!HasKey(x[2]) /\ KeyOf(x[2]) = key /\ (policy.idem = "run" => x[1] = run)
       /\ \A a, b \in claims : Same(a, b) => a = b
       /\ \A x \in episodes : E!HasKey(x[2]) => x \in claims
Reasoned(r, i, how) ==
  /\ how = "ok" => <<r, i>> \in episodes
  /\ how = "dup" => \E x \in claims : x # <<r, i>> /\ x[1] <= r /\ Same(x, <<r, i>>)
SentInv ==
  policy.idem # "none" =>
    \A r \in 1..MaxRuns : \A n \in 1..Len(outs[r]) : Reasoned(r, outs[r][n][1], outs[r][n][2])
\* The item in hand has its key, and what is about to be sent its reason.
HandInv ==
  policy.idem # "none" =>
    /\ e.pc \in {"try", "call", "wait"} /\ E!HasKey(e.item) => <<run, e.item>> \in claims
    /\ e.pc = "call" => <<run, e.item>> \in episodes
    /\ e.pc = "send" => Reasoned(run, e.item, e.how)
KeyInv == ClaimInv /\ SentInv /\ HandInv

\* Claims and attempts add reasons.
LEMMA ReasonKept ==
  ASSUME claims \subseteq claims', episodes \subseteq episodes', UNCHANGED policy,
         NEW r, NEW i, NEW how, Reasoned(r, i, how)
  PROVE  Reasoned(r, i, how)'
  BY DEF Reasoned, Same, E!HasKey
LEMMA SentKept ==
  ASSUME SentInv, claims \subseteq claims', episodes \subseteq episodes', UNCHANGED <<policy, outs>>
  PROVE  SentInv'
  BY ReasonKept DEF SentInv
LEMMA ClaimKept ==
  ASSUME ClaimInv, UNCHANGED <<policy, run, claims, episodes, seen>>, kind' = kind \/ kind' # "live",
         next' = next \/ kind' # "live" \/ (next \in Nat /\ next' = next + 1)
  PROVE  ClaimInv'
  BY DEF ClaimInv, Same, E!HasKey

\* Every step keeps the store in agreement with the claims and the attempts.
LEMMA KeyStep ==
  ASSUME EffectType, KeyInv, [E!Next]_effectVars
  PROVE  KeyInv'
<1> USE DEF KeyInv
<1>0. next \in Nat /\ run \in 1..MaxRuns /\ run \in 1..run /\ MaxRuns \in Nat
  BY EffectsAssumption DEF EffectType
<1>1. CASE UNCHANGED <<policy, run, kind, next, e, claims, episodes, seen, outs>>
  BY <1>1, ClaimKept, SentKept DEF HandInv, Reasoned, Same, E!HasKey
<1>2. CASE E!Receive
  <2>1. UNCHANGED <<policy, run, kind, outs, episodes>> /\ next' = next + 1 /\ kind = "live"
    BY <1>2 DEF E!Receive, E!eRest, E!Live
  <2>2. CASE /\ UNCHANGED <<seen, claims>>
             /\ \/ E!At("send", next, 0, "dry") \/ E!At("send", next, 0, "fail")
                \/ E!At("try", next, 0, "none") /\ ~E!HasKey(next)
    <3>1. HandInv'
      BY <2>1, <2>2 DEF HandInv, E!At, E!HasKey, Reasoned
    <3> QED BY <1>0, <2>1, <2>2, <3>1, ClaimKept, SentKept
  <2>3. CASE /\ UNCHANGED <<seen, claims>> /\ E!At("send", next, 0, "dup")
             /\ E!HasKey(next) /\ KeyOf(next) \in seen
    <3>1. policy.idem # "none" /\ e'.pc = "send" /\ e'.item = next /\ e'.how = "dup"
      BY <2>3 DEF E!At, E!HasKey
    <3>2. PICK x \in claims : E!HasKey(x[2]) /\ KeyOf(x[2]) = KeyOf(next) /\ (policy.idem = "run" => x[1] = run)
      BY <2>3, <3>1 DEF ClaimInv
    <3>3. x # <<run, next>> /\ x[1] <= run
      <4>1. x[1] \in 1..run /\ x[2] \in Nat /\ (x[1] = run => x[2] < next)
        BY <2>1 DEF ClaimInv
      <4> QED BY <1>0, <4>1
    <3>4. Reasoned(run, next, "dup")
      BY <3>2, <3>3 DEF Reasoned, Same
    <3>5. HandInv'
      BY <2>1, <2>3, <3>1, <3>4 DEF HandInv, Reasoned, Same, E!HasKey
    <3> QED BY <1>0, <2>1, <2>3, <3>5, ClaimKept, SentKept
  <2>4. CASE /\ E!HasKey(next) /\ KeyOf(next) \notin seen /\ E!Add(KeyOf(next)) /\ E!Claims(next)
             /\ E!At("try", next, 0, "none") \/ E!At("send", next, 0, "fail")
    <3> DEFINE x == <<run, next>>
    <3>1. /\ x[1] = run /\ x[2] = next /\ claims' = claims \cup {x} /\ seen' = seen \cup {KeyOf(next)}
          /\ policy.idem # "none"
      BY <2>4 DEF E!Claims, E!Add, E!HasKey
    <3>2. \A i : E!HasKey(i)' <=> E!HasKey(i)
      BY <2>1 DEF E!HasKey
    <3>3. \A a \in claims : ~Same(a, x) /\ ~Same(x, a)
      BY <2>4, <3>1 DEF ClaimInv, Same, E!HasKey
    <3>4. \A a, b : Same(a, b)' <=> Same(a, b)
      BY <2>1 DEF Same, E!HasKey
    <3>6. \A y \in claims' \cup episodes' : y = <<y[1], y[2]>> /\ y[1] \in 1..run
      BY <1>0, <2>1, <3>1 DEF ClaimInv
    <3>5. \A y \in claims' : y[2] \in Nat /\ (y[1] = run => y[2] < next')
      <4>1. \A y \in claims : y[2] \in Nat /\ (y[1] = run => y[2] < next)
        BY <2>1 DEF ClaimInv
      <4> QED BY <1>0, <2>1, <3>1, <4>1
    <3>7. ASSUME NEW y \in claims', E!HasKey(y[2]), policy.idem = "run" => y[1] = run
          PROVE  KeyOf(y[2]) \in seen'
      <4>1. CASE y = x
        BY <3>1, <4>1
      <4>2. CASE y \in claims
        BY <3>1, <3>7, <4>2 DEF ClaimInv
      <4> QED BY <3>1, <4>1, <4>2
    <3>8. ASSUME NEW key \in seen'
           PROVE  \E y \in claims' :
                    E!HasKey(y[2]) /\ KeyOf(y[2]) = key /\ (policy.idem = "run" => y[1] = run)
      <4>1. CASE key = KeyOf(next)
        BY <2>4, <3>1, <4>1
      <4>2. CASE key \in seen
        BY <3>1, <4>2 DEF ClaimInv
      <4> QED BY <3>1, <4>1, <4>2
    <3>9. \A a, b \in claims' : Same(a, b) => a = b
      BY <3>1, <3>3 DEF ClaimInv
    <3>10. \A y \in episodes' : E!HasKey(y[2]) => y \in claims'
      BY <2>1, <3>1 DEF ClaimInv
    <3>11. ClaimInv'
      BY <2>1, <3>1, <3>2, <3>4, <3>5, <3>6, <3>7, <3>8, <3>9, <3>10 DEF ClaimInv
    <3>12. HandInv'
      BY <2>1, <2>4, <3>1 DEF HandInv, E!At, Reasoned
    <3>13. SentInv'
      BY <2>1, <3>1, SentKept
    <3> QED BY <3>11, <3>12, <3>13
  <2> QED BY <1>2, <2>2, <2>3, <2>4 DEF E!Receive
<1>3. CASE E!Attempt
  <2>1. UNCHANGED <<policy, run, kind, next, claims, seen, outs>> /\ e.pc = "try"
    BY <1>3 DEF E!Attempt, E!eRest
  <2>2. CASE E!Outcome("fail") /\ UNCHANGED episodes
    <3>1. HandInv'
      BY <2>2 DEF HandInv, E!Outcome, E!At, Reasoned
    <3> QED BY <2>1, <2>2, <3>1, ClaimKept, SentKept
  <2>3. CASE E!At("call", e.item, e.tries, "none") /\ episodes' = episodes \cup {<<run, e.item>>}
    <3>1. e'.pc = "call" /\ e'.item = e.item
      BY <2>3 DEF E!At
    <3>2. HandInv'
      BY <2>1, <2>3, <3>1 DEF HandInv, E!HasKey
    <3>3. policy.idem # "none" /\ E!HasKey(e.item) => <<run, e.item>> \in claims
      BY <2>1 DEF HandInv
    <3>4. ClaimInv'
      BY <1>0, <2>1, <2>3, <3>3 DEF ClaimInv, Same, E!HasKey
    <3>5. SentInv'
      BY <2>1, <2>3, SentKept
    <3> QED BY <3>2, <3>4, <3>5
  <2> QED BY <1>3, <2>2, <2>3 DEF E!Attempt
<1>7. CASE E!Return \/ E!Backoff
  <2>1. UNCHANGED <<policy, run, kind, next, claims, episodes, seen, outs>>
    BY <1>7 DEF E!Return, E!Backoff, E!eRest
  <2>2. /\ e'.item = e.item /\ e.pc \in {"call", "wait"} /\ e'.pc \in {"send", "wait", "try"}
        /\ e'.pc = "send" => e'.how = "fail" \/ (e'.how = "ok" /\ e.pc = "call")
    BY <1>7 DEF E!Return, E!Backoff, E!Outcome, E!At
  <2>3. HandInv'
    BY <2>1, <2>2 DEF HandInv, Reasoned, E!HasKey
  <2> QED BY <2>1, <2>3, ClaimKept, SentKept
<1>4. CASE E!Send
  <2>1. /\ UNCHANGED <<policy, run, kind, next, claims, episodes, seen>> /\ e'.pc = "recv" /\ e.pc = "send"
        /\ outs' = [outs EXCEPT ![run] = Append(outs[run], <<e.item, e.how>>)]
    BY <1>4 DEF E!Send, E!Idle, E!eRest
  <2>2. ASSUME policy.idem # "none", NEW r \in 1..MaxRuns, NEW n \in 1..Len(outs'[r])
        PROVE  Reasoned(r, outs'[r][n][1], outs'[r][n][2])
    <3>1. CASE r = run /\ n = Len(outs[r]) + 1
      <4>1. outs'[r][n] = <<e.item, e.how>>
        BY <2>1, <3>1 DEF EffectType
      <4> QED BY <2>1, <2>2, <3>1, <4>1 DEF HandInv
    <3>2. CASE ~(r = run /\ n = Len(outs[r]) + 1)
      <4>1. n \in 1..Len(outs[r]) /\ outs'[r][n] = outs[r][n]
        BY <2>1, <3>2 DEF EffectType
      <4> QED BY <2>2, <4>1 DEF SentInv
    <3> QED BY <3>1, <3>2
  <2>3. SentInv'
    BY <2>1, <2>2 DEF SentInv, Reasoned, Same, E!HasKey
  <2>4. HandInv'
    BY <2>1 DEF HandInv
  <2> QED BY <2>1, <2>3, <2>4, ClaimKept
<1>5. CASE E!EffectEnds
  <2>1. e'.pc = "end" /\ UNCHANGED <<policy, run, kind, next, claims, episodes, seen, outs>>
    BY <1>5 DEF E!EffectEnds, E!Idle, E!eRest
  <2>2. HandInv'
    BY <2>1 DEF HandInv
  <2> QED BY <2>1, <2>2, ClaimKept, SentKept
<1>6. CASE E!NextRun
  <2>1. /\ run' = run + 1 /\ e'.pc = "recv" /\ UNCHANGED <<policy, claims, episodes, outs>>
        /\ seen' = IF policy.idem = "store" THEN seen ELSE {}
    BY <1>6 DEF E!NextRun, E!Idle
  <2>2. run \in Nat /\ policy.idem \in {"none", "run", "store"}
    BY EffectsAssumption DEF EffectType
  <2>3. \A x \in claims \cup episodes : x[1] \in 1..run' /\ x[1] # run'
    BY <2>1, <2>2 DEF ClaimInv
  <2>4. ClaimInv'
    BY <2>1, <2>2, <2>3 DEF ClaimInv, Same, E!HasKey
  <2>5. HandInv'
    BY <2>1 DEF HandInv
  <2>6. SentInv'
    BY <2>1, SentKept
  <2> QED BY <2>4, <2>5, <2>6
<1>8. CASE E!ReplaySends
  <2>1. UNCHANGED <<policy, run, kind, e, claims, episodes, seen, outs>> /\ kind = "replay"
    BY <1>8 DEF E!ReplaySends, E!repRest, E!ReplayOn
  <2>2. HandInv'
    BY <2>1 DEF HandInv, Reasoned, Same, E!HasKey
  <2> QED BY <2>1, <2>2, ClaimKept, SentKept
<1> QED
  BY <1>1, <1>2, <1>3, <1>4, <1>5, <1>6, <1>7, <1>8
     DEF E!Next, E!CaptureTakes, E!CaptureSends, E!CaptureEnds, E!Save, E!Write, E!LateSave,
         E!ReplayFails, E!repRest, E!Consume, E!ConsumerEnds, E!RunReturns, E!Crash, E!Done, E!cRest, E!rRest,
         E!vars, effectVars

-----------------------------------------------------------------------------
Pre(s, t) == Len(s) <= Len(t) /\ \A n \in 1..Len(s) : s[n] = t[n]
\* What s holds was sent in one of the runs of R, in this order.
SentIn(s, R) == \E r \in R : r \in 1..MaxRuns /\ E!Thins(s, outs[r])

\* A live segment's goroutine has taken what it sent, or it is on its way; it
\* has captured what it has taken, less what could not be marshalled.
LiveInv ==
  /\ \A r \in 1..MaxRuns : r > run => outs[r] = << >>
  /\ policy.seg /\ kind = "live" =>
       /\ cap.took \o ch = outs[run]
       /\ E!Thins(cap.buf, cap.took)
       /\ consumer = "done" => cap.pc = "end"

\* Snapshots, saved or still to be saved, were sent in a run, and as long as
\* a run is on, or if its consumer has received all, in an earlier one.
SnapInv ==
  /\ snap.how = "ok" => SentIn(snap.items, 1..run)
  /\ \A s \in late : /\ s[1] \in 1..run /\ E!Thins(s[2], outs[s[1]])
                     /\ phase = "on" \/ consumer = "done" => s[1] # run

\* A replay hands on the snapshot it has read, from its beginning.
ReplayInv ==
  /\ ctx \in BOOLEAN /\ (ctx => consumer = "discarding")
  /\ kind = "replay" =>
       /\ policy.seg /\ e.pc = "recv" /\ outs[run] = << >> /\ SentIn(cap.buf, 1..(run - 1))
       /\ cap.pc \in {"recv", "end"} /\ next - 1 <= Len(cap.buf) /\ Pre(got, cap.buf)
       /\ consumer = "reading" => got \o cch = SubSeq(cap.buf, 1, next - 1)
       /\ consumer = "done" /\ cap.pc # "end" => got = cap.buf

\* The two ways to say prefix agree.
LEMMA PreIsPrefix ==
  ASSUME NEW s \in Seq(Out), NEW t \in Seq(Out)
  PROVE  Pre(s, t) <=> E!IsPrefix(s, t)
  BY DEF Pre, E!IsPrefix

\* Taking one more item in hand.
LEMMA JoinTaken ==
  ASSUME NEW S, NEW r \in Seq(S), NEW x \in S
  PROVE  r \o << >> = r /\ r \o <<x>> = Append(r, x)
  OBVIOUS

\* Receiving moves the boundary between what was received and what is on its
\* way.
LEMMA JoinMoves ==
  ASSUME NEW S, NEW r \in Seq(S), NEW q \in Seq(S), q # << >>
  PROVE  Append(r, Head(q)) \o Tail(q) = r \o q
  OBVIOUS

\* Everything may be left in, or out.
LEMMA ThinSelf ==
  ASSUME NEW s \in Seq(Out)
  PROVE  E!Thins(s, s) /\ E!Thins(<< >>, s)
<1>1. E!Thins(s, s)
  <2> DEFINE f == [n \in 1..Len(s) |-> n]
  <2>1. f \in [1..Len(s) -> 1..Len(s)]
    OBVIOUS
  <2>2. \A n \in 1..Len(s) : f[n] = n
    OBVIOUS
  <2> HIDE DEF f
  <2> QED BY <2>1, <2>2 DEF E!Thins
<1>2. E!Thins(<< >>, s)
  <2> DEFINE f == [n \in 1..Len(<< >>) |-> n]
  <2>1. Len(<< >>) = 0 /\ 1..0 = {}
    OBVIOUS
  <2>2. f \in [1..Len(<< >>) -> 1..Len(s)]
    BY <2>1
  <2> HIDE DEF f
  <2> QED BY <2>1, <2>2 DEF E!Thins
<1> QED BY <1>1, <1>2

\* The elements of two sequences one after the other.
LEMMA JoinElements ==
  ASSUME NEW s \in Seq(Out), NEW t \in Seq(Out)
  PROVE  /\ Len(s \o t) = Len(s) + Len(t) /\ Len(s) \in Nat /\ Len(t) \in Nat
         /\ \A n \in 1..Len(s) : (s \o t)[n] = s[n]
         /\ \A n \in 1..Len(t) : (s \o t)[Len(s) + n] = t[n]
  OBVIOUS

\* Parts may be thinned one by one.
LEMMA ThinJoin ==
  ASSUME NEW s \in Seq(Out), NEW q \in Seq(Out), NEW t \in Seq(Out), NEW u \in Seq(Out),
         E!Thins(s, q), E!Thins(t, u)
  PROVE  E!Thins(s \o t, q \o u)
<1> DEFINE x == s \o t
           y == q \o u
           a == Len(s)
           b == Len(t)
           c == Len(q)
           d == Len(u)
<1>1. /\ Len(x) = a + b /\ a \in Nat /\ b \in Nat
      /\ \A n \in 1..a : x[n] = s[n]
      /\ \A n \in 1..b : x[a + n] = t[n]
  BY JoinElements
<1>2. /\ Len(y) = c + d /\ c \in Nat /\ d \in Nat
      /\ \A n \in 1..c : y[n] = q[n]
      /\ \A n \in 1..d : y[c + n] = u[n]
  BY JoinElements
<1>3. PICK f \in [1..a -> 1..c] :
        (\A m, n \in 1..a : m < n => f[m] < f[n]) /\ (\A n \in 1..a : s[n] = q[f[n]])
  BY DEF E!Thins
<1>4. PICK g \in [1..b -> 1..d] :
        (\A m, n \in 1..b : m < n => g[m] < g[n]) /\ (\A n \in 1..b : t[n] = u[g[n]])
  BY DEF E!Thins
<1>0. a \in Nat /\ b \in Nat /\ c \in Nat /\ d \in Nat
  BY <1>1, <1>2
<1> HIDE DEF x, y, a, b, c, d
<1> DEFINE h == [n \in 1..(a + b) |-> IF n <= a THEN f[n] ELSE c + g[n - a]]
<1>5. ASSUME NEW n \in 1..a
      PROVE  n \in 1..(a + b) /\ h[n] = f[n] /\ f[n] \in 1..c /\ x[n] = y[h[n]]
  <2>1. n \in 1..(a + b) /\ h[n] = f[n] /\ f[n] \in 1..c
    BY <1>1
  <2> HIDE DEF h
  <2> QED BY <1>1, <1>2, <1>3, <2>1
<1>6. ASSUME NEW n \in 1..b
      PROVE  a + n \in 1..(a + b) /\ h[a + n] = c + g[n] /\ g[n] \in 1..d /\ x[a + n] = y[h[a + n]]
  <2>1. n \in Nat /\ n >= 1 /\ n <= b
    BY <1>0
  <2>2. a + n \in 1..(a + b) /\ ~(a + n <= a) /\ (a + n) - a = n
    BY <1>0, <2>1
  <2>3. h[a + n] = c + g[n] /\ g[n] \in 1..d
    BY <2>2
  <2> HIDE DEF h
  <2>4. x[a + n] = t[n] /\ t[n] = u[g[n]]
    BY <1>1, <1>4
  <2>5. y[c + g[n]] = u[g[n]]
    BY <1>2, <2>3
  <2> QED BY <2>2, <2>3, <2>4, <2>5
<1>7. ASSUME NEW n \in 1..(a + b) PROVE n \in 1..a \/ \E m \in 1..b : n = a + m
  <2>1. CASE n > a
    <3>1. n - a \in 1..b /\ n = a + (n - a)
      BY <1>1, <2>1
    <3> QED BY <3>1
  <2> QED BY <1>1, <2>1
<1>8. h = [n \in 1..(a + b) |-> h[n]]
  OBVIOUS
<1> HIDE DEF h
<1>9. ASSUME NEW n \in 1..(a + b) PROVE h[n] \in 1..(c + d) /\ x[n] = y[h[n]]
  <2>1. CASE n \in 1..a
    <3>1. h[n] \in 1..c
      BY <1>5, <2>1
    <3> QED BY <1>2, <1>5, <2>1, <3>1
  <2>2. ASSUME NEW m \in 1..b, n = a + m PROVE h[n] \in 1..(c + d) /\ x[n] = y[h[n]]
    <3>1. g[m] \in 1..d /\ h[n] = c + g[m]
      BY <1>6, <2>2
    <3> QED BY <1>2, <1>6, <2>2, <3>1
  <2> QED BY <1>7, <2>1, <2>2
<1>10. ASSUME NEW m \in 1..(a + b), NEW n \in 1..(a + b), m < n PROVE h[m] < h[n]
  <2>1. CASE m \in 1..a /\ n \in 1..a
    BY <1>3, <1>5, <1>10, <2>1
  <2>2. ASSUME NEW i \in 1..b, n = a + i, m \in 1..a PROVE h[m] < h[n]
    <3>1. h[m] \in 1..c /\ g[i] \in 1..d /\ h[n] = c + g[i]
      BY <1>5, <1>6, <2>2
    <3>2. \A k \in 1..c, l \in 1..d : k < c + l
      BY <1>0
    <3> QED BY <3>1, <3>2
  <2>3. ASSUME NEW i \in 1..b, NEW j \in 1..b, m = a + i, n = a + j PROVE h[m] < h[n]
    <3>1. i < j
      <4>1. i \in Int /\ j \in Int /\ a + i < a + j
        BY <1>0, <1>10, <2>3
      <4> QED BY <1>0, <4>1
    <3>2. g[i] < g[j] /\ g[i] \in 1..d /\ g[j] \in 1..d
      BY <1>4, <3>1
    <3> QED BY <1>2, <1>6, <2>3, <3>2
  <2>4. ~(m \notin 1..a /\ n \in 1..a)
    BY <1>1, <1>10
  <2> QED BY <1>7, <2>1, <2>2, <2>3, <2>4
<1>11. h \in [1..Len(x) -> 1..Len(y)]
  BY <1>1, <1>2, <1>8, <1>9
<1>12. (\A m, n \in 1..Len(x) : m < n => h[m] < h[n]) /\ \A n \in 1..Len(x) : x[n] = y[h[n]]
  BY <1>1, <1>9, <1>10
<1>13. E!Thins(x, y)
  BY <1>11, <1>12 DEF E!Thins
<1> QED BY <1>13 DEF x, y

\* One more element may be left out or in.
LEMMA ThinAppend ==
  ASSUME NEW s \in Seq(Out), NEW q \in Seq(Out), NEW x \in Out, E!Thins(s, q)
  PROVE  E!Thins(s, Append(q, x)) /\ E!Thins(Append(s, x), Append(q, x))
<1>1. <<x>> \in Seq(Out) /\ << >> \in Seq(Out)
  OBVIOUS
<1>2. E!Thins(<<x>>, <<x>>) /\ E!Thins(<< >>, <<x>>)
  BY <1>1, ThinSelf
<1>3. s \o << >> = s /\ s \o <<x>> = Append(s, x) /\ q \o <<x>> = Append(q, x)
  BY JoinTaken
<1>4. E!Thins(s \o << >>, q \o <<x>>) /\ E!Thins(s \o <<x>>, q \o <<x>>)
  BY <1>1, <1>2, ThinJoin
<1> QED BY <1>3, <1>4

\* What was sent in a run stays sent.
LEMMA SentStays ==
  ASSUME EffectType, NEW s \in Seq(Out), NEW r \in 1..MaxRuns, E!Thins(s, outs[r]),
         NEW x \in Out, outs' = [outs EXCEPT ![run] = Append(outs[run], x)]
  PROVE  E!Thins(s, outs'[r])
<1>1. outs[r] \in Seq(Out) /\ run \in 1..MaxRuns
  BY DEF EffectType
<1>2. outs'[r] = outs[r] \/ outs'[r] = Append(outs[r], x)
  BY <1>1 DEF EffectType
<1>3. E!Thins(s, Append(outs[r], x))
  BY <1>1, ThinAppend
<1> QED BY <1>2, <1>3

\* Sending appends to the whole of what was captured and what is on its way.
LEMMA JoinAppend ==
  ASSUME NEW S, NEW r \in Seq(S), NEW q \in Seq(S), NEW x \in S
  PROVE  r \o Append(q, x) = Append(r \o q, x)
  OBVIOUS

\* Every step keeps what is captured in agreement with what was sent.
LEMMA LiveStep ==
  ASSUME EffectType, StreamType, LiveInv, [E!Next]_effectVars
  PROVE  LiveInv'
<1> USE DEF LiveInv
<1>1. CASE UNCHANGED <<outs, run, policy, kind, cap, ch, consumer>>
  BY <1>1
<1>2. CASE E!Send
  <2>1. <<e.item, e.how>> \in Out /\ cap.took \in Seq(Out)
    BY DEF EffectType, StreamType, Effect, Capture, Out
  <2>2. cap.took \o Append(ch, <<e.item, e.how>>) = Append(cap.took \o ch, <<e.item, e.how>>)
    <3> DEFINE x == <<e.item, e.how>>
               b == cap.took
    <3>1. x \in Out /\ ch \in Seq(Out) /\ b \in Seq(Out)
      BY <2>1 DEF StreamType
    <3> HIDE DEF x, b
    <3>2. b \o Append(ch, x) = Append(b \o ch, x)
      BY <3>1, JoinAppend
    <3> QED BY <3>2 DEF x, b
  <2>3. /\ outs'[run] = Append(outs[run], <<e.item, e.how>>)
        /\ \A r \in 1..MaxRuns : r > run => outs'[r] = outs[r]
    BY <1>2 DEF EffectType, E!Send
  <2> QED BY <1>2, <2>2, <2>3 DEF E!Send, E!eRest
<1>3. CASE E!CaptureTakes
  <2> DEFINE t == cap.took
             x == Head(ch)
  <2>1. PICK b \in {cap.buf, Append(cap.buf, x)} :
          cap' = [pc |-> "send", item |-> x, buf |-> b, took |-> Append(t, x)]
    BY <1>3 DEF E!CaptureTakes
  <2>2. /\ UNCHANGED <<outs, run, policy, kind, consumer>> /\ cap.pc = "recv" /\ policy.seg /\ kind = "live"
        /\ ch # << >> /\ ch' = Tail(ch) /\ cap'.buf = b /\ cap'.took = Append(t, x)
    BY <1>3, <2>1 DEF E!CaptureTakes, E!cRest, E!Captures, E!Live
  <2>3. cap.buf \in Seq(Out) /\ t \in Seq(Out) /\ ch \in Seq(Out)
    BY DEF StreamType, Capture
  <2>4. x \in Out
    BY <2>2, <2>3
  <2>5. E!Thins(b, Append(t, x))
    BY <2>1, <2>2, <2>3, <2>4, ThinAppend
  <2>6. t \o ch = outs[run] /\ consumer # "done"
    BY <2>2
  <2> HIDE DEF t
  <2>7. Append(t, x) \o Tail(ch) = t \o ch
    BY <2>2, <2>3, JoinMoves
  <2> HIDE DEF x
  <2> QED BY <2>2, <2>5, <2>6, <2>7
<1>4. CASE E!CaptureSends \/ E!CaptureEnds \/ E!Save \/ E!Write
  <2>1. cap'.buf = cap.buf /\ cap'.took = cap.took /\ cap.pc # "end"
    BY <1>4 DEF E!CaptureSends, E!CaptureEnds, E!Save, E!Write, StreamType, Capture
  <2> QED BY <1>4, <2>1 DEF E!CaptureSends, E!CaptureEnds, E!Save, E!Write, E!cRest
<1>5. CASE E!Consume
  BY <1>5 DEF E!Consume, E!rRest
<1>6. CASE E!ConsumerEnds
  <2>1. consumer' = "done" => E!FinalClosed /\ E!Running
    BY <1>6 DEF E!ConsumerEnds
  <2>2. policy.seg /\ kind = "live" /\ E!Running => E!Captures
    BY DEF E!Captures, E!Live
  <2>3. E!Captures => (E!FinalClosed <=> cap.pc = "end")
    BY DEF E!FinalClosed, E!Captures, E!Live
  <2> QED BY <1>6, <2>1, <2>2, <2>3 DEF E!ConsumerEnds, E!rRest
<1>7. CASE E!NextRun
  <2>1. run' = run + 1 /\ ch' = << >> /\ consumer' # "done" /\ UNCHANGED <<outs, policy>>
    BY <1>7 DEF E!NextRun
  <2>2. cap'.took = << >> /\ (kind' = "live" => cap'.buf = << >>)
    BY <1>7 DEF E!NextRun, E!NoCapture
  <2>4. E!Thins(<< >>, << >>)
    <3>1. << >> \in Seq(Out)
      OBVIOUS
    <3> QED BY <3>1, ThinSelf
  <2>3. << >> \o << >> = << >> /\ run + 1 > run /\ run + 1 \in 1..MaxRuns
    BY <1>7, EffectsAssumption DEF EffectType, E!NextRun
  <2> QED BY <2>1, <2>2, <2>3, <2>4 DEF EffectType
<1> QED
  BY <1>1, <1>2, <1>3, <1>4, <1>5, <1>6, <1>7
     DEF E!Next, E!Receive, E!Attempt, E!Return, E!Backoff, E!EffectEnds, E!LateSave, E!ReplaySends, E!ReplayFails, E!ReplayOn, E!repRest,
         E!RunReturns, E!Crash, E!Done, E!eRest, E!cRest, E!vars, effectVars

\* Every step keeps the snapshots to what was sent: a goroutine that outlives
\* its run saves what that run sent, a Write what it has captured.
LEMMA SnapStep ==
  ASSUME EffectType, StreamType, LiveInv, SnapInv, ReplayInv, [E!Next]_effectVars
  PROVE  SnapInv'
<1>0. run \in 1..MaxRuns /\ MaxRuns \in Nat /\ run \in 1..run
  BY EffectsAssumption DEF EffectType
\* What is captured and part of what is on its way was sent in this run.
<1>a. ASSUME E!Captures, NEW t \in Seq(Out), E!Thins(t, ch)
      PROVE  cap.buf \in Seq(Out) /\ E!Thins(cap.buf \o t, outs[run])
  <2> DEFINE b == cap.buf
             q == cap.took
  <2>1. q \o ch = outs[run] /\ b \in Seq(Out) /\ q \in Seq(Out) /\ ch \in Seq(Out) /\ E!Thins(b, q)
    BY <1>a DEF LiveInv, StreamType, Capture, E!Captures, E!Live
  <2> HIDE DEF b, q
  <2>2. E!Thins(b \o t, q \o ch)
    BY <1>a, <2>1, ThinJoin
  <2> QED BY <2>1, <2>2 DEF b
<1>b. E!Captures => SentIn(cap.buf, 1..run)
  <2> SUFFICES ASSUME E!Captures PROVE SentIn(cap.buf, 1..run)
    OBVIOUS
  <2>1. << >> \in Seq(Out) /\ E!Thins(<< >>, ch)
    BY ThinSelf DEF StreamType
  <2> DEFINE b == cap.buf
  <2>2. b \in Seq(Out) /\ E!Thins(b \o << >>, outs[run])
    BY <1>a, <2>1
  <2> HIDE DEF b
  <2>3. b \o << >> = b
    BY <2>2
  <2> QED BY <1>0, <2>2, <2>3 DEF SentIn, b
<1>1. CASE UNCHANGED <<snap, late, outs, run, phase, consumer>>
  BY <1>1 DEF SnapInv, SentIn
<1>2. CASE E!Send
  <2> DEFINE x == <<e.item, e.how>>
  <2>1. UNCHANGED <<snap, late, run, phase, consumer>> /\ outs' = [outs EXCEPT ![run] = Append(outs[run], x)]
    BY <1>2 DEF E!Send, E!eRest
  <2>2. x \in Out
    BY DEF EffectType, Effect, Out
  <2> HIDE DEF x
  <2>3. ASSUME NEW s \in Seq(Out), NEW r \in 1..MaxRuns, E!Thins(s, outs[r]) PROVE E!Thins(s, outs'[r])
    BY <2>1, <2>2, <2>3, SentStays
  <2>4. snap.items \in Seq(Out) /\ \A s \in late : s[2] \in Seq(Out) /\ s[1] \in 1..MaxRuns
    BY DEF StreamType
  <2> QED BY <2>1, <2>3, <2>4 DEF SnapInv, SentIn
<1>3. CASE E!Save
  <2>1. UNCHANGED <<late, outs, run, phase, consumer>> /\ (snap' = snap \/ snap'.how = "torn")
    BY <1>3 DEF E!Save, E!cRest
  <2> QED BY <2>1 DEF SnapInv, SentIn
<1>4. CASE E!Write
  <2>1. UNCHANGED <<late, outs, run, phase, consumer>> /\ snap'.items = cap.buf /\ E!Captures
    BY <1>4 DEF E!Write, E!Saved, E!cRest
  <2> QED BY <1>b, <2>1 DEF SnapInv, SentIn
<1>5. CASE E!LateSave
  <2>1. PICK s \in late : snap'.items = s[2] /\ late' = late \ {s} /\ UNCHANGED <<outs, run, phase, consumer>>
    BY <1>5 DEF E!LateSave, E!Saved, E!cRest
  <2>2. s[1] \in 1..run /\ s[1] \in 1..MaxRuns /\ E!Thins(s[2], outs[s[1]])
    BY <2>1 DEF SnapInv, StreamType
  <2>3. SentIn(snap.items, 1..run)'
    BY <2>1, <2>2 DEF SentIn
  <2> QED BY <2>1, <2>3 DEF SnapInv
<1>6. CASE E!ConsumerEnds
  <2>1. phase = "on" /\ UNCHANGED <<snap, late, outs, run, phase>>
    BY <1>6 DEF E!ConsumerEnds, E!Running, E!rRest
  <2> QED BY <2>1 DEF SnapInv, SentIn
<1>7. CASE E!RunReturns
  <2>1. phase = "on" /\ phase' # "on" /\ UNCHANGED <<snap, outs, run, consumer>> /\ late' \subseteq late \cup E!Pending
    <3>1. ctx \in BOOLEAN /\ stats.fail \in Nat
      BY DEF ReplayInv, EffectType, Stats
    <3> HIDE DEF E!Pending
    <3> QED BY <1>7, <3>1 DEF E!RunReturns, E!Running
  <2>2. ASSUME NEW s \in E!Pending PROVE s[1] = run /\ E!Thins(s[2], outs[run]) /\ consumer # "done"
    <3>1. E!Captures /\ cap.pc # "end"
      BY <2>2 DEF E!Pending
    <3>2. PICK t \in E!Thinned(ch) : s = <<run, cap.buf \o t>>
      BY <2>2 DEF E!Pending
    <3>3. t \in Seq(Out) /\ E!Thins(t, ch)
      BY ThinnedType DEF StreamType
    <3>4. E!Thins(cap.buf \o t, outs[run])
      BY <1>a, <3>1, <3>3
    <3>5. consumer # "done"
      BY <3>1 DEF LiveInv, E!Captures, E!Live
    <3>6. s[1] = run /\ s[2] = cap.buf \o t
      BY <3>2
    <3> QED BY <3>4, <3>5, <3>6
  <2> HIDE DEF E!Pending
  <2>3. snap.how = "ok" => SentIn(snap.items, 1..run)'
    BY <2>1 DEF SnapInv, SentIn
  <2>4. ASSUME NEW s \in late'
        PROVE  s[1] \in 1..run /\ E!Thins(s[2], outs[s[1]]) /\ (consumer = "done" => s[1] # run)
    <3>1. CASE s \in late
      BY <3>1 DEF SnapInv
    <3>2. CASE s \in E!Pending
      BY <1>0, <2>2, <3>2
    <3> QED BY <2>1, <3>1, <3>2
  <2> QED BY <2>1, <2>3, <2>4 DEF SnapInv
<1>8. CASE E!Crash
  BY <1>8 DEF E!Crash, SnapInv, SentIn
<1>9. CASE E!NextRun
  <2>1. run' = run + 1 /\ phase' = "on" /\ UNCHANGED <<snap, late, outs>>
    BY <1>9 DEF E!NextRun
  <2>2. \A r \in 1..run : r \in 1..run' /\ r # run'
    BY <1>0, <2>1
  <2> QED BY <2>1, <2>2 DEF SnapInv, SentIn
<1> QED
  BY <1>1, <1>2, <1>3, <1>4, <1>5, <1>6, <1>7, <1>8, <1>9
     DEF E!Next, E!Receive, E!Attempt, E!Return, E!Backoff, E!EffectEnds, E!CaptureTakes, E!CaptureSends,
         E!CaptureEnds, E!ReplaySends, E!ReplayFails, E!repRest, E!Consume, E!Done, E!eRest, E!cRest, E!rRest,
         E!vars, effectVars

\* A prefix of a prefix is a prefix.
LEMMA PreTrans ==
  ASSUME NEW s \in Seq(Out), NEW t \in Seq(Out), NEW u \in Seq(Out), Pre(s, t), Pre(t, u)
  PROVE  Pre(s, u)
  BY DEF Pre

\* Every step keeps a replay to the snapshot it has read.
LEMMA ReplayStep ==
  ASSUME EffectType, StreamType, LiveInv, SnapInv, ReplayInv, [E!Next]_effectVars
  PROVE  ReplayInv'
<1>0. next \in Nat \ {0} /\ cap.buf \in Seq(Out) /\ got \in Seq(Out) /\ cch \in Seq(Out)
  BY DEF EffectType, StreamType, Capture
<1>1. CASE UNCHANGED <<outs, run, policy, kind, cap, consumer, ctx, e, next, got, cch>>
  BY <1>1 DEF ReplayInv, SentIn
<1>2. CASE /\ UNCHANGED <<ctx, consumer, run, kind, policy>> /\ kind = "live"
  BY <1>2 DEF ReplayInv
<1>7. CASE E!ReplayFails
  <2>1. /\ cap'.pc = "end" /\ cap'.buf = cap.buf
        /\ UNCHANGED <<outs, run, policy, kind, consumer, ctx, e, next, got, cch>>
    BY <1>7 DEF E!ReplayFails, E!repRest, StreamType, Capture
  <2> QED BY <2>1 DEF ReplayInv, SentIn
<1>3. CASE E!ReplaySends
  <2>1. /\ next <= Len(cap.buf) /\ cch' = Append(cch, cap.buf[next]) /\ next' = next + 1
        /\ UNCHANGED <<outs, run, policy, kind, cap, consumer, ctx, e, got>> /\ kind = "replay"
    BY <1>3 DEF E!ReplaySends, E!ReplayOn, E!repRest
  <2>4. consumer = "done" /\ cap.pc # "end" => got = cap.buf
    BY <2>1 DEF ReplayInv
  <2>2. ASSUME consumer = "reading" PROVE got \o cch' = SubSeq(cap.buf, 1, next)
    <3> DEFINE b == cap.buf
    <3>1. /\ b \in Seq(Out) /\ next <= Len(b) /\ cch' = Append(cch, b[next])
          /\ got \o cch = SubSeq(b, 1, next - 1)
      BY <1>0, <2>1, <2>2 DEF ReplayInv
    <3> HIDE DEF b
    <3>2. b[next] \in Out /\ SubSeq(b, 1, next - 1) \in Seq(Out)
      BY <1>0, <3>1
    <3>3. Append(SubSeq(b, 1, next - 1), b[next]) = SubSeq(b, 1, next)
      BY <1>0, <3>1, <3>2
    <3>4. got \o Append(cch, b[next]) = Append(got \o cch, b[next])
      BY <1>0, <3>2, JoinAppend
    <3> QED BY <3>1, <3>3, <3>4 DEF b
  <2>3. next' - 1 = next
    BY <1>0, <2>1
  <2> QED BY <1>0, <2>1, <2>2, <2>3, <2>4 DEF ReplayInv, SentIn
<1>4. CASE E!Consume
  <2>1. UNCHANGED <<outs, run, policy, kind, cap, consumer, ctx, e, next>>
    BY <1>4 DEF E!Consume, E!rRest
  <2>2. CASE kind = "replay" /\ consumer = "reading"
    <3>1. cch # << >> /\ cch' = Tail(cch) /\ got' = Append(got, Head(cch))
      BY <1>4, <2>2 DEF E!Consume, E!Final, ReplayInv
    <3>2. got' \o cch' = got \o cch
      BY <1>0, <3>1, JoinMoves
    <3>3. got' \o cch' = SubSeq(cap.buf, 1, next - 1)
      BY <2>2, <3>2 DEF ReplayInv
    <3>4. got' \in Seq(Out) /\ cch' \in Seq(Out)
      BY <1>0, <3>1
    <3>5. Pre(got', cap.buf)
      <4> DEFINE b == cap.buf
      <4>1. /\ got' \o cch' = SubSeq(b, 1, next - 1) /\ next - 1 <= Len(b) /\ b \in Seq(Out)
        BY <1>0, <2>2, <3>3 DEF ReplayInv
      <4> HIDE DEF b
      <4>2. Pre(got', got' \o cch')
        BY <3>4 DEF Pre
      <4>3. Pre(SubSeq(b, 1, next - 1), b)
        BY <1>0, <4>1 DEF Pre
      <4>4. SubSeq(b, 1, next - 1) \in Seq(Out)
        BY <1>0, <4>1
      <4>5. Pre(got', b)
        BY <3>4, <4>1, <4>2, <4>3, <4>4, PreTrans
      <4> QED BY <4>5 DEF b
    <3> QED BY <2>1, <2>2, <3>3, <3>5 DEF ReplayInv, SentIn
  <2>3. CASE consumer # "reading"
    <3>1. got' = got
      BY <1>4, <2>3 DEF E!Consume
    <3> QED BY <2>1, <2>3, <3>1 DEF ReplayInv, SentIn
  <2> QED BY <1>2, <2>1, <2>2, <2>3 DEF EffectType
<1>5. CASE E!ConsumerEnds
  <2>1. UNCHANGED <<outs, run, policy, kind, cap, e, next, got, cch>> /\ consumer = "reading" /\ consumer' # "reading"
    BY <1>5 DEF E!ConsumerEnds, E!rRest
  <2>2. ctx = FALSE /\ ctx' \in BOOLEAN /\ (ctx' => consumer' = "discarding")
    <3>1. ctx \in BOOLEAN /\ ~ctx
      BY <2>1 DEF ReplayInv
    <3>2. UNCHANGED ctx \/ (ctx' = TRUE /\ consumer' = "discarding")
      BY <1>5 DEF E!ConsumerEnds
    <3>3. ctx = FALSE
      BY <3>1, Zenon
    <3>4. CASE UNCHANGED ctx
      BY <3>3, <3>4
    <3>5. CASE ctx' = TRUE /\ consumer' = "discarding"
      BY <3>3, <3>5
    <3> QED BY <3>2, <3>4, <3>5
  <2>3. ASSUME kind = "replay", consumer' = "done", cap.pc # "end" PROVE got = cap.buf
    <3>1. E!FinalClosed /\ cch = << >>
      BY <1>5, <2>3 DEF E!ConsumerEnds, E!Final, ReplayInv
    <3>6. ~E!ReplayOn /\ cap.pc = "recv"
      BY <2>3, <3>1 DEF E!FinalClosed, E!Captures, E!Live, ReplayInv
    <3>7. Len(cap.buf) \in Nat
      BY <1>0
    <3>2. next > Len(cap.buf)
      BY <1>0, <2>2, <2>3, <3>6, <3>7 DEF E!ReplayOn
    <3>3. next - 1 = Len(cap.buf) /\ got \o << >> = SubSeq(cap.buf, 1, next - 1)
      BY <1>0, <2>1, <2>3, <3>1, <3>2 DEF ReplayInv
    <3> DEFINE b == cap.buf
    <3>4. b \in Seq(Out) /\ got \o << >> = SubSeq(b, 1, Len(b))
      BY <1>0, <3>3
    <3> HIDE DEF b
    <3>5. got = b
      BY <1>0, <3>4
    <3> QED BY <3>5 DEF b
  <2> QED BY <2>1, <2>2, <2>3 DEF ReplayInv, SentIn
<1>6. CASE E!NextRun
  <2>1. /\ run' = run + 1 /\ kind' = E!Begins /\ next' = 1 /\ e'.pc = "recv" /\ cch' = << >> /\ got' = << >>
        /\ consumer' = "reading" /\ ctx' = FALSE /\ UNCHANGED <<policy, snap, outs>> /\ cap'.pc = "recv"
    BY <1>6 DEF E!NextRun, E!Idle, E!NoCapture
  <2>2. run \in Nat /\ run + 1 \in 1..MaxRuns
    BY <1>6, EffectsAssumption DEF EffectType, E!NextRun
  <2>3. ASSUME kind' = "replay" PROVE policy.seg /\ cap'.buf = snap.items /\ SentIn(cap.buf, 1..(run - 1))'
    <3>1. policy.seg /\ snap.how = "ok" /\ E!Begins = "replay"
      BY <2>1, <2>3 DEF E!Begins
    <3>2. cap'.buf = snap.items
      BY <1>6, <3>1 DEF E!NextRun, E!NoCapture
    <3>3. SentIn(snap.items, 1..run)
      BY <3>1 DEF SnapInv
    <3>4. run' - 1 = run
      BY <2>1, <2>2
    <3> QED BY <2>1, <3>1, <3>2, <3>3, <3>4 DEF SentIn
  <2>4. outs[run + 1] = << >>
    BY <2>2 DEF LiveInv
  <2>5. ASSUME NEW b \in Seq(Out)
        PROVE  << >> \o << >> = SubSeq(b, 1, 0) /\ Pre(<< >>, b) /\ 0 <= Len(b)
    BY DEF Pre
  <2>6. snap.items \in Seq(Out) /\ 1 - 1 = 0
    BY DEF StreamType
  <2> QED BY <2>1, <2>2, <2>3, <2>4, <2>5, <2>6 DEF ReplayInv, SentIn
<1> QED
  BY <1>1, <1>2, <1>3, <1>4, <1>5, <1>6, <1>7
     DEF E!Next, E!Receive, E!Attempt, E!Return, E!Backoff, E!Send, E!EffectEnds, E!CaptureTakes, E!CaptureSends,
         E!CaptureEnds, E!Save, E!Write, E!LateSave, E!RunReturns, E!Crash, E!Done, E!Live, E!Captures,
         E!eRest, E!cRest, E!vars, effectVars

-----------------------------------------------------------------------------
\* The number of outcomes h in q.
Tally(q, h) == Cardinality({n \in 1..Len(q) : q[n][2] = h})
Counters == {"ok", "fail", "dup"}

\* Effects counts with the same operator as the facts about finite sets.
LEMMA SameTally == ASSUME NEW h PROVE E!SentAs(h) = Tally(outs[run], h)
  BY DEF E!SentAs, E!Cardinality, Cardinality, Tally

\* There are finitely many of each kind.
LEMMA TallyType ==
  ASSUME NEW q \in Seq(Out), NEW h
  PROVE  IsFiniteSet({n \in 1..Len(q) : q[n][2] = h}) /\ Tally(q, h) \in Nat
<1>1. IsFiniteSet(1..Len(q))
  BY FS_Interval
<1>2. IsFiniteSet({n \in 1..Len(q) : q[n][2] = h})
  BY <1>1, FS_Subset
<1> QED BY <1>2, FS_CardinalityType DEF Tally

\* Sending one outcome adds one to the number of its kind.
LEMMA TallyAppend ==
  ASSUME NEW q \in Seq(Out), NEW x \in Out, NEW h
  PROVE  Tally(Append(q, x), h) = Tally(q, h) + (IF x[2] = h THEN 1 ELSE 0)
<1> DEFINE S == {n \in 1..Len(q) : q[n][2] = h}
           T == {n \in 1..Len(Append(q, x)) : Append(q, x)[n][2] = h}
<1>1. Len(q) \in Nat
  OBVIOUS
<1>2. IsFiniteSet(S) /\ Cardinality(S) \in Nat
  BY TallyType, FS_CardinalityType
<1>3. T = IF x[2] = h THEN S \cup {Len(q) + 1} ELSE S
  <2>1. 1..Len(Append(q, x)) = 1..Len(q) \cup {Len(q) + 1} /\ Append(q, x)[Len(q) + 1] = x
        /\ \A n \in 1..Len(q) : Append(q, x)[n] = q[n]
    BY <1>1
  <2> QED BY <2>1
<1>4. Len(q) + 1 \notin S
  BY <1>1
<1>5. Cardinality(S \cup {Len(q) + 1}) = Cardinality(S) + 1
  BY <1>2, <1>4, FS_AddElement
<1>6. Tally(q, h) = Cardinality(S) /\ Tally(Append(q, x), h) = Cardinality(T)
  BY DEF Tally
<1> HIDE DEF S, T
<1> QED BY <1>2, <1>3, <1>5, <1>6

\* None has been sent yet; and a kind of which none has been sent is not there.
LEMMA TallyNone == ASSUME NEW h PROVE Tally(<< >>, h) = 0
  BY FS_EmptySet DEF Tally
LEMMA TallyZero ==
  ASSUME NEW q \in Seq(Out), NEW h, Tally(q, h) = 0, NEW n \in 1..Len(q)
  PROVE  q[n][2] # h
<1>1. {m \in 1..Len(q) : q[m][2] = h} = {}
  BY TallyType, FS_EmptySet DEF Tally
<1> QED BY <1>1

\* What is counted is what was sent or is about to be, of every kind; what is
\* reported as applied took place; a success has counted no failure.
CountInv ==
  /\ \A r \in 1..MaxRuns : \A n \in 1..Len(outs[r]) : outs[r][n][2] = "ok" => outs[r][n][1] \in did
  /\ policy.dry => episodes = {} /\ e.pc \notin {"try", "call", "wait"}
  /\ e.pc = "send" => e.how # "none" /\ (e.how = "ok" => e.item \in did)
  /\ kind = "live" =>
       /\ \A h \in Counters :
            IF e.pc = "end" THEN Tally(outs[run], h) <= stats[h]
            ELSE stats[h] = Tally(outs[run], h) + (IF e.pc = "send" /\ e.how = h THEN 1 ELSE 0)
       /\ Len(outs[run]) = Tally(outs[run], "dry") + Tally(outs[run], "ok")
                             + Tally(outs[run], "fail") + Tally(outs[run], "dup")
       /\ phase = "success" => stats.fail = 0

\* Unless it is cut short, a live run sends an outcome for each item it has
\* taken, up to the end of its input, and its consumer gets all of them.
Carried == IF cap.pc = "send" THEN <<cap.item>> ELSE << >>
WholeInv ==
  kind = "live" =>
    /\ e.pc # "end" => Len(outs[run]) = next - 1 - (IF e.pc = "recv" THEN 0 ELSE 1) /\ next <= policy.len + 1
    /\ e.pc = "end" /\ ~ctx /\ consumer \in {"reading", "done"} => Len(outs[run]) = policy.len
    /\ consumer = "done" => e.pc = "end"
    /\ ~policy.seg =>
         /\ consumer = "reading" => got \o ch = outs[run]
         /\ consumer = "done" => got = outs[run]
    /\ policy.seg =>
         /\ cap.pc \in {"save", "write", "end"} => e.pc = "end" /\ ch = << >>
         /\ consumer = "reading" => (got \o cch) \o Carried = cap.took
         /\ consumer = "done" => got = cap.took

\* A step that sends and counts nothing.
LEMMA CountKept ==
  ASSUME CountInv, UNCHANGED <<outs, run, policy, kind, stats>>, did \subseteq did',
         policy.dry => UNCHANGED episodes, e'.pc \in {"try", "call", "wait"} => e.pc \in {"try", "call", "wait"},
         phase' = "success" => phase = "success" \/ kind = "replay" \/ stats.fail = 0,
         IF e'.pc = "send" THEN e.pc = "send" /\ e'.how = e.how /\ e'.item = e.item
         ELSE e.pc # "send" /\ (e'.pc = "end" <=> e.pc = "end")
  PROVE  CountInv'
<1> USE DEF CountInv
<1>1. \A r \in 1..MaxRuns : \A n \in 1..Len(outs[r]) : outs[r][n][2] = "ok" => outs[r][n][1] \in did'
  OBVIOUS
<1>2. \A h : Tally(outs[run], h)' = Tally(outs[run], h)
  BY DEF Tally
<1> QED BY <1>1, <1>2

\* An outcome is counted when it is decided.
LEMMA CountDecided ==
  ASSUME EffectType, CountInv, UNCHANGED <<outs, run, policy, kind, phase>>,
         NEW i, NEW h \in Counters, E!At("send", i, 0, h), E!Counts(h), e.pc \notin {"send", "end"},
         did \subseteq did', h = "ok" => i \in did', policy.dry => episodes' = {}, phase # "success"
  PROVE  CountInv'
<1>1. e'.pc = "send" /\ e'.how = h /\ e'.item = i
  BY DEF E!At
<1>2. stats' = [stats EXCEPT ![h] = stats[h] + 1] /\ stats \in Stats
  BY DEF E!Counts, EffectType
<1>3. stats'[h] = stats[h] + 1 /\ \A g \in Counters \ {h} : stats'[g] = stats[g]
  BY <1>2 DEF Stats, Counters
<1>4. \A g \in Counters : stats[g] \in Nat
  BY <1>2 DEF Stats, Counters
<1>5. \A g : Tally(outs[run], g)' = Tally(outs[run], g) /\ Tally(outs[run], g) \in Nat
  BY ZenonT(40), TallyType DEF Tally, EffectType
<1>6. ASSUME kind' = "live", NEW g \in Counters
      PROVE  stats'[g] = Tally(outs[run], g)' + (IF e'.pc = "send" /\ e'.how = g THEN 1 ELSE 0)
  <2>1. stats[g] = Tally(outs[run], g) + 0
    BY <1>6 DEF CountInv
  <2>2. CASE g = h
    BY <1>1, <1>3, <1>4, <1>5, <2>1, <2>2
  <2>3. CASE g # h
    BY <1>1, <1>3, <1>4, <1>5, <2>1, <2>3
  <2> QED BY <2>2, <2>3
<1> QED BY <1>1, <1>5, <1>6 DEF CountInv, Counters

\* Every step keeps the counters in agreement with what was sent.
LEMMA CountStep ==
  ASSUME EffectType, LiveInv, CountInv, [E!Next]_effectVars
  PROVE  CountInv'
<1>1. CASE UNCHANGED <<outs, run, policy, episodes, kind, stats, did, phase, e>>
  BY <1>1, CountKept
<1>2. CASE E!Receive
  <2>0. /\ UNCHANGED <<outs, run, policy, kind, phase, did, episodes>>
        /\ e.pc = "recv" /\ phase = "on" /\ kind = "live"
    BY <1>2 DEF E!Receive, E!eRest, E!Live, E!Running
  <2>1. CASE policy.dry /\ E!At("send", next, 0, "dry") /\ UNCHANGED <<seen, stats>>
    <3>1. e'.pc = "send" /\ e'.how = "dry"
      BY <2>1 DEF E!At
    <3>2. \A h : Tally(outs[run], h)' = Tally(outs[run], h)
      BY <2>0 DEF Tally
    <3> QED BY <2>0, <2>1, <3>1, <3>2 DEF CountInv, Counters
  <2>2. CASE ~policy.dry /\ E!At("try", next, 0, "none") /\ UNCHANGED stats
    <3>1. e'.pc = "try"
      BY <2>2 DEF E!At
    <3>2. \A h : Tally(outs[run], h)' = Tally(outs[run], h)
      BY <2>0 DEF Tally
    <3> QED BY <2>0, <2>2, <3>1, <3>2 DEF CountInv, Counters
  <2>3. CASE E!At("send", next, 0, "dup") /\ E!Counts("dup")
    BY <2>0, <2>3, CountDecided DEF Counters, CountInv
  <2>4. CASE E!At("send", next, 0, "fail") /\ E!Counts("fail")
    BY <2>0, <2>4, CountDecided DEF Counters, CountInv
  <2> QED BY <1>2, <2>1, <2>2, <2>3, <2>4 DEF E!Receive
<1>3. CASE E!Attempt
  <2>0. /\ UNCHANGED <<outs, run, policy, kind, phase>> /\ e.pc = "try" /\ phase = "on"
        /\ did \subseteq did' /\ ~policy.dry
    BY <1>3 DEF E!Attempt, E!eRest, E!Live, E!Running, CountInv
  <2>1. CASE E!Outcome("fail") /\ UNCHANGED episodes
    BY <2>0, <2>1, CountDecided DEF Counters, E!Outcome
  <2>2. CASE E!At("call", e.item, e.tries, "none") /\ UNCHANGED stats
    <3>1. e'.pc = "call"
      BY <2>2 DEF E!At
    <3> QED BY <2>0, <2>2, <3>1, CountKept
  <2> QED BY <1>3, <2>1, <2>2 DEF E!Attempt
<1>10. CASE E!Return \/ E!Backoff
  <2>0. /\ UNCHANGED <<outs, run, policy, kind, phase, episodes, did>> /\ e.pc \in {"call", "wait"}
        /\ phase = "on" /\ ~policy.dry
    BY <1>10 DEF E!Return, E!Backoff, E!eRest, E!Live, E!Running, CountInv
  <2>1. CASE E!Outcome("fail")
    BY <2>0, <2>1, CountDecided DEF Counters, E!Outcome
  <2>2. CASE E!Outcome("ok") /\ e.item \in did
    BY <2>0, <2>2, CountDecided DEF Counters, E!Outcome
  <2>3. CASE UNCHANGED stats /\ e'.pc \in {"try", "wait"}
    BY <2>0, <2>3, CountKept
  <2> QED BY <1>10, <2>1, <2>2, <2>3 DEF E!Return, E!Backoff, E!At
<1>4. CASE E!Send
  <2> DEFINE x == <<e.item, e.how>>
             q == outs[run]
  <2>1. /\ UNCHANGED <<run, policy, kind, phase, did, episodes, stats>> /\ phase = "on" /\ kind = "live"
        /\ e.pc = "send" /\ e' = E!Idle /\ outs' = [outs EXCEPT ![run] = Append(q, x)]
    BY <1>4 DEF E!Send, E!eRest, E!Live, E!Running
  <2>2. q \in Seq(Out) /\ x \in Out /\ run \in 1..MaxRuns /\ x[1] = e.item /\ x[2] = e.how /\ e.how \in How
    BY DEF EffectType, Effect, Out
  <2>3. outs'[run] = Append(q, x) /\ \A r \in 1..MaxRuns \ {run} : outs'[r] = outs[r]
    BY <2>1, <2>2 DEF EffectType
  <2>4. e.how # "none" /\ (e.how = "ok" => e.item \in did)
    BY <2>1 DEF CountInv
  <2> HIDE DEF x, q
  <2>5. \A h : /\ Tally(q, h) \in Nat
               /\ Tally(outs[run], h)' = Tally(q, h) + (IF e.how = h THEN 1 ELSE 0)
    <3>1. \A h : Tally(outs[run], h)' = Tally(outs'[run], h)
      BY <2>1 DEF Tally
    <3>2. \A h : Tally(q, h) \in Nat
      BY <2>2, TallyType
    <3>3. \A h : Tally(Append(q, x), h) = Tally(q, h) + (IF x[2] = h THEN 1 ELSE 0)
      BY <2>2, TallyAppend
    <3> QED BY <2>2, <2>3, <3>1, <3>2, <3>3
  <2>6. Len(outs[run])' = Len(q) + 1 /\ Len(q) \in Nat
    BY <2>1, <2>2, <2>3
  <2>7. ASSUME NEW r \in 1..MaxRuns, NEW n \in 1..Len(outs'[r]), outs'[r][n][2] = "ok"
        PROVE  outs'[r][n][1] \in did
    <3>1. CASE r = run
      <4>1. (n \in 1..Len(q) /\ outs'[r][n] = q[n]) \/ outs'[r][n] = x
        BY <2>2, <2>3, <3>1
      <4> QED BY <2>2, <2>4, <2>7, <3>1, <4>1 DEF CountInv, q
    <3>2. CASE r # run
      BY <2>3, <2>7, <3>2 DEF CountInv
    <3> QED BY <3>1, <3>2
  <2>8. e'.pc = "recv"
    BY <2>1 DEF E!Idle
  <2>9. ASSUME NEW h \in Counters PROVE stats[h] = Tally(outs[run], h)' + 0
    BY <2>1, <2>5 DEF CountInv, q
  <2>10. Len(outs[run])' = Tally(outs[run], "dry")' + Tally(outs[run], "ok")' + Tally(outs[run], "fail")' + Tally(outs[run], "dup")'
    <3>1. Len(q) = Tally(q, "dry") + Tally(q, "ok") + Tally(q, "fail") + Tally(q, "dup")
      BY <2>1 DEF CountInv, q
    <3> QED BY SMTT(40), <2>2, <2>4, <2>5, <2>6, <3>1 DEF How
  <2> QED BY <2>1, <2>7, <2>8, <2>9, <2>10 DEF CountInv
<1>5. CASE E!EffectEnds
  <2>1. /\ UNCHANGED <<outs, run, policy, episodes, kind, stats, did, phase>>
        /\ e.pc \in {"recv", "send"} /\ e'.pc = "end" /\ phase = "on"
    BY <1>5 DEF E!EffectEnds, E!eRest, E!Live, E!Running, E!Idle
  <2>2. \A h : Tally(outs[run], h)' = Tally(outs[run], h)
    BY <2>1 DEF Tally
  <2>3. \A h : Tally(outs[run], h) \in Nat
    BY TallyType DEF EffectType
  <2> QED BY <2>1, <2>2, <2>3 DEF CountInv
<1>6. CASE E!RunReturns
  <2>1. UNCHANGED <<outs, run, policy, episodes, kind, stats, did, e>> /\ (phase' = "success" => stats.fail = 0)
    BY <1>6 DEF E!RunReturns, EffectType, Stats
  <2> QED BY <2>1, CountKept
<1>7. CASE E!Crash
  <2>1. UNCHANGED <<outs, run, policy, episodes, kind, stats, did, e>> /\ phase' = "crash"
    BY <1>7 DEF E!Crash
  <2> QED BY <2>1, CountKept
<1>8. CASE E!NextRun
  <2>1. /\ run' = run + 1 /\ UNCHANGED <<outs, policy, did, episodes>> /\ e'.pc = "recv" /\ phase' = "on"
        /\ stats' = [ok |-> 0, fail |-> 0, dup |-> 0]
    BY <1>8 DEF E!NextRun, E!Idle, E!NoStats
  <2>2. outs[run + 1] = << >>
    BY <1>8, EffectsAssumption DEF E!NextRun, EffectType, LiveInv
  <2>3. \A h : Tally(outs[run], h)' = 0
    BY <2>1, <2>2, TallyNone
  <2>4. \A h \in Counters : stats'[h] = 0
    BY <2>1 DEF Counters
  <2>5. Len(outs[run])' = 0
    BY <2>1, <2>2
  <2> QED BY <2>1, <2>3, <2>4, <2>5 DEF CountInv
<1>9. CASE E!ReplaySends \/ E!ReplayFails
  BY <1>1, <1>9 DEF E!ReplaySends, E!ReplayFails, E!ReplayOn, E!repRest
<1> QED
  BY <1>1, <1>2, <1>3, <1>4, <1>5, <1>6, <1>7, <1>8, <1>9, <1>10
     DEF E!Next, E!CaptureTakes, E!CaptureSends, E!CaptureEnds, E!Save, E!Write, E!LateSave, E!Consume,
         E!ConsumerEnds, E!Done, E!cRest, E!rRest, E!vars, effectVars

\* Moving the item in hand to the end of what is on its way.
LEMMA JoinHanded ==
  ASSUME NEW S, NEW r \in Seq(S), NEW q \in Seq(S), NEW x \in S
  PROVE  (r \o Append(q, x)) \o << >> = (r \o q) \o <<x>>
  OBVIOUS

\* Every step keeps the account of the items of a live run.
LEMMA WholeStep ==
  ASSUME EffectType, StreamType, LiveInv, ReplayInv, WholeInv, [E!Next]_effectVars
  PROVE  WholeInv'
<1> USE DEF WholeInv
<1>0. /\ next \in Nat \ {0} /\ cap.took \in Seq(Out) /\ got \in Seq(Out) /\ cch \in Seq(Out) /\ ch \in Seq(Out)
      /\ run \in 1..MaxRuns /\ outs[run] \in Seq(Out) /\ policy.len \in Nat /\ policy.seg \in BOOLEAN
      /\ Carried \in Seq(Out)
  BY EffectsAssumption DEF EffectType, StreamType, Capture, Carried
<1>1. CASE UNCHANGED <<outs, run, policy, kind, cap, consumer, ctx, next, got, cch, ch>>
           /\ (e'.pc = e.pc \/ {e.pc, e'.pc} \subseteq {"try", "call", "wait", "send"})
  BY <1>1 DEF Carried
<1>2. CASE kind' = "replay"
  BY <1>2
<1>3. CASE E!Receive
  <2>1. /\ UNCHANGED <<outs, run, policy, kind, cap, consumer, ctx, got, cch, ch>>
        /\ e.pc = "recv" /\ next <= policy.len /\ next' = next + 1 /\ kind = "live"
    BY <1>3 DEF E!Receive, E!eRest, E!Live
  <2>2. e'.pc \in {"try", "send"}
    BY <1>3 DEF E!Receive, E!At
  <2>3. Carried' = Carried
    BY <2>1 DEF Carried
  <2>4. Len(outs[run]) = next - 1 /\ Len(outs[run])' = Len(outs[run])
    BY <1>0, <2>1
  <2>6. next \in Nat /\ policy.len \in Nat /\ next <= policy.len /\ next' = next + 1
    BY <1>0, <2>1
  <2>7. next - 1 = next' - 1 - 1 /\ next' <= policy.len + 1
    BY <2>6
  <2>5. Len(outs[run])' = next' - 1 - 1 /\ next' <= policy.len + 1
    BY <2>4, <2>7
  <2> QED BY <2>1, <2>2, <2>3, <2>5
<1>4. CASE E!Attempt \/ E!Return \/ E!Backoff
  <2>1. UNCHANGED <<outs, run, policy, kind, cap, consumer, ctx, next, got, cch, ch>>
        /\ {e.pc, e'.pc} \subseteq {"try", "call", "wait", "send"}
    BY <1>4 DEF E!Attempt, E!Return, E!Backoff, E!Outcome, E!At, E!eRest
  <2> QED BY <1>1, <2>1
<1>5. CASE E!Send
  <2> DEFINE x == <<e.item, e.how>>
             q == outs[run]
  <2>1. /\ UNCHANGED <<run, policy, kind, cap, consumer, ctx, next, got, cch>>
        /\ e.pc = "send" /\ e'.pc = "recv" /\ ch' = Append(ch, x) /\ outs' = [outs EXCEPT ![run] = Append(q, x)]
        /\ kind = "live"
    BY <1>5 DEF E!Send, E!eRest, E!Live, E!Idle
  <2>2. x \in Out
    BY DEF EffectType, Effect, Out
  <2>3. outs'[run] = Append(q, x)
    BY <1>0, <2>1 DEF EffectType
  <2> HIDE DEF x
  <2>4. Len(outs'[run]) = Len(q) + 1 /\ Len(q) \in Nat
    BY <1>0, <2>2, <2>3
  <2>5. consumer = "reading" /\ ~policy.seg => got \o ch' = outs'[run]
    <3>1. consumer = "reading" /\ ~policy.seg => got \o ch = q
      BY <2>1
    <3>2. got \o Append(ch, x) = Append(got \o ch, x)
      BY SMTT(40), <1>0, <2>2, JoinAppend
    <3> QED BY <2>1, <2>3, <3>1, <3>2
  <2>6. Carried' = Carried /\ consumer # "done"
    BY <2>1 DEF Carried
  <2>7. policy.seg => cap.pc \notin {"save", "write", "end"}
    BY <2>1
  <2>8. Len(q) = next - 1 - 1 /\ next <= policy.len + 1
    BY <2>1
  <2>9. Len(outs'[run]) = next - 1 /\ Len(outs[run])' = Len(outs'[run])
    BY <1>0, <2>1, <2>4, <2>8
  <2>10. /\ e'.pc # "end" => Len(outs[run])' = next' - 1 - (IF e'.pc = "recv" THEN 0 ELSE 1) /\ next' <= policy'.len + 1
         /\ (e.pc = "end")' = FALSE
    BY <1>0, <2>1, <2>8, <2>9
  <2>11. outs[run]' = outs'[run] /\ cap' = cap /\ policy' = policy /\ consumer' = consumer /\ got' = got /\ cch' = cch
    BY <2>1
  <2>12. policy.seg /\ consumer = "reading" => (got \o cch) \o Carried = cap.took
    BY <2>1
  <2> HIDE DEF q
  <2> QED BY <2>5, <2>6, <2>7, <2>10, <2>11, <2>12
<1>6. CASE E!EffectEnds
  <2>1. /\ UNCHANGED <<outs, run, policy, kind, cap, consumer, ctx, next, got, cch, ch>>
        /\ e.pc \in {"recv", "send"} /\ e'.pc = "end" /\ kind = "live"
        /\ (e.pc = "recv" /\ next > policy.len) \/ ctx \/ E!Left
    BY <1>6 DEF E!EffectEnds, E!eRest, E!Live, E!Idle
  <2>2. ~ctx /\ consumer \in {"reading", "done"} => Len(outs[run]) = policy.len
    <3>1. e.pc = "recv" => Len(outs[run]) = next - 1 /\ next <= policy.len + 1
      BY <1>0, <2>1
    <3>2. e.pc = "recv" /\ next > policy.len => Len(outs[run]) = policy.len
      BY SMTT(40), <1>0, <3>1
    <3> QED BY <2>1, <3>2 DEF E!Left
  <2> QED BY <1>0, <2>1, <2>2 DEF Carried
<1>7. CASE E!CaptureTakes
  <2>1. /\ UNCHANGED <<outs, run, policy, kind, consumer, ctx, next, got, cch, e>>
        /\ policy.seg /\ kind = "live" /\ cap.pc = "recv" /\ ch # << >>
        /\ cap'.pc = "send" /\ cap'.item = Head(ch) /\ cap'.took = Append(cap.took, Head(ch))
    BY <1>7 DEF E!CaptureTakes, E!cRest, E!Captures, E!Live
  <2>2. Carried = << >> /\ Carried' = <<Head(ch)>>
    BY <2>1 DEF Carried
  <2>3. consumer = "reading" => (got \o cch) \o <<Head(ch)>> = Append(cap.took, Head(ch))
    <3>1. got \o cch \in Seq(Out) /\ Head(ch) \in Out
      BY <1>0, <2>1
    <3>2. consumer = "reading" => (got \o cch) \o << >> = cap.took
      BY <2>1, <2>2
    <3>3. \A x \in Out : (got \o cch) \o << >> = got \o cch /\ (got \o cch) \o <<x>> = Append(got \o cch, x)
      BY <1>0, JoinTaken
    <3> QED BY <3>1, <3>2, <3>3
  <2>4. consumer # "done"
    BY <2>1 DEF LiveInv
  <2> QED BY <2>1, <2>2, <2>3, <2>4
<1>8. CASE E!CaptureSends
  <2>1. /\ UNCHANGED <<outs, run, policy, kind, consumer, ctx, next, got, ch, e>>
        /\ policy.seg /\ kind = "live" /\ cap.pc = "send" /\ cch' = Append(cch, cap.item)
        /\ cap' = [cap EXCEPT !.pc = "recv"]
    BY <1>8 DEF E!CaptureSends, E!cRest, E!Captures, E!Live
  <2>2. cap'.pc = "recv" /\ cap'.took = cap.took /\ Carried = <<cap.item>> /\ Carried' = << >> /\ cap.item \in Out
    BY <2>1 DEF Carried, StreamType, Capture
  <2>3. (got \o Append(cch, cap.item)) \o << >> = (got \o cch) \o <<cap.item>>
    <3> DEFINE x == cap.item
    <3>1. x \in Out
      BY <2>2
    <3> HIDE DEF x
    <3>2. (got \o Append(cch, x)) \o << >> = (got \o cch) \o <<x>>
      BY SMTT(40), <1>0, <3>1, JoinHanded
    <3> QED BY <3>2 DEF x
  <2>4. consumer # "done"
    BY <2>1 DEF LiveInv
  <2> QED BY <2>1, <2>2, <2>3, <2>4
<1>9. CASE E!CaptureEnds \/ E!Save \/ E!Write
  <2>1. /\ UNCHANGED <<outs, run, policy, kind, consumer, ctx, next, got, ch, cch, e>>
        /\ policy.seg /\ kind = "live" /\ cap.pc \in {"recv", "save", "write"}
    BY <1>9 DEF E!CaptureEnds, E!Save, E!Write, E!cRest, E!Captures, E!Live
  <2>2. /\ cap.pc = "recv" => e.pc = "end" /\ ch = << >>
        /\ cap'.pc \in {"save", "write", "end"} /\ cap'.took = cap.took
    BY <1>9 DEF E!CaptureEnds, E!Save, E!Write, StreamType, Capture
  <2>3. Carried = << >> /\ Carried' = << >> /\ consumer # "done"
    BY <2>1, <2>2 DEF Carried, LiveInv
  <2> QED BY <2>1, <2>2, <2>3
<1>10. CASE E!Consume
  <2>1. UNCHANGED <<outs, run, policy, kind, cap, consumer, ctx, next, e>> /\ Carried' = Carried
    BY <1>10 DEF E!Consume, E!rRest, Carried
  <2>2. CASE policy.seg
    <3>1. ch' = ch /\ cch # << >> /\ cch' = Tail(cch) /\ got' = IF consumer = "reading" THEN Append(got, Head(cch)) ELSE got
      BY <1>10, <2>2 DEF E!Consume, E!Final
    <3>2. consumer = "reading" => got' \o cch' = got \o cch
      BY <1>0, <3>1, JoinMoves
    <3> QED BY <2>1, <2>2, <3>1, <3>2
  <2>3. CASE ~policy.seg
    <3>1. ch # << >> /\ ch' = Tail(ch) /\ got' = IF consumer = "reading" THEN Append(got, Head(ch)) ELSE got
      BY <1>10, <2>3 DEF E!Consume, E!Final
    <3>2. consumer = "reading" => got' \o ch' = got \o ch
      BY <1>0, <3>1, JoinMoves
    <3> QED BY <2>1, <2>3, <3>1, <3>2
  <2> QED BY <2>2, <2>3
<1>11. CASE E!ConsumerEnds /\ kind = "live"
  <2>1. /\ UNCHANGED <<outs, run, policy, kind, cap, next, e, got, ch, cch>> /\ Carried' = Carried
        /\ consumer = "reading" /\ phase = "on"
    BY <1>11 DEF E!ConsumerEnds, E!rRest, Carried, E!Running
  <2>2. CASE consumer' \in {"discarding", "gone"}
    BY <2>1, <2>2
  <2>3. CASE E!FinalClosed /\ E!Final = << >> /\ consumer' = "done" /\ UNCHANGED ctx
    <3>1. CASE policy.seg
      <4>1. cap.pc = "end" /\ cch = << >>
        BY <1>11, <2>1, <2>3, <3>1 DEF E!FinalClosed, E!Final, E!Captures, E!Live, E!Running
      <4>2. e.pc = "end" /\ (got \o << >>) \o << >> = cap.took
        BY <1>11, <2>1, <3>1, <4>1 DEF Carried
      <4>3. got = cap.took
        BY <1>0, <4>2, JoinTaken
      <4> QED BY <2>1, <2>3, <3>1, <4>1, <4>2, <4>3
    <3>2. CASE ~policy.seg
      <4>1. e.pc = "end" /\ ch = << >>
        BY <1>11, <2>1, <2>3, <3>2 DEF E!FinalClosed, E!Final, E!Captures, E!Live, E!Running
      <4>2. got = outs[run]
        BY <1>0, <1>11, <2>1, <3>2, <4>1, JoinTaken
      <4> QED BY <2>1, <2>3, <3>2, <4>1, <4>2
    <3> QED BY <1>0, <3>1, <3>2
  <2> QED BY <1>11, <2>2, <2>3 DEF E!ConsumerEnds
<1>12. CASE E!NextRun
  <2>1. /\ run' = run + 1 /\ UNCHANGED <<outs, policy>> /\ e'.pc = "recv" /\ consumer' = "reading"
        /\ next' = 1 /\ ch' = << >> /\ cch' = << >> /\ got' = << >> /\ cap'.pc = "recv"
    BY <1>12 DEF E!NextRun, E!Idle, E!NoCapture
  <2>2. outs[run + 1] = << >>
    BY <1>12, EffectsAssumption DEF E!NextRun, EffectType, LiveInv
  <2>3. cap'.took = << >>
    BY <1>12 DEF E!NextRun, E!NoCapture
  <2>4. << >> \o << >> = << >> /\ Carried' = << >> /\ Len(<< >>) = 1 - 1 - 0 /\ 1 <= policy.len + 1
    BY <1>0, <2>1 DEF Carried
  <2> QED BY <2>1, <2>2, <2>3, <2>4
<1>13. kind \in {"live", "replay"} /\ (E!ConsumerEnds \/ E!ReplaySends \/ E!ReplayFails => UNCHANGED kind)
  BY DEF EffectType, E!ConsumerEnds, E!ReplaySends, E!ReplayFails, E!ReplayOn, E!repRest, E!rRest
<1> QED
  BY <1>1, <1>2, <1>3, <1>4, <1>5, <1>6, <1>7, <1>8, <1>9, <1>10, <1>11, <1>12, <1>13
     DEF E!Next, E!LateSave, E!ReplaySends, E!ReplayFails, E!ReplayOn, E!repRest, E!RunReturns, E!Crash, E!Done, E!cRest, E!vars, effectVars

-----------------------------------------------------------------------------
EffectInv ==
  /\ EffectType /\ StreamType /\ KeyInv /\ LiveInv /\ SnapInv /\ ReplayInv
  /\ CountInv /\ WholeInv
EffectsInv == which = "effect" => EffectInv

\* The first run starts in the invariant.
LEMMA EffectInit == E!Init => EffectInv
<1> SUFFICES ASSUME E!Init PROVE EffectInv
  OBVIOUS
<1>1. EffectType
  <2>1. e \in Effect
    BY DEF E!Init, E!Idle, Effect, How
  <2>2. stats \in Stats
    BY DEF E!Init, E!NoStats, Stats
  <2>3. outs \in [1..MaxRuns -> Seq(Out)]
    BY DEF E!Init
  <2> QED BY <2>1, <2>2, <2>3, EffectsAssumption DEF E!Init, EffectType
<1>2. StreamType
  <2>1. cap \in Capture /\ cap.pc # "send"
    BY DEF E!Init, E!NoCapture, Capture
  <2>2. [how |-> "none", items |-> << >>] \in [how : {"none", "torn", "ok"}, items : Seq(Out)]
    OBVIOUS
  <2> QED BY <2>1, <2>2 DEF E!Init, StreamType
<1>3. \A r \in 1..MaxRuns : outs[r] = << >> /\ Len(outs[r]) = 0
  BY DEF E!Init
<1>4. KeyInv
  BY <1>3 DEF E!Init, E!Idle, KeyInv, ClaimInv, SentInv, HandInv
<1>5. LiveInv
  <2>1. cap.took = << >> /\ cap.buf = << >> /\ ch = << >> /\ consumer = "reading" /\ run \in 1..MaxRuns
    BY <1>1 DEF E!Init, E!NoCapture, EffectType
  <2>2. << >> \in Seq(Out)
    OBVIOUS
  <2>3. E!Thins(<< >>, << >>)
    BY <2>2, ThinSelf
  <2>4. << >> \o << >> = << >>
    OBVIOUS
  <2> QED BY <1>3, <2>1, <2>3, <2>4 DEF LiveInv
<1>6. SnapInv /\ ReplayInv
  BY DEF E!Init, SnapInv, ReplayInv
<1>7. CountInv
  <2>1. run = 1 /\ e.pc = "recv" /\ phase = "on" /\ episodes = {}
    BY DEF E!Init, E!Idle
  <2>2. \A h \in Counters : stats[h] = 0
    BY DEF E!Init, E!NoStats, Counters
  <2>3. outs[run] = << >>
    BY <1>1, <1>3, <2>1 DEF EffectType
  <2>4. \A h : Tally(outs[run], h) = 0
    BY <2>3, TallyNone
  <2>5. Len(outs[run]) = 0
    BY <2>3
  <2> QED BY <1>3, <2>1, <2>2, <2>4, <2>5 DEF CountInv
<1>8. WholeInv
  <2>1. /\ run \in 1..MaxRuns /\ policy.len \in Nat
    BY <1>1, EffectsAssumption DEF EffectType
  <2>2. outs[run] = << >> /\ << >> \o << >> = << >>
    BY <1>3, <2>1
  <2>3. /\ next = 1 /\ Len(outs[run]) = 0 /\ e.pc = "recv" /\ consumer = "reading"
        /\ got = << >> /\ ch = << >> /\ cch = << >> /\ cap.pc = "recv" /\ cap.took = << >>
    BY <1>3, <2>1 DEF E!Init, E!Idle, E!NoCapture
  <2>4. Len(outs[run]) = next - 1 - 0 /\ next <= policy.len + 1
    BY <2>1, <2>3
  <2> QED BY <2>2, <2>3, <2>4 DEF WholeInv, Carried
<1> QED BY <1>1, <1>2, <1>4, <1>5, <1>6, <1>7, <1>8 DEF EffectInv

\* The parts together are inductive.
LEMMA EffectsInvHolds == Spec => []EffectsInv
<1>1. Init => EffectsInv
  BY EffectInit DEF Init, EffectsInv
<1>2. EffectsInv /\ [Next]_vars => EffectsInv'
  <2> SUFFICES ASSUME EffectsInv, [Next]_vars, which' = "effect" PROVE EffectInv'
    BY DEF EffectsInv
  <2>1. which = "effect" /\ [E!Next]_effectVars
    BY DEF Next, vars, effectVars, E!vars, onlyEffect
  <2> QED
    BY <2>1, EffectTypeStep, StreamTypeStep, KeyStep, LiveStep, SnapStep, ReplayStep, CountStep, WholeStep
       DEF EffectInv, EffectsInv
<1> QED BY <1>1, <1>2, PTL DEF Spec

\* Of the items of one idempotency key the function is called for one at most,
\* in a run or, with a store that outlives it, over all runs and crashes; and
\* what is reported as a duplicate is one of an item that claimed the key.
THEOREM StartedOncePerKey == Spec => []OncePerKey
<1>1. EffectInv => E!OncePerKey
  <2> SUFFICES ASSUME EffectInv, policy.idem # "none"
               PROVE  /\ \A a, b \in episodes : Same(a, b) => a = b
                      /\ \A r \in 1..MaxRuns : \A o \in E!ToSet(outs[r]) :
                           /\ o[2] = "ok" => <<r, o[1]>> \in episodes
                           /\ o[2] = "dup" => \E x \in claims : x # <<r, o[1]>> /\ x[1] <= r /\ Same(x, <<r, o[1]>>)
    BY DEF E!OncePerKey, Same
  <2>1. ASSUME NEW a \in episodes, NEW b \in episodes, Same(a, b) PROVE a = b
    <3>1. E!HasKey(a[2]) /\ E!HasKey(b[2])
      BY <2>1 DEF Same, E!HasKey
    <3> QED BY <2>1, <3>1 DEF EffectInv, KeyInv, ClaimInv
  <2>2. ASSUME NEW r \in 1..MaxRuns, NEW o \in E!ToSet(outs[r]) PROVE Reasoned(r, o[1], o[2])
    <3>1. \E n \in 1..Len(outs[r]) : o = outs[r][n]
      BY <2>2 DEF E!ToSet, EffectInv, EffectType
    <3> QED BY <3>1 DEF EffectInv, KeyInv, SentInv
  <2> QED BY <2>1, <2>2 DEF Reasoned
<1>2. EffectsInv => OncePerKey
  BY <1>1 DEF EffectsInv, OncePerKey
<1> QED BY <1>2, EffectsInvHolds, PTL

\* A snapshot is what the segment sent in some run, in its order, less what
\* could not be marshalled; a replay delivers such a snapshot of an earlier run
\* from its beginning and nothing else, all of it unless it is cut short or an
\* item cannot be decoded; and a run that ends by itself has saved its
\* snapshot, or failed to, before it returns.
THEOREM ReplaysSnapshots == Spec => []SnapshotsReplayed
<1>1. EffectInv => E!SnapshotsReplayed
  <2> SUFFICES ASSUME EffectInv PROVE E!SnapshotsReplayed
    OBVIOUS
  <2>1. cap.buf \in Seq(Out) /\ got \in Seq(Out)
    BY DEF EffectInv, EffectType, StreamType, Capture
  <2>2. snap.how = "ok" => \E r \in 1..run : E!Thins(snap.items, outs[r])
    BY DEF EffectInv, SnapInv, SentIn
  <2>3. kind = "replay" =>
          /\ E!IsPrefix(got, cap.buf) /\ outs[run] = << >>
          /\ \E r \in 1..run - 1 : E!Thins(cap.buf, outs[r])
          /\ phase = "success" /\ consumer = "done" /\ cap.pc # "end" => got = cap.buf
    BY <2>1, PreIsPrefix DEF EffectInv, ReplayInv, SentIn
  <2>4. phase \in {"success", "partial"} /\ policy.seg /\ kind = "live" /\ consumer = "done" =>
          cap.pc = "end" /\ \A s \in late : s[1] # run
    BY DEF EffectInv, LiveInv, SnapInv
  <2> QED BY <2>2, <2>3, <2>4 DEF E!SnapshotsReplayed
<1>2. EffectsInv => SnapshotsReplayed
  BY <1>1 DEF EffectsInv, SnapshotsReplayed
<1> QED BY <1>2, EffectsInvHolds, PTL

\* The counters of a run and its outcome tell what became of its items: what
\* was sent was counted, what was reported as applied took place, and a run
\* that is a success sent no failure and, unless it was cut short, an outcome
\* for every item, all of which its consumer has.
THEOREM CountsOutcomes == Spec => []OutcomesAccounted
<1>1. EffectInv => E!OutcomesAccounted
  <2> SUFFICES ASSUME EffectInv PROVE E!OutcomesAccounted
    OBVIOUS
  <2>0. \A r \in 1..MaxRuns : outs[r] \in Seq(Out)
    BY DEF EffectInv, EffectType
  <2>1. ASSUME NEW r \in 1..MaxRuns, NEW o \in E!ToSet(outs[r])
        PROVE  \E n \in 1..Len(outs[r]) : o = outs[r][n]
    BY <2>0, <2>1 DEF E!ToSet
  <2>2. \A r \in 1..MaxRuns : \A o \in E!ToSet(outs[r]) : o[2] = "ok" => o[1] \in did
    BY <2>1 DEF EffectInv, CountInv
  <2>3. run \in 1..MaxRuns /\ outs[run] \in Seq(Out)
    BY <2>0 DEF EffectInv, EffectType
  <2>4. \A h : E!SentAs(h) = Tally(outs[run], h) /\ Tally(outs[run], h) \in Nat
    BY <2>3, TallyType, SameTally
  <2>5. ASSUME kind = "live", NEW h \in Counters
        PROVE  E!SentAs(h) <= stats[h] /\ (e.pc = "recv" => stats[h] = E!SentAs(h))
    <3>1. stats[h] \in Nat
      BY DEF EffectInv, EffectType, Stats, Counters
    <3> QED BY <2>4, <2>5, <3>1 DEF EffectInv, CountInv
  <2>6. E!Live => /\ E!SentAs("ok") <= stats.ok /\ E!SentAs("fail") <= stats.fail /\ E!SentAs("dup") <= stats.dup
                  /\ e.pc = "recv" => Len(outs[run]) = E!SentAs("dry") + stats.ok + stats.fail + stats.dup
    <3> SUFFICES ASSUME kind = "live"
                 PROVE  /\ E!SentAs("ok") <= stats.ok /\ E!SentAs("fail") <= stats.fail /\ E!SentAs("dup") <= stats.dup
                        /\ e.pc = "recv" => Len(outs[run]) = E!SentAs("dry") + stats.ok + stats.fail + stats.dup
      BY DEF E!Live
    <3>1. Len(outs[run]) = E!SentAs("dry") + E!SentAs("ok") + E!SentAs("fail") + E!SentAs("dup")
      BY <2>4 DEF EffectInv, CountInv
    <3> QED BY <2>5, <3>1 DEF Counters
  <2>7. ASSUME phase = "success", kind = "live"
        PROVE  /\ \A o \in E!ToSet(outs[run]) : o[2] # "fail"
               /\ consumer = "done" => got = outs[run] /\ Len(got) = policy.len
    <3>1. stats.fail = 0
      BY <2>7 DEF EffectInv, CountInv
    <3>2. Tally(outs[run], "fail") = 0
      BY <2>4, <2>5, <2>7, <3>1 DEF Counters
    <3>3. \A o \in E!ToSet(outs[run]) : o[2] # "fail"
      BY <2>1, <2>3, <3>2, TallyZero
    <3>4. ASSUME consumer = "done" PROVE got = outs[run] /\ Len(got) = policy.len
      <4>1. e.pc = "end" /\ ~ctx
        BY <2>7, <3>4 DEF EffectInv, WholeInv, ReplayInv
      <4>2. Len(outs[run]) = policy.len
        BY <2>7, <3>4, <4>1 DEF EffectInv, WholeInv
      <4>3. CASE policy.seg
        <5> DEFINE q == cap.took
        <5>1. got = q /\ ch = << >> /\ q \o ch = outs[run]
          BY <2>7, <3>4, <4>3 DEF EffectInv, WholeInv, LiveInv
        <5>2. q \in Seq(Out)
          BY DEF EffectInv, StreamType, Capture
        <5> HIDE DEF q
        <5>3. q \o << >> = q
          BY <5>2
        <5> QED BY <4>2, <5>1, <5>3
      <4>4. CASE ~policy.seg
        BY <2>7, <3>4, <4>2, <4>4 DEF EffectInv, WholeInv
      <4> QED BY <4>3, <4>4
    <3> QED BY <3>3, <3>4
  <2> QED BY <2>2, <2>6, <2>7 DEF E!OutcomesAccounted, EffectInv, CountInv
<1>2. EffectsInv => OutcomesAccounted
  BY <1>1 DEF EffectsInv, OutcomesAccounted
<1> QED BY <1>2, EffectsInvHolds, PTL
=============================================================================
