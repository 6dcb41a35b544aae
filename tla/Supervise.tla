------------------------------ MODULE Supervise -----------------------------
(***************************************************************************)
(* What a serial stage does with errors and panics of the user's function: *)
(* the per-item error handler with its retries (internal.ProcessItem and   *)
(* the handlers of config.go) inside the receive loop of the stage         *)
(* (mapSerial), inside the restarts of internal.Supervise.                 *)
(*                                                                         *)
(* A handler is a chain of retry layers (RetryMax, RetryThen, RetryIf,     *)
(* RetryIfThen) around a base decision.  Timers fire at an arbitrary later *)
(* time; the age of the restart window is counted in ticks and saturates   *)
(* just beyond Window.                                                     *)
(***************************************************************************)
EXTENDS Integers, Sequences, FiniteSets

CONSTANTS
  NItems,     \* items of the input channel, which is then closed
  MaxFails,   \* bound: failures of the function on one item
  Initial, MaxDelay, Bits,  \* ExponentialBackoff(Initial, MaxDelay) and the
                            \* width of a time.Duration
  Configs     \* the stage configurations of the run, see Config

Items == 1..NItems

Layer == [kind : {"max", "if"},  \* RetryMax/RetryThen or RetryIf/RetryIfThen;
                                 \* the latter retry every transient error
          n : Nat,               \* retries of a "max" layer
          bo : BOOLEAN]          \* whether it has a backoff function

Config ==
  [layers : Seq(Layer),   \* retry layers, outermost first
   base : {"halt", "skip", "return", "mistyped"},  \* mistyped: Return of a
                          \* value that is not of the stage's output type
   maxRestarts : Nat, window : Nat,
   onPanic : {"propagate", "restart", "skip"}, panicOnly : BOOLEAN,
   pause : BOOLEAN]       \* the policy's backoff yields a positive delay

VARIABLES
  cfg,       \* the stage's options
  next,      \* the next item of the input channel
  pc,        \* "recv", "call", "backoff", "send", "failed", "pause" or "end"
  attempt,   \* ProcessItem's attempt counter
  delay,     \* the delay of the backoff being waited for
  err,       \* the error Supervise deals with while pc is "failed"
  itemDone,  \* the item's own context has timed out
  restarts,  \* Supervise's restart counter
  age,       \* time since windowStart, NoWindow if that is zero
  ctxDone, drained,
  ret,       \* "running" or what the stage returned; "crash" for a panic
  emitted, skipped, lost,  \* history: what became of the items
  reported,  \* history: calls of OnStageRestart
  quiet,     \* history: time since the last crash
  streak,    \* history: restarts with no quiet Window between them
  again, wasted  \* history: loops begun and items lost since the run was cancelled

vars == <<cfg, next, pc, attempt, delay, itemDone, err, restarts, age, ctxDone, drained,
          ret, emitted, skipped, lost, reported, quiet, streak, again, wasted>>
given == <<cfg, ctxDone, drained>>
history == <<emitted, skipped, lost, wasted>>
budget == <<restarts, age, reported, quiet, streak>>
supervision == <<budget, err, ret, again>>
itemVars == <<attempt, delay, itemDone>>

NoWindow == -1
Cur == next - 1
Clock == 0..(cfg.window + 1)
Errors == {"transient", "permanent", "deadline", "panic", "ctx"}
Later(t) == IF t \in 0..cfg.window THEN t + 1 ELSE t

TypeOK ==
  /\ cfg \in Configs
  /\ next \in 1..(NItems + 1)
  /\ pc \in {"recv", "call", "backoff", "send", "failed", "pause", "end"}
  /\ attempt \in 0..MaxFails /\ delay \in Int /\ itemDone \in BOOLEAN
  /\ restarts \in 0..cfg.maxRestarts /\ age \in {NoWindow} \cup Clock
  /\ ctxDone \in BOOLEAN /\ drained \in BOOLEAN
  /\ ret \in {"running", "nil", "crash"} \cup Errors /\ err \in {"none"} \cup Errors
  /\ {emitted, skipped, lost} \subseteq SUBSET Items
  /\ reported \in 0..NItems /\ quiet \in Clock /\ streak \in 0..NItems
  /\ again \in 0..NItems /\ wasted \in 0..NItems

Init ==
  /\ cfg \in Configs
  /\ next = 1 /\ pc = "recv" /\ attempt = 0 /\ delay = 0 /\ itemDone = FALSE
  /\ restarts = 0 /\ age = NoWindow /\ ctxDone = FALSE /\ drained = FALSE
  /\ ret = "running" /\ emitted = {} /\ skipped = {} /\ lost = {}
  /\ reported = 0 /\ quiet = 0 /\ streak = 0 /\ err = "none" /\ again = 0 /\ wasted = 0

-----------------------------------------------------------------------------
(* The error handler of an item. *)

LayerRetries(l, e, a) == IF l.kind = "max" THEN a < l.n ELSE e = "transient"

\* Handle: a layer that does not retry asks its fallback, with attempt 0.
Handle(e, a) ==
  IF \E k \in DOMAIN cfg.layers : LayerRetries(cfg.layers[k], e, IF k = 1 THEN a ELSE 0)
  THEN "retry" ELSE cfg.base

\* The conversion of a float to a Duration: out of range it yields what the
\* hardware yields, the least integer or the greatest.
ToDuration(x) == IF x < 2^(Bits - 1) THEN {x} ELSE {-(2^(Bits - 1)), 2^(Bits - 1) - 1}

\* Mutant: no cap.
BackoffMutant(a) == ToDuration(Initial * 2^a)

\* ExponentialBackoff: doubles with every attempt, then the cap.
Backoff(a) == {IF d > MaxDelay THEN MaxDelay ELSE d : d \in ToDuration(Initial * 2^a)}

-----------------------------------------------------------------------------
(* Supervise: what an error or a panic of the stage's loop leads to. *)

HasSupervision == cfg.maxRestarts > 0 \/ cfg.onPanic # "propagate"

\* Mutant: the window is never over.
ExpiredMutant == FALSE

Expired == cfg.window > 0 /\ age > cfg.window
Count == IF Expired THEN 0 ELSE restarts

\* Mutant: a cancelled run is restarted.
OutcomeUncheckedMutant(e, panicked) ==
  CASE panicked /\ cfg.onPanic # "restart" -> IF cfg.onPanic = "skip" THEN "nil" ELSE "crash"
    [] ~panicked /\ (~HasSupervision \/ cfg.panicOnly) -> e
    [] OTHER -> "failed"

\* What Supervise returns, or "failed": the error may lead to a restart.
Outcome(e, panicked) ==
  CASE panicked /\ cfg.onPanic # "restart" -> IF cfg.onPanic = "skip" THEN "nil" ELSE "crash"
    [] ~panicked /\ (~HasSupervision \/ cfg.panicOnly) -> e
    [] OTHER -> IF ctxDone THEN "ctx" ELSE "failed"

End(r) == pc' = "end" /\ ret' = r /\ UNCHANGED <<err, again>>

\* The loop fails: the context is looked at once, before the restart.
Fail(e, panicked) ==
  LET o == Outcome(e, panicked)
  IN /\ IF o = "failed" THEN pc' = "failed" /\ err' = e /\ UNCHANGED <<ret, again>> ELSE End(o)
     /\ UNCHANGED budget

\* The same with an item in hand: nobody will process it again.
FailItem(e, panicked) ==
  /\ Fail(e, panicked)
  /\ lost' = lost \cup {Cur} /\ UNCHANGED <<emitted, skipped>>
  /\ wasted' = IF ctxDone THEN wasted + 1 ELSE wasted

\* fn is called once more.
StartLoop == pc' = "recv" /\ again' = IF ctxDone THEN again + 1 ELSE again

\* Mutant: the restart is not reported to the hook.
RestartMutant ==
  /\ pc = "failed" /\ Count < cfg.maxRestarts
  /\ restarts' = Count + 1
  /\ age' = IF Expired \/ age = NoWindow THEN 0 ELSE age
  /\ streak' = IF cfg.window > 0 /\ quiet > cfg.window THEN 1 ELSE streak + 1
  /\ quiet' = 0
  /\ (IF cfg.pause THEN pc' = "pause" /\ UNCHANGED again ELSE StartLoop)
  /\ err' = "none" /\ UNCHANGED <<next, itemVars, ret, reported, given, history>>

\* Window, budget, hook and backoff; the run may be cancelled by now.
Restart ==
  /\ pc = "failed" /\ Count < cfg.maxRestarts
  /\ restarts' = Count + 1 /\ reported' = reported + 1
  /\ age' = IF Expired \/ age = NoWindow THEN 0 ELSE age
  /\ streak' = IF cfg.window > 0 /\ quiet > cfg.window THEN 1 ELSE streak + 1
  /\ quiet' = 0
  /\ (IF cfg.pause THEN pc' = "pause" /\ UNCHANGED again ELSE StartLoop)
  /\ err' = "none" /\ UNCHANGED <<next, itemVars, ret, given, history>>

GiveUp ==
  /\ pc = "failed" /\ Count >= cfg.maxRestarts /\ End(err)
  /\ UNCHANGED <<next, itemVars, budget, given, history>>

-----------------------------------------------------------------------------
(* The receive loop of the stage. *)

Recv ==
  /\ pc = "recv" /\ next <= NItems
  /\ next' = next + 1 /\ attempt' = 0 /\ itemDone' = FALSE /\ pc' = "call"
  /\ UNCHANGED <<delay, given, supervision, history>>

RecvEnd ==
  /\ pc = "recv" /\ (next > NItems \/ drained)
  /\ End("nil")
  /\ UNCHANGED <<next, itemVars, budget, given, history>>

RecvCtxDone ==
  /\ pc = "recv" /\ ctxDone
  /\ Fail("ctx", FALSE)
  /\ UNCHANGED <<next, itemVars, given, history>>

\* A result, or a replacement for one: not sent if the run is cancelled.
Deliver ==
  IF ctxDone THEN FailItem("ctx", FALSE)
  ELSE pc' = "send" /\ UNCHANGED <<supervision, history>>

CallOk ==
  /\ pc = "call" /\ Deliver
  /\ UNCHANGED <<next, itemVars, given>>

CallError(e) ==
  /\ pc = "call" /\ attempt < MaxFails
  /\ LET h == Handle(e, attempt)
     IN \/ /\ h = "retry" /\ cfg.layers[1].bo
           /\ pc' = "backoff" /\ delay' \in Backoff(attempt)
           /\ UNCHANGED <<supervision, history>>
        \/ /\ h = "skip"
           /\ pc' = "recv" /\ skipped' = skipped \cup {Cur}
           /\ UNCHANGED <<delay, supervision, emitted, lost, wasted>>
        \/ h = "return" /\ Deliver /\ UNCHANGED delay
        \/ /\ h \in {"halt", "mistyped"} \/ (h = "retry" /\ ~cfg.layers[1].bo)
           /\ FailItem(e, FALSE) /\ UNCHANGED delay
  /\ UNCHANGED <<next, attempt, itemDone, given>>

CallPanic ==
  /\ pc = "call"
  /\ FailItem("panic", TRUE)
  /\ UNCHANGED <<next, itemVars, given>>

BackoffOver ==
  /\ pc = "backoff"
  /\ attempt' = attempt + 1 /\ pc' = "call"
  /\ UNCHANGED <<next, delay, itemDone, given, supervision, history>>

BackoffCtxDone ==
  /\ pc = "backoff" /\ (ctxDone \/ itemDone)
  /\ FailItem(IF itemDone THEN "deadline" ELSE "ctx", FALSE)
  /\ UNCHANGED <<next, itemVars, given>>

Send ==
  /\ pc = "send"
  /\ \/ pc' = "recv" /\ emitted' = emitted \cup {Cur}
        /\ UNCHANGED <<supervision, skipped, lost, wasted>>
     \/ ctxDone /\ FailItem("ctx", FALSE)
  /\ UNCHANGED <<next, itemVars, given>>

\* Supervise waits before it starts the loop again.
PauseOver ==
  /\ pc = "pause" /\ StartLoop
  /\ UNCHANGED <<next, itemVars, given, budget, err, ret, history>>

PauseCtxDone ==
  /\ pc = "pause" /\ ctxDone /\ End("ctx")
  /\ UNCHANGED <<next, itemVars, budget, given, history>>

-----------------------------------------------------------------------------
Tick ==
  /\ pc # "end" /\ cfg.window > 0
  /\ age' = Later(age) /\ quiet' = Later(quiet)
  /\ UNCHANGED <<next, pc, itemVars, restarts, given, err, ret, again, reported, streak, history>>

ItemTimeout ==
  /\ pc \in {"call", "backoff"} /\ ~itemDone /\ ~ctxDone
  /\ itemDone' = TRUE
  /\ UNCHANGED <<next, pc, attempt, delay, given, supervision, history>>

Ask ==
  /\ pc # "end"
  /\ \/ ~ctxDone /\ ctxDone' = TRUE /\ UNCHANGED <<cfg, drained>>
     \/ ~drained /\ drained' = TRUE /\ UNCHANGED <<cfg, ctxDone>>
  /\ UNCHANGED <<next, pc, itemVars, supervision, history>>

Stopped == pc = "end" /\ UNCHANGED vars

Next == \/ Recv \/ RecvEnd \/ RecvCtxDone
        \/ CallOk \/ (\E e \in {"transient", "permanent"} : CallError(e)) \/ CallPanic
        \/ BackoffOver \/ BackoffCtxDone \/ Send
        \/ Restart \/ GiveUp \/ PauseOver \/ PauseCtxDone
        \/ Tick \/ ItemTimeout \/ Ask \/ Stopped

Spec == Init /\ [][Next]_vars

-----------------------------------------------------------------------------
\* Retries and restarts neither repeat nor lose an item silently: every item
\* received is emitted, skipped, lost or in hand, in exactly one of these
\* ways, and each lost one is paid for by a reported restart or by the error
\* being dealt with or that ended the stage, unless PanicSkip gives it up (the loop of mapSerial
\* under Supervise).
InHand == IF pc \in {"call", "backoff", "send"} THEN {Cur} ELSE {}
NoSilentLoss ==
  /\ emitted \cup skipped \cup lost \cup InHand = 1..Cur
  /\ Cardinality(emitted) + Cardinality(skipped) + Cardinality(lost)
       + Cardinality(InHand) = Cur
  /\ Cardinality(lost)
       <= reported + (IF pc # "failed" /\ ret \in {"running", "nil"} /\ cfg.onPanic # "skip"
                      THEN 0 ELSE 1)

\* A stage that is not asked to stop and reports success has read its whole
\* input: no crash it survived makes it drop the rest.  PanicSkip is left
\* out: there Supervise reports success as soon as the panic is recovered.
ReadsAll ==
  (ret = "nil" /\ ~drained /\ cfg.onPanic # "skip") => next > NItems

\* While a retry waits, its delay is at most the cap, and at least the
\* initial one until the doubling leaves the range of a Duration: from then on
\* the conversion yields the cap or a negative delay, which is no wait at all,
\* and "doubles each attempt, capped at max" does not hold (config.go:751).
BackoffInRange ==
  pc = "backoff" =>
    /\ delay <= MaxDelay
    /\ delay >= Initial \/ Initial * 2^attempt >= 2^(Bits - 1)

\* A stage is restarted at most MaxRestarts times if there is no Window, and
\* in any case gives up on an error it may restart after only when it has
\* used its restarts since the last quiet period: a crash after a quiet
\* Window finds a fresh budget.
RestartBudget ==
  /\ cfg.window = 0 => streak <= cfg.maxRestarts
  /\ (ret \in {"transient", "permanent", "deadline", "panic"} /\ ~cfg.panicOnly)
       => streak >= cfg.maxRestarts

\* Supervise looks at the context after a crash and restarts later, so a
\* cancellation in between does not stop that restart, its report to the hook
\* or the loop; but there is one such loop at most and one item at most is
\* lost to the cancellation, and a loop begun so ends with the context's
\* error, whatever it fails of.
StopsOnCancel ==
  /\ again <= 1 /\ wasted <= 1
  /\ again = 1 /\ pc = "end" /\ ~cfg.panicOnly => ret \in {"ctx", "nil", "crash"}
=============================================================================
