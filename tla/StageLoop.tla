----------------------------- MODULE StageLoop ------------------------------
(***************************************************************************)
(* The loop most stages of the library are: a goroutine that selects on    *)
(* its input, the context and its drain channel, answers each item with    *)
(* zero or more sends, and may send more when its input is closed.  A      *)
(* terminal (Collect, First, ...) is the same loop without an output; the  *)
(* value it returns is modelled as its only send.                          *)
(*                                                                         *)
(* What a stage does with an item is an action of SelectOps, FoldOps,      *)
(* WindowOps or TimeOps, named after the operator.  How stages of a chain  *)
(* wait for each other is the subject of Pipeline, not of this module.     *)
(***************************************************************************)
EXTENDS Integers, SequencesExt

CONSTANTS
  Ops,      \* the operators of the run: records with a kind and a number n
  Items,    \* items of an untimed stream
  MaxLen,   \* bound on the items received in a run
  ReceiveBatchSize, \* of the terminals' micro-batches
  MaxTime,  \* bound on the clock
  Pred(_),  \* the predicate given to the operator
  Key(_)    \* the key function given to the operator

ASSUME LoopAssumption ==
  /\ Items \subseteq Nat /\ {MaxLen, MaxTime} \subseteq Nat
  /\ ReceiveBatchSize \in Nat \ {0}
  /\ \A o \in Ops : o.n \in Nat

VARIABLES
  op,     \* the operator and its parameter
  st,     \* its local variables
  kept,   \* what belongs to the blueprint, not to the run
  base,   \* history: kept when the run started
  pc,     \* "recv" in the select, "send" in an outbox, "add" before set.Add,
          \* "end"
  pend,   \* what is still to be sent
  why,    \* "no", or why the stage returns: "eof" (input closed), "self",
          \* "err" (user error), "ctx" or "drain"
  input,  \* history: items received and, by a terminal, looked at
  ahead,  \* items a terminal has received and not looked at
  times,  \* history: when they were received
  marks,  \* history: how many had been received when the boundary fired;
          \* what was added to the set of a TTL dedup
  sent,   \* history: items sent
  now,    \* the clock
  timer,  \* ticks until the timer or ticker fires, or Off
  tick    \* a tick is waiting in the timer's channel

vars == <<op, st, kept, base, pc, pend, why, input, ahead, times, marks, sent, now, timer, tick>>
timeVars == <<now, timer, tick>>
Off == 0

Is(k) == op.kind = k

\* Terminals run the pipeline themselves and return a value.
Terminals == {"collect", "first", "last", "single", "count", "any", "all",
              "find", "sum", "min", "minMax"}
\* These look at the value only, not at the error of the run.
Swallowing == {"first", "any", "all", "find"}
\* Operators whose send selects on the drain channel as well.
DrainableSend == {"take", "drop", "takeWhile", "dropWhile", "dropLast"}
\* Operators that use a clock: a ticker, a timer, or the time of day only.
Tickers == {"batchTimeout", "mapBatchTimeout", "sample"}
Timed == Tickers \cup {"session", "debounce", "throttle", "timestamp",
                       "timeInterval", "dedupeTTL"}
Bounded == {"takeUntil", "dropUntil", "bufferWith"}
\* Operators that keep a number; the others keep a sequence or a map.
Counting == {"take", "drop", "dropWhile", "withIndex", "takeEvery", "dropEvery",
             "mapEvery", "intersperse", "defaultIfEmpty", "count", "sum",
             "throttle", "dropUntil", "all", "any"}

\* Operators that call a function with a batch; the size of a batch.
BatchCalls == {"mapBatch", "mapBatchTimeout", "lookupBy"}
BatchSize == IF op.kind \in Tickers THEN 2 ELSE op.n

\* TakeRandom(0) answers without reading, Take(0) does nothing.
FirstSends(o) == IF o.kind = "takeRandom" /\ o.n = 0 THEN << << >> >> ELSE << >>
FirstPc(o) == CASE FirstSends(o) # << >> -> "send"
                [] o.kind = "take" /\ o.n = 0 -> "end"
                [] OTHER -> "recv"
FirstKept(o) == IF o.kind = "dedupeTTL"
                THEN [entries |-> << >>, queue |-> << >>, head |-> 0] ELSE << >>

Init ==
  /\ op \in Ops
  /\ st = IF op.kind \in Counting THEN 0 ELSE << >>
  /\ kept = FirstKept(op) /\ base = kept
  /\ pc = FirstPc(op) /\ pend = FirstSends(op)
  /\ why = IF pc = "recv" THEN "no" ELSE "self"
  /\ input = << >> /\ ahead = 0 /\ times = << >> /\ marks = << >> /\ sent = << >>
  /\ now = 1 /\ timer = (IF op.kind \in Tickers THEN op.n ELSE Off) /\ tick = FALSE

\* The pipeline is run again: everything is built anew, the blueprint stays.
Rerun ==
  /\ pc = "end" /\ base' = kept /\ UNCHANGED <<op, kept>>
  /\ st' = IF op.kind \in Counting THEN 0 ELSE << >>
  /\ pc' = FirstPc(op) /\ pend' = FirstSends(op)
  /\ marks' = IF Is("dedupeTTL") THEN marks ELSE << >>
  /\ why' = IF FirstPc(op) = "recv" THEN "no" ELSE "self"
  /\ input' = << >> /\ ahead' = 0 /\ times' = << >> /\ sent' = << >>
  /\ now' = (IF Is("dedupeTTL") THEN now ELSE 1) /\ timer' = (IF op.kind \in Tickers THEN op.n ELSE Off) /\ tick' = FALSE

-----------------------------------------------------------------------------
\* The next local state and what to send before the loop goes on ...
Reply(s, outs) ==
  /\ st' = s /\ pend' = outs /\ UNCHANGED why
  /\ pc' = IF outs = << >> THEN "recv" ELSE "send"

\* ... or before the stage returns.
Return(s, outs, reason) ==
  /\ st' = s /\ pend' = outs /\ why' = reason
  /\ pc' = IF outs = << >> THEN "end" ELSE "send"

\* An item arrives; the action of the operator says what happens with it.
\* Items of timed operators are numbered.  A terminal receives a micro-batch,
\* as many items as are there, before it looks at the first of them; which
\* items these are is left open until it looks at them.
Arrives(x) ==
  /\ pc = "recv"
  /\ IF ahead > 0 THEN ahead' = ahead - 1
     ELSE ahead' \in IF op.kind \in Terminals THEN 0..ReceiveBatchSize - 1 ELSE {0}
  /\ Len(input) + 1 + ahead' <= MaxLen
  /\ op.kind \in Timed \cup Bounded => x = Len(input) + 1
  /\ input' = Append(input, x) /\ times' = Append(times, now)
  /\ UNCHANGED <<op, base, sent, now>>

Emit ==
  /\ pc = "send"
  /\ sent' = Append(sent, Head(pend)) /\ pend' = Tail(pend)
  /\ pc' = CASE Len(pend) > 1 -> "send" [] why = "no" -> "recv" [] OTHER -> "end"
  /\ UNCHANGED <<op, st, kept, base, why, input, ahead, times, marks, timeVars>>

\* The context of the run ends, in the select or in a send.
CtxDone ==
  /\ pc \in {"recv", "send"} /\ op.kind \notin Terminals
  /\ pc' = "end" /\ pend' = << >> /\ why' = "ctx"
  /\ UNCHANGED <<op, st, kept, base, input, ahead, times, marks, sent, timeVars>>

\* The stage's consumer has left.
Drained ==
  /\ \/ pc = "recv" /\ op.kind \notin Terminals
     \/ pc = "send" /\ op.kind \in DrainableSend
  /\ pc' = "end" /\ pend' = << >> /\ why' = "drain"
  /\ UNCHANGED <<op, st, kept, base, input, ahead, times, marks, sent, timeVars>>

\* Time passes; a ticker goes on, a timer fires once.  The channel of either
\* holds one tick.
Tick ==
  /\ pc # "end" /\ op.kind \in Timed /\ now < MaxTime /\ now' = now + 1
  /\ \/ timer = Off /\ UNCHANGED <<timer, tick>>
     \/ timer > 1 /\ timer' = timer - 1 /\ UNCHANGED tick
     \/ timer = 1 /\ tick' = TRUE /\ timer' = IF op.kind \in Tickers THEN op.n ELSE Off
  /\ UNCHANGED <<op, st, kept, base, pc, pend, why, input, ahead, times, marks, sent>>
=============================================================================
