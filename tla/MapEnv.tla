------------------------------- MODULE MapEnv -------------------------------
(***************************************************************************)
(* The surroundings of a Map with Concurrency(n): an input channel that    *)
(* delivers 1..NItems and is then closed, an output channel, the consumer  *)
(* of that channel, and the contexts.  The consumer may leave early, which *)
(* closes the stage's drain channel; it then empties the output with       *)
(* DrainChan or, having itself left cooperatively, does not.               *)
(***************************************************************************)
EXTENDS Integers, Sequences, FiniteSets

CONSTANTS
  NItems,       \* the input is 1..NItems
  Concurrency,  \* cfg.concurrency
  Cap,          \* buffer of the output channel
  CanFail,      \* items on which the function may return an error
  CanSkip,      \* items on which an error may be handled by skipping
  MayCancel,    \* whether the run's context may be cancelled
  CoopLeave     \* whether a consumer that leaves does so without DrainChan

Items == 1..NItems

ASSUME MapAssumption ==
  /\ NItems \in Nat /\ Concurrency \in Nat \ {0, 1} /\ Cap \in Nat \ {0}
  /\ CanFail \subseteq Items /\ CanSkip \subseteq Items
  /\ MayCancel \in BOOLEAN /\ CoopLeave \in BOOLEAN

VARIABLES
  next,      \* the next item of the input channel; NItems + 1 when closed
  out,       \* contents of the output channel
  consumer,  \* "reading", "discarding" (DrainChan) or "gone"
  drained,   \* the stage's drain channel is closed
  ctxDone,   \* the context of the run is cancelled
  inner,     \* cancel() of innerCtx has been called
  dpc,       \* where the dispatcher is
  item,      \* the item the dispatcher has received and not yet handed over
  ret,       \* "running", or what the stage function returned
  sent,      \* history: items sent on the output channel, in order
  skipped    \* history: items skipped

envVars == <<next, out, consumer, drained, ctxDone>>
histVars == <<sent, skipped>>

InnerDone == inner \/ ctxDone

EnvType ==
  /\ next \in 1..(NItems + 1)
  /\ out \in Seq(Items) /\ Len(out) <= Cap
  /\ consumer \in {"reading", "discarding", "gone"}
  /\ drained \in BOOLEAN /\ ctxDone \in BOOLEAN /\ inner \in BOOLEAN
  /\ dpc \in {"recv", "sem", "slot", "wait", "ret", "end"}
  /\ item \in 0..NItems
  /\ ret \in {"running", "nil", "user", "ctx"}
  /\ sent \in Seq(Items) /\ skipped \subseteq Items

EnvInit ==
  /\ next = 1 /\ out = << >> /\ consumer = "reading" /\ drained = FALSE
  /\ ctxDone = FALSE /\ inner = FALSE /\ dpc = "recv" /\ item = 0
  /\ ret = "running" /\ sent = << >> /\ skipped = {}

\* An item goes into the output channel.
Put(i) == /\ Len(out) < Cap
          /\ out' = Append(out, i) /\ sent' = Append(sent, i)
          /\ UNCHANGED <<next, consumer, drained, ctxDone, skipped>>

-----------------------------------------------------------------------------
(* The consumer and the caller. *)

Consume ==
  /\ consumer \in {"reading", "discarding"} /\ out # << >>
  /\ out' = Tail(out)
  /\ UNCHANGED <<next, consumer, drained, ctxDone, inner, dpc, item, ret, histVars>>

\* The consumer has had enough: its deferred drainFn closes the stage's
\* drain channel.
Leave ==
  /\ consumer = "reading" /\ dpc # "end"
  /\ consumer' = IF CoopLeave THEN "gone" ELSE "discarding"
  /\ drained' = TRUE
  /\ UNCHANGED <<next, out, ctxDone, inner, dpc, item, ret, histVars>>

Cancel ==
  /\ MayCancel /\ ~ctxDone /\ dpc # "end"
  /\ ctxDone' = TRUE
  /\ UNCHANGED <<next, out, consumer, drained, inner, dpc, item, ret, histVars>>
=============================================================================
