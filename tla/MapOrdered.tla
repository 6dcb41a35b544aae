----------------------------- MODULE MapOrdered -----------------------------
(***************************************************************************)
(* Map with Concurrency(n) and Ordered(): the dispatcher queues a result   *)
(* slot per item before it starts the item's goroutine, and a drainer      *)
(* goroutine takes the slots in order, waits for each result and sends it  *)
(* (mapOrdered, blocking outbox, no supervision).                          *)
(***************************************************************************)
EXTENDS MapEnv

VARIABLES
  slots,       \* the queue of slots, as the items they belong to
  slotsClosed, \* close(slots) has run
  res,         \* res[i]: the result in the slot of item i, or where its
               \* goroutine is
  epc,         \* where the drainer is
  cur,         \* the item whose slot the drainer has taken
  drainErrs,   \* what the drainer reported, or "none"
  junk         \* the goroutine that empties the slots after an error:
               \* JunkOff, JunkIdle, or the item it waits for

vars == <<envVars, inner, dpc, item, ret, histVars,
          slots, slotsClosed, res, epc, cur, drainErrs, junk>>
drainerVars == <<epc, cur, drainErrs>>
slotVars == <<slots, slotsClosed, res, junk>>

JunkOff == -1
JunkIdle == 0

Results == {"ok", "skip", "user", "ctx"}

TypeOK ==
  /\ EnvType
  /\ slots \in Seq(Items) /\ Len(slots) <= 2 * Concurrency
  /\ slotsClosed \in BOOLEAN
  /\ res \in [Items -> {"none", "run"} \cup Results]
  /\ epc \in {"slot", "result", "send", "end"} /\ cur \in 0..NItems
  /\ drainErrs \in {"none", "nil", "user", "ctx"}
  /\ junk \in {JunkOff, JunkIdle} \cup Items

Running == {i \in Items : res[i] = "run"}
\* Tokens of the semaphore: the running goroutines and a dispatcher that has
\* taken one and not yet started its goroutine.
Tokens == Cardinality(Running) + (IF dpc = "slot" THEN 1 ELSE 0)

Init ==
  /\ EnvInit
  /\ slots = << >> /\ slotsClosed = FALSE
  /\ res = [i \in Items |-> "none"]
  /\ epc = "slot" /\ cur = 0 /\ drainErrs = "none" /\ junk = JunkOff

-----------------------------------------------------------------------------
(* The dispatcher. *)

DRecv ==
  /\ dpc = "recv" /\ next <= NItems
  /\ item' = next /\ next' = next + 1 /\ dpc' = "sem"
  /\ UNCHANGED <<out, consumer, drained, ctxDone, inner, ret, histVars,
                 slotVars, drainerVars>>

DClosed ==
  /\ dpc = "recv" /\ next > NItems
  /\ dpc' = "wait"
  /\ UNCHANGED <<envVars, inner, item, ret, histVars, slotVars, drainerVars>>

DDrained ==
  /\ dpc = "recv" /\ drained
  /\ inner' = TRUE /\ dpc' = "wait"
  /\ UNCHANGED <<envVars, item, ret, histVars, slotVars, drainerVars>>

\* innerCtx.Done() in one of the three selects; a token is given back.
DInnerDone ==
  /\ dpc \in {"recv", "sem", "slot"} /\ InnerDone
  /\ dpc' = "wait"
  /\ UNCHANGED <<envVars, inner, item, ret, histVars, slotVars, drainerVars>>

DToken ==
  /\ dpc = "sem" /\ Tokens < Concurrency
  /\ dpc' = "slot"
  /\ UNCHANGED <<envVars, inner, item, ret, histVars, slotVars, drainerVars>>

\* Queue the slot, then start the goroutine.
DSpawn ==
  /\ dpc = "slot" /\ Len(slots) < 2 * Concurrency
  /\ slots' = Append(slots, item)
  /\ res' = [res EXCEPT ![item] = "run"]
  /\ dpc' = "recv"
  /\ UNCHANGED <<envVars, inner, item, ret, histVars, slotsClosed, junk, drainerVars>>

\* All tokens taken back: no goroutine is left.  close(slots).
DClose ==
  /\ dpc = "wait" /\ Tokens = 0
  /\ slotsClosed' = TRUE /\ dpc' = "ret"
  /\ UNCHANGED <<envVars, inner, item, ret, histVars, slots, res, junk, drainerVars>>

DReturn ==
  /\ dpc = "ret" /\ drainErrs # "none"
  /\ ret' = drainErrs /\ inner' = TRUE /\ dpc' = "end"
  /\ UNCHANGED <<envVars, item, histVars, slotVars, drainerVars>>

-----------------------------------------------------------------------------
(* The goroutine of one item puts its result into its slot. *)
Work(i) ==
  /\ res[i] = "run"
  /\ \E r \in {"ok"} \cup (IF i \in CanFail THEN {"user"} ELSE {})
                     \cup (IF i \in CanSkip THEN {"skip"} ELSE {})
                     \cup (IF InnerDone THEN {"ctx"} ELSE {}) :
       res' = [res EXCEPT ![i] = r]
  /\ UNCHANGED <<envVars, inner, dpc, item, ret, histVars, slots, slotsClosed,
                 junk, drainerVars>>

-----------------------------------------------------------------------------
(* The drainer. *)

\* Mutant: the newest slot first.
ESlotMutant ==
  /\ epc = "slot" /\ slots # << >>
  /\ cur' = slots[Len(slots)]
  /\ slots' = SubSeq(slots, 1, Len(slots) - 1) /\ epc' = "result"
  /\ UNCHANGED <<envVars, inner, dpc, item, ret, histVars, slotsClosed, res, junk,
                 drainErrs>>

ESlot ==
  /\ epc = "slot" /\ slots # << >>
  /\ cur' = Head(slots) /\ slots' = Tail(slots) /\ epc' = "result"
  /\ UNCHANGED <<envVars, inner, dpc, item, ret, histVars, slotsClosed, res, junk,
                 drainErrs>>

\* The range over slots ends.
EEnd ==
  /\ epc = "slot" /\ slots = << >> /\ slotsClosed
  /\ drainErrs' = "nil" /\ epc' = "end"
  /\ UNCHANGED <<envVars, inner, dpc, item, ret, histVars, slotVars, cur>>

\* Mutant: the drainer reports its error and neither cancels nor leaves
\* anyone to empty the slots.
EFailMutant(e) ==
  /\ UNCHANGED <<inner, junk>>
  /\ drainErrs' = e /\ epc' = "end"

\* An error: cancel, leave the remaining slots to a new goroutine, report.
EFail(e) ==
  /\ inner' = TRUE /\ junk' = JunkIdle
  /\ drainErrs' = e /\ epc' = "end"

\* The result of the slot arrives.
EResult ==
  /\ epc = "result" /\ res[cur] \in Results
  /\ \/ res[cur] = "ok" /\ epc' = "send" /\ UNCHANGED <<inner, junk, drainErrs, skipped>>
     \/ /\ res[cur] = "skip" /\ epc' = "slot"
        /\ skipped' = skipped \cup {cur}
        /\ UNCHANGED <<inner, junk, drainErrs>>
     \/ res[cur] \in {"user", "ctx"} /\ EFail(res[cur]) /\ UNCHANGED skipped
  /\ UNCHANGED <<envVars, dpc, item, ret, sent, slots, slotsClosed, res, cur>>

ESend ==
  /\ epc = "send" /\ Put(cur)
  /\ epc' = "slot"
  /\ UNCHANGED <<inner, dpc, item, ret, slotVars, cur, drainErrs>>

ESendCtxDone ==
  /\ epc = "send" /\ InnerDone
  /\ EFail("ctx")
  /\ UNCHANGED <<envVars, dpc, item, ret, histVars, slots, slotsClosed, res, cur>>

\* The goroutine that empties the slots after an error.
Junk ==
  /\ \/ /\ junk = JunkIdle /\ slots # << >>
        /\ junk' = Head(slots) /\ slots' = Tail(slots)
     \/ /\ junk \in Items /\ res[junk] \in Results
        /\ junk' = JunkIdle /\ UNCHANGED slots
     \/ /\ junk = JunkIdle /\ slots = << >> /\ slotsClosed
        /\ junk' = JunkOff /\ UNCHANGED slots
  /\ UNCHANGED <<envVars, inner, dpc, item, ret, histVars, slotsClosed, res, drainerVars>>

-----------------------------------------------------------------------------
Dispatcher == \/ DRecv \/ DClosed \/ DDrained \/ DInnerDone \/ DToken
              \/ DSpawn \/ DClose \/ DReturn
Drainer == ESlot \/ EEnd \/ EResult \/ ESend \/ ESendCtxDone
Environment == (Consume \/ Leave \/ Cancel) /\ UNCHANGED <<slotVars, drainerVars>>

Finished == dpc = "end" /\ junk = JunkOff /\ (out = << >> \/ consumer = "gone")
Idle == Finished /\ UNCHANGED vars

Next == \/ Dispatcher \/ (\E i \in Items : Work(i)) \/ Drainer \/ Junk
        \/ Environment \/ Idle
=============================================================================
