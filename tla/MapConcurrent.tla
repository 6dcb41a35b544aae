---------------------------- MODULE MapConcurrent ---------------------------
(***************************************************************************)
(* Map with Concurrency(n), unordered: a dispatcher receives items, takes  *)
(* a semaphore token and starts a goroutine per item, which runs the       *)
(* function and sends the result itself (mapConcurrent, blocking outbox,   *)
(* no supervision).                                                        *)
(***************************************************************************)
EXTENDS MapEnv

VARIABLES
  w,      \* w[i]: the goroutine of item i
  errCh   \* the one-slot error channel: "none" or an error

vars == <<envVars, inner, dpc, item, ret, histVars, w, errCh>>

TypeOK ==
  /\ EnvType
  /\ w \in [Items -> {"none", "run", "send", "cancel", "end"}]
  /\ errCh \in {"none", "user", "ctx"}

Busy == {i \in Items : w[i] \in {"run", "send", "cancel"}}

Init == EnvInit /\ w = [i \in Items |-> "none"] /\ errCh = "none"

-----------------------------------------------------------------------------
(* The dispatcher. *)

DRecv ==
  /\ dpc = "recv" /\ next <= NItems
  /\ item' = next /\ next' = next + 1 /\ dpc' = "sem"
  /\ UNCHANGED <<out, consumer, drained, ctxDone, inner, ret, histVars, w, errCh>>

DClosed ==
  /\ dpc = "recv" /\ next > NItems
  /\ dpc' = "wait"
  /\ UNCHANGED <<envVars, inner, item, ret, histVars, w, errCh>>

DDrained ==
  /\ dpc = "recv" /\ drained
  /\ inner' = TRUE /\ dpc' = "wait"
  /\ UNCHANGED <<envVars, item, ret, histVars, w, errCh>>

\* innerCtx.Done(), in the receive select or in the wait for a token.
DInnerDone ==
  /\ dpc \in {"recv", "sem"} /\ InnerDone
  /\ dpc' = "wait"
  /\ UNCHANGED <<envVars, inner, item, ret, histVars, w, errCh>>

\* Mutant: one token too many.
DSpawnMutant ==
  /\ dpc = "sem" /\ Cardinality(Busy) <= Concurrency
  /\ w' = [w EXCEPT ![item] = "run"] /\ dpc' = "recv"
  /\ UNCHANGED <<envVars, inner, item, ret, histVars, errCh>>

DSpawn ==
  /\ dpc = "sem" /\ Cardinality(Busy) < Concurrency
  /\ w' = [w EXCEPT ![item] = "run"] /\ dpc' = "recv"
  /\ UNCHANGED <<envVars, inner, item, ret, histVars, errCh>>

\* wg.Wait(), the final look at errCh, and the deferred cancel.
DReturn ==
  /\ dpc = "wait" /\ Busy = {}
  /\ ret' = IF errCh = "none" THEN "nil" ELSE errCh
  /\ inner' = TRUE /\ dpc' = "end"
  /\ UNCHANGED <<envVars, item, histVars, w, errCh>>

-----------------------------------------------------------------------------
(* The goroutine of one item. *)

\* reportErr: a non-blocking send into the one-slot channel.
ReportErr(e) == errCh' = IF errCh = "none" THEN e ELSE errCh

\* The function returns an error: a failure, or the cancellation it observed.
WorkFail(i) ==
  /\ w[i] = "run"
  /\ \/ i \in CanFail /\ ReportErr("user")
     \/ InnerDone /\ ReportErr("ctx")
  /\ w' = [w EXCEPT ![i] = "cancel"]
  /\ UNCHANGED <<envVars, inner, dpc, item, ret, histVars>>

WorkSkip(i) ==
  /\ w[i] = "run" /\ i \in CanSkip
  /\ w' = [w EXCEPT ![i] = "end"] /\ skipped' = skipped \cup {i}
  /\ UNCHANGED <<envVars, inner, dpc, item, ret, sent, errCh>>

WorkOk(i) ==
  /\ w[i] = "run"
  /\ w' = [w EXCEPT ![i] = "send"]
  /\ UNCHANGED <<envVars, inner, dpc, item, ret, histVars, errCh>>

SendOk(i) ==
  /\ w[i] = "send" /\ Put(i)
  /\ w' = [w EXCEPT ![i] = "end"]
  /\ UNCHANGED <<inner, dpc, item, ret, errCh>>

SendCtxDone(i) ==
  /\ w[i] = "send" /\ InnerDone
  /\ ReportErr("ctx")
  /\ w' = [w EXCEPT ![i] = "cancel"]
  /\ UNCHANGED <<envVars, inner, dpc, item, ret, histVars>>

\* cancel(), after the error has been reported.
CancelInner(i) ==
  /\ w[i] = "cancel"
  /\ inner' = TRUE /\ w' = [w EXCEPT ![i] = "end"]
  /\ UNCHANGED <<envVars, dpc, item, ret, histVars, errCh>>

-----------------------------------------------------------------------------
Dispatcher == DRecv \/ DClosed \/ DDrained \/ DInnerDone \/ DSpawn \/ DReturn
Worker(i) == \/ WorkFail(i) \/ WorkSkip(i) \/ WorkOk(i)
             \/ SendOk(i) \/ SendCtxDone(i) \/ CancelInner(i)
Environment == (Consume \/ Leave \/ Cancel) /\ UNCHANGED <<w, errCh>>

\* The stage has returned and its consumer has emptied the channel.
Idle == dpc = "end" /\ (out = << >> \/ consumer = "gone") /\ UNCHANGED vars

Next == Dispatcher \/ (\E i \in Items : Worker(i)) \/ Environment \/ Idle
=============================================================================
