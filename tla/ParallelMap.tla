----------------------------- MODULE ParallelMap ----------------------------
(***************************************************************************)
(* Map with Concurrency(n), n > 1: the build picks the ordered or the      *)
(* unordered stage function, and both implement the same abstract parallel *)
(* map.                                                                    *)
(***************************************************************************)
EXTENDS MapEnv

VARIABLES
  ordered,                           \* cfg.ordered
  w, errCh,                          \* of the unordered stage
  slots, slotsClosed, res, epc, cur, drainErrs, junk   \* of the ordered one

Unordered == INSTANCE MapConcurrent
InOrder == INSTANCE MapOrdered

unorderedVars == <<w, errCh>>
orderedVars == <<slots, slotsClosed, res, epc, cur, drainErrs, junk>>
shared == <<envVars, inner, dpc, item, ret, histVars>>
vars == <<ordered, shared, unorderedVars, orderedVars>>

TypeOK == ordered \in BOOLEAN /\ Unordered!TypeOK /\ InOrder!TypeOK

Init == ordered \in BOOLEAN /\ Unordered!Init /\ InOrder!Init

\* A step of the stage function that was picked.
IfUnordered(A) == ~ordered /\ A /\ UNCHANGED <<ordered, orderedVars>>
IfOrdered(A) == ordered /\ A /\ UNCHANGED <<ordered, unorderedVars>>

Next == IfUnordered(Unordered!Next) \/ IfOrdered(InOrder!Next)

\* Goroutines go on, functions return, a consumer that has not left reads.
Fairness ==
  /\ WF_vars(IfUnordered(Unordered!Dispatcher))
  /\ \A i \in Items : /\ WF_vars(IfUnordered(Unordered!Worker(i)))
                      /\ WF_vars(IfOrdered(InOrder!Work(i)))
  /\ WF_vars(IfOrdered(InOrder!Dispatcher))
  /\ WF_vars(IfOrdered(InOrder!Drainer))
  /\ WF_vars(IfOrdered(InOrder!Junk))
  /\ WF_vars(Consume /\ UNCHANGED <<ordered, unorderedVars, orderedVars>>)
Spec == Init /\ [][Next]_vars /\ Fairness

-----------------------------------------------------------------------------
\* At most Concurrency functions run at once, whatever tokens are handed
\* over, given back or collected at the end (the semaphores).
WithinConcurrency ==
  Cardinality(IF ordered THEN InOrder!Running ELSE Unordered!Busy) <= Concurrency

\* Both stage functions implement the abstract parallel map.  In particular
\* nothing is sent after the stage has returned (its channel is then closed,
\* and a send would panic); the cancellation a failing item spreads to its
\* siblings never hides the failure (reportErr before cancel, first error
\* wins); with Ordered() results leave in input order, and of several failing
\* items the first in that order decides, whichever goroutine failed first.
Abstract == INSTANCE MapSpec WITH emitted <- sent, asked <- ctxDone \/ drained
Refines == Abstract!Spec

\* The stage ends and leaves no goroutine behind: no order of failures,
\* cancellations and departures blocks the dispatcher, wg.Wait or the slots.
Termination == <>(dpc = "end" /\ (ordered => junk = InOrder!JunkOff))
=============================================================================
