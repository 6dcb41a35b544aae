------------------------------- MODULE MapSpec ------------------------------
(***************************************************************************)
(* What a parallel Map promises, whatever its implementation: each item is *)
(* emitted at most once, skipped, or fails; with Ordered() the items are   *)
(* settled in input order; after a failure nothing more of the input is    *)
(* settled in that order; and a stage that reports success has settled     *)
(* every item unless it was asked to stop.                                 *)
(***************************************************************************)
EXTENDS Integers, Sequences

CONSTANTS
  NItems,   \* the input is 1..NItems
  CanFail   \* items on which the function may fail

VARIABLES
  ordered,  \* the stage has the option Ordered()
  emitted,  \* items sent downstream, in order
  skipped,  \* items dropped by the error handler
  asked,    \* the stage was asked to stop: by its context or its consumer
  ret       \* "running", or what the stage returned

vars == <<ordered, emitted, skipped, asked, ret>>

Items == 1..NItems
Settled == {emitted[n] : n \in 1..Len(emitted)} \cup skipped

Init == ordered \in BOOLEAN /\ emitted = << >> /\ skipped = {} /\ asked = FALSE /\ ret = "running"

\* Item i may be settled now.
Due(i) == /\ i \notin Settled
          /\ ordered => \A j \in 1..(i - 1) : j \in Settled

Emit(i) == /\ ret = "running" /\ Due(i)
           /\ emitted' = Append(emitted, i)
           /\ UNCHANGED <<ordered, skipped, asked, ret>>

Skip(i) == /\ ret = "running" /\ Due(i)
           /\ skipped' = skipped \cup {i}
           /\ UNCHANGED <<ordered, emitted, asked, ret>>

Ask == ~asked /\ asked' = TRUE /\ UNCHANGED <<ordered, emitted, skipped, ret>>

\* The function failed on an item that was due; with Ordered() that is the
\* first item in input order that is not settled.
Fail == /\ ret = "running" /\ \E i \in CanFail : Due(i)
        /\ ret' = "user" /\ UNCHANGED <<ordered, emitted, skipped, asked>>

Succeed == /\ ret = "running"
           /\ asked \/ Settled = Items
           /\ ret' = "nil" /\ UNCHANGED <<ordered, emitted, skipped, asked>>

GiveUp == /\ ret = "running" /\ asked
          /\ ret' = "ctx" /\ UNCHANGED <<ordered, emitted, skipped, asked>>

Next == (\E i \in Items : Emit(i) \/ Skip(i)) \/ Ask \/ Fail \/ Succeed \/ GiveUp

Spec == Init /\ [][Next]_vars
=============================================================================
