------------------------------- MODULE Channel ------------------------------
(***************************************************************************)
(* The push source Channel[T] (source.go): goroutines call Send, TrySend   *)
(* and Close while the source stage of a pipeline reads.  A sync.RWMutex   *)
(* keeps Close from closing the Go channel under a sender; as in Go, a     *)
(* writer that waits for the lock keeps new readers out.                   *)
(***************************************************************************)
EXTENDS Integers, Sequences, FiniteSets

CONSTANTS
  Senders,     \* goroutines that call Send
  TrySenders,  \* goroutines that call TrySend
  Closers,     \* goroutines that call Close
  MaxCalls,    \* bound: calls of one sending goroutine
  Cap,         \* NewChannel(Cap), Cap > 0: not the rendezvous of NewChannel(0)
  MayCancel    \* whether the context given to Send may be cancelled

Callers == Senders \cup TrySenders

VARIABLES
  ch,        \* contents of the Go channel; <<p, k>> is the k-th item of p
  chClosed,  \* close(c.ch) has run
  closed,    \* the atomic flag c.closed
  readers,   \* goroutines that hold the read lock
  writer,    \* "none", "waiting" or "holding": the write lock
  once,      \* "new", "running" or "done"
  pc, calls,
  accepted,  \* history: items whose Send returned nil or TrySend true, in order
  received,  \* history: items the pipeline has read, in order
  stage,     \* the source stage: "reading", "stopped" or "closed"
  ctxDone

vars == <<ch, chClosed, closed, readers, writer, once, pc, calls, accepted,
          received, stage, ctxDone>>
mutex == <<readers, writer, once>>
world == <<stage, ctxDone>>

Item == Callers \X (1..MaxCalls)

TypeOK ==
  /\ ch \in Seq(Item) /\ Len(ch) <= Cap
  /\ chClosed \in BOOLEAN /\ closed \in BOOLEAN
  /\ readers \subseteq Callers /\ writer \in {"none", "waiting", "holding"}
  /\ writer = "holding" => readers = {}
  /\ once \in {"new", "running", "done"}
  /\ pc \in [Callers \cup Closers ->
               {"idle", "rlock", "recheck", "select", "lock", "close", "end"}]
  /\ calls \in [Callers -> 0..MaxCalls]
  /\ accepted \in Seq(Item) /\ received \in Seq(Item)
  /\ stage \in {"reading", "stopped", "closed"} /\ ctxDone \in BOOLEAN

Init ==
  /\ ch = << >> /\ chClosed = FALSE /\ closed = FALSE
  /\ readers = {} /\ writer = "none" /\ once = "new"
  /\ pc = [p \in Callers \cup Closers |-> "idle"]
  /\ calls = [p \in Callers |-> 0]
  /\ accepted = << >> /\ received = << >>
  /\ stage = "reading" /\ ctxDone = FALSE

-----------------------------------------------------------------------------
Goto(p, l) == pc' = [pc EXCEPT ![p] = l]

\* The call returns; the deferred RUnlock runs.
Return(p) == Goto(p, "idle") /\ readers' = readers \ {p} /\ UNCHANGED <<writer, once>>

\* Send and TrySend up to the first look at c.closed.
Call(p) ==
  /\ pc[p] = "idle" /\ calls[p] < MaxCalls
  /\ calls' = [calls EXCEPT ![p] = @ + 1]
  /\ IF closed THEN UNCHANGED pc ELSE Goto(p, "rlock")
  /\ UNCHANGED <<ch, chClosed, closed, mutex, accepted, received, world>>

RLock(p) ==
  /\ pc[p] = "rlock" /\ writer = "none"
  /\ readers' = readers \cup {p} /\ Goto(p, "recheck")
  /\ UNCHANGED <<ch, chClosed, closed, writer, once, calls, accepted, received, world>>

\* Mutant: no second look under the lock.
RecheckMutant(p) ==
  /\ pc[p] = "recheck" /\ Goto(p, "select")
  /\ UNCHANGED <<ch, chClosed, closed, mutex, calls, accepted, received, world>>

\* The second look at c.closed, under the lock.
Recheck(p) ==
  /\ pc[p] = "recheck"
  /\ IF closed THEN Return(p) ELSE Goto(p, "select") /\ UNCHANGED mutex
  /\ UNCHANGED <<ch, chClosed, closed, calls, accepted, received, world>>

Push(p) ==
  /\ pc[p] = "select" /\ Len(ch) < Cap
  /\ ch' = Append(ch, <<p, calls[p]>>)
  /\ accepted' = Append(accepted, <<p, calls[p]>>)
  /\ Return(p)
  /\ UNCHANGED <<chClosed, closed, calls, received, world>>

\* Send gives up with its context, TrySend at once.
NoRoom(p) ==
  /\ pc[p] = "select"
  /\ \/ p \in Senders /\ ctxDone
     \/ p \in TrySenders /\ Len(ch) = Cap
  /\ Return(p)
  /\ UNCHANGED <<ch, chClosed, closed, calls, accepted, received, world>>

-----------------------------------------------------------------------------
\* Close: the first caller runs the function, later ones wait for it.
EnterClose(p) ==
  /\ pc[p] = "idle" /\ p \in Closers
  /\ \/ /\ once = "new" /\ once' = "running" /\ writer' = "waiting"
        /\ Goto(p, "lock")
     \/ once = "done" /\ Goto(p, "end") /\ UNCHANGED <<once, writer>>
  /\ UNCHANGED <<ch, chClosed, closed, readers, calls, accepted, received, world>>

\* Mutant: the write lock does not wait for the readers.
LockMutant(p) ==
  /\ pc[p] = "lock"
  /\ writer' = "holding" /\ closed' = TRUE /\ Goto(p, "close")
  /\ UNCHANGED <<ch, chClosed, readers, once, calls, accepted, received, world>>

\* mu.Lock() and closed.Store(true).
Lock(p) ==
  /\ pc[p] = "lock" /\ readers = {}
  /\ writer' = "holding" /\ closed' = TRUE /\ Goto(p, "close")
  /\ UNCHANGED <<ch, chClosed, readers, once, calls, accepted, received, world>>

\* Mutant: the write lock is not released.
CloseChMutant(p) ==
  /\ pc[p] = "close"
  /\ chClosed' = TRUE /\ once' = "done" /\ Goto(p, "end")
  /\ UNCHANGED <<ch, closed, readers, writer, calls, accepted, received, world>>

\* close(c.ch), mu.Unlock(), and the return from once.Do.
CloseCh(p) ==
  /\ pc[p] = "close"
  /\ chClosed' = TRUE /\ writer' = "none" /\ once' = "done" /\ Goto(p, "end")
  /\ UNCHANGED <<ch, closed, readers, calls, accepted, received, world>>

-----------------------------------------------------------------------------
\* The source stage receives, or finds the channel closed and empty.
Read ==
  /\ stage = "reading"
  /\ \/ /\ ch # << >> /\ ch' = Tail(ch)
        /\ received' = Append(received, Head(ch)) /\ UNCHANGED stage
     \/ ch = << >> /\ chClosed /\ stage' = "closed" /\ UNCHANGED <<ch, received>>
  /\ UNCHANGED <<chClosed, closed, mutex, pc, calls, accepted, ctxDone>>

\* The pipeline stops reading: it failed, or a later stage has enough.
Stop ==
  /\ stage = "reading" /\ stage' = "stopped"
  /\ UNCHANGED <<ch, chClosed, closed, mutex, pc, calls, accepted, received, ctxDone>>

Cancel ==
  /\ MayCancel /\ ~ctxDone /\ ctxDone' = TRUE
  /\ UNCHANGED <<ch, chClosed, closed, mutex, pc, calls, accepted, received, stage>>

Sending(p) == RLock(p) \/ Recheck(p) \/ Push(p) \/ NoRoom(p)
Closing(p) == EnterClose(p) \/ Lock(p) \/ CloseCh(p)

Next == \/ \E p \in Callers : Call(p) \/ Sending(p)
        \/ \E p \in Closers : Closing(p)
        \/ Read \/ Stop \/ Cancel

\* A goroutine inside a call goes on, and so does a stage that still reads;
\* nobody need call anything, cancel or stop.
Fairness == /\ \A p \in Callers : WF_vars(Sending(p))
            /\ \A p \in Closers : WF_vars(Lock(p) \/ CloseCh(p))
            /\ WF_vars(Read)
Spec == Init /\ [][Next]_vars /\ Fairness

-----------------------------------------------------------------------------
\* No send on a closed channel, which would panic in the caller's goroutine:
\* whoever has reached the select still finds the channel open, also when
\* Close started in between.
NoSendOnClosed == \A p \in Callers : pc[p] = "select" => ~chClosed

\* The pipeline receives the accepted items in the order in which they were
\* accepted, and when it has seen the end of the channel it has received all
\* of them ("drains remaining buffered items and exits cleanly").
DrainedOnClose ==
  /\ \E n \in 0..Len(accepted) : received = SubSeq(accepted, 1, n)
  /\ stage = "closed" => received = accepted

\* Nobody is inside Send, TrySend or Close.
AllReturned == \A p \in Callers \cup Closers : pc[p] \in {"idle", "end"}
=============================================================================
