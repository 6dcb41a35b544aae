------------------------------- MODULE Outbox -------------------------------
(***************************************************************************)
(* The overflow strategies of a stage's output (internal/outbox.go): what  *)
(* several goroutines do that send into one bounded channel through a      *)
(* blocking, drop-newest or drop-oldest outbox while a consumer reads.     *)
(*                                                                         *)
(* A drop-oldest outbox has one mutex, its sharded form one per shard;     *)
(* neither the lock-free first attempt nor the consumer takes a mutex.     *)
(***************************************************************************)
EXTENDS Integers, Sequences, FiniteSets

CONSTANTS
  Senders,    \* goroutines that call Send
  MaxCalls,   \* bound: Send calls of one goroutine
  Configs     \* the outboxes of the run, as records
              \*   overflow: "block", "newest" or "oldest"
              \*   shard[s]: the mutex of the outbox that s was given
              \*   cap: buffer of the channel

Free == "free"

VARIABLES
  cfg,       \* what NewOutbox was called with
  ch,        \* the channel; an item <<s, k>> is the k-th one of sender s
  lock,      \* lock[m]: the sender that holds mutex m, or Free
  pc,        \* pc[s]: where s is in Send, "idle" outside
  calls,     \* calls[s]: Send calls s has made
  dropped,   \* the atomic dropped counter
  lost,      \* items passed to OnDrop
  failed,    \* items whose Send returned ctx.Err()
  received,  \* items the consumer has read, in order
  ctxDone    \* the context is cancelled

vars == <<cfg, ch, lock, pc, calls, dropped, lost, failed, received, ctxDone>>

Shards == {cfg.shard[s] : s \in Senders}
Item == Senders \X (1..MaxCalls)
Current(s) == <<s, calls[s]>>
Full == Len(ch) >= cfg.cap

TypeOK ==
  /\ cfg \in Configs
  /\ ch \in Seq(Item) /\ Len(ch) <= cfg.cap
  /\ lock \in [Shards -> Senders \cup {Free}]
  /\ pc \in [Senders -> {"idle", "try", "lock", "retry", "evict", "resend"}]
  /\ calls \in [Senders -> 0..MaxCalls]
  /\ dropped \in Nat
  /\ lost \subseteq Item /\ failed \subseteq Item
  /\ received \in Seq(Item)
  /\ ctxDone \in BOOLEAN

Init ==
  /\ cfg \in Configs
  /\ ch = << >>
  /\ lock = [m \in Shards |-> Free]
  /\ pc = [s \in Senders |-> "idle"]
  /\ calls = [s \in Senders |-> 0]
  /\ dropped = 0 /\ lost = {} /\ failed = {}
  /\ received = << >> /\ ctxDone = FALSE

-----------------------------------------------------------------------------
Goto(s, l) == pc' = [pc EXCEPT ![s] = l]

\* Send returns; a drop-oldest Send that holds its mutex gives it up.
Return(s) ==
  /\ Goto(s, "idle")
  /\ lock' = [m \in Shards |-> IF lock[m] = s THEN Free ELSE lock[m]]

Enqueue(s) == ~Full /\ ch' = Append(ch, Current(s))

\* The dropped counter and the OnDrop hook.
Drop(i) == dropped' = dropped + 1 /\ lost' = lost \cup {i}

Call(s) ==
  /\ pc[s] = "idle" /\ calls[s] < MaxCalls
  /\ calls' = [calls EXCEPT ![s] = @ + 1]
  /\ Goto(s, "try")
  /\ UNCHANGED <<cfg, ch, lock, dropped, lost, failed, received, ctxDone>>

\* The first select finds room.
TrySend(s) ==
  /\ pc[s] = "try" /\ Enqueue(s)
  /\ Return(s)
  /\ UNCHANGED <<cfg, calls, dropped, lost, failed, received, ctxDone>>

\* blockingOutbox: the select takes its ctx.Done() case.
BlockCtxDone(s) ==
  /\ cfg.overflow = "block" /\ pc[s] = "try" /\ ctxDone
  /\ failed' = failed \cup {Current(s)}
  /\ Return(s)
  /\ UNCHANGED <<cfg, ch, calls, dropped, lost, received, ctxDone>>

\* dropNewestOutbox: the buffer is full, the item is discarded.
DropNewest(s) ==
  /\ cfg.overflow = "newest" /\ pc[s] = "try" /\ Full
  /\ Drop(Current(s)) /\ Return(s)
  /\ UNCHANGED <<cfg, ch, calls, failed, received, ctxDone>>

\* dropOldestOutbox: the buffer is full, take the slow path.
SlowPath(s) ==
  /\ cfg.overflow = "oldest" /\ pc[s] = "try" /\ Full
  /\ Goto(s, "lock")
  /\ UNCHANGED <<cfg, ch, lock, calls, dropped, lost, failed, received, ctxDone>>

Lock(s) ==
  /\ pc[s] = "lock" /\ lock[cfg.shard[s]] = Free
  /\ lock' = [lock EXCEPT ![cfg.shard[s]] = s]
  /\ Goto(s, "retry")
  /\ UNCHANGED <<cfg, ch, calls, dropped, lost, failed, received, ctxDone>>

\* Under the mutex, try once more.
Retry(s) ==
  /\ pc[s] = "retry"
  /\ \/ Enqueue(s) /\ Return(s)
     \/ Full /\ Goto(s, "evict") /\ UNCHANGED <<ch, lock>>
  /\ UNCHANGED <<cfg, calls, dropped, lost, failed, received, ctxDone>>

\* Mutant: the evicted item is not counted.
EvictMutant(s) ==
  /\ pc[s] = "evict"
  /\ ch' = IF ch = << >> THEN ch ELSE Tail(ch)
  /\ Goto(s, "resend")
  /\ UNCHANGED <<cfg, lock, calls, dropped, lost, failed, received, ctxDone>>

\* Evict the oldest item; the consumer may have emptied the channel.
Evict(s) ==
  /\ pc[s] = "evict"
  /\ \/ ch # << >> /\ ch' = Tail(ch) /\ Drop(Head(ch))
     \/ ch = << >> /\ UNCHANGED <<ch, dropped, lost>>
  /\ Goto(s, "resend")
  /\ UNCHANGED <<cfg, lock, calls, failed, received, ctxDone>>

\* Send the new item, or drop it if the freed slot has been taken.
Resend(s) ==
  /\ pc[s] = "resend"
  /\ \/ Enqueue(s) /\ UNCHANGED <<dropped, lost>>
     \/ Full /\ Drop(Current(s)) /\ UNCHANGED ch
  /\ Return(s)
  /\ UNCHANGED <<cfg, calls, failed, received, ctxDone>>

\* The next stage receives.
Receive ==
  /\ ch # << >>
  /\ received' = Append(received, Head(ch))
  /\ ch' = Tail(ch)
  /\ UNCHANGED <<cfg, lock, pc, calls, dropped, lost, failed, ctxDone>>

\* Only a blocking Send looks at the context.
Cancel ==
  /\ cfg.overflow = "block" /\ ~ctxDone
  /\ ctxDone' = TRUE
  /\ UNCHANGED <<cfg, ch, lock, pc, calls, dropped, lost, failed, received>>

Sending(s) == \/ TrySend(s) \/ BlockCtxDone(s) \/ DropNewest(s)
              \/ SlowPath(s) \/ Lock(s) \/ Retry(s) \/ Evict(s) \/ Resend(s)

Next == \/ \E s \in Senders : Call(s) \/ Sending(s)
        \/ Receive \/ Cancel

\* A goroutine inside Send goes on; nobody need call Send, read or cancel.
Fairness == \A s \in Senders : WF_vars(Sending(s))
Spec == Init /\ [][Next]_vars /\ Fairness

-----------------------------------------------------------------------------
\* How often item i is accounted for: buffered, read, dropped, refused, or
\* still in the hands of its sender.
Buffered(i) == {n \in 1..Len(ch) : ch[n] = i}
Read(i) == {n \in 1..Len(received) : received[n] = i}
Places(i) ==
  Cardinality(Buffered(i)) + Cardinality(Read(i))
  + (IF i \in lost THEN 1 ELSE 0) + (IF i \in failed THEN 1 ELSE 0)
  + (IF pc[i[1]] # "idle" /\ i = Current(i[1]) THEN 1 ELSE 0)

\* Nothing is duplicated or lost without trace: every item ever given to
\* Send is in exactly one place, and Dropped() counts the items OnDrop saw,
\* whatever the interleaving of senders, shards and consumer.
Accounted ==
  /\ \A s \in Senders : \A k \in 1..calls[s] : Places(<<s, k>>) = 1
  /\ dropped = Cardinality(lost)

\* The consumer never sees two items of one sender in the wrong order, also
\* when the buffer was rotated under it by evictions.
SenderOrder ==
  \A m, n \in 1..Len(received) :
    (m < n /\ received[m][1] = received[n][1]) => received[m][2] < received[n][2]

\* A Send that must return: the drop strategies never block, and a blocking
\* outbox lets its senders go when the context is cancelled.
MustReturn(s) == pc[s] # "idle" /\ (cfg.overflow = "block" => ctxDone)
=============================================================================
