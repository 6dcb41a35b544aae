---------------------------- MODULE SharedProofs ----------------------------
(***************************************************************************)
(* Proofs about the objects of Shared.                                     *)
(*                                                                         *)
(* Channel, for any senders, try-senders, closers, buffer and number of    *)
(* calls: nobody sends on the closed Go channel, and the pipeline receives *)
(* what was accepted, in order and, once it has seen the end, completely.  *)
(*                                                                         *)
(* Outbox, for any senders, shards, capacities and strategies: every item  *)
(* given to Send is in exactly one place, Dropped() counts what OnDrop     *)
(* saw, and the consumer sees the items of one sender in order.  The       *)
(* places are sets of items here: that a buffer holds an item at most once *)
(* follows from the order of the items of one sender in it.                *)
(*                                                                         *)
(* CircuitBreaker, for any workers, threshold, cooldown, probes and        *)
(* half-open timeout: probes decide what a half-open circuit becomes.      *)
(***************************************************************************)
EXTENDS Shared, SequenceTheorems, FiniteSetTheorems, TLAPS

-----------------------------------------------------------------------------
(* Channel. *)
\* Whoever is inside Send or TrySend has made a call.
CallInv ==
  \A p \in C!Callers : pc[p] \in {"rlock", "recheck", "select"} => calls[p] \in 1..MaxCalls

\* Whoever is between RLock and RUnlock holds the read lock, and whoever has
\* looked at c.closed under it still finds it unset, because Close sets it
\* only when nobody holds the lock; the Go channel is closed after the flag.
LockInv ==
  /\ \A p \in C!Callers : pc[p] \in {"recheck", "select"} => p \in readers
  /\ \A p \in C!Callers : pc[p] = "select" => ~closed
  /\ \A p \in Closers : pc[p] = "close" => closed
  /\ chClosed => closed

\* The accepted items are the received ones followed by the buffered ones, and
\* the stage ends with an empty channel that stays empty.
FlowInv ==
  /\ accepted = received \o ch
  /\ stage = "closed" => chClosed /\ ch = << >>

-----------------------------------------------------------------------------
\* Reading moves the boundary between what was received and what is buffered.
LEMMA ConcatHeadTail ==
  ASSUME NEW S, NEW r \in Seq(S), NEW q \in Seq(S), q # << >>
  PROVE  Append(r, Head(q)) \o Tail(q) = r \o q
  OBVIOUS

\* Pushing appends to the whole.
LEMMA ConcatAppend ==
  ASSUME NEW S, NEW r \in Seq(S), NEW q \in Seq(S), NEW x \in S
  PROVE  r \o Append(q, x) = Append(r \o q, x)
  OBVIOUS

\* The first part of a concatenation is a prefix of it.
LEMMA ConcatPrefix ==
  ASSUME NEW S, NEW r \in Seq(S), NEW q \in Seq(S)
  PROVE  \E n \in 0..Len(r \o q) : r = SubSeq(r \o q, 1, n)
<1>1. r = SubSeq(r \o q, 1, Len(r)) /\ Len(r) \in 0..Len(r \o q)
  OBVIOUS
<1> QED BY <1>1

-----------------------------------------------------------------------------
\* Every step of the senders, the closers, the stage and the context keeps
\* every variable in its range: the buffer within Cap, the write lock held
\* only without readers.
LEMMA TypeStep ==
  ASSUME C!TypeOK, CallInv, [C!Next]_channelVars
  PROVE  C!TypeOK' /\ CallInv'
<1> USE SharedAssumption DEF CallInv
<1>1. CASE UNCHANGED channelVars
  BY <1>1 DEF channelVars, C!vars, C!TypeOK
<1>2. ASSUME NEW p \in C!Callers, C!Call(p) PROVE C!TypeOK' /\ CallInv'
  <2>1. calls[p] \in 0..MaxCalls /\ calls[p] + 1 \in 1..MaxCalls
    BY <1>2 DEF C!TypeOK, C!Call
  <2>2. calls' \in [C!Callers -> 0..MaxCalls] /\ calls'[p] = calls[p] + 1
        /\ \A q \in C!Callers \ {p} : calls'[q] = calls[q]
    BY <1>2, <2>1 DEF C!TypeOK, C!Call
  <2>3. \/ pc' = pc
        \/ pc' = [pc EXCEPT ![p] = "rlock"]
    BY <1>2 DEF C!Call, C!Goto
  <2>4. C!TypeOK'
    BY <1>2, <2>2, <2>3 DEF C!TypeOK, C!Call, C!mutex, C!world, C!Item
  <2>5. CallInv'
    BY <2>1, <2>2, <2>3 DEF C!TypeOK
  <2> QED BY <2>4, <2>5
<1>3. ASSUME NEW p \in C!Callers, C!RLock(p) PROVE C!TypeOK' /\ CallInv'
  BY <1>3 DEF C!TypeOK, C!RLock, C!Goto, C!world, C!Item
<1>4. ASSUME NEW p \in C!Callers, C!Recheck(p) PROVE C!TypeOK' /\ CallInv'
  BY <1>4 DEF C!TypeOK, C!Recheck, C!Return, C!Goto, C!mutex, C!world, C!Item
<1>5. ASSUME NEW p \in C!Callers, C!Push(p) PROVE C!TypeOK' /\ CallInv'
  <2>1. <<p, calls[p]>> \in C!Item
    BY <1>5 DEF C!Push, C!Item
  <2>2. ch' \in Seq(C!Item) /\ Len(ch') <= Cap /\ accepted' \in Seq(C!Item)
    BY <1>5, <2>1 DEF C!TypeOK, C!Push
  <2> QED BY <1>5, <2>2 DEF C!TypeOK, C!Push, C!Return, C!Goto, C!world
<1>6. ASSUME NEW p \in C!Callers, C!NoRoom(p) PROVE C!TypeOK' /\ CallInv'
  BY <1>6 DEF C!TypeOK, C!NoRoom, C!Return, C!Goto, C!world, C!Item
<1>7. ASSUME NEW p \in Closers, C!EnterClose(p) PROVE C!TypeOK' /\ CallInv'
  BY <1>7 DEF C!TypeOK, C!EnterClose, C!Goto, C!world, C!Item
<1>8. ASSUME NEW p \in Closers, C!Lock(p) PROVE C!TypeOK' /\ CallInv'
  BY <1>8 DEF C!TypeOK, C!Lock, C!Goto, C!world, C!Item
<1>9. ASSUME NEW p \in Closers, C!CloseCh(p) PROVE C!TypeOK' /\ CallInv'
  BY <1>9 DEF C!TypeOK, C!CloseCh, C!Goto, C!world, C!Item
<1>10. CASE C!Read
  <2>1. CASE ch # << >> /\ ch' = Tail(ch) /\ received' = Append(received, Head(ch)) /\ UNCHANGED stage
    <3>1. ch' \in Seq(C!Item) /\ Len(ch') <= Cap /\ received' \in Seq(C!Item)
      BY <2>1 DEF C!TypeOK
    <3> QED BY <1>10, <2>1, <3>1 DEF C!TypeOK, C!Read, C!mutex
  <2>2. CASE stage' = "closed" /\ UNCHANGED <<ch, received>>
    BY <1>10, <2>2 DEF C!TypeOK, C!Read, C!mutex
  <2> QED BY <1>10, <2>1, <2>2 DEF C!Read
<1>11. CASE C!Stop \/ C!Cancel
  BY <1>11 DEF C!TypeOK, C!Stop, C!Cancel, C!mutex, C!Item
<1> QED
  BY <1>1, <1>2, <1>3, <1>4, <1>5, <1>6, <1>7, <1>8, <1>9, <1>10, <1>11
     DEF C!Next, C!Sending, C!Closing

\* Close sets the flag only when no sender is between its second look at it
\* and its send, so the flag, and the Go channel after it, stay as that
\* sender saw them.
LEMMA LockStep ==
  ASSUME C!TypeOK, LockInv, [C!Next]_channelVars
  PROVE  LockInv'
<1> USE DEF LockInv, C!TypeOK
<1>1. CASE UNCHANGED channelVars
  BY <1>1 DEF channelVars, C!vars
<1>2. ASSUME NEW p \in C!Callers, C!Call(p) PROVE LockInv'
  BY <1>2 DEF C!Call, C!Goto, C!mutex, C!world
<1>3. ASSUME NEW p \in C!Callers, C!RLock(p) PROVE LockInv'
  BY <1>3 DEF C!RLock, C!Goto, C!world
<1>4. ASSUME NEW p \in C!Callers, C!Recheck(p) PROVE LockInv'
  BY <1>4 DEF C!Recheck, C!Return, C!Goto, C!mutex, C!world
<1>5. ASSUME NEW p \in C!Callers, C!Push(p) PROVE LockInv'
  BY <1>5 DEF C!Push, C!Return, C!Goto, C!world
<1>6. ASSUME NEW p \in C!Callers, C!NoRoom(p) PROVE LockInv'
  BY <1>6 DEF C!NoRoom, C!Return, C!Goto, C!world
<1>7. ASSUME NEW p \in Closers, C!EnterClose(p) PROVE LockInv'
  BY <1>7 DEF C!EnterClose, C!Goto, C!world
<1>8. ASSUME NEW p \in Closers, C!Lock(p) PROVE LockInv'
  BY <1>8 DEF C!Lock, C!Goto, C!world
<1>9. ASSUME NEW p \in Closers, C!CloseCh(p) PROVE LockInv'
  BY <1>9 DEF C!CloseCh, C!Goto, C!world
<1>10. CASE C!Read \/ C!Stop \/ C!Cancel
  BY <1>10 DEF C!Read, C!Stop, C!Cancel, C!mutex
<1> QED
  BY <1>1, <1>2, <1>3, <1>4, <1>5, <1>6, <1>7, <1>8, <1>9, <1>10
     DEF C!Next, C!Sending, C!Closing

\* Only a push and a read move items, and neither drops, repeats or swaps
\* one; a closed channel takes no push, so it stays empty once it was seen
\* empty.
LEMMA FlowStep ==
  ASSUME C!TypeOK, CallInv, LockInv, FlowInv, [C!Next]_channelVars
  PROVE  FlowInv'
<1> USE DEF FlowInv
<1>1. ASSUME NEW p \in C!Callers, C!Push(p) PROVE FlowInv'
  <2>1. <<p, calls[p]>> \in C!Item
    BY <1>1 DEF C!Push, CallInv, C!Item
  <2>2. received \o Append(ch, <<p, calls[p]>>) = Append(received \o ch, <<p, calls[p]>>)
    BY <2>1, ConcatAppend DEF C!TypeOK
  <2>3. accepted' = received' \o ch'
    BY <1>1, <2>2 DEF C!Push
  <2>4. stage' # "closed"
    BY <1>1 DEF C!Push, LockInv, C!world
  <2> QED BY <2>3, <2>4
<1>2. CASE C!Read
  <2>1. CASE ch # << >>
    <3>1. accepted' = received' \o ch'
      BY <1>2, <2>1, ConcatHeadTail DEF C!TypeOK, C!Read
    <3> QED BY <1>2, <2>1, <3>1 DEF C!Read
  <2>2. CASE ch = << >>
    BY <1>2, <2>2 DEF C!Read
  <2> QED BY <2>1, <2>2
<1>3. CASE /\ UNCHANGED <<accepted, received, ch, chClosed>>
           /\ stage' = "closed" => stage = "closed"
  BY <1>3
<1>4. ASSUME NEW p \in Closers, C!CloseCh(p) PROVE FlowInv'
  BY <1>4 DEF C!CloseCh, C!world
<1> QED
  BY <1>1, <1>2, <1>3, <1>4
     DEF C!Next, C!Sending, C!Closing, C!Call, C!RLock, C!Recheck, C!NoRoom, C!EnterClose, C!Lock,
         C!Stop, C!Cancel, channelVars, C!vars, C!world

-----------------------------------------------------------------------------
Inv == C!TypeOK /\ CallInv /\ LockInv /\ FlowInv
ChannelInv == which = "channel" => Inv

\* A channel source starts in the invariant.
LEMMA InitInv == C!Init => Inv
<1> SUFFICES ASSUME C!Init PROVE Inv
  OBVIOUS
<1>1. C!TypeOK
  <2>1. ch \in Seq(C!Item) /\ Len(ch) <= Cap /\ accepted \in Seq(C!Item) /\ received \in Seq(C!Item)
    BY SharedAssumption DEF C!Init
  <2>2. pc \in [C!Callers \cup Closers ->
                  {"idle", "rlock", "recheck", "select", "lock", "close", "end"}]
    BY DEF C!Init
  <2>3. calls \in [C!Callers -> 0..MaxCalls]
    BY SharedAssumption DEF C!Init
  <2> QED BY <2>1, <2>2, <2>3 DEF C!Init, C!TypeOK
<1>2. CallInv /\ LockInv
  BY DEF C!Init, CallInv, LockInv
<1>3. FlowInv
  BY DEF C!Init, FlowInv
<1> QED BY <1>1, <1>2, <1>3 DEF Inv

\* The four parts together are inductive.
LEMMA ChannelInvHolds == Spec => []ChannelInv
<1>1. Init => ChannelInv
  BY InitInv DEF Init, ChannelInv
<1>2. ChannelInv /\ [Next]_vars => ChannelInv'
  <2> SUFFICES ASSUME ChannelInv, [Next]_vars, which' = "channel" PROVE Inv'
    BY DEF ChannelInv
  <2>1. which = "channel" /\ [C!Next]_channelVars
    BY DEF Next, vars, channelVars, C!vars, onlyChannel
  <2> QED BY <2>1, TypeStep, LockStep, FlowStep DEF Inv, ChannelInv
<1> QED BY <1>1, <1>2, PTL DEF Spec

\* Send and TrySend never send on the closed Go channel, however many of them
\* race with however many calls of Close.
THEOREM NeverSendsOnClosed == Spec => []NoSendOnClosed
<1>1. ChannelInv => NoSendOnClosed
  BY DEF ChannelInv, Inv, LockInv, NoSendOnClosed, C!NoSendOnClosed
<1> QED BY <1>1, ChannelInvHolds, PTL

\* The pipeline receives the accepted items in the order of their acceptance
\* and, when it has seen the end of the channel, all of them; the buffer never
\* exceeds NewChannel's and the write lock is never held beside a reader.
THEOREM ChannelDrains == Spec => [](which = "channel" => C!TypeOK /\ C!DrainedOnClose)
<1>1. Inv => C!DrainedOnClose
  <2> SUFFICES ASSUME Inv PROVE C!DrainedOnClose
    OBVIOUS
  <2>1. \E n \in 0..Len(accepted) : received = SubSeq(accepted, 1, n)
    BY ConcatPrefix DEF Inv, FlowInv, C!TypeOK
  <2>2. stage = "closed" => received = accepted
    BY DEF Inv, FlowInv, C!TypeOK
  <2> QED BY <2>1, <2>2 DEF C!DrainedOnClose
<1>2. ChannelInv => (which = "channel" => C!TypeOK /\ C!DrainedOnClose)
  BY <1>1 DEF ChannelInv, Inv
<1> QED BY <1>2, ChannelInvHolds, PTL

-----------------------------------------------------------------------------
(* Outbox. *)
Elems(q) == {q[n] : n \in 1..Len(q)}
Held == {i \in O!Item : pc[i[1]] # "idle" /\ i[2] = calls[i[1]]}

\* Whoever is inside Send has made a call.
SendInv == \A s \in Users : pc[s] # "idle" => calls[s] \in 1..MaxCalls

\* The items given to Send are divided among the buffer, the consumer, OnDrop,
\* the failed calls and the hands of their senders.
Made == Elems(ch) \cup Elems(received) \cup lost \cup failed \cup Held
PlaceInv ==
  /\ \A i \in O!Item : i[2] <= calls[i[1]] <=> i \in Made
  /\ Elems(ch) \cap (Elems(received) \cup lost \cup failed \cup Held) = {}
  /\ Elems(received) \cap (lost \cup failed \cup Held) = {}
  /\ lost \cap (failed \cup Held) = {} /\ failed \cap Held = {}

\* Of two items of one sender the earlier one comes first, in the buffer,
\* among the items read, and from these to the buffer.
Before(i, j) == i[1] = j[1] => i[2] < j[2]
Ordered(q) == \A m, n \in 1..Len(q) : m < n => Before(q[m], q[n])
OrderInv ==
  /\ Ordered(ch) /\ Ordered(received)
  /\ \A i \in Elems(received), j \in Elems(ch) : Before(i, j)

CountInv == IsFiniteSet(lost) /\ dropped = Cardinality(lost)

-----------------------------------------------------------------------------
\* Outbox counts with the same operator as the facts about finite sets.
LEMMA SameCardinality == ASSUME NEW S PROVE O!Cardinality(S) = Cardinality(S)
  BY DEF O!Cardinality, Cardinality

\* What is in a buffer after a send.
LEMMA ElemsAppend ==
  ASSUME NEW S, NEW q \in Seq(S), NEW x \in S
  PROVE  Elems(Append(q, x)) = Elems(q) \cup {x}
  BY DEF Elems

\* The oldest item of a nonempty buffer, and what is left without it.
LEMMA ElemsTail ==
  ASSUME NEW S, NEW q \in Seq(S), q # << >>, Ordered(q), 
         \A i \in S : i[2] \in Int
  PROVE  /\ Head(q) \in Elems(q)
         /\ Elems(Tail(q)) = Elems(q) \ {Head(q)}
         /\ Ordered(Tail(q))
         /\ \A j \in Elems(Tail(q)) : Before(Head(q), j)
<1>1. /\ Head(q) = q[1] /\ Len(q) \in Nat /\ Len(q) >= 1 /\ Len(Tail(q)) = Len(q) - 1
      /\ \A n \in 1..Len(q) - 1 : Tail(q)[n] = q[n + 1]
  OBVIOUS
<1>2. \A n \in 2..Len(q) : Before(q[1], q[n]) /\ q[n] # q[1]
  BY <1>1 DEF Ordered, Before
<1>3. \A n \in 2..Len(q) : n - 1 \in 1..Len(Tail(q)) /\ Tail(q)[n - 1] = q[n]
  BY <1>1
<1>4. Head(q) \in Elems(q)
  BY <1>1 DEF Elems
<1>5. ASSUME NEW j \in Elems(Tail(q)) PROVE j \in Elems(q) /\ j # Head(q) /\ Before(Head(q), j)
  <2>1. PICK n \in 1..Len(q) - 1 : j = q[n + 1]
    BY <1>1, <1>5 DEF Elems
  <2>2. n + 1 \in 2..Len(q) /\ n + 1 \in 1..Len(q)
    BY <1>1
  <2> QED BY <1>1, <1>2, <2>1, <2>2 DEF Elems
<1>6. ASSUME NEW j \in Elems(q), j # Head(q) PROVE j \in Elems(Tail(q))
  <2>1. PICK n \in 2..Len(q) : j = q[n]
    BY <1>1, <1>6 DEF Elems
  <2> QED BY <1>1, <1>3, <2>1 DEF Elems
<1>7. Ordered(Tail(q))
  BY <1>1 DEF Ordered
<1> QED BY <1>1, <1>2, <1>4, <1>5, <1>6, <1>7

\* A sender's newest item may go to the end of an ordered sequence.
LEMMA OrderedAppend ==
  ASSUME NEW S, NEW q \in Seq(S), NEW x \in S, Ordered(q),
         \A i \in Elems(q) : Before(i, x)
  PROVE  Ordered(Append(q, x))
<1>1. /\ Len(Append(q, x)) = Len(q) + 1 /\ Append(q, x)[Len(q) + 1] = x /\ Len(q) \in Nat
      /\ \A n \in 1..Len(q) : Append(q, x)[n] = q[n]
  OBVIOUS
<1>2. \A n \in 1..Len(q) : Before(q[n], x)
  BY DEF Elems
<1> QED BY <1>1, <1>2 DEF Ordered

\* An ordered sequence holds an item once or not at all.
LEMMA OrderedOnce ==
  ASSUME NEW S, NEW q \in Seq(S), Ordered(q), \A i \in S : i[2] \in Int, NEW i
  PROVE  Cardinality({n \in 1..Len(q) : q[n] = i}) = IF i \in Elems(q) THEN 1 ELSE 0
<1>1. CASE i \in Elems(q)
  <2>1. PICK m \in 1..Len(q) : q[m] = i
    BY <1>1 DEF Elems
  <2>2. \A n \in 1..Len(q) : q[n] = i => n = m
    <3> SUFFICES ASSUME NEW n \in 1..Len(q), q[n] = i, n # m PROVE FALSE
      OBVIOUS
    <3>1. i \in S /\ i[2] \in Int /\ Len(q) \in Nat
      BY <2>1
    <3>2. Before(i, i)
      BY <2>1, <3>1 DEF Ordered
    <3> QED BY <3>1, <3>2 DEF Before
  <2>3. {n \in 1..Len(q) : q[n] = i} = {m}
    BY <2>1, <2>2
  <2> QED BY <1>1, <2>3, FS_Singleton
<1>2. CASE i \notin Elems(q)
  <2>1. {n \in 1..Len(q) : q[n] = i} = {}
    BY <1>2 DEF Elems
  <2> QED BY <1>2, <2>1, FS_EmptySet
<1> QED BY <1>1, <1>2

-----------------------------------------------------------------------------
\* Every step of the senders, the consumer and the context keeps every
\* variable in its range, the buffer within its capacity.
LEMMA OutboxTypeStep ==
  ASSUME O!TypeOK, SendInv, [O!Next]_outboxVars
  PROVE  O!TypeOK' /\ SendInv'
<1> USE SharedAssumption DEF SendInv
<1>0. ASSUME NEW s \in Users, pc[s] # "idle"
      PROVE  O!Current(s) \in O!Item
  BY <1>0 DEF O!Current, O!Item
<1>1. CASE UNCHANGED outboxVars
  BY <1>1 DEF outboxVars, O!vars, O!TypeOK, O!Shards
<1>2. ASSUME NEW s \in Users, O!Call(s) PROVE O!TypeOK' /\ SendInv'
  <2>1. calls[s] + 1 \in 1..MaxCalls
    BY <1>2 DEF O!TypeOK, O!Call
  <2>2. calls' \in [Users -> 0..MaxCalls]
    BY <1>2, <2>1 DEF O!TypeOK, O!Call
  <2> QED BY <1>2, <2>1, <2>2 DEF O!TypeOK, O!Call, O!Goto, O!Shards
<1> DEFINE ChannelOK == ch \in Seq(O!Item) /\ Len(ch) <= cfg.cap
<1>3. ASSUME NEW s \in Users, O!Enqueue(s), pc[s] # "idle", UNCHANGED cfg PROVE ChannelOK'
  BY <1>0, <1>3 DEF O!TypeOK, O!Enqueue, O!Full
<1>4. ASSUME ch # << >>, ch' = Tail(ch), UNCHANGED cfg
      PROVE  ChannelOK' /\ Head(ch) \in O!Item
  BY <1>4 DEF O!TypeOK
<1>5. ASSUME NEW s \in Users, pc[s] # "idle", O!Return(s), UNCHANGED <<cfg, calls, received, ctxDone>>,
             ChannelOK', dropped' \in Nat, lost' \subseteq O!Item, failed' \subseteq O!Item
      PROVE  O!TypeOK' /\ SendInv'
  BY <1>5 DEF O!TypeOK, O!Return, O!Goto, O!Shards
<1>6. ASSUME NEW s \in Users, O!TrySend(s) PROVE O!TypeOK' /\ SendInv'
  BY <1>3, <1>5, <1>6 DEF O!TypeOK, O!TrySend
<1>7. ASSUME NEW s \in Users, O!BlockCtxDone(s) PROVE O!TypeOK' /\ SendInv'
  BY <1>0, <1>5, <1>7 DEF O!TypeOK, O!BlockCtxDone
<1>8. ASSUME NEW s \in Users, O!DropNewest(s) PROVE O!TypeOK' /\ SendInv'
  BY <1>0, <1>5, <1>8 DEF O!TypeOK, O!DropNewest, O!Drop
<1>9. ASSUME NEW s \in Users, O!SlowPath(s) PROVE O!TypeOK' /\ SendInv'
  BY <1>9 DEF O!TypeOK, O!SlowPath, O!Goto, O!Shards
<1>10. ASSUME NEW s \in Users, O!Lock(s) PROVE O!TypeOK' /\ SendInv'
  <2>1. cfg.shard[s] \in O!Shards
    BY DEF O!Shards
  <2>2. lock' \in [O!Shards -> Users \cup {O!Free}]
    BY <1>10, <2>1 DEF O!TypeOK, O!Lock
  <2> QED BY <1>10, <2>2 DEF O!TypeOK, O!Lock, O!Goto, O!Shards
<1>11. ASSUME NEW s \in Users, O!Retry(s) PROVE O!TypeOK' /\ SendInv'
  <2>1. CASE O!Enqueue(s) /\ O!Return(s)
    BY <1>3, <1>5, <1>11, <2>1 DEF O!TypeOK, O!Retry
  <2>2. CASE O!Full /\ O!Goto(s, "evict") /\ UNCHANGED <<ch, lock>>
    BY <1>11, <2>2 DEF O!TypeOK, O!Retry, O!Goto, O!Shards
  <2> QED BY <1>11, <2>1, <2>2 DEF O!Retry
<1>12. ASSUME NEW s \in Users, O!Evict(s) PROVE O!TypeOK' /\ SendInv'
  <2>1. ChannelOK' /\ dropped' \in Nat /\ lost' \subseteq O!Item
    BY <1>4, <1>12 DEF O!TypeOK, O!Evict, O!Drop
  <2> QED BY <1>12, <2>1 DEF O!TypeOK, O!Evict, O!Goto, O!Shards
<1>13. ASSUME NEW s \in Users, O!Resend(s) PROVE O!TypeOK' /\ SendInv'
  <2>1. ChannelOK' /\ dropped' \in Nat /\ lost' \subseteq O!Item
    BY <1>0, <1>3, <1>13 DEF O!TypeOK, O!Resend, O!Drop
  <2> QED BY <1>5, <1>13, <2>1 DEF O!TypeOK, O!Resend
<1>14. CASE O!Receive
  <2>1. ChannelOK' /\ received' \in Seq(O!Item)
    BY <1>4, <1>14 DEF O!TypeOK, O!Receive
  <2> QED BY <1>14, <2>1 DEF O!TypeOK, O!Receive, O!Shards
<1>15. CASE O!Cancel
  BY <1>15 DEF O!TypeOK, O!Cancel, O!Shards
<1> QED
  BY <1>1, <1>2, <1>6, <1>7, <1>8, <1>9, <1>10, <1>11, <1>12, <1>13, <1>14, <1>15
     DEF O!Next, O!Sending

-----------------------------------------------------------------------------
\* A Send that returns no longer holds its item; the other senders keep theirs.
LEMMA HeldReturn ==
  ASSUME O!TypeOK, SendInv, NEW s \in Users, pc[s] # "idle", O!Return(s), UNCHANGED calls
  PROVE  /\ O!Current(s) \in Held /\ Held' = Held \ {O!Current(s)}
         /\ O!Current(s)[1] = s /\ O!Current(s)[2] = calls[s]
<1>1. O!Current(s) \in O!Item /\ O!Current(s)[1] = s /\ O!Current(s)[2] = calls[s]
  BY DEF O!Current, O!Item, SendInv
<1>2. \A i \in O!Item : i[1] = s /\ i[2] = calls[s] => i = O!Current(s)
  BY DEF O!Current, O!Item
<1>3. \A i \in O!Item : i[1] \in Users
  BY DEF O!Item
<1>4. /\ pc'[s] = "idle"
      /\ \A t \in Users : t # s => pc'[t] = pc[t]
  BY DEF O!TypeOK, O!Return, O!Goto
<1>5. Held' = Held \ {O!Current(s)}
  BY <1>1, <1>2, <1>3, <1>4 DEF Held, O!Item
<1> QED BY <1>1, <1>5 DEF Held

\* The places are kept when a returning Send leaves its item in the buffer,
\* with OnDrop or with its caller's error.
LEMMA PlaceReturn ==
  ASSUME O!TypeOK, SendInv, PlaceInv, OrderInv, NEW s \in Users, pc[s] # "idle", O!Return(s),
         UNCHANGED <<calls, received>>,
         \/ ch' = Append(ch, O!Current(s)) /\ UNCHANGED <<lost, failed>>
         \/ lost' = lost \cup {O!Current(s)} /\ UNCHANGED <<ch, failed>>
         \/ failed' = failed \cup {O!Current(s)} /\ UNCHANGED <<ch, lost>>
  PROVE  PlaceInv' /\ OrderInv'
<1> DEFINE i == O!Current(s)
<1>1. /\ i \in Held /\ Held' = Held \ {i} /\ i[1] = s /\ i[2] = calls[s] /\ i \in O!Item
  BY HeldReturn DEF Held
<1>2. CASE ch' = Append(ch, i) /\ UNCHANGED <<lost, failed>>
  <2>1. Elems(ch') = Elems(ch) \cup {i} /\ Elems(received') = Elems(received)
    BY <1>1, <1>2, ElemsAppend DEF O!TypeOK
  <2>2. \A j \in Elems(ch) \cup Elems(received) : Before(j, i)
    <3> SUFFICES ASSUME NEW j \in Elems(ch) \cup Elems(received), j[1] = s PROVE j[2] < i[2]
      BY <1>1 DEF Before
    <3>1. j \in O!Item
      BY DEF O!TypeOK, Elems
    <3>2. j[2] <= calls[s] /\ j[2] \in Int /\ calls[s] \in Int
      BY <3>1 DEF PlaceInv, Made, O!Item, O!TypeOK
    <3>3. j # i
      BY <1>1 DEF PlaceInv
    <3>4. j[2] # i[2]
      BY <1>1, <3>1, <3>3 DEF O!Item
    <3> QED BY <1>1, <3>2, <3>4
  <2>3. OrderInv'
    BY <1>1, <1>2, <2>1, <2>2, OrderedAppend DEF OrderInv, O!TypeOK
  <2>4. PlaceInv'
    BY <1>1, <1>2, <2>1 DEF PlaceInv, Made, O!Item
  <2> QED BY <2>3, <2>4
<1>3. CASE lost' = lost \cup {i} /\ UNCHANGED <<ch, failed>>
  BY <1>1, <1>3 DEF PlaceInv, Made, OrderInv, Ordered, Elems, O!Item
<1>4. CASE failed' = failed \cup {i} /\ UNCHANGED <<ch, lost>>
  BY SMTT(30), <1>1, <1>4 DEF PlaceInv, Made, OrderInv, Ordered, Elems, O!Item
<1> QED BY <1>2, <1>3, <1>4

\* They are kept when the oldest item goes to the consumer or to OnDrop.
LEMMA PlaceTail ==
  ASSUME O!TypeOK, PlaceInv, OrderInv, ch # << >>, ch' = Tail(ch), Held' = Held,
         UNCHANGED <<calls, failed>>,
         \/ lost' = lost \cup {Head(ch)} /\ UNCHANGED received
         \/ received' = Append(received, Head(ch)) /\ UNCHANGED lost
  PROVE  PlaceInv' /\ OrderInv'
<1> DEFINE i == Head(ch)
<1>0. \A j \in O!Item : j[2] \in Int
  BY DEF O!Item
<1>1. /\ i \in Elems(ch) /\ Elems(ch') = Elems(ch) \ {i} /\ Ordered(ch')
      /\ \A j \in Elems(ch') : Before(i, j)
  BY <1>0, ElemsTail DEF OrderInv, O!TypeOK
<1>2. i \in O!Item
  BY DEF O!TypeOK
<1>3. CASE lost' = lost \cup {i} /\ UNCHANGED received
  <2>1. Elems(received') = Elems(received) /\ Ordered(received')
    BY <1>3 DEF OrderInv
  <2>2. PlaceInv'
    BY <1>1, <1>2, <1>3, <2>1 DEF PlaceInv, Made, O!Item
  <2>3. OrderInv'
    BY <1>1, <2>1 DEF OrderInv
  <2> QED BY <2>2, <2>3
<1>4. CASE received' = Append(received, i) /\ UNCHANGED lost
  <2>1. Elems(received') = Elems(received) \cup {i}
    BY <1>2, <1>4, ElemsAppend DEF O!TypeOK
  <2>2. Ordered(received')
    BY <1>1, <1>2, <1>4, OrderedAppend DEF OrderInv, O!TypeOK
  <2>3. PlaceInv'
    BY <1>1, <1>2, <1>4, <2>1 DEF PlaceInv, Made, O!Item
  <2>4. OrderInv'
    BY <1>1, <2>1, <2>2 DEF OrderInv
  <2> QED BY <2>3, <2>4
<1> QED BY <1>3, <1>4

\* A new call puts its item into its sender's hands; steps inside Send that do
\* not return move nothing.
LEMMA PlaceOther ==
  ASSUME O!TypeOK, PlaceInv, OrderInv, NEW s \in Users, UNCHANGED <<ch, received, lost, failed>>,
         \/ O!Call(s)
         \/ /\ pc[s] # "idle" /\ UNCHANGED calls
            /\ \E l \in {"lock", "retry", "evict"} : O!Goto(s, l)
  PROVE  PlaceInv' /\ OrderInv'
<1>1. OrderInv'
  BY DEF OrderInv, Ordered, Elems
<1>2. \A i \in O!Item : i[1] \in Users /\ i[2] \in 1..MaxCalls
  BY DEF O!Item
<1>3. CASE O!Call(s)
  <2>1. calls[s] \in 0..MaxCalls /\ calls[s] + 1 \in 1..MaxCalls
    BY <1>3, SharedAssumption DEF O!TypeOK, O!Call
  <2>2. /\ pc[s] = "idle" /\ pc'[s] = "try" /\ calls'[s] = calls[s] + 1
        /\ \A t \in Users : t # s => pc'[t] = pc[t] /\ calls'[t] = calls[t]
    BY <1>3 DEF O!TypeOK, O!Call, O!Goto
  <2> DEFINE i == <<s, calls[s] + 1>>
  <2>3. i \in O!Item /\ \A j \in O!Item : j[1] = s /\ j[2] = calls[s] + 1 => j = i
    BY <2>1 DEF O!Item
  <2>4. Held' = Held \cup {i}
    BY <1>2, <2>1, <2>2, <2>3 DEF Held, O!Item
  <2>5. \A j \in O!Item : j[2] <= calls'[j[1]] <=> j[2] <= calls[j[1]] \/ j = i
    <3> TAKE j \in O!Item
    <3>1. CASE j[1] = s
      BY <1>2, <2>1, <2>2, <2>3, <3>1
    <3>2. CASE j[1] # s
      BY <1>2, <2>2, <2>3, <3>2
    <3> QED BY <3>1, <3>2
  <2>6. i \notin Made
    BY <2>1, <2>3 DEF PlaceInv
  <2>7. UNCHANGED <<Elems(ch), Elems(received)>>
    BY DEF Elems
  <2> QED BY <1>1, <2>3, <2>4, <2>5, <2>6, <2>7 DEF PlaceInv, Made, O!Item
<1>4. CASE /\ pc[s] # "idle" /\ UNCHANGED calls
           /\ \E l \in {"lock", "retry", "evict"} : O!Goto(s, l)
  <2>1. \A t \in Users : pc'[t] = "idle" <=> pc[t] = "idle"
    BY <1>4 DEF O!TypeOK, O!Goto
  <2>2. Held' = Held
    BY <1>2, <1>4, <2>1 DEF Held, O!Item
  <2>3. UNCHANGED <<Elems(ch), Elems(received)>>
    BY DEF Elems
  <2> QED BY <1>1, <1>4, <2>2, <2>3 DEF PlaceInv, Made, O!Item
<1> QED BY <1>3, <1>4

\* An item is given to OnDrop once, so the counter and the set grow together.
LEMMA CountDrop ==
  ASSUME CountInv, NEW i, i \notin lost, O!Drop(i)
  PROVE  CountInv'
  BY FS_AddElement DEF CountInv, O!Drop

OutInv == O!TypeOK /\ SendInv /\ PlaceInv /\ OrderInv /\ CountInv
Moves == PlaceInv /\ OrderInv /\ CountInv

\* Every step keeps the items in their places, in order and counted.
LEMMA MoveStep ==
  ASSUME OutInv, [O!Next]_outboxVars
  PROVE  Moves'
<1> USE DEF OutInv, Moves
<1>0. ASSUME NEW s \in Users, pc[s] # "idle", O!Return(s), UNCHANGED calls
      PROVE  O!Current(s) \notin lost
  BY <1>0, HeldReturn DEF PlaceInv
<1>1. CASE UNCHANGED outboxVars
  BY <1>1 DEF outboxVars, O!vars, PlaceInv, Made, Held, OrderInv, Ordered, Elems, CountInv, O!Item
<1>2. ASSUME NEW s \in Users, O!Call(s) PROVE Moves'
  BY <1>2, PlaceOther DEF O!Call, CountInv
<1>3. ASSUME NEW s \in Users, O!TrySend(s) PROVE Moves'
  BY <1>3, PlaceReturn DEF O!TrySend, O!Enqueue, CountInv
<1>4. ASSUME NEW s \in Users, O!BlockCtxDone(s) PROVE Moves'
  BY <1>4, PlaceReturn DEF O!BlockCtxDone, CountInv
<1>5. ASSUME NEW s \in Users, O!DropNewest(s) PROVE Moves'
  <2>1. PlaceInv' /\ OrderInv'
    BY <1>5, PlaceReturn DEF O!DropNewest, O!Drop
  <2> QED BY <1>0, <1>5, <2>1, CountDrop DEF O!DropNewest
<1>6. ASSUME NEW s \in Users, O!SlowPath(s) \/ O!Lock(s) PROVE Moves'
  BY <1>6, PlaceOther DEF O!SlowPath, O!Lock, CountInv
<1>7. ASSUME NEW s \in Users, O!Retry(s) PROVE Moves'
  <2>1. CASE O!Enqueue(s) /\ O!Return(s)
    BY <1>7, <2>1, PlaceReturn DEF O!Retry, O!Enqueue, CountInv
  <2>2. CASE O!Goto(s, "evict") /\ UNCHANGED <<ch, lock>>
    BY <1>7, <2>2, PlaceOther DEF O!Retry, CountInv
  <2> QED BY <1>7, <2>1, <2>2 DEF O!Retry
<1>8. ASSUME NEW s \in Users, O!Evict(s) PROVE Moves'
  <2>1. Held' = Held
    <3>1. \A t \in Users : pc'[t] = "idle" <=> pc[t] = "idle"
      BY <1>8 DEF O!TypeOK, O!Evict, O!Goto
    <3> QED BY <1>8, <3>1 DEF Held, O!Item, O!Evict
  <2>2. CASE ch # << >> /\ ch' = Tail(ch) /\ O!Drop(Head(ch))
    <3>1. PlaceInv' /\ OrderInv'
      BY <1>8, <2>1, <2>2, PlaceTail DEF O!Evict, O!Drop
    <3>2. Head(ch) \in Elems(ch)
      BY <2>2 DEF O!TypeOK, Elems
    <3>3. Head(ch) \notin lost
      BY <3>2 DEF PlaceInv
    <3> QED BY <2>2, <3>1, <3>3, CountDrop
  <2>3. CASE UNCHANGED <<ch, dropped, lost>>
    BY <1>8, <2>1, <2>3 DEF O!Evict, PlaceInv, Made, OrderInv, Ordered, Elems, CountInv, O!Item
  <2> QED BY <1>8, <2>2, <2>3 DEF O!Evict
<1>9. ASSUME NEW s \in Users, O!Resend(s) PROVE Moves'
  <2>1. CASE O!Enqueue(s) /\ UNCHANGED <<dropped, lost>>
    BY <1>9, <2>1, PlaceReturn DEF O!Resend, O!Enqueue, CountInv
  <2>2. CASE O!Drop(O!Current(s)) /\ UNCHANGED ch
    <3>1. PlaceInv' /\ OrderInv'
      BY <1>9, <2>2, PlaceReturn DEF O!Resend, O!Drop
    <3> QED BY <1>0, <1>9, <2>2, <3>1, CountDrop DEF O!Resend
  <2> QED BY <1>9, <2>1, <2>2 DEF O!Resend
<1>10. CASE O!Receive
  <2>1. Held' = Held
    BY <1>10 DEF Held, O!Item, O!Receive
  <2> QED BY <1>10, <2>1, PlaceTail DEF O!Receive, CountInv
<1>11. CASE O!Cancel
  BY SMTT(30), <1>11 DEF O!Cancel, PlaceInv, Made, Held, OrderInv, Ordered, Elems, CountInv, O!Item
<1> QED
  BY <1>1, <1>2, <1>3, <1>4, <1>5, <1>6, <1>7, <1>8, <1>9, <1>10, <1>11
     DEF O!Next, O!Sending

-----------------------------------------------------------------------------
\* An outbox starts empty, with nobody inside Send.
LEMMA OutboxInit == O!Init => OutInv
<1> SUFFICES ASSUME O!Init PROVE OutInv
  OBVIOUS
<1>1. O!TypeOK
  <2>1. cfg \in Outboxes /\ cfg.cap \in Nat
    BY SharedAssumption DEF O!Init
  <2>2. ch \in Seq(O!Item) /\ Len(ch) <= cfg.cap /\ received \in Seq(O!Item)
    BY <2>1 DEF O!Init
  <2>3. calls \in [Users -> 0..MaxCalls]
    BY SharedAssumption DEF O!Init
  <2>4. lock \in [O!Shards -> Users \cup {O!Free}]
    BY DEF O!Init
  <2>5. pc \in [Users -> {"idle", "try", "lock", "retry", "evict", "resend"}]
    BY DEF O!Init
  <2> QED BY <2>1, <2>2, <2>3, <2>4, <2>5 DEF O!Init, O!TypeOK
<1>2. SendInv
  BY DEF O!Init, SendInv
<1>3. Elems(ch) = {} /\ Elems(received) = {} /\ Held = {}
  BY DEF O!Init, Elems, Held, O!Item
<1>4. PlaceInv
  BY <1>3 DEF O!Init, PlaceInv, Made, O!Item
<1>5. OrderInv
  BY <1>3 DEF O!Init, OrderInv, Ordered
<1>6. CountInv
  BY FS_EmptySet DEF O!Init, CountInv
<1> QED BY <1>1, <1>2, <1>4, <1>5, <1>6 DEF OutInv

OutboxInv == which = "outbox" => OutInv

\* The parts together are inductive.
LEMMA OutboxInvHolds == Spec => []OutboxInv
<1>1. Init => OutboxInv
  BY OutboxInit DEF Init, OutboxInv
<1>2. OutboxInv /\ [Next]_vars => OutboxInv'
  <2> SUFFICES ASSUME OutboxInv, [Next]_vars, which' = "outbox" PROVE OutInv'
    BY DEF OutboxInv
  <2>1. which = "outbox" /\ [O!Next]_outboxVars
    BY DEF Next, vars, outboxVars, O!vars, onlyOutbox
  <2> QED BY <2>1, OutboxTypeStep, MoveStep DEF OutInv, Moves, OutboxInv
<1> QED BY <1>1, <1>2, PTL DEF Spec

\* Whatever the strategy and the interleaving of senders, shards and consumer,
\* every item given to Send is in exactly one place and Dropped() is the
\* number of items OnDrop saw.
THEOREM OutboxAccounted == Spec => []Accounted
<1>1. OutInv => O!Accounted
  <2> SUFFICES ASSUME OutInv PROVE O!Accounted
    OBVIOUS
  <2>1. ASSUME NEW s \in Users, NEW k \in 1..calls[s] PROVE O!Places(<<s, k>>) = 1
    <3> DEFINE i == <<s, k>>
    <3> SUFFICES O!Places(i) = 1
      OBVIOUS
    <3>1. calls[s] \in 0..MaxCalls /\ k \in 1..MaxCalls
      BY SharedAssumption DEF OutInv, O!TypeOK
    <3>2. i \in O!Item /\ i[1] = s /\ i[2] = k
      BY <3>1 DEF O!Item
    <3>3. i \in Made
      BY <3>2 DEF OutInv, PlaceInv
    <3>4. i \in Held <=> pc[i[1]] # "idle" /\ i = O!Current(i[1])
      BY <3>2 DEF Held, O!Current
    <3>5. \A j \in O!Item : j[2] \in Int
      BY DEF O!Item
    <3>6. ASSUME NEW q \in Seq(O!Item), Ordered(q)
          PROVE  O!Cardinality({n \in 1..Len(q) : q[n] = i}) = IF i \in Elems(q) THEN 1 ELSE 0
      <4> HIDE DEF i
      <4>1. Cardinality({n \in 1..Len(q) : q[n] = i}) = IF i \in Elems(q) THEN 1 ELSE 0
        BY <3>5, <3>6, OrderedOnce
      <4> QED BY <4>1, SameCardinality
    <3>7. /\ O!Cardinality(O!Buffered(i)) = IF i \in Elems(ch) THEN 1 ELSE 0
          /\ O!Cardinality(O!Read(i)) = IF i \in Elems(received) THEN 1 ELSE 0
      <4> HIDE DEF i
      <4> QED BY <3>6 DEF OutInv, OrderInv, O!TypeOK, O!Buffered, O!Read
    <3> HIDE DEF i
    <3> QED BY <3>3, <3>4, <3>7 DEF OutInv, PlaceInv, Made, O!Places
  <2> QED BY <2>1, SameCardinality DEF OutInv, CountInv, O!Accounted
<1>2. OutboxInv => Accounted
  BY <1>1 DEF OutboxInv, Accounted
<1> QED BY <1>2, OutboxInvHolds, PTL

\* The consumer of an outbox sees the items of one sender in the order of the
\* calls, and a channel source delivers its accepted items in the order of
\* their acceptance and, once closed, all of them.
THEOREM DeliveredInOrder == Spec => []InOrder
<1>1. OutInv => O!SenderOrder
  BY DEF OutInv, OrderInv, Ordered, Before, O!SenderOrder
<1> DEFINE Known == which \in {"outbox", "channel", "breaker"}
<1>2. Spec => []Known
  <2>1. Init => Known
    BY DEF Init
  <2>2. Known /\ [Next]_vars => Known'
    BY DEF Next, vars
  <2> QED BY <2>1, <2>2, PTL DEF Spec
<1>3. OutboxInv /\ (which = "channel" => C!TypeOK /\ C!DrainedOnClose) /\ Known => InOrder
  BY <1>1 DEF OutboxInv, InOrder
<1> QED BY <1>2, <1>3, OutboxInvHolds, ChannelDrains, PTL

-----------------------------------------------------------------------------
(* CircuitBreaker. *)

\* A probe belongs to the present half-open period, in which some successes
\* are still missing.
ProbeInv ==
  /\ \A w \in cfg.workers : call[w] = "probe" => state = "half"
  /\ state = "half" => needed >= 1 /\ wins + needed <= cfg.halfOpenProbes

\* A stage with one goroutine has no older call in a half-open period, so
\* every success there is a probe's, and every probe but the running one has
\* succeeded.
SoloInv ==
  \A w \in cfg.workers : cfg.workers = {w} /\ state = "half" =>
    /\ call[w] # "other" /\ wins + needed = cfg.halfOpenProbes
    /\ probes = wins + (IF call[w] = "probe" THEN 1 ELSE 0)

BreakInv == B!TypeOK /\ ProbeInv /\ SoloInv
BreakerInv == which = "breaker" => BreakInv

\* The configuration of a breaker.
LEMMA BreakerConfig ==
  ASSUME B!TypeOK
  PROVE  /\ cfg.failureThreshold \in Nat /\ cfg.failureThreshold > 0
         /\ cfg.halfOpenProbes \in Nat /\ cfg.halfOpenProbes > 0
         /\ cfg.cooldown \in Nat /\ cfg.halfOpenTimeout \in Nat /\ IsFiniteSet(cfg.workers)
BY SharedAssumption DEF B!TypeOK

\* allow(), recordSuccess() and recordFailure() keep the invariant, whatever
\* state the breaker is in when the outcome of an older call comes.
LEMMA BreakerStep ==
  ASSUME BreakInv, [B!Next]_breakerVars
  PROVE  BreakInv'
<1> USE DEF BreakInv, B!TypeOK, ProbeInv, SoloInv
<1>0. B!TypeOK
  OBVIOUS
<1> USE BreakerConfig
<1>1. CASE UNCHANGED breakerVars
  BY <1>1 DEF breakerVars, B!vars
<1>2. ASSUME NEW w \in cfg.workers, B!AllowClosed(w) PROVE BreakInv'
  BY <1>2 DEF B!AllowClosed
<1>3. ASSUME NEW w \in cfg.workers, B!AllowAfterCooldown(w) PROVE BreakInv'
  BY <1>3 DEF B!AllowAfterCooldown
<1>4. ASSUME NEW w \in cfg.workers, B!AllowHalfOpen(w) PROVE BreakInv'
  BY <1>4 DEF B!AllowHalfOpen
<1>5. ASSUME NEW w \in cfg.workers, B!HalfOpenExpired(w) PROVE BreakInv'
  BY <1>5 DEF B!HalfOpenExpired, B!Trip, B!Aged
<1>6. ASSUME NEW w \in cfg.workers, B!RecordSuccess(w) PROVE BreakInv'
  BY <1>6 DEF B!RecordSuccess, B!Aged
<1>7. ASSUME NEW w \in cfg.workers, B!RecordFailure(w) PROVE BreakInv'
  BY <1>7 DEF B!RecordFailure, B!Trip, B!Aged
<1>8. CASE B!Tick
  BY <1>8 DEF B!Tick
<1>9. CASE B!Heal
  BY <1>9 DEF B!Heal
<1> QED BY <1>1, <1>2, <1>3, <1>4, <1>5, <1>6, <1>7, <1>8, <1>9 DEF B!Next, B!Allow

\* The parts together are inductive.
LEMMA BreakerInvHolds == Spec => []BreakerInv
<1>1. Init => BreakerInv
  <2> SUFFICES ASSUME B!Init PROVE BreakInv
    BY DEF Init, BreakerInv
  <2>1. cfg \in Breakers /\ cfg.failureThreshold \in Nat \ {0} /\ cfg.halfOpenProbes \in Nat \ {0}
        /\ cfg.cooldown \in Nat /\ cfg.halfOpenTimeout \in Nat
    BY SharedAssumption DEF B!Init
  <2>2. B!TypeOK
    <3>1. /\ 0 \in 0..(cfg.failureThreshold - 1) /\ 0 \in 0..cfg.halfOpenProbes /\ 0 \in 0..cfg.cooldown
          /\ 0 \in 0..(cfg.halfOpenTimeout + 1) /\ 0 \in 0..(cfg.halfOpenProbes + 1)
      BY <2>1
    <3>2. call \in [cfg.workers -> {"none", "probe", "other"}]
      BY DEF B!Init
    <3> QED BY <2>1, <3>1, <3>2 DEF B!Init, B!TypeOK
  <2> QED BY <2>2 DEF B!Init, BreakInv, ProbeInv, SoloInv
<1>2. BreakerInv /\ [Next]_vars => BreakerInv'
  <2> SUFFICES ASSUME BreakerInv, [Next]_vars, which' = "breaker" PROVE BreakInv'
    BY DEF BreakerInv
  <2>1. which = "breaker" /\ [B!Next]_breakerVars
    BY DEF Next, vars, breakerVars, B!vars, onlyBreaker
  <2> QED BY <2>1, BreakerStep DEF BreakerInv
<1> QED BY <1>1, <1>2, PTL DEF Spec

\* No step of a breaker passes over a failed probe, and with one goroutine
\* none lets a call too many through or closes the circuit too early.
LEMMA ProbesStep ==
  ASSUME BreakInv, [B!Next]_breakerVars
  PROVE  B!ProbeStep
<1> USE DEF BreakInv, B!TypeOK
<1>0. B!TypeOK
  OBVIOUS
<1> USE BreakerConfig
<1>1. ASSUME NEW w \in cfg.workers, state = "half", call[w] = "probe", call'[w] = "none", wins' = wins
      PROVE  state' = "open"
  <2>1. CASE UNCHANGED breakerVars
    BY <1>1, <2>1 DEF breakerVars, B!vars
  <2>2. CASE B!Next
    BY <1>1, <2>2 DEF B!Next, B!Allow, B!AllowClosed, B!AllowAfterCooldown, B!AllowHalfOpen,
       B!HalfOpenExpired, B!RecordSuccess, B!RecordFailure, B!Tick, B!Heal, B!Trip, B!Aged
  <2> QED BY <2>1, <2>2
<1>2. ASSUME Cardinality(cfg.workers) = 1
      PROVE  /\ state' = "half" => probes' <= cfg.halfOpenProbes
             /\ state = "half" /\ state' = "closed" => wins' = cfg.halfOpenProbes
  <2>1. PICK w : cfg.workers = {w}
    BY <1>2, FS_Singleton
  <2>2. cfg' = cfg
    BY DEF B!Next, B!Allow, B!AllowClosed, B!AllowAfterCooldown, B!AllowHalfOpen,
       B!HalfOpenExpired, B!RecordSuccess, B!RecordFailure, B!Tick, B!Heal, breakerVars, B!vars
  <2>3. BreakInv'
    BY BreakerStep
  <2>4. ASSUME state' = "half" PROVE probes' <= cfg.halfOpenProbes
    BY <2>1, <2>2, <2>3, <2>4 DEF SoloInv, ProbeInv
  <2>5. ASSUME state = "half", state' = "closed" PROVE wins' = cfg.halfOpenProbes
    <3>1. PICK v \in cfg.workers : B!RecordSuccess(v)
      BY <2>5 DEF B!Next, B!Allow, B!AllowClosed, B!AllowAfterCooldown, B!AllowHalfOpen,
         B!HalfOpenExpired, B!RecordFailure, B!Tick, B!Heal, B!Trip, breakerVars, B!vars
    <3>2. v = w /\ call[w] = "probe" /\ needed <= 1
      BY <2>1, <2>5, <3>1 DEF SoloInv, B!RecordSuccess
    <3>3. wins + needed = cfg.halfOpenProbes /\ needed >= 1 /\ wins \in Nat /\ needed \in Nat
      BY <2>1, <2>5 DEF SoloInv, ProbeInv
    <3> QED BY <3>1, <3>2, <3>3 DEF B!RecordSuccess
  <2> QED BY <2>4, <2>5
<1>3. B!Cardinality(cfg.workers) = Cardinality(cfg.workers)
  BY DEF B!Cardinality, Cardinality
<1> QED BY <1>1, <1>2, <1>3 DEF B!ProbeStep

\* Of any breaker: a failed probe opens the circuit again, and behind a stage
\* with one goroutine at most halfOpenProbes calls are let through in a
\* half-open period, which only that many successes end by closing it.
THEOREM ProbesDecided == Spec => ProbesDecide
<1>1. BreakerInv /\ [Next]_vars => [which = "breaker" => B!ProbeStep]_vars
  <2> SUFFICES ASSUME BreakerInv, [Next]_vars, which = "breaker" PROVE B!ProbeStep
    OBVIOUS
  <2>1. [B!Next]_breakerVars
    BY DEF Next, vars, breakerVars, B!vars, onlyBreaker
  <2> QED BY <2>1, ProbesStep DEF BreakerInv
<1> QED BY <1>1, BreakerInvHolds, PTL DEF Spec, ProbesDecide
=============================================================================
