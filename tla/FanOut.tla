------------------------------- MODULE FanOut -------------------------------
(***************************************************************************)
(* The stages with two outputs: Broadcast, Share, Unzip, Balance,          *)
(* KeyedBalance, Partition and MapResult.  They differ in where an item    *)
(* goes (Routes); the loop is the same.  Every send is blocking, on one    *)
(* branch after the other, and selects on the context only.  All outputs   *)
(* share one drain entry that counts their consumers.  With "sources" the  *)
(* two branches are independent sources instead.                           *)
(*                                                                         *)
(* The module declares the state of the whole diamond; the two branches    *)
(* are joined again in FanIn.                                              *)
(***************************************************************************)
EXTENDS Integers, SequencesExt

CONSTANTS
  Kinds,     \* the diamonds of the run: records [out, in]
  MaxItems,  \* bound on the length of the stream
  Cap,       \* buffer of a branch
  OutCap,    \* buffer of the fan-in's output
  MayFail    \* a run may be cancelled, a user function may return an error

ASSUME FanAssumption ==
  /\ {MaxItems, Cap, OutCap} \subseteq Nat /\ Cap > 0 /\ OutCap > 0 /\ MayFail \in BOOLEAN
  /\ Kinds \subseteq
       [out : {"broadcast", "share", "unzip", "balance", "keyedBalance", "partition", "mapResult", "sources"},
        in : {"merge", "zip", "combineLatest", "latestFrom", "sampleWith", "sequenceEqual", "each"}]

VARIABLES
  kind,    \* [out, in]: the two operators
  fpc,     \* fan-out: "recv" in the select, "send", "end"
  fwhy,    \* why it returned: "none", "eof", "ctx" or "drain"
  todo,    \* its sends still to do: <<branch, item>>
  read,    \* items it has received; the stream is 1, 2, 3, ...
  ch,      \* the two branches
  shut,    \* they are closed
  refs,    \* consumers of the branches that have not signalled a drain
  w,       \* goroutines of the fan-in: where they are, what they hold, why they ended
  lat,     \* latest value per branch, 0 for none
  stage,   \* the fan-in itself: "run", "stop" (waits for its workers), or
           \* how it returned: "eof", "ctx", "drain", "err"
  out,     \* history: what it has sent
  eaten,   \* how much of it its consumer has received
  left,    \* its consumer has left: the drain channel of the fan-in is closed
  ctx,     \* the context of the run has ended
  panic,   \* the process has died
  routed,  \* history: what was sent into each branch
  took     \* history: what the fan-in received from each branch

foVars == <<fpc, fwhy, todo, read, shut, routed>>
fiVars == <<w, lat, stage, out, took>>
envVars == <<eaten, left, ctx>>
vars == <<kind, foVars, fiVars, envVars, ch, refs, panic>>

B == {1, 2}

-----------------------------------------------------------------------------
Both == {"broadcast", "share", "unzip"}

To(b, i) == << <<b, i>> >>
ToAll(i) == << <<1, i>>, <<2, i>> >>
Broadcast(i) == ToAll(i)
\* Share's branches are the subscribers there were when it was built.
Share(i) == ToAll(i)
\* The first half of pair i, then the second.
Unzip(i) == ToAll(i)

\* Mutant: the round robin moves on with every second item.
BalanceMutant(i) == To(1 + ((i \div 2) % 2), i)

\* Round robin.
Balance(i) == To(1 + ((i - 1) % 2), i)

\* The hash of KeyedBalance and the predicate of Partition are fixed functions
\* of the item; the user's function of MapResult may fail for any of them.
Shard(i) == 1 + ((i \div 2) % 2)
KeyedBalance(i) == To(Shard(i), i)
PartitionOf(i) == IF i % 3 = 1 THEN 1 ELSE 2
Partition(i) == To(PartitionOf(i), i)
MapResult(i) == {To(b, i) : b \in B}

\* Where item i goes.
Routes(i) ==
  CASE kind.out = "broadcast" -> {Broadcast(i)}
    [] kind.out = "share" -> {Share(i)}
    [] kind.out = "unzip" -> {Unzip(i)}
    [] kind.out = "balance" -> {Balance(i)}
    [] kind.out = "keyedBalance" -> {KeyedBalance(i)}
    [] kind.out = "partition" -> {Partition(i)}
    [] kind.out = "mapResult" -> MapResult(i)

FanRecv ==
  /\ fpc = "recv" /\ read < MaxItems
  /\ read' = read + 1 /\ fpc' = "send" /\ todo' \in Routes(read + 1)
  /\ UNCHANGED <<kind, fwhy, shut, routed, fiVars, envVars, ch, refs, panic>>

FanSend ==
  /\ fpc = "send"
  /\ LET b == todo[1][1]  x == todo[1][2] IN
       /\ Len(ch[b]) < Cap
       /\ ch' = [ch EXCEPT ![b] = Append(@, x)]
       /\ routed' = [routed EXCEPT ![b] = Append(@, x)]
  /\ todo' = Tail(todo) /\ fpc' = IF Len(todo) = 1 THEN "recv" ELSE "send"
  /\ UNCHANGED <<kind, fwhy, read, shut, fiVars, envVars, refs, panic>>

\* Returning closes both branches.
FanReturn(why) ==
  /\ fpc' = "end" /\ fwhy' = why /\ todo' = << >> /\ shut' = [b \in B |-> TRUE]
  /\ UNCHANGED <<kind, read, routed, fiVars, envVars, ch, refs, panic>>

FanEof == fpc = "recv" /\ FanReturn("eof")
FanCtxDone == fpc \in {"recv", "send"} /\ ctx /\ FanReturn("ctx")

\* Mutant: any consumer that leaves ends the stage.
FanDrainedMutant == fpc = "recv" /\ refs < 2 /\ FanReturn("drain")

FanDrained == fpc = "recv" /\ refs <= 0 /\ FanReturn("drain")

\* Two sources that go on while there is room, and end of themselves, with
\* the context, or when the fan-in has signalled them.
SourceFeeds(b) ==
  /\ fpc = "none" /\ ~shut[b] /\ Len(ch[b]) < Cap /\ Len(routed[1]) + Len(routed[2]) < MaxItems
  /\ LET x == Len(routed[b]) + 1 IN ch' = [ch EXCEPT ![b] = Append(@, x)] /\ routed' = [routed EXCEPT ![b] = Append(@, x)]
  /\ UNCHANGED <<kind, fpc, fwhy, todo, read, shut, fiVars, envVars, refs, panic>>
SourceEnds(b) ==
  /\ fpc = "none" /\ ~shut[b] /\ shut' = [shut EXCEPT ![b] = TRUE]
  /\ UNCHANGED <<kind, fpc, fwhy, todo, read, routed, fiVars, envVars, ch, refs, panic>>

FanOutStep == FanRecv \/ FanSend \/ FanEof \/ FanCtxDone \/ FanDrained
              \/ \E b \in B : SourceFeeds(b) \/ SourceEnds(b)

FanOutInit ==
  /\ fpc = (IF kind.out = "sources" THEN "none" ELSE "recv") /\ fwhy = "none" /\ todo = << >> /\ read = 0
  /\ shut = [b \in B |-> FALSE] /\ ch = [b \in B |-> << >>] /\ routed = [b \in B |-> << >>]
  /\ refs = 2

-----------------------------------------------------------------------------
\* Item i belongs into branch b.
Belongs(b, i) ==
  CASE kind.out \in Both -> TRUE
    [] kind.out = "balance" -> i % 2 = b % 2
    [] kind.out = "keyedBalance" -> Shard(i) = b
    [] kind.out = "partition" -> PartitionOf(i) = b
\* The items that are about to be sent into branch b, and all it has been given.
Underway(b) == {todo[n][2] : n \in {m \in DOMAIN todo : todo[m][1] = b}}
Given(b) == ToSet(routed[b]) \cup Underway(b)
Ordered(s) == \A i, j \in DOMAIN s : i < j => s[i] < s[j]

\* Every item goes to exactly the branches its operator promises, once and in
\* order: all of them for Broadcast, Share and Unzip, whose branches never
\* differ by more than the item being sent; one for Balance, KeyedBalance,
\* Partition and MapResult, whose branches together are the stream.
RoutedRight ==
  fwhy # "ctx" /\ kind.out # "sources" =>
    /\ \A b \in B : Ordered(routed[b]) /\ \A i \in ToSet(routed[b]), j \in Underway(b) : i < j
    /\ IF kind.out = "mapResult"
       THEN Given(1) \cup Given(2) = 1..read /\ Given(1) \cap Given(2) = {}
       ELSE \A b \in B : Given(b) = {i \in 1..read : Belongs(b, i)}
=============================================================================
