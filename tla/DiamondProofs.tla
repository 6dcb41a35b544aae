---------------------------- MODULE DiamondProofs ---------------------------
(***************************************************************************)
(* Proofs about Diamond for every length of the stream and every buffer    *)
(* size: what the fan-ins send is what they promise of their branches, and *)
(* a fan-out stops early only after its consumers have signalled.          *)
(***************************************************************************)
EXTENDS Diamond, FiniteSetTheorems, TLAPS

(* The inductive invariant. *)

Outs == {"broadcast", "share", "unzip", "balance", "keyedBalance", "partition", "mapResult", "sources"}
Ins == {"merge", "zip", "combineLatest", "latestFrom", "sampleWith", "sequenceEqual", "each"}

\* The fan-out has a send to branch b to do.
Pending(b) == fpc = "send" /\ \E t \in 1..Len(todo) : todo[t][1] = b
\* The largest item branch b may have seen.
Highest(b) == IF kind.out = "sources" THEN Len(routed[b]) ELSE read

FanInv ==
  /\ kind \in Kinds /\ read \in Nat
  /\ fpc \in {"none", "recv", "send", "end"} /\ (fpc = "none" <=> kind.out = "sources")
  /\ IF fpc = "send" THEN \E b \in B : todo = To(b, read) \/ todo = ToAll(read)
                     ELSE todo = << >>
  /\ fpc = "send" => read > 0
  /\ shut \in [B -> BOOLEAN] /\ (kind.out # "sources" => \A b \in B : shut[b] <=> fpc = "end")

\* A branch only rises: what it holds (c) is beyond what has been taken from it
\* (t), and below the item that is about to be sent to it.
Branch(t, c, high, pend) ==
  /\ \A i \in 1..Len(t) : t[i] \in 1..high /\ (pend => t[i] < high)
  /\ \A i \in 1..Len(c) : c[i] \in 1..high /\ (pend => c[i] < high)
  /\ \A i, j \in 1..Len(t) : i < j => t[i] < t[j]
  /\ \A i, j \in 1..Len(c) : i < j => c[i] < c[j]
  /\ \A i \in 1..Len(t), j \in 1..Len(c) : t[i] < c[j]

StreamInv ==
  /\ ch \in [B -> Seq(Nat)] /\ took \in [B -> Seq(Nat)] /\ routed \in [B -> Seq(Nat)]
  /\ \A b \in B : Branch(took[b], ch[b], Highest(b), Pending(b))

\* The goroutines of the fan-in, and the references that keep the fan-out going.
WorkInv ==
  /\ DOMAIN w = B /\ w = [k \in B |-> w[k]]
  /\ \A k \in B :
       /\ w[k] = Worker(w[k].pc, w[k].val, w[k].why)
       /\ w[k].pc \in {"recv", "second", "send", "end"} /\ w[k].why \notin {"run", "stop"}
       /\ Is("each") => /\ w[k].pc \in {"recv", "end"} /\ w[k].val \in {Idle, <<"signalled">>}
                        /\ w[k].pc = "recv" => w[k].val = Idle
       /\ ~Is("each") => w[k].val \in Seq(Nat)
       /\ ~Is("sampleWith") /\ w[k].pc # "end" => w[k].why = "none"
       /\ kind.in \notin Lockstep => w[k].pc # "second"
  /\ kind.in \in Lockstep => w[2].pc = "end"
  /\ Is("latestFrom") => w[2].pc # "send"
  /\ Is("sampleWith") => w[1].pc # "send"
  /\ out \in Seq(Seq(Nat)) /\ lat \in [B -> Nat]

StageInv ==
  /\ refs \in Int
  /\ IF Is("each") THEN refs = (IF w[1].val = Idle THEN 1 ELSE 0) + (IF w[2].val = Idle THEN 1 ELSE 0)
                   ELSE ~Returned => refs = 2
  /\ kind.in \in Lockstep /\ Returned => Gone(1) /\ stage = w[1].why
  /\ stage = "stop" => Is("merge") /\ (left \/ ctx)

\* Until the stage returns nothing is discarded: what is in the branch (c)
\* follows what has been taken (t) in what was sent into it (r).
Taken(t, r) == Len(t) <= Len(r) /\ \A i \in 1..Len(t) : t[i] = r[i]
Held(t, c, r) == Len(r) = Len(t) + Len(c) /\ \A j \in 1..Len(c) : c[j] = r[Len(t) + j]
KeptInv ==
  kind.in \in {"merge", "zip", "sequenceEqual"} =>
    \A b \in B : Taken(took[b], routed[b]) /\ (~Returned => Held(took[b], ch[b], routed[b]))

\* Broadcast, Share and Unzip route the stream itself to both branches.
BothInv ==
  kind.out \in Both =>
    \A b \in B : /\ \A i \in 1..Len(routed[b]) : routed[b][i] = i
                 /\ fpc # "end" => Len(routed[b]) = IF Pending(b) THEN read - 1 ELSE read

ZipInv ==
  Is("zip") =>
    /\ \A i \in 1..Len(out) : out[i] = <<took[1][i], took[2][i]>>
    /\ Len(out) <= Len(took[2]) /\ Len(took[2]) <= Len(took[1])
    /\ w[1].pc = "recv" => Len(took[1]) = Len(out) /\ Len(took[2]) = Len(out)
    /\ w[1].pc = "second" => /\ Len(took[1]) = Len(out) + 1 /\ Len(took[2]) = Len(out)
                             /\ w[1].val = <<took[1][Len(out) + 1]>>
    /\ w[1].pc = "send" => /\ Len(took[1]) = Len(out) + 1 /\ Len(took[2]) = Len(out) + 1
                           /\ w[1].val = <<took[1][Len(out) + 1], took[2][Len(out) + 1]>>
    /\ w[1].why = "eof" => Len(took[2]) = Len(out)

\* Every pair that is sent or about to be is a new one.
Pair(p, a, b) == p = <<p[1], p[2]>> /\ p[1] \in 1..a /\ p[2] \in 1..b
CombineInv ==
  Is("combineLatest") =>
    /\ \A k \in B : IF took[k] = << >> THEN lat[k] = 0 ELSE lat[k] = took[k][Len(took[k])]
    /\ \A i \in 1..Len(out) : Pair(out[i], lat[1], lat[2])
    /\ \A k \in B : w[k].pc = "send" => Pair(w[k].val, lat[1], lat[2]) /\ \A i \in 1..Len(out) : out[i] # w[k].val
    /\ \A i, j \in 1..Len(out) : out[i] = out[j] => i = j
    /\ w[1].pc = "send" /\ w[2].pc = "send" => w[1].val # w[2].val
    /\ lat[1] # 0 /\ lat[2] # 0 =>
         \/ \E i \in 1..Len(out) : out[i] = <<lat[1], lat[2]>>
         \/ \E k \in B : w[k].pc = "send" /\ w[k].val = <<lat[1], lat[2]>>
         \/ \E k \in B : w[k].why \in {"ctx", "err"}

In(x, s) == \E i \in 1..Len(s) : s[i] = x

LatestInv ==
  Is("latestFrom") =>
    /\ IF took[2] = << >> THEN lat[2] = 0 ELSE lat[2] = took[2][Len(took[2])]
    /\ \A i \in 1..Len(out) : Len(out[i]) = 2 /\ In(out[i][1], took[1]) /\ In(out[i][2], took[2]) /\ out[i][2] <= lat[2]
    /\ \A i, j \in 1..Len(out) : i < j => out[i][1] < out[j][1] /\ out[i][2] <= out[j][2]
    /\ w[1].pc = "send" =>
         /\ Len(w[1].val) = 2 /\ In(w[1].val[1], took[1]) /\ In(w[1].val[2], took[2]) /\ w[1].val[2] <= lat[2]
         /\ \A i \in 1..Len(out) : out[i][1] < w[1].val[1] /\ out[i][2] <= w[1].val[2]

SampleInv ==
  Is("sampleWith") =>
    /\ lat[1] # 0 => In(lat[1], took[1]) /\ \A i \in 1..Len(out) : out[i][1] < lat[1]
    /\ \A i \in 1..Len(out) : Len(out[i]) = 1 /\ In(out[i][1], took[1])
    /\ \A i, j \in 1..Len(out) : i < j => out[i][1] < out[j][1]
    /\ Len(out) <= Len(took[2])
    /\ w[2].pc = "send" =>
         /\ Len(w[2].val) = 1 /\ In(w[2].val[1], took[1]) /\ Len(out) + 1 <= Len(took[2])
         /\ \A i \in 1..Len(out) : out[i][1] < w[2].val[1]
         /\ lat[1] # 0 => w[2].val[1] < lat[1]

EqualInv ==
  Is("sequenceEqual") =>
    /\ w[1].pc \in {"recv", "second"} => \A i \in 1..Len(took[2]) : i <= Len(took[1]) /\ took[1][i] = took[2][i]
    /\ w[1].pc = "recv" => Len(took[1]) = Len(took[2])
    /\ w[1].pc = "second" =>
         \/ Len(took[1]) = Len(took[2]) + 1 /\ w[1].val = <<took[1][Len(took[1])]>>
         \/ Len(took[1]) = Len(took[2]) /\ w[1].val = <<0>> /\ ch[1] = << >> /\ shut[1]
    /\ w[1].pc # "send"
    /\ w[1].why = "eof" => shut[1] /\ shut[2] /\ routed[1] = routed[2]
    /\ w[1].why = "differ" =>
         \/ \E i \in 1..Len(routed[1]) : i <= Len(routed[2]) /\ routed[1][i] # routed[2][i]
         \/ shut[1] /\ Len(routed[1]) < Len(routed[2])
         \/ shut[2] /\ Len(routed[2]) < Len(routed[1])

\* What of the first n entries of o comes from branch k, and how much it is.
Picked(o, k, n) == {i \in 1..n : o[i][1] = k}
Nth(o, k, n) == Cardinality(Picked(o, k, n))
Count(k) == Nth(out, k, Len(out))
MergeInv ==
  Is("merge") =>
    /\ \A i \in 1..Len(out) : /\ out[i][1] \in B
                              /\ out[i][2] = took[out[i][1]][Nth(out, out[i][1], i)]
    /\ \A k \in B :
         /\ Count(k) <= Len(took[k])
         /\ w[k].pc = "recv" => Count(k) = Len(took[k])
         /\ w[k].pc = "send" => Count(k) + 1 = Len(took[k]) /\ w[k].val = <<k, took[k][Len(took[k])]>>
         /\ w[k].pc = "end" => \/ w[k].why = "eof" /\ shut[k] /\ Len(routed[k]) = Len(took[k]) /\ Count(k) = Len(took[k])
                               \/ left \/ ctx
         /\ Returned => w[k].pc = "end"

Inv == /\ FanInv /\ StreamInv /\ WorkInv /\ StageInv /\ KeptInv /\ BothInv
       /\ ZipInv /\ CombineInv /\ LatestInv /\ SampleInv /\ EqualInv /\ MergeInv
       /\ DrainOnlyWhenAllLeft

-----------------------------------------------------------------------------
(* The fan-out and the branches. *)

\* The operators of a diamond never change.
LEMMA KindType ==
  ASSUME kind \in Kinds
  PROVE  kind.out \in Outs /\ kind.in \in Ins
BY FanAssumption DEF Outs, Ins

\* Items go to one branch, or to the first and then the second.
LEMMA RouteShape ==
  ASSUME NEW i \in Nat, kind \in Kinds, kind.out # "sources", NEW r \in Routes(i)
  PROVE  /\ \E b \in B : r = To(b, i) \/ r = ToAll(i)
         /\ kind.out \in Both => r = ToAll(i)
<1>1. CASE kind.out \in Both
  BY <1>1 DEF Routes, Both, Broadcast, Share, Unzip, B
<1>2. CASE kind.out = "balance"
  <2>1. 1 + ((i - 1) % 2) \in B
    BY DEF B
  <2> QED BY <1>2, <2>1 DEF Routes, Balance, Both
<1>3. CASE kind.out = "keyedBalance"
  <2>1. Shard(i) \in B
    BY DEF B, Shard
  <2> QED BY <1>3, <2>1 DEF Routes, KeyedBalance, Both
<1>4. CASE kind.out = "partition"
  <2>1. PartitionOf(i) \in B
    BY DEF B, PartitionOf
  <2> QED BY <1>4, <2>1 DEF Routes, Partition, Both
<1>5. CASE kind.out = "mapResult"
  BY <1>5 DEF Routes, MapResult, Both
<1> QED BY <1>1, <1>2, <1>3, <1>4, <1>5, KindType DEF Outs, Both

\* The sends that are still to do.
LEMMA TodoShape ==
  ASSUME FanInv, fpc = "send"
  PROVE  /\ todo[1][1] \in B /\ todo[1][2] = read /\ read \in Nat \ {0} /\ Len(todo) \in {1, 2}
         /\ Len(todo) = 1 => Tail(todo) = << >> /\ \A b \in B : Pending(b) <=> b = todo[1][1]
         /\ Len(todo) = 2 => Tail(todo) = To(2, read) /\ todo[1][1] = 1 /\ \A b \in B : Pending(b)
<1>1. read \in Nat \ {0}
  BY DEF FanInv
<1>2. ASSUME NEW b \in B, todo = To(b, read)
      PROVE  /\ todo[1][1] = b /\ todo[1][2] = read /\ Len(todo) = 1 /\ Tail(todo) = << >>
             /\ \A c \in B : Pending(c) <=> c = b
  BY <1>2 DEF To, Pending
<1>3. ASSUME todo = ToAll(read)
      PROVE  /\ todo[1][1] = 1 /\ todo[1][2] = read /\ Len(todo) = 2 /\ Tail(todo) = To(2, read)
             /\ \A c \in B : Pending(c)
  <2>1. todo = << <<1, read>>, <<2, read>> >>
    BY <1>3 DEF ToAll
  <2>2. Len(todo) = 2 /\ todo[1] = <<1, read>> /\ todo[2] = <<2, read>> /\ Tail(todo) = << <<2, read>> >>
    BY <2>1
  <2>3. todo[1][1] = 1 /\ todo[1][2] = read /\ todo[2][1] = 2
    BY <2>2
  <2> QED BY <2>2, <2>3 DEF To, Pending, B
<1>4. 1 \in B
  BY DEF B
<1>5. (\E b \in B : todo = To(b, read)) \/ todo = ToAll(read)
  BY DEF FanInv
<1>6. CASE \E b \in B : todo = To(b, read)
  <2>1. PICK b \in B : todo = To(b, read)
    BY <1>6
  <2>2. /\ todo[1][1] = b /\ todo[1][2] = read /\ Len(todo) = 1 /\ Tail(todo) = << >>
        /\ \A c \in B : Pending(c) <=> c = b
    BY <1>2, <2>1
  <2> QED BY <1>1, <2>2
<1>7. CASE todo = ToAll(read)
  <2>1. /\ todo[1][1] = 1 /\ todo[1][2] = read /\ Len(todo) = 2 /\ Tail(todo) = To(2, read)
        /\ \A c \in B : Pending(c)
    BY <1>3, <1>7
  <2> QED BY <1>1, <1>4, <2>1
<1> QED BY <1>5, <1>6, <1>7

LEMMA FanKeeps ==
  ASSUME FanInv, FanOutStep
  PROVE  FanInv'
<1>1. kind' = kind /\ kind.out \in Outs
  BY KindType DEF FanInv, FanOutStep, FanRecv, FanSend, FanEof, FanCtxDone, FanDrained, FanReturn, SourceFeeds, SourceEnds
<1>2. CASE FanRecv
  <2>1. fpc' = "send" /\ read' = read + 1 /\ shut' = shut /\ todo' \in Routes(read + 1) /\ fpc = "recv"
    BY <1>2 DEF FanRecv
  <2>2. read' \in Nat /\ read' > 0
    BY <2>1 DEF FanInv
  <2>3. \E b \in B : todo' = To(b, read') \/ todo' = ToAll(read')
    BY <2>1, <2>2, RouteShape DEF FanInv
  <2> QED BY <1>1, <2>1, <2>2, <2>3 DEF FanInv, To
<1>3. CASE FanSend
  <2>1. fpc = "send" /\ todo' = Tail(todo) /\ fpc' = (IF Len(todo) = 1 THEN "recv" ELSE "send")
        /\ read' = read /\ shut' = shut
    BY <1>3 DEF FanSend
  <2>2. 2 \in B
    BY DEF B
  <2> QED BY <1>1, <2>1, <2>2, TodoShape DEF FanInv, To
<1>4. CASE FanEof \/ FanCtxDone \/ FanDrained
  <2>1. fpc' = "end" /\ todo' = << >> /\ shut' = [b \in B |-> TRUE] /\ read' = read /\ fpc \in {"recv", "send"}
    BY <1>4 DEF FanEof, FanCtxDone, FanDrained, FanReturn
  <2> QED BY <1>1, <2>1 DEF FanInv
<1>5. CASE \E b \in B : SourceFeeds(b) \/ SourceEnds(b)
  <2>1. PICK b \in B : SourceFeeds(b) \/ SourceEnds(b)
    BY <1>5
  <2>2. fpc' = fpc /\ todo' = todo /\ read' = read /\ fpc = "none" /\ (shut' = shut \/ shut' = [shut EXCEPT ![b] = TRUE])
    BY <2>1 DEF SourceFeeds, SourceEnds
  <2> QED BY <1>1, <2>2 DEF FanInv, To
<1> QED BY <1>2, <1>3, <1>4, <1>5 DEF FanOutStep

\* A step of the fan-out appends an item to a branch that is open, beyond
\* everything there and everything taken, or moves no item.
Feeds(b, x) ==
  /\ ~shut[b] /\ x \in Nat \ {0}
  /\ ch' = [ch EXCEPT ![b] = Append(@, x)] /\ routed' = [routed EXCEPT ![b] = Append(@, x)]

LEMMA FanFacts ==
  ASSUME FanInv, StreamInv, FanOutStep
  PROVE  /\ UNCHANGED <<kind, fiVars, envVars, refs, panic>>
         /\ \A b \in B : shut[b] => shut'[b]
         /\ \/ \E b \in B, x \in Nat : Feeds(b, x) /\ UNCHANGED <<read, shut, fwhy>>
            \/ UNCHANGED <<ch, routed>>
<1>1. UNCHANGED <<kind, fiVars, envVars, refs, panic>>
  BY DEF FanOutStep, FanRecv, FanSend, FanEof, FanCtxDone, FanDrained, FanReturn, SourceFeeds, SourceEnds
<1>2. \A b \in B : shut[b] => shut'[b]
  BY DEF FanInv, FanOutStep, FanRecv, FanSend, FanEof, FanCtxDone, FanDrained, FanReturn, SourceFeeds, SourceEnds
<1>3. CASE FanSend
  <2> DEFINE b == todo[1][1]
             x == todo[1][2]
  <2>1. b \in B /\ x = read /\ x \in Nat \ {0} /\ fpc = "send"
    BY <1>3, TodoShape DEF FanSend
  <2>2. ~shut[b]
    BY <2>1 DEF FanInv
  <2>3. Feeds(b, x) /\ UNCHANGED <<read, shut, fwhy>>
    BY <1>3, <2>1, <2>2 DEF FanSend, Feeds
  <2> HIDE DEF b, x
  <2> QED BY <1>1, <1>2, <2>1, <2>3
<1>4. ASSUME NEW b \in B, SourceFeeds(b)
      PROVE  Feeds(b, Len(routed[b]) + 1) /\ UNCHANGED <<read, shut, fwhy>> /\ Len(routed[b]) + 1 \in Nat
  <2>1. Len(routed[b]) + 1 \in Nat \ {0}
    BY DEF StreamInv
  <2> QED BY <1>4, <2>1 DEF SourceFeeds, Feeds
<1>5. CASE FanRecv \/ FanEof \/ FanCtxDone \/ FanDrained \/ \E b \in B : SourceEnds(b)
  BY <1>1, <1>2, <1>5 DEF FanRecv, FanEof, FanCtxDone, FanDrained, FanReturn, SourceEnds
<1> QED BY <1>1, <1>2, <1>3, <1>4, <1>5 DEF FanOutStep

\* What appending, taking and tails do to sequences of numbers.
LEMMA AppendFacts ==
  ASSUME NEW s \in Seq(Nat), NEW x \in Nat
  PROVE  /\ Append(s, x) \in Seq(Nat) /\ Len(Append(s, x)) = Len(s) + 1
         /\ \A i \in 1..Len(s) : Append(s, x)[i] = s[i]
         /\ Append(s, x)[Len(s) + 1] = x
         /\ \A i \in 1..Len(Append(s, x)) : i \in 1..Len(s) \/ i = Len(s) + 1
OBVIOUS

LEMMA TailFacts ==
  ASSUME NEW s \in Seq(Nat), s # << >>
  PROVE  /\ Tail(s) \in Seq(Nat) /\ Len(Tail(s)) = Len(s) - 1 /\ Head(s) = s[1] /\ Head(s) \in Nat
         /\ 1 \in 1..Len(s) /\ Len(s) \in Nat
         /\ \A i \in 1..Len(Tail(s)) : Tail(s)[i] = s[i + 1] /\ i + 1 \in 1..Len(s)
OBVIOUS

LEMMA BranchFed ==
  ASSUME NEW t \in Seq(Nat), NEW c \in Seq(Nat), NEW high \in Nat, NEW pend \in BOOLEAN, Branch(t, c, high, pend),
         NEW x \in Nat \ {0}, x > high \/ (pend /\ x = high)
  PROVE  Branch(t, Append(c, x), x, FALSE)
<1> DEFINE d == Append(c, x)
<1>1. d \in Seq(Nat) /\ Len(d) = Len(c) + 1 /\ d[Len(c) + 1] = x
      /\ (\A i \in 1..Len(c) : d[i] = c[i]) /\ \A i \in 1..Len(d) : i \in 1..Len(c) \/ i = Len(c) + 1
  BY AppendFacts
<1> HIDE DEF d
<1>2. \A i \in 1..Len(t) : t[i] \in 1..x /\ t[i] < x
  BY DEF Branch
<1>3. \A i \in 1..Len(c) : d[i] \in 1..x /\ d[i] < x
  <2>1. \A i \in 1..Len(c) : c[i] \in 1..high /\ (pend => c[i] < high)
    BY DEF Branch
  <2>2. \A i \in 1..Len(c) : c[i] \in 1..x /\ c[i] < x
    BY <2>1
  <2> QED BY <1>1, <2>2
<1>4. x \in 1..x
  OBVIOUS
<1>5. \A i \in 1..Len(d) : d[i] \in 1..x
  BY <1>1, <1>3, <1>4
<1>6. \A i, j \in 1..Len(d) : i < j => d[i] < d[j]
  <2> SUFFICES ASSUME NEW i \in 1..Len(d), NEW j \in 1..Len(d), i < j PROVE d[i] < d[j]
    OBVIOUS
  <2>1. i \in 1..Len(c)
    BY <1>1
  <2>2. CASE j \in 1..Len(c)
    BY <1>1, <2>1, <2>2 DEF Branch
  <2>3. CASE j = Len(c) + 1
    BY <1>1, <1>3, <2>1, <2>3
  <2> QED BY <1>1, <2>2, <2>3
<1>7. \A i \in 1..Len(t), j \in 1..Len(d) : t[i] < d[j]
  BY <1>1, <1>2 DEF Branch
<1>8. \A i, j \in 1..Len(t) : i < j => t[i] < t[j]
  BY DEF Branch
<1> QED BY <1>2, <1>5, <1>6, <1>7, <1>8 DEF Branch, d

LEMMA BranchTaken ==
  ASSUME NEW t \in Seq(Nat), NEW c \in Seq(Nat), NEW high \in Nat, NEW pend \in BOOLEAN, Branch(t, c, high, pend),
         c # << >>
  PROVE  Branch(Append(t, Head(c)), Tail(c), high, pend) /\ Branch(t, Tail(c), high, pend)
<1> DEFINE x == Head(c)
           u == Append(t, x)
           d == Tail(c)
<1>1. /\ d \in Seq(Nat) /\ Len(d) = Len(c) - 1 /\ x = c[1] /\ x \in Nat /\ 1 \in 1..Len(c) /\ Len(c) \in Nat
      /\ \A i \in 1..Len(d) : d[i] = c[i + 1] /\ i + 1 \in 1..Len(c)
  BY TailFacts
<1>2. u \in Seq(Nat) /\ Len(u) = Len(t) + 1 /\ u[Len(t) + 1] = x
      /\ (\A i \in 1..Len(t) : u[i] = t[i]) /\ \A i \in 1..Len(u) : i \in 1..Len(t) \/ i = Len(t) + 1
  BY <1>1, AppendFacts
<1> HIDE DEF u, d, x
<1>3. x \in 1..high /\ (pend => x < high) /\ (\A i \in 1..Len(t) : t[i] < x) /\ \A i \in 1..Len(d) : x < d[i]
  <2>1. x \in 1..high /\ (pend => x < high) /\ \A i \in 1..Len(t) : t[i] < x
    BY <1>1 DEF Branch
  <2>2. \A i \in 1..Len(d) : d[i] = c[i + 1] /\ i + 1 \in 1..Len(c) /\ 1 < i + 1
    BY <1>1
  <2>3. \A j \in 1..Len(c) : 1 < j => c[1] < c[j]
    BY <1>1 DEF Branch
  <2> QED BY <1>1, <2>1, <2>2, <2>3
<1>4. \A i \in 1..Len(d) : d[i] \in 1..high /\ (pend => d[i] < high)
  BY <1>1 DEF Branch
<1>5. \A i, j \in 1..Len(d) : i < j => d[i] < d[j]
  <2> SUFFICES ASSUME NEW i \in 1..Len(d), NEW j \in 1..Len(d), i < j PROVE d[i] < d[j]
    OBVIOUS
  <2>1. i + 1 \in 1..Len(c) /\ j + 1 \in 1..Len(c) /\ i + 1 < j + 1 /\ d[i] = c[i + 1] /\ d[j] = c[j + 1]
    BY SMTT(30), <1>1
  <2>2. c[i + 1] < c[j + 1]
    BY <2>1 DEF Branch
  <2> QED BY <2>1, <2>2
<1>6. \A i \in 1..Len(t), j \in 1..Len(d) : t[i] < d[j]
  BY <1>1 DEF Branch
<1>7. Branch(t, d, high, pend)
  BY <1>4, <1>5, <1>6 DEF Branch
<1>8. \A i \in 1..Len(u) : u[i] \in 1..high /\ (pend => u[i] < high)
  BY <1>2, <1>3 DEF Branch
<1>9. \A i, j \in 1..Len(u) : i < j => u[i] < u[j]
  <2> SUFFICES ASSUME NEW i \in 1..Len(u), NEW j \in 1..Len(u), i < j PROVE u[i] < u[j]
    OBVIOUS
  <2>1. i \in 1..Len(t)
    BY <1>2
  <2>2. CASE j \in 1..Len(t)
    BY <1>2, <2>1, <2>2 DEF Branch
  <2>3. CASE j = Len(t) + 1
    BY <1>2, <1>3, <2>1, <2>3
  <2> QED BY <1>2, <2>2, <2>3
<1>10. \A i \in 1..Len(u), j \in 1..Len(d) : u[i] < d[j]
  BY <1>2, <1>3, <1>6
<1>11. Branch(u, d, high, pend)
  BY <1>4, <1>5, <1>8, <1>9, <1>10 DEF Branch
<1> QED BY <1>7, <1>11 DEF u, d, x

\* More room above, or a send no longer to do, changes nothing.
LEMMA BranchStill ==
  ASSUME NEW t \in Seq(Nat), NEW c \in Seq(Nat), NEW high \in Nat, NEW pend \in BOOLEAN, Branch(t, c, high, pend),
         NEW high1 \in Nat, NEW pend1 \in BOOLEAN, high < high1 \/ (high = high1 /\ (pend1 => pend))
  PROVE  Branch(t, c, high1, pend1)
BY DEF Branch

\* The bounds of the branches are numbers.
LEMMA HighType ==
  ASSUME FanInv, StreamInv, NEW b \in B
  PROVE  Highest(b) \in Nat /\ Pending(b) \in BOOLEAN /\ ch[b] \in Seq(Nat) /\ took[b] \in Seq(Nat)
         /\ routed[b] \in Seq(Nat) /\ Len(routed[b]) \in Nat
BY DEF FanInv, StreamInv, Highest, Pending

LEMMA StreamStill ==
  ASSUME StreamInv, UNCHANGED <<kind, foVars, ch, took>>
  PROVE  StreamInv'
<1>1. UNCHANGED <<read, fpc, todo, routed>>
  BY DEF foVars
<1> QED BY <1>1 DEF StreamInv, Highest, Pending

\* A goroutine of the fan-in receives from branch b.
LEMMA StreamTaken ==
  ASSUME FanInv, StreamInv, NEW b \in B, TakeFrom(b), UNCHANGED <<kind, foVars>>
  PROVE  /\ StreamInv'
         /\ Head(ch[b]) \in Nat \ {0} /\ Len(took'[b]) = Len(took[b]) + 1 /\ took'[b] \in Seq(Nat)
         /\ took'[b][Len(took[b]) + 1] = Head(ch[b])
         /\ \A i \in 1..Len(took[b]) : took'[b][i] = took[b][i] /\ took[b][i] < Head(ch[b])
         /\ \A c \in B : c # b => took'[c] = took[c] /\ ch'[c] = ch[c]
         /\ ch'[b] = Tail(ch[b]) /\ ch[b] # << >>
<1>1. UNCHANGED <<read, fpc, todo, routed>>
  BY DEF foVars
<1>2. /\ ch[b] # << >> /\ ch' = [ch EXCEPT ![b] = Tail(ch[b])]
      /\ took' = [took EXCEPT ![b] = Append(took[b], Head(ch[b]))]
  BY DEF TakeFrom
<1>3. Highest(b) \in Nat /\ Pending(b) \in BOOLEAN /\ ch[b] \in Seq(Nat) /\ took[b] \in Seq(Nat)
  BY HighType
<1>4. Branch(took[b], ch[b], Highest(b), Pending(b))
  BY DEF StreamInv
<1>5. /\ Tail(ch[b]) \in Seq(Nat) /\ Head(ch[b]) = ch[b][1] /\ Head(ch[b]) \in Nat /\ 1 \in 1..Len(ch[b])
  BY <1>2, <1>3, TailFacts
<1>6. ch[b][1] \in 1..Highest(b) /\ \A i \in 1..Len(took[b]) : took[b][i] < ch[b][1]
  BY <1>4, <1>5 DEF Branch
<1>7. /\ Append(took[b], Head(ch[b])) \in Seq(Nat) /\ Len(Append(took[b], Head(ch[b]))) = Len(took[b]) + 1
      /\ \A i \in 1..Len(took[b]) : Append(took[b], Head(ch[b]))[i] = took[b][i]
      /\ Append(took[b], Head(ch[b]))[Len(took[b]) + 1] = Head(ch[b])
  BY <1>3, <1>5, AppendFacts
<1>8. Branch(Append(took[b], Head(ch[b])), Tail(ch[b]), Highest(b), Pending(b))
  BY <1>2, <1>3, <1>4, BranchTaken
<1>9. /\ took'[b] = Append(took[b], Head(ch[b])) /\ ch'[b] = Tail(ch[b])
      /\ \A c \in B : c # b => took'[c] = took[c] /\ ch'[c] = ch[c]
      /\ ch' \in [B -> Seq(Nat)] /\ took' \in [B -> Seq(Nat)]
  BY <1>2, <1>5, <1>7 DEF StreamInv
<1>10. \A c \in B : Highest(c)' = Highest(c) /\ (Pending(c)' <=> Pending(c))
  BY <1>1 DEF Highest, Pending
<1>11. ASSUME NEW c \in B PROVE Branch(took'[c], ch'[c], Highest(c), Pending(c))
  <2>1. CASE c = b
    BY <1>8, <1>9, <2>1
  <2>2. CASE c # b
    BY <1>9, <2>2 DEF StreamInv
  <2> QED BY <2>1, <2>2
<1>12. \A c \in B : Branch(took[c], ch[c], Highest(c), Pending(c))'
  BY <1>1, <1>11 DEF Branch, Highest, Pending
<1>13. StreamInv'
  BY <1>1, <1>9, <1>12 DEF StreamInv
<1> QED BY <1>2, <1>5, <1>6, <1>7, <1>9, <1>13

\* An item of branch b is discarded.
LEMMA StreamDropped ==
  ASSUME FanInv, StreamInv, NEW b \in B, ch[b] # << >>, ch' = [ch EXCEPT ![b] = Tail(@)],
         UNCHANGED <<kind, foVars, took>>
  PROVE  StreamInv' /\ ch'[b] = Tail(ch[b]) /\ \A c \in B : c # b => ch'[c] = ch[c]
<1>1. UNCHANGED <<read, fpc, todo, routed>>
  BY DEF foVars
<1>3. Highest(b) \in Nat /\ Pending(b) \in BOOLEAN /\ ch[b] \in Seq(Nat) /\ took[b] \in Seq(Nat)
  BY HighType
<1>4. Branch(took[b], ch[b], Highest(b), Pending(b))
  BY DEF StreamInv
<1>5. Branch(took[b], Tail(ch[b]), Highest(b), Pending(b)) /\ Tail(ch[b]) \in Seq(Nat)
  BY <1>3, <1>4, BranchTaken, TailFacts
<1>6. ch'[b] = Tail(ch[b]) /\ ch' \in [B -> Seq(Nat)] /\ \A c \in B : c # b => ch'[c] = ch[c]
  BY <1>5 DEF StreamInv
<1>7. ASSUME NEW c \in B PROVE Branch(took[c], ch'[c], Highest(c), Pending(c))
  <2>1. CASE c = b
    BY <1>5, <1>6, <2>1
  <2>2. CASE c # b
    BY <1>6, <2>2 DEF StreamInv
  <2> QED BY <2>1, <2>2
<1>8. \A c \in B : Branch(took[c], ch[c], Highest(c), Pending(c))'
  BY <1>1, <1>7 DEF Branch, Highest, Pending
<1> QED BY <1>1, <1>6, <1>8 DEF StreamInv

\* The fan-out, or one of two sources, goes on.
LEMMA StreamFed ==
  ASSUME FanInv, StreamInv, FanOutStep
  PROVE  StreamInv'
<1>1. kind' = kind /\ took' = took
  BY FanFacts DEF fiVars
<1>2. ASSUME NEW c \in B
      PROVE  /\ Highest(c) \in Nat /\ Pending(c) \in BOOLEAN /\ ch[c] \in Seq(Nat) /\ took[c] \in Seq(Nat)
             /\ routed[c] \in Seq(Nat) /\ Len(routed[c]) \in Nat /\ Branch(took[c], ch[c], Highest(c), Pending(c))
  BY HighType DEF StreamInv
<1>3. CASE UNCHANGED <<ch, routed>>
  <2>1. ASSUME NEW c \in B PROVE Branch(took[c], ch[c], Highest(c), Pending(c))'
    <3>1. Highest(c)' \in Nat /\ Pending(c)' \in BOOLEAN
      BY <1>1, <1>2, <1>3, FanKeeps DEF Highest, Pending, FanInv
    <3>2. Highest(c) < Highest(c)' \/ (Highest(c) = Highest(c)' /\ (Pending(c)' => Pending(c)))
      <4>1. CASE FanRecv
        <5>1. read' = read + 1 /\ kind.out # "sources" /\ read \in Nat
          BY <4>1 DEF FanRecv, FanInv
        <5> QED BY <1>1, <5>1 DEF Highest
      <4>2. CASE FanSend
        <5>1. fpc = "send" /\ ch'[todo[1][1]] = Append(ch[todo[1][1]], todo[1][2]) /\ todo[1][1] \in B /\ todo[1][2] = read
          BY <4>2, TodoShape DEF FanSend, StreamInv
        <5>2. ch[todo[1][1]] \in Seq(Nat) /\ read \in Nat
          BY <1>2, <5>1 DEF FanInv
        <5> HIDE DEF FanOutStep
        <5>3. Len(ch'[todo[1][1]]) # Len(ch[todo[1][1]])
          BY <5>1, <5>2
        <5> QED BY <1>3, <5>3
      <4>3. CASE FanEof \/ FanCtxDone \/ FanDrained
        <5>1. read' = read /\ fpc' = "end"
          BY <4>3 DEF FanEof, FanCtxDone, FanDrained, FanReturn
        <5> QED BY <1>1, <1>3, <5>1 DEF Highest, Pending
      <4>4. CASE \E b \in B : SourceFeeds(b) \/ SourceEnds(b)
        <5>1. read' = read /\ fpc' = fpc /\ todo' = todo
          BY <4>4 DEF SourceFeeds, SourceEnds
        <5> QED BY <1>1, <1>3, <5>1 DEF Highest, Pending
      <4> QED BY <4>1, <4>2, <4>3, <4>4 DEF FanOutStep
    <3> DEFINE h1 == Highest(c)'
               p1 == Pending(c)'
    <3>3. h1 \in Nat /\ p1 \in BOOLEAN /\ (Highest(c) < h1 \/ (Highest(c) = h1 /\ (p1 => Pending(c))))
      BY <3>1, <3>2
    <3> HIDE DEF h1, p1
    <3>4. Branch(took[c], ch[c], h1, p1)
      BY <1>2, <3>3, BranchStill
    <3> QED BY <1>1, <1>3, <3>4 DEF Branch, h1, p1
  <2> QED BY <1>1, <1>3, <2>1 DEF StreamInv
<1>4. CASE FanSend
  <2> DEFINE b == todo[1][1]
  <2>1. b \in B /\ todo[1][2] = read /\ read \in Nat \ {0} /\ Len(todo) \in {1, 2} /\ Pending(b)
        /\ (Len(todo) = 1 => Tail(todo) = << >>)
        /\ (Len(todo) = 2 => Tail(todo) = To(2, read) /\ b = 1 /\ \A c \in B : Pending(c))
    BY <1>4, TodoShape DEF FanSend
  <2>2. /\ ch' = [ch EXCEPT ![b] = Append(ch[b], read)] /\ routed' = [routed EXCEPT ![b] = Append(routed[b], read)]
        /\ todo' = Tail(todo) /\ fpc' = (IF Len(todo) = 1 THEN "recv" ELSE "send") /\ read' = read /\ fpc = "send"
    BY <1>4, <2>1 DEF FanSend
  <2>3. \A c \in B : (c = b => ~Pending(c)') /\ (Pending(c)' => Pending(c))
    <3>1. CASE Len(todo) = 1
      BY <2>2, <3>1 DEF Pending
    <3>2. CASE Len(todo) = 2
      <4>1. todo' = << <<2, read>> >>
        BY <2>1, <2>2, <3>2 DEF To
      <4>2. Len(todo') = 1 /\ todo'[1][1] = 2
        BY <4>1
      <4> QED BY <2>1, <3>2, <4>2 DEF Pending
    <3> QED BY <2>1, <3>1, <3>2
  <2>4. kind.out # "sources"
    BY <2>2 DEF FanInv
  <2>5. \A c \in B : Highest(c) = read /\ Highest(c)' = read
    BY <1>1, <2>2, <2>4 DEF Highest
  <2> HIDE DEF b
  <2>6. Append(ch[b], read) \in Seq(Nat) /\ Append(routed[b], read) \in Seq(Nat)
    BY <1>2, <2>1
  <2>7. ch' \in [B -> Seq(Nat)] /\ routed' \in [B -> Seq(Nat)] /\ ch'[b] = Append(ch[b], read)
        /\ \A c \in B : c # b => ch'[c] = ch[c]
    BY <2>1, <2>2, <2>6 DEF StreamInv
  <2>8. ASSUME NEW c \in B PROVE Branch(took[c], ch[c], Highest(c), Pending(c))'
    <3>1. CASE c = b
      <4>1. Branch(took[b], Append(ch[b], read), read, FALSE)
        BY <1>2, <2>1, <2>5, BranchFed
      <4> QED BY <1>1, <2>3, <2>5, <2>7, <3>1, <4>1 DEF Branch
    <3>2. CASE c # b
      BY <1>1, <1>2, <2>3, <2>5, <2>7, <3>2 DEF Branch
    <3> QED BY <3>1, <3>2
  <2> QED BY <1>1, <2>7, <2>8 DEF StreamInv
<1>5. ASSUME NEW b \in B, SourceFeeds(b)
      PROVE  StreamInv'
  <2> DEFINE x == Len(routed[b]) + 1
  <2>1. /\ ch' = [ch EXCEPT ![b] = Append(ch[b], x)] /\ routed' = [routed EXCEPT ![b] = Append(routed[b], x)]
        /\ fpc' = fpc /\ fpc = "none" /\ kind.out = "sources"
    BY <1>5 DEF SourceFeeds, FanInv
  <2>2. x \in Nat \ {0} /\ Highest(b) = Len(routed[b]) /\ x > Highest(b)
    BY <1>2, <2>1 DEF Highest
  <2> HIDE DEF x
  <2>3. /\ Append(ch[b], x) \in Seq(Nat) /\ Append(routed[b], x) \in Seq(Nat)
        /\ Len(Append(routed[b], x)) = Len(routed[b]) + 1
    BY <1>2, <2>2, AppendFacts
  <2>4. /\ ch' \in [B -> Seq(Nat)] /\ routed' \in [B -> Seq(Nat)] /\ ch'[b] = Append(ch[b], x)
        /\ routed'[b] = Append(routed[b], x)
        /\ \A c \in B : c # b => ch'[c] = ch[c] /\ routed'[c] = routed[c]
    BY <2>1, <2>3 DEF StreamInv
  <2>5. Highest(b)' = x /\ \A c \in B : c # b => Highest(c)' = Highest(c)
    BY <1>1, <2>1, <2>3, <2>4 DEF Highest, x
  <2>6. \A c \in B : ~Pending(c)' /\ ~Pending(c)
    BY <2>1 DEF Pending
  <2>7. ASSUME NEW c \in B PROVE Branch(took[c], ch[c], Highest(c), Pending(c))'
    <3>1. CASE c = b
      <4>1. Branch(took[b], Append(ch[b], x), x, FALSE)
        BY <1>2, <2>2, BranchFed
      <4> QED BY ZenonT(40), <1>1, <2>4, <2>5, <2>6, <3>1, <4>1 DEF Branch
    <3>2. CASE c # b
      BY <1>1, <1>2, <2>4, <2>5, <2>6, <3>2 DEF Branch
    <3> QED BY <3>1, <3>2
  <2> QED BY <1>1, <2>4, <2>7 DEF StreamInv
<1>6. CASE FanRecv \/ FanEof \/ FanCtxDone \/ FanDrained \/ \E b \in B : SourceEnds(b)
  BY <1>3, <1>6 DEF FanRecv, FanEof, FanCtxDone, FanDrained, FanReturn, SourceEnds
<1> QED BY <1>4, <1>5, <1>6 DEF FanOutStep

\* Broadcast, Share and Unzip stay in step with the stream.
LEMMA BothFed ==
  ASSUME FanInv, StreamInv, BothInv, FanOutStep
  PROVE  BothInv'
<1> SUFFICES ASSUME kind'.out \in Both, NEW c \in B
             PROVE  /\ \A i \in 1..Len(routed'[c]) : routed'[c][i] = i
                    /\ fpc' # "end" => Len(routed'[c]) = IF Pending(c)' THEN read' - 1 ELSE read'
  BY DEF BothInv
<1>1. kind' = kind /\ kind.out # "sources" /\ read \in Nat /\ fpc # "none" /\ kind \in Kinds
  BY FanFacts DEF FanInv, Both
<1>2. /\ routed[c] \in Seq(Nat) /\ \A i \in 1..Len(routed[c]) : routed[c][i] = i
      /\ fpc # "end" => Len(routed[c]) = IF Pending(c) THEN read - 1 ELSE read
  BY <1>1, HighType DEF BothInv
<1>3. CASE FanRecv
  <2>1. fpc' = "send" /\ fpc = "recv" /\ routed' = routed /\ read' = read + 1 /\ todo' \in Routes(read + 1)
    BY <1>3 DEF FanRecv
  <2>2. todo' = ToAll(read + 1)
    BY <1>1, <2>1, RouteShape
  <2>3. todo' = << <<1, read + 1>>, <<2, read + 1>> >>
    BY <2>2 DEF ToAll
  <2>4. Len(todo') = 2 /\ todo'[1][1] = 1 /\ todo'[2][1] = 2
    BY <2>3
  <2>5. Pending(c)'
    BY <2>1, <2>4 DEF Pending, B
  <2>6. ~Pending(c)
    BY <2>1 DEF Pending
  <2> QED BY <1>1, <1>2, <2>1, <2>5, <2>6
<1>4. CASE FanSend
  <2> DEFINE b == todo[1][1]
  <2>1. b \in B /\ todo[1][2] = read /\ read \in Nat \ {0} /\ Len(todo) \in {1, 2} /\ fpc = "send"
        /\ (Len(todo) = 1 => Tail(todo) = << >> /\ \A d \in B : Pending(d) <=> d = b)
        /\ (Len(todo) = 2 => Tail(todo) = To(2, read) /\ b = 1 /\ \A d \in B : Pending(d))
    BY <1>4, TodoShape DEF FanSend
  <2>2. /\ routed' = [routed EXCEPT ![b] = Append(routed[b], read)]
        /\ todo' = Tail(todo) /\ fpc' = (IF Len(todo) = 1 THEN "recv" ELSE "send") /\ read' = read
    BY <1>4, <2>1 DEF FanSend
  <2>3. Pending(c)' <=> Pending(c) /\ c # b
    <3>1. CASE Len(todo) = 1
      BY <2>1, <2>2, <3>1 DEF Pending
    <3>2. CASE Len(todo) = 2
      <4>1. todo' = << <<2, read>> >>
        BY <2>1, <2>2, <3>2 DEF To
      <4>2. Len(todo') = 1 /\ todo'[1][1] = 2
        BY <4>1
      <4>3. fpc' = "send" /\ Pending(c) /\ b = 1
        BY <2>1, <2>2, <3>2
      <4>4. Pending(c)' <=> c = 2
        BY <4>2, <4>3 DEF Pending
      <4> QED BY <4>3, <4>4 DEF B
    <3> QED BY <2>1, <3>1, <3>2
  <2>4. Pending(b)
    BY <2>1
  <2> HIDE DEF b
  <2>5. CASE c = b
    <3>1. routed'[c] = Append(routed[c], read) /\ Len(routed[c]) = read - 1
      BY <1>2, <2>1, <2>2, <2>4, <2>5 DEF StreamInv
    <3>2. /\ Len(Append(routed[c], read)) = read
          /\ \A i \in 1..read : Append(routed[c], read)[i] = i
      BY <1>2, <2>1, <3>1
    <3> QED BY <2>2, <2>3, <2>5, <3>1, <3>2
  <2>6. CASE c # b
    <3>1. routed'[c] = routed[c]
      BY <2>1, <2>2, <2>6 DEF StreamInv
    <3> QED BY <1>2, <2>1, <2>2, <2>3, <2>6, <3>1
  <2> QED BY <2>5, <2>6
<1>5. CASE FanEof \/ FanCtxDone \/ FanDrained
  <2>1. fpc' = "end" /\ routed' = routed
    BY <1>5 DEF FanEof, FanCtxDone, FanDrained, FanReturn
  <2> QED BY <1>2, <2>1
<1>6. ~\E b \in B : SourceFeeds(b) \/ SourceEnds(b)
  BY <1>1 DEF SourceFeeds, SourceEnds
<1> QED BY <1>3, <1>4, <1>5, <1>6 DEF FanOutStep

LEMMA BothStill ==
  ASSUME BothInv, UNCHANGED <<kind, foVars>>
  PROVE  BothInv'
BY DEF BothInv, foVars, Pending

\* What is sent into a branch goes behind what it holds, what is taken from
\* it goes behind what was taken before.
LEMMA HeldFed ==
  ASSUME NEW t \in Seq(Nat), NEW c \in Seq(Nat), NEW r \in Seq(Nat), NEW x \in Nat
  PROVE  /\ Taken(t, r) => Taken(t, Append(r, x))
         /\ Held(t, c, r) => Held(t, Append(c, x), Append(r, x))
<1>1. Taken(t, r) => Taken(t, Append(r, x))
  BY DEF Taken
<1>2. ASSUME Held(t, c, r) PROVE Held(t, Append(c, x), Append(r, x))
  <2>1. Len(Append(r, x)) = Len(t) + Len(Append(c, x))
    BY <1>2 DEF Held
  <2>2. ASSUME NEW j \in 1..Len(Append(c, x)) PROVE Append(c, x)[j] = Append(r, x)[Len(t) + j]
    <3>1. CASE j \in 1..Len(c)
      BY SMTT(30), <1>2, <3>1 DEF Held
    <3>2. CASE j = Len(c) + 1
      <4>1. Append(c, x)[j] = x
        BY <3>2
      <4>2. Len(t) + j = Len(r) + 1
        BY <1>2, <3>2 DEF Held
      <4>3. Append(r, x)[Len(r) + 1] = x
        OBVIOUS
      <4> QED BY <4>1, <4>2, <4>3
    <3>3. j \in 1..Len(c) \/ j = Len(c) + 1
      OBVIOUS
    <3> QED BY <3>1, <3>2, <3>3
  <2> QED BY <2>1, <2>2 DEF Held
<1> QED BY <1>1, <1>2

LEMMA HeldTaken ==
  ASSUME NEW t \in Seq(Nat), NEW c \in Seq(Nat), NEW r \in Seq(Nat), c # << >>, Taken(t, r), Held(t, c, r)
  PROVE  /\ Taken(Append(t, Head(c)), r) /\ Held(Append(t, Head(c)), Tail(c), r)
<1> DEFINE x == Head(c)
           d == Tail(c)
           u == Append(t, x)
<1>1. /\ d \in Seq(Nat) /\ Len(d) = Len(c) - 1 /\ x = c[1] /\ x \in Nat /\ 1 \in 1..Len(c) /\ Len(c) \in Nat
      /\ \A i \in 1..Len(d) : d[i] = c[i + 1] /\ i + 1 \in 1..Len(c)
  BY TailFacts
<1>2. u \in Seq(Nat) /\ Len(u) = Len(t) + 1 /\ u[Len(t) + 1] = x
      /\ (\A i \in 1..Len(t) : u[i] = t[i]) /\ \A i \in 1..Len(u) : i \in 1..Len(t) \/ i = Len(t) + 1
  BY <1>1, AppendFacts
<1>3. Len(t) \in Nat /\ Len(r) \in Nat
  OBVIOUS
<1> HIDE DEF x, d, u
<1>4. x = r[Len(t) + 1] /\ Len(r) = Len(u) + Len(d)
  BY <1>1, <1>2, <1>3 DEF Held
<1>5. Taken(u, r)
  <2>1. Len(u) <= Len(r)
    BY <1>1, <1>2, <1>3, <1>4
  <2>2. \A i \in 1..Len(t) : u[i] = r[i]
    BY <1>2 DEF Taken
  <2>3. u[Len(t) + 1] = r[Len(t) + 1]
    BY <1>2, <1>4
  <2> QED BY <1>2, <2>1, <2>2, <2>3 DEF Taken
<1>6. \A j \in 1..Len(d) : d[j] = r[Len(u) + j]
  <2> SUFFICES ASSUME NEW j \in 1..Len(d) PROVE d[j] = r[Len(u) + j]
    OBVIOUS
  <2>1. d[j] = c[j + 1] /\ j + 1 \in 1..Len(c)
    BY <1>1
  <2>2. c[j + 1] = r[Len(t) + (j + 1)]
    BY <2>1 DEF Held
  <2>3. Len(t) + (j + 1) = Len(u) + j
    BY <1>2, <1>3
  <2> QED BY <2>1, <2>2, <2>3
<1> QED BY <1>4, <1>5, <1>6 DEF Held, x, d, u

LEMMA KeptFed ==
  ASSUME FanInv, StreamInv, KeptInv, FanOutStep
  PROVE  KeptInv'
<1>1. UNCHANGED <<kind, took, stage>>
  BY FanFacts DEF fiVars
<1> SUFFICES ASSUME kind.in \in {"merge", "zip", "sequenceEqual"}, NEW c \in B
             PROVE  Taken(took[c], routed'[c]) /\ (~Returned => Held(took[c], ch'[c], routed'[c]))
  BY <1>1 DEF KeptInv, Returned, Taken, Held
<1>2. Taken(took[c], routed[c]) /\ (~Returned => Held(took[c], ch[c], routed[c]))
  BY DEF KeptInv
<1>3. ch[c] \in Seq(Nat) /\ took[c] \in Seq(Nat) /\ routed[c] \in Seq(Nat)
  BY HighType
<1>4. ASSUME NEW b \in B, NEW x \in Nat, Feeds(b, x)
      PROVE  (ch'[c] = ch[c] /\ routed'[c] = routed[c]) \/ (ch'[c] = Append(ch[c], x) /\ routed'[c] = Append(routed[c], x))
  BY <1>4 DEF Feeds, StreamInv
<1>5. ASSUME NEW x \in Nat, ch'[c] = Append(ch[c], x), routed'[c] = Append(routed[c], x)
      PROVE  Taken(took[c], routed'[c]) /\ (~Returned => Held(took[c], ch'[c], routed'[c]))
  BY <1>2, <1>3, <1>5, HeldFed
<1>6. (ch'[c] = ch[c] /\ routed'[c] = routed[c]) \/ \E x \in Nat : ch'[c] = Append(ch[c], x) /\ routed'[c] = Append(routed[c], x)
  BY <1>4, FanFacts
<1> QED BY <1>2, <1>5, <1>6

\* Nothing moves, or the stage has returned.
LEMMA KeptStill ==
  ASSUME KeptInv, UNCHANGED <<kind, foVars, took>>, Returned => Returned', UNCHANGED ch \/ Returned'
  PROVE  KeptInv'
BY DEF KeptInv, foVars, Taken, Held

-----------------------------------------------------------------------------
(* The goroutines of the fan-in. *)

\* What a goroutine may become.
Legal(k, pc, val, why) ==
  /\ pc \in {"recv", "second", "send", "end"} /\ why \notin {"run", "stop"}
  /\ IF Is("each") THEN pc = "end" /\ val = Idle ELSE val \in Seq(Nat)
  /\ ~Is("sampleWith") /\ pc # "end" => why = "none"
  /\ kind.in \notin Lockstep => pc # "second"
  /\ kind.in \in Lockstep => k = 1
  /\ Is("latestFrom") /\ k = 2 => pc # "send"
  /\ Is("sampleWith") /\ k = 1 => pc # "send"

Becomes(k, pc, val, why) == w' = [w EXCEPT ![k] = Worker(pc, val, why)]

LEMMA LegalMove ==
  ASSUME WorkInv, NEW k \in B, NEW pc, NEW val, NEW why, Legal(k, pc, val, why),
         Becomes(k, pc, val, why), kind' = kind,
         out' \in Seq(Seq(Nat)), lat' \in [B -> Nat]
  PROVE  /\ WorkInv' /\ w'[k] = Worker(pc, val, why) /\ w'[k].pc = pc /\ w'[k].val = val /\ w'[k].why = why
         /\ \A c \in B : c # k => w'[c] = w[c]
<1>1. /\ DOMAIN w' = B /\ w' = [c \in B |-> w'[c]]
      /\ w'[k] = Worker(pc, val, why) /\ \A c \in B : c # k => w'[c] = w[c]
  BY DEF WorkInv, Becomes
<1>2. w'[k].pc = pc /\ w'[k].val = val /\ w'[k].why = why
  BY <1>1 DEF Worker
<1>3. \A x : Is(x)' <=> Is(x)
  BY DEF Is
<1>4. ASSUME NEW c \in B
      PROVE  /\ w'[c] = Worker(w'[c].pc, w'[c].val, w'[c].why)
             /\ w'[c].pc \in {"recv", "second", "send", "end"} /\ w'[c].why \notin {"run", "stop"}
             /\ Is("each") => /\ w'[c].pc \in {"recv", "end"} /\ w'[c].val \in {Idle, <<"signalled">>}
                              /\ w'[c].pc = "recv" => w'[c].val = Idle
             /\ ~Is("each") => w'[c].val \in Seq(Nat)
             /\ ~Is("sampleWith") /\ w'[c].pc # "end" => w'[c].why = "none"
             /\ kind.in \notin Lockstep => w'[c].pc # "second"
  <2>1. CASE c = k
    BY <1>1, <1>2, <2>1 DEF Legal
  <2>2. CASE c # k
    BY <1>1, <2>2 DEF WorkInv
  <2> QED BY <2>1, <2>2
<1>5. /\ kind.in \in Lockstep => w'[2].pc = "end"
      /\ Is("latestFrom") => w'[2].pc # "send"
      /\ Is("sampleWith") => w'[1].pc # "send"
  BY <1>1, <1>2 DEF WorkInv, Legal, B
<1>6. WorkInv'
  BY <1>1, <1>4, <1>5 DEF WorkInv, Is
<1> QED BY <1>1, <1>2, <1>6

LEMMA WorkStill ==
  ASSUME WorkInv, UNCHANGED <<kind, w>>, out' \in Seq(Seq(Nat)), lat' \in [B -> Nat]
  PROVE  WorkInv'
BY DEF WorkInv, Is

\* Which goroutine takes from which branch, and what it is then.
TakesOne(k) ==
  \E b \in B :
    /\ TakeFrom(b) /\ w[k].pc # "end" /\ (kind.in \notin Lockstep => b = k)
    /\ \/ UNCHANGED w /\ kind.in \notin Lockstep
       \/ \E pc, val, why : Legal(k, pc, val, why) /\ Becomes(k, pc, val, why)
    /\ lat' \in [B -> Nat] /\ UNCHANGED out
TakesNone(k) ==
  /\ UNCHANGED <<ch, took, lat>> /\ out' \in Seq(Seq(Nat))
  /\ \/ UNCHANGED w
     \/ w[k].pc # "end" /\ \E pc, val, why : Legal(k, pc, val, why) /\ Becomes(k, pc, val, why)

LEMMA EndIsLegal ==
  ASSUME NEW k \in B, NEW why, why \notin {"run", "stop"}, kind.in \in Lockstep => k = 1
  PROVE  Legal(k, "end", Idle, why)
BY DEF Legal, Idle, Is

LEMMA ReceivedShape ==
  ASSUME FanInv, StreamInv, WorkInv, NEW k \in B, Received(k)
  PROVE  TakesOne(k)
<1>1. w[k].pc = "recv" /\ UNCHANGED <<kind, foVars, out>>
  BY DEF Received
<1>2. lat \in [B -> Nat] /\ lat[1] \in Nat /\ lat[2] \in Nat
  BY DEF WorkInv, B
<1>3. ASSUME TakeFrom(k) PROVE Head(ch[k]) \in Nat
  BY <1>1, <1>3, StreamTaken
<1>4. k \in Nat
  BY DEF B
<1>5. CASE MergeRecv(k)
  <2>1. Legal(k, "send", <<k, Head(ch[k])>>, "none")
    BY <1>3, <1>4, <1>5 DEF MergeRecv, Legal, Is, Lockstep
  <2> QED BY <1>1, <1>2, <1>5, <2>1 DEF MergeRecv, TakesOne, Becomes, Goes, Is, Lockstep
<1>6. CASE EachRecv(k)
  BY <1>1, <1>2, <1>6 DEF EachRecv, TakesOne, Becomes, Is, Lockstep
<1>7. CASE CombineRecv(k)
  <2>1. lat' \in [B -> Nat] /\ lat'[1] \in Nat /\ lat'[2] \in Nat
    BY <1>2, <1>3, <1>7 DEF CombineRecv, B
  <2>2. Legal(k, "send", <<lat'[1], lat'[2]>>, "none")
    BY <1>7, <2>1 DEF CombineRecv, Legal, Is, Lockstep
  <2> QED BY <1>1, <1>7, <2>1, <2>2 DEF CombineRecv, TakesOne, Becomes, Goes, Is, Lockstep
<1>8. CASE LatestRecv(k)
  <2>1. lat' \in [B -> Nat]
    BY <1>2, <1>3, <1>8 DEF LatestRecv, B
  <2>2. k # 2 => k = 1 /\ Legal(k, "send", <<Head(ch[1]), lat[2]>>, "none")
    BY <1>2, <1>3, <1>8 DEF LatestRecv, Legal, Is, Lockstep, B
  <2> QED BY <1>1, <1>8, <2>1, <2>2 DEF LatestRecv, TakesOne, Becomes, Goes, Is, Lockstep
<1>9. CASE SampleRecv(k)
  <2>1. lat' \in [B -> Nat]
    BY <1>2, <1>3, <1>9 DEF SampleRecv, B
  <2>2. k # 1 => /\ k = 2 /\ Legal(k, "end", Idle, "eof")
                 /\ Legal(k, "send", <<lat[1]>>, "eof") /\ Legal(k, "send", <<lat[1]>>, "none")
    BY <1>2, <1>9 DEF SampleRecv, Legal, Is, Lockstep, B, Idle
  <2>3. CASE k = 1
    BY <1>1, <1>9, <2>1, <2>3 DEF SampleRecv, TakesOne, Becomes, Is, Lockstep
  <2>4. CASE k # 1
    <3>1. \/ UNCHANGED w
          \/ w' = [w EXCEPT ![k] = Worker("end", Idle, "eof")]
          \/ w' = [w EXCEPT ![k] = Worker("send", <<lat[1]>>, "eof")]
          \/ w' = [w EXCEPT ![k] = Worker("send", <<lat[1]>>, "none")]
      BY <1>9, <2>2, <2>4 DEF SampleRecv, Ends
    <3> QED BY <1>1, <1>9, <2>1, <2>2, <2>4, <3>1 DEF SampleRecv, TakesOne, Becomes, Is, Lockstep
  <2> QED BY <2>3, <2>4
<1> QED BY <1>5, <1>6, <1>7, <1>8, <1>9 DEF Received

LEMMA LockstepShape ==
  ASSUME FanInv, StreamInv, WorkInv, ZipInv, ZipRecv \/ EqualRecv
  PROVE  TakesOne(1) \/ TakesNone(1)
<1>1. UNCHANGED <<kind, foVars, lat, out>> /\ kind.in \in Lockstep /\ 1 \in B /\ 2 \in B
  BY DEF ZipRecv, EqualRecv, Is, Lockstep, B
<1>2. lat \in [B -> Nat] /\ out \in Seq(Seq(Nat))
  BY DEF WorkInv
<1>3. ASSUME NEW b \in B, TakeFrom(b) PROVE Head(ch[b]) \in Nat
  BY <1>1, <1>3, StreamTaken
<1>4. ASSUME NEW pc \in {"recv", "second", "send"}, NEW val \in Seq(Nat) PROVE Legal(1, pc, val, "none")
  BY <1>1, <1>4 DEF Legal, Lockstep, Is
<1>5. ASSUME NEW why \in {"eof", "differ"} PROVE Legal(1, "end", Idle, why)
  BY <1>1, EndIsLegal
<1>6. ASSUME NEW b \in B, TakeFrom(b), w[1].pc # "end",
             \/ \E pc \in {"recv", "second", "send"}, val \in Seq(Nat) : Goes(1, pc, val)
             \/ \E why \in {"eof", "differ"} : Ends(1, why)
      PROVE  TakesOne(1)
  <2>1. \E pc, val, why : Legal(1, pc, val, why) /\ Becomes(1, pc, val, why)
    BY <1>4, <1>5, <1>6 DEF Goes, Ends, Becomes
  <2> QED BY <1>1, <1>2, <1>6, <2>1 DEF TakesOne
<1>7. ASSUME UNCHANGED <<ch, took>>, w[1].pc # "end",
             \/ \E pc \in {"recv", "second", "send"}, val \in Seq(Nat) : Goes(1, pc, val)
             \/ \E why \in {"eof", "differ"} : Ends(1, why)
      PROVE  TakesNone(1)
  <2>1. \E pc, val, why : Legal(1, pc, val, why) /\ Becomes(1, pc, val, why)
    BY <1>4, <1>5, <1>7 DEF Goes, Ends, Becomes
  <2> QED BY <1>1, <1>2, <1>7, <2>1 DEF TakesNone
<1>8. CASE ZipRecv
  <2>1. CASE w[1].pc = "recv" /\ TakeFrom(1) /\ Goes(1, "second", <<Head(ch[1])>>)
    <3>1. <<Head(ch[1])>> \in Seq(Nat)
      BY <1>1, <1>3, <2>1
    <3> QED BY <1>1, <1>6, <2>1, <3>1
  <2>2. CASE w[1].pc = "second" /\ TakeFrom(2) /\ Goes(1, "send", <<w[1].val[1], Head(ch[2])>>)
    <3>1. w[1].val[1] \in Nat
      <4>1. w[1].val = <<took[1][Len(out) + 1]>> /\ Len(took[1]) = Len(out) + 1 /\ took[1] \in Seq(Nat)
        BY <1>1, <1>8, <2>2 DEF ZipInv, ZipRecv, StreamInv
      <4>2. took[1][Len(out) + 1] \in Nat
        BY <1>2, <4>1
      <4> QED BY <4>1, <4>2
    <3>2. Head(ch[2]) \in Nat
      BY <1>1, <1>3, <2>2
    <3>3. <<w[1].val[1], Head(ch[2])>> \in Seq(Nat)
      BY <3>1, <3>2
    <3> QED BY <1>1, <1>6, <2>2, <3>3
  <2>3. CASE /\ (w[1].pc = "recv" /\ AtEnd(1)) \/ (w[1].pc = "second" /\ AtEnd(2))
             /\ Ends(1, "eof") /\ UNCHANGED <<ch, took>>
    BY <1>7, <2>3
  <2> QED BY <1>8, <2>1, <2>2, <2>3 DEF ZipRecv
<1>9. CASE EqualRecv
  <2>0. Idle \in Seq(Nat) /\ <<0>> \in Seq(Nat)
    BY DEF Idle
  <2>1. CASE w[1].pc = "recv" /\ TakeFrom(1) /\ Goes(1, "second", <<Head(ch[1])>>)
    <3>1. <<Head(ch[1])>> \in Seq(Nat)
      BY <1>1, <1>3, <2>1
    <3> QED BY <1>1, <1>6, <2>1, <3>1
  <2>2. CASE w[1].pc = "recv" /\ AtEnd(1) /\ Goes(1, "second", <<0>>) /\ UNCHANGED <<ch, took>>
    BY <1>7, <2>0, <2>2
  <2>3. CASE /\ w[1].pc = "second" /\ TakeFrom(2)
             /\ IF w[1].val[1] = Head(ch[2]) THEN Goes(1, "recv", Idle) ELSE Ends(1, "differ")
    BY <1>1, <1>6, <2>0, <2>3
  <2>4. CASE /\ w[1].pc = "second" /\ AtEnd(2) /\ UNCHANGED <<ch, took>>
             /\ Ends(1, IF w[1].val = <<0>> THEN "eof" ELSE "differ")
    BY <1>7, <2>4
  <2> QED BY <1>9, <2>1, <2>2, <2>3, <2>4 DEF EqualRecv
<1> QED BY <1>8, <1>9

LEMMA WorkShape ==
  ASSUME FanInv, StreamInv, WorkInv, ZipInv, NEW k \in B, Work(k) \/ Fails(k)
  PROVE  /\ TakesOne(k) \/ TakesNone(k)
         /\ UNCHANGED <<kind, foVars, stage, envVars, refs>>
<1>1. UNCHANGED <<kind, foVars, stage, envVars, refs>>
  BY DEF Work, Fails, WorkerFails, WorkerEof, WorkerCtxDone, WorkerDrained, WorkerEnds, Received, WorkerSend, ZipRecv, EqualRecv
<1>2. out \in Seq(Seq(Nat)) /\ (kind.in \in Lockstep /\ w[k].pc # "end" => k = 1)
  BY DEF WorkInv, B
<1>3. ASSUME NEW why \in {"eof", "ctx", "drain", "err"}, WorkerEnds(k, why), w[k].pc # "end"
      PROVE  TakesNone(k)
  <2>1. Legal(k, "end", Idle, why)
    BY <1>2, <1>3, EndIsLegal
  <2> QED BY <1>2, <1>3, <2>1 DEF TakesNone, Becomes, WorkerEnds, Ends
<1>4. CASE WorkerEof(k) \/ WorkerCtxDone(k) \/ WorkerDrained(k) \/ WorkerFails(k)
  <2>1. CASE WorkerEof(k)
    BY <1>1, <1>3, <2>1 DEF WorkerEof
  <2>2. CASE WorkerCtxDone(k)
    BY <1>1, <1>3, <2>2 DEF WorkerCtxDone
  <2>3. CASE WorkerDrained(k)
    BY <1>1, <1>3, <2>3 DEF WorkerDrained
  <2>4. CASE WorkerFails(k)
    BY <1>1, <1>3, <2>4 DEF WorkerFails
  <2> QED BY <1>4, <2>1, <2>2, <2>3, <2>4
<1>5. CASE WorkerSend(k)
  <2>1. ~Is("each") /\ w[k].val \in Seq(Nat) /\ w[k].pc = "send"
    BY <1>5 DEF WorkerSend, WorkInv
  <2>2. Append(out, w[k].val) \in Seq(Seq(Nat))
    BY <1>2, <2>1
  <2>3. out' \in Seq(Seq(Nat)) /\ UNCHANGED <<ch, took, lat>>
    BY <1>2, <1>5, <2>2 DEF WorkerSend
  <2>4. Legal(k, "recv", Idle, "none")
    BY <1>2, <2>1 DEF Legal, Idle, Is, Lockstep
  <2>5. Legal(k, "end", Idle, w[k].why)
    BY <1>2, <2>1, EndIsLegal DEF WorkInv
  <2>6. \/ UNCHANGED w \/ w' = [w EXCEPT ![k] = Worker("recv", Idle, "none")]
        \/ w' = [w EXCEPT ![k] = Worker("end", Idle, w[k].why)]
    BY <1>5 DEF WorkerSend, Goes, Ends
  <2> QED BY <1>1, <2>1, <2>3, <2>4, <2>5, <2>6 DEF TakesNone, Becomes
<1>6. CASE Received(k)
  BY <1>1, <1>6, ReceivedShape
<1>7. CASE k = 1 /\ (ZipRecv \/ EqualRecv)
  BY <1>1, <1>7, LockstepShape
<1> QED BY <1>1, <1>4, <1>5, <1>6, <1>7 DEF Work, Fails

\* A step of a goroutine keeps everything that holds for all operators.
LEMMA WorkBase ==
  ASSUME Inv, NEW k \in B, Work(k) \/ Fails(k)
  PROVE  /\ FanInv' /\ StreamInv' /\ WorkInv' /\ StageInv' /\ KeptInv' /\ BothInv' /\ DrainOnlyWhenAllLeft'
         /\ \A c \in B : (c # k => w'[c] = w[c]) /\ (w[c].pc = "end" => w'[c] = w[c])
<1>1. UNCHANGED <<kind, foVars, stage, envVars, refs>> /\ (TakesOne(k) \/ TakesNone(k))
  BY WorkShape DEF Inv
<1>2. FanInv /\ StreamInv /\ WorkInv /\ StageInv /\ KeptInv /\ BothInv /\ MergeInv /\ DrainOnlyWhenAllLeft
  BY DEF Inv
<1>3. UNCHANGED <<read, fpc, fwhy, todo, shut, routed, left, ctx>> /\ \A x : Is(x)' <=> Is(x)
  BY <1>1 DEF foVars, envVars, Is
<1>4. FanInv' /\ BothInv'
  BY <1>1, <1>2, <1>3, BothStill DEF FanInv
<1>5. /\ WorkInv'
      /\ \/ UNCHANGED w
         \/ /\ w[k].pc # "end" /\ (Is("each") => w'[k].val = Idle) /\ (kind.in \in Lockstep => k = 1)
            /\ \A c \in B : c # k => w'[c] = w[c]
  <2>1. out' \in Seq(Seq(Nat)) /\ lat' \in [B -> Nat]
    BY <1>1, <1>2 DEF TakesOne, TakesNone, WorkInv
  <2>2. CASE UNCHANGED w
    BY <1>1, <1>2, <2>1, <2>2, WorkStill
  <2>3. ASSUME NEW pc, NEW val, NEW why, Legal(k, pc, val, why), Becomes(k, pc, val, why)
        PROVE  /\ WorkInv' /\ (Is("each") => w'[k].val = Idle) /\ (kind.in \in Lockstep => k = 1)
               /\ \A c \in B : c # k => w'[c] = w[c]
    <3>0. kind' = kind /\ WorkInv
      BY <1>1, <1>2
    <3>1. WorkInv' /\ w'[k].val = val /\ \A c \in B : c # k => w'[c] = w[c]
      BY <2>1, <2>3, <3>0, LegalMove
    <3> QED BY <2>3, <3>1 DEF Legal
  <2>4. UNCHANGED w \/ (w[k].pc # "end" /\ \E pc, val, why : Legal(k, pc, val, why) /\ Becomes(k, pc, val, why))
    BY <1>1 DEF TakesOne, TakesNone
  <2> QED BY <2>2, <2>3, <2>4
<1>6. \A c \in B : (c # k => w'[c] = w[c]) /\ (w[c].pc = "end" => w'[c] = w[c])
  BY <1>5
<1>7. Is("each") => \A c \in B : (w'[c].val = Idle <=> w[c].val = Idle)
  <2>1. Is("each") /\ w[k].pc # "end" => w[k].val = Idle
    BY <1>2 DEF WorkInv
  <2> QED BY <1>5, <1>6, <2>1
<1>8. StageInv'
  <2>1. kind.in \in Lockstep /\ Returned => w'[1] = w[1]
    BY <1>2, <1>6 DEF StageInv, Gone, B
  <2>2. 1 \in B /\ 2 \in B
    BY DEF B
  <2>3. Is("each") => (w'[1].val = Idle <=> w[1].val = Idle) /\ (w'[2].val = Idle <=> w[2].val = Idle)
    BY <1>7, <2>2
  <2> QED BY <1>1, <1>2, <1>3, <2>1, <2>3 DEF StageInv, Returned, Gone
<1>9. DrainOnlyWhenAllLeft'
  BY <1>1, <1>2, <1>3, <1>6 DEF DrainOnlyWhenAllLeft, Awaited, Returned, Gone
<1>10. CASE TakesNone(k)
  <2>1. UNCHANGED <<ch, took>>
    BY <1>10 DEF TakesNone
  <2>2. StreamInv'
    BY <1>1, <1>2, <2>1, StreamStill
  <2>3. KeptInv'
    BY <1>1, <1>2, <2>1, KeptStill DEF Returned
  <2> QED BY <1>4, <1>5, <1>6, <1>8, <1>9, <2>2, <2>3
<1>11. CASE TakesOne(k)
  <2>1. PICK b \in B : TakeFrom(b) /\ w[k].pc # "end"
    BY <1>11 DEF TakesOne
  <2>2. /\ StreamInv' /\ took'[b] = Append(took[b], Head(ch[b])) /\ ch'[b] = Tail(ch[b]) /\ ch[b] # << >>
        /\ \A c \in B : c # b => took'[c] = took[c] /\ ch'[c] = ch[c]
    BY <1>1, <1>2, <2>1, StreamTaken DEF TakeFrom, StreamInv
  <2>3. KeptInv'
    <3>1. SUFFICES ASSUME kind.in \in {"merge", "zip", "sequenceEqual"}, NEW c \in B
                   PROVE  Taken(took'[c], routed[c]) /\ Held(took'[c], ch'[c], routed[c])
      BY <1>1, <1>3 DEF KeptInv, Taken, Held
    <3>2. ~Returned
      BY <1>2, <2>1, <3>1 DEF MergeInv, StageInv, WorkInv, Gone, Is, Lockstep, B
    <3>3. Taken(took[c], routed[c]) /\ Held(took[c], ch[c], routed[c])
      BY <1>2, <3>1, <3>2 DEF KeptInv
    <3>4. ch[c] \in Seq(Nat) /\ took[c] \in Seq(Nat) /\ routed[c] \in Seq(Nat)
      BY <1>2, HighType
    <3>5. CASE c = b
      BY <2>2, <3>3, <3>4, <3>5, HeldTaken
    <3>6. CASE c # b
      BY <2>2, <3>3, <3>6
    <3> QED BY <3>5, <3>6
  <2> QED BY <1>4, <1>5, <1>6, <1>8, <1>9, <2>2, <2>3
<1> QED BY <1>1, <1>10, <1>11

-----------------------------------------------------------------------------
(* The operators, one by one. *)

LEMMA BecomesFacts ==
  ASSUME WorkInv, NEW k \in B, NEW pc, NEW val, NEW why, Becomes(k, pc, val, why)
  PROVE  /\ w'[k].pc = pc /\ w'[k].val = val /\ w'[k].why = why
         /\ \A c \in B : c # k => w'[c] = w[c]
<1>1. w'[k] = Worker(pc, val, why) /\ \A c \in B : c # k => w'[c] = w[c]
  BY DEF WorkInv, Becomes
<1> QED BY <1>1 DEF Worker

LEMMA GoesFacts ==
  ASSUME WorkInv, NEW k \in B, NEW pc, NEW val, Goes(k, pc, val)
  PROVE  /\ w'[k].pc = pc /\ w'[k].val = val /\ w'[k].why = "none"
         /\ \A c \in B : c # k => w'[c] = w[c]
<1>1. Becomes(k, pc, val, "none")
  BY DEF Goes, Becomes
<1> QED BY <1>1, BecomesFacts

LEMMA EndsFacts ==
  ASSUME WorkInv, NEW k \in B, NEW why, Ends(k, why)
  PROVE  /\ w'[k].pc = "end" /\ w'[k].val = Idle /\ w'[k].why = why
         /\ \A c \in B : c # k => w'[c] = w[c]
<1>1. Becomes(k, "end", Idle, why)
  BY DEF Ends, Becomes
<1> QED BY <1>1, BecomesFacts

\* A goroutine that gives up leaves the outputs and the branches alone.
GivesUp(k) == /\ w[k].pc # "end" /\ UNCHANGED <<lat, out, took, ch>>
              /\ \E why \in {"ctx", "drain", "err"} :
                   Becomes(k, "end", Idle, why) /\ (why = "drain" => w[k].pc # "send")

LEMMA WorkCases ==
  ASSUME WorkInv, NEW k \in B, Work(k) \/ Fails(k)
  PROVE  \/ GivesUp(k)
         \/ WorkerEof(k)
         \/ Received(k) \/ WorkerSend(k) \/ (k = 1 /\ (ZipRecv \/ EqualRecv))
<1>1. ASSUME NEW why \in {"ctx", "drain", "err"}, WorkerEnds(k, why), w[k].pc # "end", why = "drain" => w[k].pc # "send"
      PROVE  GivesUp(k)
  BY <1>1 DEF GivesUp, WorkerEnds, Ends, Becomes
<1>2. CASE WorkerCtxDone(k)
  BY <1>1, <1>2 DEF WorkerCtxDone
<1>3. CASE WorkerDrained(k)
  BY <1>1, <1>3 DEF WorkerDrained
<1>4. CASE WorkerFails(k)
  BY <1>1, <1>4 DEF WorkerFails
<1> QED BY <1>2, <1>3, <1>4 DEF Work, Fails

\* Zip.
LEMMA ZipWork ==
  ASSUME Inv, NEW k \in B, Work(k) \/ Fails(k)
  PROVE  ZipInv'
<1> SUFFICES ASSUME Is("zip") PROVE ZipInv'
  BY WorkShape DEF Inv, ZipInv, Is
<1>1. FanInv /\ StreamInv /\ WorkInv /\ ZipInv /\ StageInv
  BY DEF Inv
<1>2. UNCHANGED <<kind, foVars, stage>> /\ kind.in = "zip" /\ 1 \in B /\ 2 \in B
  BY WorkShape DEF Inv, Is, B
<1>3. w[2].pc = "end" /\ out \in Seq(Seq(Nat)) /\ took[1] \in Seq(Nat) /\ took[2] \in Seq(Nat)
      /\ Len(out) \in Nat /\ Len(took[1]) \in Nat /\ Len(took[2]) \in Nat
  BY <1>1, <1>2 DEF WorkInv, StreamInv, Lockstep
<1>4. CASE GivesUp(k)
  <2>1. k = 1
    BY <1>3, <1>4 DEF GivesUp, B
  <2>2. w'[1].pc = "end" /\ w'[1].why # "eof"
    BY <1>1, <1>4, <2>1, BecomesFacts DEF GivesUp
  <2> QED BY <1>1, <1>2, <1>4, <2>2 DEF ZipInv, GivesUp, Is
<1>5. ~WorkerEof(k) /\ ~Received(k) /\ ~EqualRecv
  BY <1>2 DEF WorkerEof, Lockstep, Received, MergeRecv, EachRecv, CombineRecv, LatestRecv, SampleRecv, Is, EqualRecv
<1>6. CASE ZipRecv
  <2>1. CASE w[1].pc = "recv" /\ TakeFrom(1) /\ Goes(1, "second", <<Head(ch[1])>>)
    <3>1. w'[1].pc = "second" /\ w'[1].val = <<Head(ch[1])>> /\ w'[1].why = "none"
      BY <1>1, <1>2, <2>1, GoesFacts
    <3>2. /\ Len(took'[1]) = Len(took[1]) + 1 /\ took'[1][Len(took[1]) + 1] = Head(ch[1])
          /\ took'[2] = took[2]
          /\ \A i \in 1..Len(took[1]) : took'[1][i] = took[1][i]
      BY <1>1, <1>2, <2>1, StreamTaken
    <3>3. out' = out /\ Len(took[1]) = Len(out) /\ Len(took[2]) = Len(out)
          /\ \A i \in 1..Len(out) : out[i] = <<took[1][i], took[2][i]>>
      BY <1>1, <1>2, <1>6, <2>1 DEF ZipRecv, ZipInv, Is
    <3>4. \A i \in 1..Len(out) : out[i] = <<took'[1][i], took'[2][i]>>
      BY <3>2, <3>3
    <3>5. Len(took'[1]) = Len(out) + 1 /\ w'[1].val = <<took'[1][Len(out) + 1]>>
      BY <3>1, <3>2, <3>3
    <3>6. Len(out) <= Len(took'[2]) /\ Len(took'[2]) <= Len(took'[1])
      BY <1>3, <3>2, <3>3, <3>5
    <3> QED BY <1>2, <3>1, <3>2, <3>3, <3>4, <3>5, <3>6 DEF ZipInv
  <2>2. CASE w[1].pc = "second" /\ TakeFrom(2) /\ Goes(1, "send", <<w[1].val[1], Head(ch[2])>>)
    <3>1. w'[1].pc = "send" /\ w'[1].val = <<w[1].val[1], Head(ch[2])>> /\ w'[1].why = "none"
      BY <1>1, <1>2, <2>2, GoesFacts
    <3>2. /\ Len(took'[2]) = Len(took[2]) + 1 /\ took'[2][Len(took[2]) + 1] = Head(ch[2])
          /\ took'[1] = took[1]
          /\ \A i \in 1..Len(took[2]) : took'[2][i] = took[2][i]
      BY <1>1, <1>2, <2>2, StreamTaken
    <3>3. out' = out /\ Len(took[1]) = Len(out) + 1 /\ Len(took[2]) = Len(out)
          /\ w[1].val = <<took[1][Len(out) + 1]>>
          /\ \A i \in 1..Len(out) : out[i] = <<took[1][i], took[2][i]>>
      BY <1>1, <1>2, <1>6, <2>2 DEF ZipRecv, ZipInv, Is
    <3>4. w'[1].val = <<took'[1][Len(out) + 1], took'[2][Len(out) + 1]>>
      BY <3>1, <3>2, <3>3
    <3> QED BY SMTT(30), <1>2, <1>3, <3>1, <3>2, <3>3, <3>4 DEF ZipInv
  <2>3. CASE /\ (w[1].pc = "recv" /\ AtEnd(1)) \/ (w[1].pc = "second" /\ AtEnd(2))
             /\ Ends(1, "eof") /\ UNCHANGED <<ch, took>>
    <3>1. w'[1].pc = "end"
      BY <1>1, <1>2, <2>3, EndsFacts
    <3>2. out' = out
      BY <1>6 DEF ZipRecv
    <3> QED BY <1>1, <1>2, <2>3, <3>1, <3>2 DEF ZipInv, Is
  <2> QED BY <1>6, <2>1, <2>2, <2>3 DEF ZipRecv
<1>7. CASE WorkerSend(k)
  <2>1. k = 1 /\ w[1].pc = "send" /\ took' = took /\ w[1].why = "none"
    BY <1>1, <1>2, <1>3, <1>7 DEF WorkerSend, B, WorkInv, Is
  <2>2. Len(took[1]) = Len(out) + 1 /\ Len(took[2]) = Len(out) + 1
        /\ w[1].val = <<took[1][Len(out) + 1], took[2][Len(out) + 1]>> /\ w[1].val \in Seq(Nat)
        /\ \A i \in 1..Len(out) : out[i] = <<took[1][i], took[2][i]>>
    BY <1>1, <1>2, <2>1 DEF ZipInv, WorkInv, Is
  <2>3. ~Returned
    BY <1>1, <1>2, <2>1 DEF StageInv, Lockstep, Gone
  <2>4. out' = Append(out, w[1].val) /\ Goes(1, "recv", Idle)
    BY <1>7, <2>1, <2>3 DEF WorkerSend
  <2>5. w'[1].pc = "recv" /\ w'[1].why = "none"
    BY <1>1, <1>2, <2>4, GoesFacts
  <2>6. Len(out') = Len(out) + 1 /\ out'[Len(out) + 1] = w[1].val
        /\ \A i \in 1..Len(out) : out'[i] = out[i]
    BY <1>3, <2>2, <2>4
  <2>7. \A i \in 1..Len(out') : out'[i] = <<took[1][i], took[2][i]>>
    <3> SUFFICES ASSUME NEW i \in 1..Len(out') PROVE out'[i] = <<took[1][i], took[2][i]>>
      OBVIOUS
    <3>1. CASE i = Len(out) + 1
      BY <2>2, <2>6, <3>1
    <3>2. CASE i \in 1..Len(out)
      BY <2>2, <2>6, <3>2
    <3> QED BY <1>3, <2>6, <3>1, <3>2
  <2> QED BY <1>2, <1>3, <2>1, <2>2, <2>5, <2>6, <2>7 DEF ZipInv
<1> QED BY <1>1, <1>4, <1>5, <1>6, <1>7, WorkCases

\* CombineLatest.
LEMMA CombineWork ==
  ASSUME Inv, NEW k \in B, Work(k) \/ Fails(k)
  PROVE  CombineInv'
<1> SUFFICES ASSUME Is("combineLatest") PROVE CombineInv'
  BY WorkShape DEF Inv, CombineInv, Is
<1>1. FanInv /\ StreamInv /\ WorkInv /\ CombineInv /\ StageInv
  BY DEF Inv
<1>2. UNCHANGED <<kind, foVars, stage>> /\ kind.in = "combineLatest" /\ 1 \in B /\ 2 \in B
  BY WorkShape DEF Inv, Is, B
<1>3. /\ out \in Seq(Seq(Nat)) /\ Len(out) \in Nat
      /\ \A c \in B : /\ took[c] \in Seq(Nat) /\ Len(took[c]) \in Nat /\ lat[c] \in Nat
                      /\ w[c].val \in Seq(Nat) /\ (w[c].pc # "end" => w[c].why = "none")
  BY <1>1, <1>2 DEF WorkInv, StreamInv, Is
<1>4. /\ \A c \in B : IF took[c] = << >> THEN lat[c] = 0 ELSE lat[c] = took[c][Len(took[c])]
      /\ \A i \in 1..Len(out) : Pair(out[i], lat[1], lat[2])
      /\ \A c \in B : w[c].pc = "send" => Pair(w[c].val, lat[1], lat[2]) /\ \A i \in 1..Len(out) : out[i] # w[c].val
      /\ \A i, j \in 1..Len(out) : out[i] = out[j] => i = j
      /\ w[1].pc = "send" /\ w[2].pc = "send" => w[1].val # w[2].val
  BY <1>1 DEF CombineInv
<1>5. lat[1] # 0 /\ lat[2] # 0 =>
         \/ \E i \in 1..Len(out) : out[i] = <<lat[1], lat[2]>>
         \/ \E c \in B : w[c].pc = "send" /\ w[c].val = <<lat[1], lat[2]>>
         \/ \E c \in B : w[c].why \in {"ctx", "err"}
  BY <1>1 DEF CombineInv
<1>6. CASE GivesUp(k) \/ WorkerEof(k)
  <2>1. /\ UNCHANGED <<lat, out, took>> /\ w[k].pc # "end" /\ w'[k].pc = "end"
        /\ w[k].pc = "send" => w'[k].why \in {"ctx", "err"}
        /\ \A c \in B : c # k => w'[c] = w[c]
    <3>1. CASE GivesUp(k)
      BY <1>1, <3>1, BecomesFacts DEF GivesUp
    <3>2. CASE WorkerEof(k)
      BY <1>1, <3>2, EndsFacts DEF WorkerEof, WorkerEnds
    <3> QED BY <1>6, <3>1, <3>2
  <2>2. w[k].why = "none"
    BY <1>3, <2>1
  <2>3. \A c \in B : w'[c].pc = "send" => w[c].pc = "send" /\ w'[c] = w[c]
    BY <2>1
  <2>4. lat[1] # 0 /\ lat[2] # 0 =>
         \/ \E i \in 1..Len(out) : out[i] = <<lat[1], lat[2]>>
         \/ \E c \in B : w'[c].pc = "send" /\ w'[c].val = <<lat[1], lat[2]>>
         \/ \E c \in B : w'[c].why \in {"ctx", "err"}
    BY <1>5, <2>1, <2>2
  <2>6. \A c \in B : w'[c].pc = "send" => Pair(w'[c].val, lat[1], lat[2]) /\ \A i \in 1..Len(out) : out[i] # w'[c].val
    BY <1>4, <2>3
  <2>7. w'[1].pc = "send" /\ w'[2].pc = "send" => w'[1].val # w'[2].val
    BY <1>2, <1>4, <2>3
  <2> QED BY <1>2, <1>4, <2>1, <2>4, <2>6, <2>7 DEF CombineInv, Pair
<1>7. ~(k = 1 /\ (ZipRecv \/ EqualRecv))
  BY <1>2 DEF ZipRecv, EqualRecv, Is
<1>8. CASE Received(k)
  <2> DEFINE x == Head(ch[k])
  <2>1. w[k].pc = "recv" /\ CombineRecv(k) /\ out' = out
    BY <1>2, <1>8 DEF Received, MergeRecv, EachRecv, LatestRecv, SampleRecv, Is
  <2>2. TakeFrom(k) /\ lat' = [lat EXCEPT ![k] = x]
    BY <2>1 DEF CombineRecv
  <2>3. /\ x \in Nat \ {0} /\ Len(took'[k]) = Len(took[k]) + 1 /\ took'[k] \in Seq(Nat)
        /\ took'[k][Len(took[k]) + 1] = x
        /\ \A i \in 1..Len(took[k]) : took[k][i] < x
        /\ \A c \in B : c # k => took'[c] = took[c]
    BY <1>1, <1>2, <2>2, StreamTaken
  <2>4. lat'[k] = x /\ \A c \in B : c # k => lat'[c] = lat[c]
    BY <1>1, <2>2 DEF WorkInv
  <2> HIDE DEF x
  <2>5. lat[k] < x
    <3>1. CASE took[k] = << >>
      BY <1>4, <2>3, <3>1
    <3>2. CASE took[k] # << >>
      <4>1. Len(took[k]) \in 1..Len(took[k])
        BY <1>3, <3>2
      <4> QED BY <1>4, <2>3, <3>2, <4>1
    <3> QED BY <3>1, <3>2
  <2>6. \A c \in B : IF took'[c] = << >> THEN lat'[c] = 0 ELSE lat'[c] = took'[c][Len(took'[c])]
    <3> SUFFICES ASSUME NEW c \in B PROVE IF took'[c] = << >> THEN lat'[c] = 0 ELSE lat'[c] = took'[c][Len(took'[c])]
      OBVIOUS
    <3>1. CASE c = k
      <4>1. took'[k] # << >>
        BY <1>3, <2>3
      <4> QED BY <2>3, <2>4, <3>1, <4>1
    <3>2. CASE c # k
      BY <1>4, <2>3, <2>4, <3>2
    <3> QED BY <3>1, <3>2
  <2>7. \A p : Pair(p, lat[1], lat[2]) => Pair(p, lat'[1], lat'[2]) /\ p[k] # x
    <3> SUFFICES ASSUME NEW p, Pair(p, lat[1], lat[2]) PROVE Pair(p, lat'[1], lat'[2]) /\ p[k] # x
      OBVIOUS
    <3>1. p = <<p[1], p[2]>> /\ p[1] \in 1..lat[1] /\ p[2] \in 1..lat[2]
      BY DEF Pair
    <3>2. lat[1] \in Nat /\ lat[2] \in Nat /\ x \in Nat
      BY <1>2, <1>3, <2>3
    <3>3. p[1] \in 1..lat'[1] /\ p[2] \in 1..lat'[2] /\ p[k] # x
      <4>1. CASE k = 1
        BY <1>2, <2>4, <2>5, <3>1, <3>2, <4>1
      <4>2. CASE k = 2
        BY <1>2, <2>4, <2>5, <3>1, <3>2, <4>2
      <4> QED BY <4>1, <4>2 DEF B
    <3> QED BY <3>1, <3>3 DEF Pair
  <2>8. \A i \in 1..Len(out) : Pair(out[i], lat'[1], lat'[2]) /\ out[i][k] # x
    BY <1>4, <2>1, <2>7 DEF Pair
  <2>9. CASE 0 \in {lat'[1], lat'[2]}
    <3>1. w' = w
      BY <2>1, <2>9 DEF CombineRecv
    <3>2. \A c \in B : w'[c].pc = "send" => Pair(w'[c].val, lat'[1], lat'[2]) /\ \A i \in 1..Len(out) : out[i] # w'[c].val
      BY <1>4, <2>7, <3>1 DEF Pair
    <3> QED BY <1>2, <1>4, <2>1, <2>6, <2>8, <2>9, <3>1, <3>2 DEF CombineInv
  <2>10. CASE 0 \notin {lat'[1], lat'[2]}
    <3> DEFINE q == <<lat'[1], lat'[2]>>
    <3>1. Goes(k, "send", q)
      BY <2>1, <2>10 DEF CombineRecv
    <3>2. w'[k].pc = "send" /\ w'[k].val = q /\ \A c \in B : c # k => w'[c] = w[c]
      BY <1>1, <3>1, GoesFacts
    <3>3. lat'[1] \in Nat \ {0} /\ lat'[2] \in Nat \ {0}
      <4>1. lat'[1] \in Nat /\ lat'[2] \in Nat
        BY <1>2, <1>3, <2>3, <2>4
      <4> QED BY <2>10, <4>1
    <3>4. q[k] = x /\ q[1] = lat'[1] /\ q[2] = lat'[2]
      BY <2>4 DEF B
    <3> HIDE DEF q
    <3>5. Pair(q, lat'[1], lat'[2])
      BY <3>3 DEF Pair, q
    <3>6. \A i \in 1..Len(out) : out[i] # q
      BY <2>8, <3>4
    <3>7. \A c \in B : c # k /\ w[c].pc = "send" => Pair(w'[c].val, lat'[1], lat'[2]) /\ w[c].val # q
      <4> SUFFICES ASSUME NEW c \in B, c # k, w[c].pc = "send"
                   PROVE  Pair(w'[c].val, lat'[1], lat'[2]) /\ w[c].val # q
        OBVIOUS
      <4>1. Pair(w[c].val, lat[1], lat[2])
        BY <1>4
      <4>2. Pair(w[c].val, lat'[1], lat'[2]) /\ w[c].val[k] # x
        BY <2>7, <4>1
      <4> QED BY <3>2, <3>4, <4>2
    <3>8. \A c \in B : w'[c].pc = "send" => Pair(w'[c].val, lat'[1], lat'[2]) /\ \A i \in 1..Len(out) : out[i] # w'[c].val
      <4> SUFFICES ASSUME NEW c \in B, w'[c].pc = "send"
                   PROVE  Pair(w'[c].val, lat'[1], lat'[2]) /\ \A i \in 1..Len(out) : out[i] # w'[c].val
        OBVIOUS
      <4>1. CASE c = k
        BY <3>2, <3>5, <3>6, <4>1 DEF Pair
      <4>2. CASE c # k
        BY <1>4, <3>2, <3>7, <4>2
      <4> QED BY <4>1, <4>2
    <3>9. w'[1].pc = "send" /\ w'[2].pc = "send" => w'[1].val # w'[2].val
      BY <1>2, <3>2, <3>7 DEF B
    <3>10. \E c \in B : w'[c].pc = "send" /\ w'[c].val = <<lat'[1], lat'[2]>>
      BY <3>2 DEF q
    <3> QED BY <1>2, <1>4, <2>1, <2>6, <2>8, <3>8, <3>9, <3>10 DEF CombineInv
  <2> QED BY <2>9, <2>10
<1>9. CASE WorkerSend(k)
  <2>1. w[k].pc = "send" /\ UNCHANGED <<lat, took>> /\ w[k].why = "none" /\ w[k].val \in Seq(Nat)
    BY <1>3, <1>9 DEF WorkerSend
  <2>2. CASE Returned
    <3>1. UNCHANGED <<out, w>>
      BY <1>9, <2>2 DEF WorkerSend
    <3> QED BY <1>1, <1>2, <2>1, <3>1 DEF CombineInv, Pair
  <2>3. CASE ~Returned
    <3> DEFINE q == w[k].val
    <3>1. out' = Append(out, q) /\ Goes(k, "recv", Idle)
      BY <1>9, <2>1, <2>3 DEF WorkerSend
    <3>2. w'[k].pc = "recv" /\ w'[k].why = "none" /\ \A c \in B : c # k => w'[c] = w[c]
      BY <1>1, <3>1, GoesFacts
    <3>3. /\ Len(out') = Len(out) + 1 /\ out'[Len(out) + 1] = q
          /\ \A i \in 1..Len(out) : out'[i] = out[i]
          /\ \A i \in 1..Len(out') : i \in 1..Len(out) \/ i = Len(out) + 1
          /\ (\A i \in 1..Len(out) : i \in 1..Len(out')) /\ Len(out) + 1 \in 1..Len(out')
      BY <1>3, <2>1, <3>1
    <3>4. Pair(q, lat[1], lat[2]) /\ \A i \in 1..Len(out) : out[i] # q
      BY <1>4, <2>1
    <3>5. \A c \in B : c # k /\ w[c].pc = "send" => w[c].val # q
      BY <1>4, <2>1 DEF B
    <3> HIDE DEF q
    <3>7. \A i \in 1..Len(out') : Pair(out'[i], lat[1], lat[2])
      BY <1>4, <3>3, <3>4
    <3>8. \A i, j \in 1..Len(out') : out'[i] = out'[j] => i = j
      BY <1>4, <3>3, <3>4
    <3>9. \A c \in B : w'[c].pc = "send" => Pair(w'[c].val, lat[1], lat[2]) /\ \A i \in 1..Len(out') : out'[i] # w'[c].val
      BY <1>4, <3>2, <3>3, <3>5
    <3>10. ~(w'[1].pc = "send" /\ w'[2].pc = "send")
      BY <3>2 DEF B
    <3>11. lat[1] # 0 /\ lat[2] # 0 =>
         \/ \E i \in 1..Len(out') : out'[i] = <<lat[1], lat[2]>>
         \/ \E c \in B : w'[c].pc = "send" /\ w'[c].val = <<lat[1], lat[2]>>
         \/ \E c \in B : w'[c].why \in {"ctx", "err"}
      <4> SUFFICES ASSUME lat[1] # 0 /\ lat[2] # 0
                   PROVE  \/ \E i \in 1..Len(out') : out'[i] = <<lat[1], lat[2]>>
                          \/ \E c \in B : w'[c].pc = "send" /\ w'[c].val = <<lat[1], lat[2]>>
                          \/ \E c \in B : w'[c].why \in {"ctx", "err"}
        OBVIOUS
      <4>1. CASE \E i \in 1..Len(out) : out[i] = <<lat[1], lat[2]>>
        BY <3>3, <4>1
      <4>2. CASE q = <<lat[1], lat[2]>>
        BY <3>3, <4>2
      <4>3. CASE \E c \in B : c # k /\ w[c].pc = "send" /\ w[c].val = <<lat[1], lat[2]>>
        BY <3>2, <4>3
      <4>4. CASE \E c \in B : w[c].why \in {"ctx", "err"}
        BY <2>1, <3>2, <4>4
      <4> QED BY <1>5, <4>1, <4>2, <4>3, <4>4 DEF q
    <3> QED BY <1>2, <1>4, <2>1, <3>7, <3>8, <3>9, <3>10, <3>11 DEF CombineInv, Pair
  <2> QED BY <2>2, <2>3
<1> QED BY <1>1, <1>6, <1>7, <1>8, <1>9, WorkCases

\* What has been taken stays taken.
LEMMA InGrows ==
  ASSUME NEW s \in Seq(Nat), NEW t \in Seq(Nat), Len(t) = Len(s) + 1, \A i \in 1..Len(s) : t[i] = s[i], NEW x, In(x, s)
  PROVE  In(x, t)
<1>1. PICK i \in 1..Len(s) : s[i] = x
  BY DEF In
<1>2. i \in 1..Len(t) /\ t[i] = x
  BY <1>1
<1> QED BY <1>2 DEF In

\* One more output.
LEMMA OutGrows ==
  ASSUME out \in Seq(Seq(Nat)), NEW v \in Seq(Nat), out' = Append(out, v)
  PROVE  /\ Len(out') = Len(out) + 1 /\ out'[Len(out) + 1] = v /\ Len(out) \in Nat
         /\ \A i \in 1..Len(out) : out'[i] = out[i]
         /\ \A i \in 1..Len(out') : i \in 1..Len(out) \/ i = Len(out) + 1
         /\ (\A i \in 1..Len(out) : i \in 1..Len(out')) /\ Len(out) + 1 \in 1..Len(out')
OBVIOUS

LEMMA Chain ==
  ASSUME NEW a \in Nat, NEW b \in Nat, NEW c \in Nat, a <= b, b <= c
  PROVE  a <= c
OBVIOUS

\* LatestFrom.
LEMMA LatestWork ==
  ASSUME Inv, NEW k \in B, Work(k) \/ Fails(k)
  PROVE  LatestInv'
<1> SUFFICES ASSUME Is("latestFrom") PROVE LatestInv'
  BY WorkShape DEF Inv, LatestInv, Is
<1>1. FanInv /\ StreamInv /\ WorkInv /\ LatestInv
  BY DEF Inv
<1>2. UNCHANGED <<kind, foVars, stage>> /\ kind.in = "latestFrom" /\ 1 \in B /\ 2 \in B
  BY WorkShape DEF Inv, Is, B
<1>3. /\ out \in Seq(Seq(Nat)) /\ lat[1] \in Nat /\ lat[2] \in Nat /\ w[2].pc # "send" /\ w[1].val \in Seq(Nat)
      /\ took[1] \in Seq(Nat) /\ took[2] \in Seq(Nat)
      /\ w[1].pc = "send" => w[1].why = "none"
  BY <1>1, <1>2 DEF WorkInv, StreamInv, Is
<1>4. /\ IF took[2] = << >> THEN lat[2] = 0 ELSE lat[2] = took[2][Len(took[2])]
      /\ \A i \in 1..Len(out) : Len(out[i]) = 2 /\ In(out[i][1], took[1]) /\ In(out[i][2], took[2]) /\ out[i][2] <= lat[2]
      /\ \A i, j \in 1..Len(out) : i < j => out[i][1] < out[j][1] /\ out[i][2] <= out[j][2]
  BY <1>1 DEF LatestInv
<1>5. w[1].pc = "send" =>
         /\ Len(w[1].val) = 2 /\ In(w[1].val[1], took[1]) /\ In(w[1].val[2], took[2]) /\ w[1].val[2] <= lat[2]
         /\ \A i \in 1..Len(out) : out[i][1] < w[1].val[1] /\ out[i][2] <= w[1].val[2]
  BY <1>1 DEF LatestInv
<1>6. CASE GivesUp(k) \/ WorkerEof(k)
  <2>1. /\ UNCHANGED <<lat, out, took>> /\ w'[k].pc = "end" /\ \A c \in B : c # k => w'[c] = w[c]
    <3>1. CASE GivesUp(k)
      BY <1>1, <3>1, BecomesFacts DEF GivesUp
    <3>2. CASE WorkerEof(k)
      BY <1>1, <3>2, EndsFacts DEF WorkerEof, WorkerEnds
    <3> QED BY <1>6, <3>1, <3>2
  <2>2. w'[1].pc = "send" => w'[1] = w[1]
    BY <1>2, <2>1
  <2> QED BY <1>2, <1>4, <1>5, <2>1, <2>2 DEF LatestInv
<1>7. ~(k = 1 /\ (ZipRecv \/ EqualRecv))
  BY <1>2 DEF ZipRecv, EqualRecv, Is
<1>8. CASE Received(k)
  <2> DEFINE x == Head(ch[k])
  <2>1. w[k].pc = "recv" /\ LatestRecv(k) /\ out' = out
    BY <1>2, <1>8 DEF Received, MergeRecv, EachRecv, CombineRecv, SampleRecv, Is
  <2>2. TakeFrom(k)
    BY <2>1 DEF LatestRecv
  <2>3. /\ x \in Nat \ {0} /\ Len(took'[k]) = Len(took[k]) + 1 /\ took'[k] \in Seq(Nat)
        /\ took'[k][Len(took[k]) + 1] = x
        /\ \A i \in 1..Len(took[k]) : took'[k][i] = took[k][i] /\ took[k][i] < x
        /\ \A c \in B : c # k => took'[c] = took[c]
    BY <1>1, <1>2, <2>2, StreamTaken
  <2>4. \A c \in B : \A y : In(y, took[c]) => In(y, took'[c])
    <3> SUFFICES ASSUME NEW c \in B, NEW y, In(y, took[c]) PROVE In(y, took'[c])
      OBVIOUS
    <3>1. CASE c = k
      <4>1. took[c] \in Seq(Nat)
        BY <1>1 DEF StreamInv
      <4> QED BY <2>3, <3>1, <4>1, InGrows
    <3>2. CASE c # k
      BY <2>3, <3>2
    <3> QED BY <3>1, <3>2
  <2>5. \A y : In(y, took[k]) => y < x
    BY <2>3 DEF In
  <2> HIDE DEF x
  <2>6. \A i \in 1..Len(out) : Len(out[i]) = 2 /\ In(out[i][1], took'[1]) /\ In(out[i][2], took'[2])
    BY <1>2, <1>4, <2>4
  <2>7. CASE k = 2
    <3>1. lat' = [lat EXCEPT ![2] = x] /\ w' = w
      BY <2>1, <2>7 DEF LatestRecv, x
    <3>2. lat'[2] = x
      BY <1>1, <1>2, <3>1 DEF WorkInv
    <3>3. lat[2] <= x
      <4>1. CASE took[2] = << >>
        BY <1>4, <2>3, <4>1
      <4>2. CASE took[2] # << >>
        <5>1. Len(took[2]) \in 1..Len(took[2])
          BY <1>3, <4>2
        <5>2. took[2][Len(took[2])] < x
          BY <2>3, <2>7, <5>1
        <5>3. lat[2] < x
          BY <1>4, <4>2, <5>2
        <5> QED BY <1>3, <2>3, <5>3
      <4> QED BY <4>1, <4>2
    <3>4. took'[2] # << >> /\ took'[2][Len(took'[2])] = x
      BY <1>3, <2>3, <2>7
    <3>5. \A i \in 1..Len(out) : out[i][2] \in Nat
      BY SMTT(30), <1>3, <1>4
    <3>6. \A i \in 1..Len(out) : out[i][2] <= lat'[2]
      <4> SUFFICES ASSUME NEW i \in 1..Len(out) PROVE out[i][2] <= x
        BY <3>2
      <4>1. out[i][2] <= lat[2] /\ out[i][2] \in Nat
        BY <1>4, <3>5
      <4> QED BY <1>3, <2>3, <3>3, <4>1, Chain
    <3>7. w[1].pc = "send" => /\ In(w[1].val[1], took'[1]) /\ In(w[1].val[2], took'[2]) /\ w[1].val[2] <= lat'[2]
      <4> SUFFICES ASSUME w[1].pc = "send"
                   PROVE  In(w[1].val[1], took'[1]) /\ In(w[1].val[2], took'[2]) /\ w[1].val[2] <= x
        BY <3>2
      <4>1. w[1].val[2] \in Nat /\ w[1].val[2] <= lat[2] /\ In(w[1].val[1], took[1]) /\ In(w[1].val[2], took[2])
        BY <1>3, <1>5
      <4>2. w[1].val[2] <= x
        BY <1>3, <2>3, <3>3, <4>1, Chain
      <4> QED BY <1>2, <2>4, <4>1, <4>2
    <3> QED BY <1>2, <1>4, <1>5, <2>1, <2>6, <3>1, <3>2, <3>4, <3>6, <3>7 DEF LatestInv
  <2>8. CASE k = 1
    <3>1. lat' = lat /\ took'[2] = took[2]
      BY <1>2, <2>1, <2>3, <2>8 DEF LatestRecv
    <3>2. CASE lat[2] = 0
      <4>1. w' = w
        BY <2>1, <2>8, <3>2 DEF LatestRecv
      <4> QED BY <1>2, <1>4, <2>1, <2>6, <2>8, <3>1, <4>1 DEF LatestInv
    <3>3. CASE lat[2] # 0
      <4>1. Goes(1, "send", <<x, lat[2]>>)
        BY <2>1, <2>8, <3>3 DEF LatestRecv, x
      <4>2. w'[1].pc = "send" /\ w'[1].val = <<x, lat[2]>>
        BY <1>1, <1>2, <4>1, GoesFacts
      <4>3. Len(w'[1].val) = 2 /\ w'[1].val[1] = x /\ w'[1].val[2] = lat[2]
        BY <4>2
      <4>4. In(x, took'[1])
        <5>1. Len(took[1]) + 1 \in 1..Len(took'[1])
          BY <1>3, <2>3, <2>8
        <5> QED BY <2>3, <2>8, <5>1 DEF In
      <4>5. In(lat[2], took[2])
        <5>1. took[2] # << >> /\ Len(took[2]) \in 1..Len(took[2])
          BY <1>3, <1>4, <3>3
        <5> QED BY <1>4, <5>1 DEF In
      <4>6. \A i \in 1..Len(out) : out[i][1] < x /\ out[i][2] <= lat[2]
        BY <1>4, <2>5, <2>8
      <4> QED BY <1>2, <1>3, <1>4, <2>1, <2>6, <3>1, <4>2, <4>3, <4>4, <4>5, <4>6 DEF LatestInv
    <3> QED BY <3>2, <3>3
  <2> QED BY <2>7, <2>8 DEF B
<1>9. CASE WorkerSend(k)
  <2>1. k = 1 /\ w[1].pc = "send" /\ UNCHANGED <<lat, took>> /\ w[1].why = "none"
    BY <1>3, <1>9 DEF WorkerSend, B
  <2>2. CASE UNCHANGED <<out, w>>
    BY <1>1, <1>2, <2>1, <2>2 DEF LatestInv
  <2>3. CASE out' = Append(out, w[1].val) /\ Goes(1, "recv", Idle)
    <3>1. w'[1].pc = "recv"
      BY <1>1, <1>2, <2>3, GoesFacts
    <3> DEFINE v == w[1].val
    <3>2. Len(v) = 2 /\ In(v[1], took[1]) /\ In(v[2], took[2]) /\ v[2] <= lat[2] /\ v \in Seq(Nat)
          /\ \A i \in 1..Len(out) : out[i][1] < v[1] /\ out[i][2] <= v[2]
      BY <1>3, <1>5, <2>1
    <3> HIDE DEF v
    <3>3. /\ out'[Len(out) + 1] = v /\ Len(out) \in Nat
          /\ \A i \in 1..Len(out) : out'[i] = out[i]
          /\ \A i \in 1..Len(out') : i \in 1..Len(out) \/ i = Len(out) + 1
      BY <1>3, <2>3, <3>2, OutGrows DEF v
    <3>4. \A i \in 1..Len(out') : Len(out'[i]) = 2 /\ In(out'[i][1], took[1]) /\ In(out'[i][2], took[2]) /\ out'[i][2] <= lat[2]
      BY <1>4, <3>2, <3>3
    <3>5. \A i, j \in 1..Len(out') : i < j => out'[i][1] < out'[j][1] /\ out'[i][2] <= out'[j][2]
      <4> SUFFICES ASSUME NEW i \in 1..Len(out'), NEW j \in 1..Len(out'), i < j
                   PROVE  out'[i][1] < out'[j][1] /\ out'[i][2] <= out'[j][2]
        OBVIOUS
      <4>1. i \in 1..Len(out)
        BY <3>3
      <4>2. CASE j \in 1..Len(out)
        BY <1>4, <3>3, <4>1, <4>2
      <4>3. CASE j = Len(out) + 1
        BY <3>2, <3>3, <4>1, <4>3
      <4> QED BY <3>3, <4>2, <4>3
    <3> QED BY <1>2, <1>4, <2>1, <3>1, <3>4, <3>5 DEF LatestInv
  <2> QED BY <1>9, <2>1, <2>2, <2>3 DEF WorkerSend
<1> QED BY <1>1, <1>6, <1>7, <1>8, <1>9, WorkCases

\* SampleWith.
LEMMA SampleWork ==
  ASSUME Inv, NEW k \in B, Work(k) \/ Fails(k)
  PROVE  SampleInv'
<1> SUFFICES ASSUME Is("sampleWith") PROVE SampleInv'
  BY WorkShape DEF Inv, SampleInv, Is
<1>1. FanInv /\ StreamInv /\ WorkInv /\ SampleInv
  BY DEF Inv
<1>2. UNCHANGED <<kind, foVars, stage>> /\ kind.in = "sampleWith" /\ 1 \in B /\ 2 \in B
  BY WorkShape DEF Inv, Is, B
<1>3. /\ out \in Seq(Seq(Nat)) /\ lat[1] \in Nat /\ w[1].pc # "send" /\ w[2].val \in Seq(Nat)
      /\ took[1] \in Seq(Nat) /\ took[2] \in Seq(Nat) /\ Len(out) \in Nat /\ Len(took[2]) \in Nat
  BY <1>1, <1>2 DEF WorkInv, StreamInv, Is
<1>4. /\ lat[1] # 0 => In(lat[1], took[1]) /\ \A i \in 1..Len(out) : out[i][1] < lat[1]
      /\ \A i \in 1..Len(out) : Len(out[i]) = 1 /\ In(out[i][1], took[1])
      /\ \A i, j \in 1..Len(out) : i < j => out[i][1] < out[j][1]
      /\ Len(out) <= Len(took[2])
  BY <1>1 DEF SampleInv
<1>5. w[2].pc = "send" =>
         /\ Len(w[2].val) = 1 /\ In(w[2].val[1], took[1]) /\ Len(out) + 1 <= Len(took[2])
         /\ \A i \in 1..Len(out) : out[i][1] < w[2].val[1]
         /\ lat[1] # 0 => w[2].val[1] < lat[1]
  BY <1>1 DEF SampleInv
<1>6. CASE GivesUp(k) \/ WorkerEof(k)
  <2>1. /\ UNCHANGED <<lat, out, took>> /\ w'[k].pc = "end" /\ \A c \in B : c # k => w'[c] = w[c]
    <3>1. CASE GivesUp(k)
      BY <1>1, <3>1, BecomesFacts DEF GivesUp
    <3>2. CASE WorkerEof(k)
      BY <1>1, <3>2, EndsFacts DEF WorkerEof, WorkerEnds
    <3> QED BY <1>6, <3>1, <3>2
  <2>2. w'[2].pc = "send" => w'[2] = w[2]
    BY <1>2, <2>1
  <2> QED BY <1>2, <1>4, <1>5, <2>1, <2>2 DEF SampleInv
<1>7. ~(k = 1 /\ (ZipRecv \/ EqualRecv))
  BY <1>2 DEF ZipRecv, EqualRecv, Is
<1>8. CASE Received(k)
  <2> DEFINE x == Head(ch[k])
  <2>1. w[k].pc = "recv" /\ SampleRecv(k) /\ out' = out
    BY <1>2, <1>8 DEF Received, MergeRecv, EachRecv, CombineRecv, LatestRecv, Is
  <2>2. TakeFrom(k)
    BY <2>1 DEF SampleRecv
  <2>3. /\ x \in Nat \ {0} /\ Len(took'[k]) = Len(took[k]) + 1 /\ took'[k] \in Seq(Nat)
        /\ took'[k][Len(took[k]) + 1] = x
        /\ \A i \in 1..Len(took[k]) : took'[k][i] = took[k][i] /\ took[k][i] < x
        /\ \A c \in B : c # k => took'[c] = took[c]
    BY <1>1, <1>2, <2>2, StreamTaken
  <2>4. \A y : In(y, took[1]) => In(y, took'[1])
    <3> SUFFICES ASSUME NEW y, In(y, took[1]) PROVE In(y, took'[1])
      OBVIOUS
    <3>1. CASE k = 1
      BY ZenonT(40), <1>3, <2>3, <3>1, InGrows
    <3>2. CASE k # 1
      BY <1>2, <2>3, <3>2
    <3> QED BY <3>1, <3>2
  <2>5. \A y : In(y, took[k]) => y < x
    BY <2>3 DEF In
  <2> HIDE DEF x
  <2>6. \A i \in 1..Len(out) : Len(out[i]) = 1 /\ In(out[i][1], took'[1])
    BY <1>4, <2>4
  <2>7. CASE k = 1
    <3>1. lat' = [lat EXCEPT ![1] = x] /\ w' = w
      BY <2>1, <2>7 DEF SampleRecv, x
    <3>2. lat'[1] = x /\ took'[2] = took[2]
      BY <1>1, <1>2, <2>3, <2>7, <3>1 DEF WorkInv
    <3>3. In(x, took'[1])
      <4>1. Len(took[1]) + 1 \in 1..Len(took'[1])
        BY <1>3, <2>3, <2>7
      <4> QED BY <2>3, <2>7, <4>1 DEF In
    <3>4. \A i \in 1..Len(out) : out[i][1] < x
      BY <1>4, <2>5, <2>7
    <3>5. w[2].pc = "send" => In(w[2].val[1], took'[1]) /\ w[2].val[1] < x
      BY <1>5, <2>4, <2>5, <2>7
    <3> QED BY <1>2, <1>4, <1>5, <2>1, <2>6, <3>1, <3>2, <3>3, <3>4, <3>5 DEF SampleInv
  <2>8. CASE k = 2
    <3>1. took'[1] = took[1] /\ Len(out) + 1 <= Len(took'[2]) /\ Len(out) <= Len(took'[2])
      BY <1>2, <1>3, <1>4, <2>3, <2>8
    <3>2. lat'[1] = 0
      <4>1. lat' = [lat EXCEPT ![1] = 0]
        BY <2>1, <2>8 DEF SampleRecv
      <4> QED BY <1>1, <1>2, <4>1 DEF WorkInv
    <3>3. \/ \E why : Becomes(2, "send", <<lat[1]>>, why) /\ lat[1] # 0
          \/ Ends(2, "eof")
          \/ UNCHANGED w
      BY <2>1, <2>8 DEF SampleRecv, Becomes
    <3>4. w[2].pc = "recv"
      BY <2>1, <2>8
    <3>5. CASE \E why : Becomes(2, "send", <<lat[1]>>, why) /\ lat[1] # 0
      <4>1. w'[2].val = <<lat[1]>> /\ lat[1] # 0
        BY <1>1, <1>2, <3>5, BecomesFacts
      <4>2. Len(w'[2].val) = 1 /\ w'[2].val[1] = lat[1]
        BY <4>1
      <4> QED BY <1>2, <1>4, <2>1, <3>1, <3>2, <4>1, <4>2 DEF SampleInv
    <3>6. CASE Ends(2, "eof") \/ UNCHANGED w
      <4>1. w'[2].pc # "send"
        BY <1>1, <1>2, <3>4, <3>6, EndsFacts
      <4> QED BY <1>2, <1>4, <2>1, <3>1, <3>2, <4>1 DEF SampleInv
    <3> QED BY <3>3, <3>5, <3>6
  <2> QED BY <2>7, <2>8 DEF B
<1>9. CASE WorkerSend(k)
  <2>1. k = 2 /\ w[2].pc = "send" /\ UNCHANGED <<lat, took>>
    BY <1>3, <1>9 DEF WorkerSend, B
  <2>2. CASE UNCHANGED <<out, w>>
    BY <1>1, <1>2, <2>1, <2>2 DEF SampleInv
  <2>3. CASE out' = Append(out, w[2].val) /\ (Goes(2, "recv", Idle) \/ Ends(2, w[2].why))
    <3>1. w'[2].pc # "send"
      <4>1. CASE Goes(2, "recv", Idle)
        BY <1>1, <1>2, <4>1, GoesFacts
      <4>2. CASE Ends(2, w[2].why)
        BY <1>1, <1>2, <4>2, EndsFacts
      <4> QED BY <2>3, <4>1, <4>2
    <3> DEFINE v == w[2].val
    <3>2. Len(v) = 1 /\ In(v[1], took[1]) /\ v \in Seq(Nat) /\ Len(out) + 1 <= Len(took[2])
          /\ (\A i \in 1..Len(out) : out[i][1] < v[1]) /\ (lat[1] # 0 => v[1] < lat[1])
      BY <1>3, <1>5, <2>1
    <3> HIDE DEF v
    <3>3. /\ Len(out') = Len(out) + 1 /\ out'[Len(out) + 1] = v
          /\ \A i \in 1..Len(out) : out'[i] = out[i]
          /\ \A i \in 1..Len(out') : i \in 1..Len(out) \/ i = Len(out) + 1
      BY <1>3, <2>3, <3>2, OutGrows DEF v
    <3>4. \A i \in 1..Len(out') : Len(out'[i]) = 1 /\ In(out'[i][1], took[1])
      BY <1>4, <3>2, <3>3
    <3>5. \A i, j \in 1..Len(out') : i < j => out'[i][1] < out'[j][1]
      <4> SUFFICES ASSUME NEW i \in 1..Len(out'), NEW j \in 1..Len(out'), i < j PROVE out'[i][1] < out'[j][1]
        OBVIOUS
      <4>1. i \in 1..Len(out)
        BY <1>3, <3>3
      <4>2. CASE j \in 1..Len(out)
        BY <1>4, <3>3, <4>1, <4>2
      <4>3. CASE j = Len(out) + 1
        BY <3>2, <3>3, <4>1, <4>3
      <4> QED BY <3>3, <4>2, <4>3
    <3>6. lat[1] # 0 => In(lat[1], took[1]) /\ \A i \in 1..Len(out') : out'[i][1] < lat[1]
      BY <1>4, <3>2, <3>3
    <3> QED BY <1>2, <2>1, <3>1, <3>2, <3>3, <3>4, <3>5, <3>6 DEF SampleInv
  <2> QED BY <1>9, <2>1, <2>2, <2>3 DEF WorkerSend
<1> QED BY <1>1, <1>6, <1>7, <1>8, <1>9, WorkCases

LEMMA HeldNone ==
  ASSUME NEW t \in Seq(Nat), NEW c \in Seq(Nat), NEW r \in Seq(Nat), Held(t, c, r), c = << >>
  PROVE  Len(r) = Len(t)
BY DEF Held

LEMMA SameSequence ==
  ASSUME NEW s \in Seq(Nat), NEW t \in Seq(Nat), Len(s) = Len(t), \A i \in 1..Len(s) : s[i] = t[i]
  PROVE  s = t
OBVIOUS

\* SequenceEqual.
LEMMA EqualWork ==
  ASSUME Inv, NEW k \in B, Work(k) \/ Fails(k)
  PROVE  EqualInv'
<1> SUFFICES ASSUME Is("sequenceEqual") PROVE EqualInv'
  BY WorkShape DEF Inv, EqualInv, Is
<1>1. FanInv /\ StreamInv /\ WorkInv /\ EqualInv /\ StageInv /\ KeptInv
  BY DEF Inv
<1>2. UNCHANGED <<kind, foVars, stage>> /\ kind.in = "sequenceEqual" /\ 1 \in B /\ 2 \in B
      /\ UNCHANGED <<shut, routed>>
  BY WorkShape DEF Inv, Is, B, foVars
<1>3. /\ w[2].pc = "end" /\ took[1] \in Seq(Nat) /\ took[2] \in Seq(Nat) /\ w[1].pc # "send"
      /\ routed[1] \in Seq(Nat) /\ routed[2] \in Seq(Nat) /\ Len(routed[1]) \in Nat /\ Len(routed[2]) \in Nat
      /\ Len(took[1]) \in Nat /\ Len(took[2]) \in Nat /\ ch[1] \in Seq(Nat) /\ ch[2] \in Seq(Nat)
  <2>1. w[2].pc = "end" /\ w[1].pc # "send"
    BY <1>1, <1>2 DEF WorkInv, Lockstep, EqualInv, Is
  <2> QED BY <1>1, <1>2, <2>1 DEF StreamInv
<1>4. CASE GivesUp(k)
  <2>1. k = 1
    BY <1>3, <1>4 DEF GivesUp, B
  <2>2. w'[1].pc = "end" /\ w'[1].why \notin {"eof", "differ"}
    BY <1>1, <1>4, <2>1, BecomesFacts DEF GivesUp
  <2> QED BY <1>2, <2>2 DEF EqualInv
<1>5. ~WorkerEof(k) /\ ~Received(k) /\ ~ZipRecv /\ ~WorkerSend(k)
  BY <1>2, <1>3 DEF WorkerEof, Lockstep, Received, MergeRecv, EachRecv, CombineRecv, LatestRecv, SampleRecv, Is, ZipRecv, WorkerSend, B
<1>6. CASE EqualRecv
  <2>0. /\ w[1].pc \in {"recv", "second"}
        /\ \A i \in 1..Len(took[2]) : i <= Len(took[1]) /\ took[1][i] = took[2][i]
    BY <1>1, <1>2, <1>6 DEF EqualRecv, EqualInv, Is
  <2>1. \A b \in B : Taken(took[b], routed[b]) /\ Held(took[b], ch[b], routed[b])
    <3>1. ~Returned
      BY <1>1, <1>2, <2>0 DEF StageInv, Lockstep, Gone
    <3> QED BY <1>1, <1>2, <3>1 DEF KeptInv
  <2>2. \A b \in B : Taken(took'[b], routed[b])
    <3>1. KeptInv'
      BY <1>6, WorkBase
    <3> QED BY <1>2, <3>1 DEF KeptInv, Taken
  <2>3. w[1].pc = "recv" => Len(took[1]) = Len(took[2])
    BY <1>1, <1>2 DEF EqualInv, Is
  <2>4. w[1].pc = "second" =>
         \/ Len(took[1]) = Len(took[2]) + 1 /\ w[1].val = <<took[1][Len(took[1])]>>
         \/ Len(took[1]) = Len(took[2]) /\ w[1].val = <<0>> /\ ch[1] = << >> /\ shut[1]
    BY <1>1, <1>2 DEF EqualInv, Is
  <2>5. CASE w[1].pc = "recv" /\ TakeFrom(1) /\ Goes(1, "second", <<Head(ch[1])>>)
    <3>1. w'[1].pc = "second" /\ w'[1].val = <<Head(ch[1])>> /\ w'[1].why = "none"
      BY <1>1, <1>2, <2>5, GoesFacts
    <3>2. /\ Len(took'[1]) = Len(took[1]) + 1 /\ took'[1][Len(took[1]) + 1] = Head(ch[1])
          /\ took'[2] = took[2]
          /\ \A i \in 1..Len(took[1]) : took'[1][i] = took[1][i]
      BY <1>1, <1>2, <2>5, StreamTaken
    <3>3. \A i \in 1..Len(took'[2]) : i <= Len(took'[1]) /\ took'[1][i] = took'[2][i]
      <4> SUFFICES ASSUME NEW i \in 1..Len(took[2]) PROVE i <= Len(took'[1]) /\ took'[1][i] = took[2][i]
        BY <3>2
      <4>1. i <= Len(took[1]) /\ took[1][i] = took[2][i] /\ i \in 1..Len(took[1])
        BY <1>3, <2>0
      <4>2. took'[1][i] = took[1][i]
        BY <3>2, <4>1
      <4>3. i <= Len(took'[1])
        <5>1. i \in Nat /\ Len(took[1]) \in Nat /\ i <= Len(took[1]) /\ Len(took'[1]) = Len(took[1]) + 1
          BY <1>3, <3>2, <4>1
        <5> QED BY <5>1
      <4> QED BY <4>1, <4>2, <4>3
    <3> QED BY <1>2, <2>3, <2>5, <3>1, <3>2, <3>3 DEF EqualInv
  <2>6. CASE w[1].pc = "recv" /\ AtEnd(1) /\ Goes(1, "second", <<0>>) /\ UNCHANGED <<ch, took>>
    <3>1. w'[1].pc = "second" /\ w'[1].val = <<0>> /\ w'[1].why = "none"
      BY <1>1, <1>2, <2>6, GoesFacts
    <3> QED BY <1>2, <2>0, <2>3, <2>6, <3>1 DEF EqualInv, AtEnd
  <2>7. CASE w[1].pc = "second" /\ TakeFrom(2)
             /\ IF w[1].val[1] = Head(ch[2]) THEN Goes(1, "recv", Idle) ELSE Ends(1, "differ")
    <3> DEFINE x == Head(ch[2])
               n == Len(took[2]) + 1
    <3>1. /\ Len(took'[2]) = n /\ took'[2][n] = x /\ x \in Nat \ {0}
          /\ took'[1] = took[1]
          /\ \A i \in 1..Len(took[2]) : took'[2][i] = took[2][i]
      BY <1>1, <1>2, <2>7, StreamTaken
    <3>2. n \in Nat /\ n \in 1..n
      BY <1>3
    <3>3. CASE w[1].val[1] = x
      <4>1. w'[1].pc = "recv" /\ w'[1].why = "none"
        BY <1>1, <1>2, <2>7, <3>3, GoesFacts
      <4>2. w[1].val # <<0>>
        BY <3>1, <3>3
      <4>3. Len(took[1]) = n /\ w[1].val = <<took[1][n]>>
        BY <2>4, <2>7, <4>2
      <4>4. took[1][n] = x
        BY <3>3, <4>3
      <4>5. \A i \in 1..Len(took'[2]) : i <= Len(took'[1]) /\ took'[1][i] = took'[2][i]
        <5> SUFFICES ASSUME NEW i \in 1..n PROVE i <= n /\ took[1][i] = took'[2][i]
          BY <3>1, <4>3
        <5>1. i = n \/ i \in 1..Len(took[2])
          BY <1>3
        <5> QED BY <2>0, <3>1, <4>4, <5>1
      <4> QED BY <1>2, <3>1, <4>1, <4>3, <4>5 DEF EqualInv
    <3>4. CASE w[1].val[1] # x
      <4>1. w'[1].pc = "end" /\ w'[1].why = "differ"
        BY <1>1, <1>2, <2>7, <3>4, EndsFacts
      <4>2. Len(routed[2]) >= n /\ routed[2][n] = x
        BY <1>2, <2>2, <3>1, <3>2 DEF Taken
      <4>3. CASE Len(took[1]) = n /\ w[1].val = <<took[1][n]>>
        <5>1. took[1][n] # x /\ n <= Len(routed[1]) /\ routed[1][n] = took[1][n]
          BY <1>2, <2>1, <3>2, <3>4, <4>3 DEF Taken
        <5>2. n \in 1..Len(routed[1]) /\ n <= Len(routed[2]) /\ routed[1][n] # routed[2][n]
          BY <1>3, <3>2, <4>2, <5>1
        <5> HIDE DEF n
        <5> QED BY <1>2, <4>1, <5>2 DEF EqualInv
      <4>4. CASE Len(took[1]) = Len(took[2]) /\ w[1].val = <<0>> /\ ch[1] = << >> /\ shut[1]
        <5>1. Len(routed[1]) = Len(took[1])
          BY <1>2, <1>3, <2>1, <4>4, HeldNone
        <5>2. shut[1] /\ Len(routed[1]) < Len(routed[2])
          BY <1>3, <4>2, <4>4, <5>1
        <5> QED BY <1>2, <4>1, <5>2 DEF EqualInv
      <4> QED BY <2>4, <2>7, <4>3, <4>4
    <3> QED BY <3>3, <3>4
  <2>8. CASE /\ w[1].pc = "second" /\ AtEnd(2) /\ UNCHANGED <<ch, took>>
             /\ Ends(1, IF w[1].val = <<0>> THEN "eof" ELSE "differ")
    <3>1. w'[1].pc = "end" /\ w'[1].why = (IF w[1].val = <<0>> THEN "eof" ELSE "differ")
      BY <1>1, <1>2, <2>8, EndsFacts
    <3>2. Len(routed[2]) = Len(took[2]) /\ shut[2]
      BY <1>2, <1>3, <2>1, <2>8, HeldNone DEF AtEnd
    <3>3. CASE Len(took[1]) = Len(took[2]) + 1 /\ w[1].val = <<took[1][Len(took[1])]>>
      <4>1. took[1][Len(took[1])] # 0
        <5>1. Branch(took[1], ch[1], Highest(1), Pending(1)) /\ Len(took[1]) \in 1..Len(took[1])
          BY <1>1, <1>2, <1>3, <3>3 DEF StreamInv
        <5>2. took[1][Len(took[1])] \in 1..Highest(1) /\ Highest(1) \in Nat
          BY <1>1, <1>2, <5>1, HighType DEF Branch
        <5> QED BY <5>2
      <4>2. w[1].val # <<0>>
        BY <3>3, <4>1
      <4>3. w'[1].why = "differ"
        BY <3>1, <4>2
      <4>4. Len(routed[1]) >= Len(took[1])
        BY <1>2, <1>3, <2>1 DEF Taken
      <4>5. shut[2] /\ Len(routed[2]) < Len(routed[1])
        BY <1>3, <3>2, <3>3, <4>4
      <4> QED BY <1>2, <3>1, <4>3, <4>5 DEF EqualInv
    <3>4. CASE Len(took[1]) = Len(took[2]) /\ w[1].val = <<0>> /\ ch[1] = << >> /\ shut[1]
      <4>1. w'[1].why = "eof"
        BY <3>1, <3>4
      <4>2. Len(routed[1]) = Len(took[1])
        BY <1>2, <1>3, <2>1, <3>4, HeldNone
      <4>3. \A i \in 1..Len(routed[1]) : routed[1][i] = routed[2][i]
        BY <1>2, <2>0, <2>1, <3>2, <3>4, <4>2 DEF Taken
      <4>4. Len(routed[1]) = Len(routed[2])
        BY <3>2, <3>4, <4>2
      <4>5. routed[1] = routed[2]
        BY <1>3, <4>3, <4>4, SameSequence
      <4> QED BY <1>2, <3>1, <3>2, <3>4, <4>1, <4>5 DEF EqualInv
    <3> QED BY <2>4, <2>8, <3>3, <3>4
  <2> QED BY <1>6, <2>5, <2>6, <2>7, <2>8 DEF EqualRecv
<1> QED BY <1>1, <1>4, <1>5, <1>6, WorkCases

\* How many of the outputs come from a branch.
LEMMA PickedType ==
  ASSUME NEW o, NEW k, NEW n \in Nat
  PROVE  IsFiniteSet(Picked(o, k, n)) /\ Nth(o, k, n) \in Nat
<1>1. IsFiniteSet(1..n)
  BY FS_Interval
<1>2. Picked(o, k, n) \in SUBSET (1..n)
  BY DEF Picked
<1>3. IsFiniteSet(Picked(o, k, n))
  BY <1>1, <1>2, FS_Subset
<1> QED BY <1>3, FS_CardinalityType DEF Nth

LEMMA PickedSame ==
  ASSUME NEW o, NEW p, NEW n \in Nat, \A i \in 1..n : p[i] = o[i], NEW k
  PROVE  Nth(p, k, n) = Nth(o, k, n)
<1>1. Picked(p, k, n) = Picked(o, k, n)
  BY DEF Picked
<1> QED BY <1>1 DEF Nth

LEMMA PickedNext ==
  ASSUME NEW o, NEW n \in Nat, NEW k
  PROVE  Nth(o, k, n + 1) = IF o[n + 1][1] = k THEN Nth(o, k, n) + 1 ELSE Nth(o, k, n)
<1>1. IsFiniteSet(Picked(o, k, n)) /\ n + 1 \notin Picked(o, k, n)
  <2>1. n + 1 \notin 1..n
    OBVIOUS
  <2> QED BY <2>1, PickedType DEF Picked
<1>2. \A i : i \in 1..(n + 1) <=> i \in 1..n \/ i = n + 1
  OBVIOUS
<1>3. CASE o[n + 1][1] = k
  <2>1. Picked(o, k, n + 1) = Picked(o, k, n) \cup {n + 1}
    BY <1>2, <1>3 DEF Picked
  <2> QED BY <1>1, <1>3, <2>1, FS_AddElement DEF Nth
<1>4. CASE o[n + 1][1] # k
  <2>1. Picked(o, k, n + 1) = Picked(o, k, n)
    BY <1>2, <1>4 DEF Picked
  <2> QED BY <1>4, <2>1 DEF Nth
<1> QED BY <1>3, <1>4

LEMMA PickedBounds ==
  ASSUME NEW o, NEW k, NEW n \in Nat, NEW i \in 1..n, o[i][1] = k
  PROVE  Nth(o, k, i) \in 1..Nth(o, k, n)
<1>1. i \in Nat /\ i \in Picked(o, k, i) /\ Picked(o, k, i) \in SUBSET Picked(o, k, n)
  BY DEF Picked
<1>2. IsFiniteSet(Picked(o, k, i)) /\ IsFiniteSet(Picked(o, k, n)) /\ Nth(o, k, i) \in Nat /\ Nth(o, k, n) \in Nat
  BY <1>1, PickedType
<1>3. Nth(o, k, i) <= Nth(o, k, n)
  BY <1>1, <1>2, FS_Subset DEF Nth
<1>4. Nth(o, k, i) # 0
  <2>1. Picked(o, k, i) # {}
    BY <1>1
  <2> QED BY <1>2, <2>1, FS_EmptySet DEF Nth
<1> QED BY <1>2, <1>3, <1>4

\* Merge.
LEMMA MergeWork ==
  ASSUME Inv, NEW k \in B, Work(k) \/ Fails(k)
  PROVE  MergeInv'
<1> SUFFICES ASSUME Is("merge") PROVE MergeInv'
  BY WorkShape DEF Inv, MergeInv, Is
<1>1. FanInv /\ StreamInv /\ WorkInv /\ MergeInv /\ StageInv /\ KeptInv
  BY DEF Inv
<1>2. UNCHANGED <<kind, foVars, stage, envVars>> /\ kind.in = "merge" /\ 1 \in B /\ 2 \in B
      /\ UNCHANGED <<shut, routed, left, ctx>> /\ (Returned' <=> Returned)
  BY WorkShape DEF Inv, Is, B, foVars, envVars, Returned
<1>3. /\ out \in Seq(Seq(Nat)) /\ Len(out) \in Nat
      /\ \A c \in B : /\ took[c] \in Seq(Nat) /\ Len(took[c]) \in Nat /\ Count(c) \in Nat
                      /\ ch[c] \in Seq(Nat) /\ routed[c] \in Seq(Nat)
  <2>1. out \in Seq(Seq(Nat)) /\ Len(out) \in Nat
    BY <1>1 DEF WorkInv
  <2> QED BY <1>1, <2>1, PickedType DEF StreamInv, Count
<1>4. \A i \in 1..Len(out) : out[i][1] \in B /\ out[i][2] = took[out[i][1]][Nth(out, out[i][1], i)]
  BY <1>1 DEF MergeInv
<1>5. \A c \in B :
         /\ Count(c) <= Len(took[c])
         /\ w[c].pc = "recv" => Count(c) = Len(took[c])
         /\ w[c].pc = "send" => Count(c) + 1 = Len(took[c]) /\ w[c].val = <<c, took[c][Len(took[c])]>>
         /\ w[c].pc = "end" => \/ w[c].why = "eof" /\ shut[c] /\ Len(routed[c]) = Len(took[c]) /\ Count(c) = Len(took[c])
                               \/ left \/ ctx
         /\ Returned => w[c].pc = "end"
  BY <1>1 DEF MergeInv
<1>6. WorkerCtxDone(k) \/ WorkerEof(k) \/ Received(k) \/ WorkerSend(k)
  BY <1>2 DEF Work, Fails, WorkerFails, Calls, WorkerDrained, ZipRecv, EqualRecv, Is
<1>7. w[k].pc # "end" /\ ~Returned
  BY <1>5, <1>6 DEF WorkerCtxDone, WorkerEof, Received, WorkerSend
<1>8. CASE WorkerCtxDone(k)
  <2>1. UNCHANGED <<out, took>> /\ w'[k].pc = "end" /\ \A c \in B : c # k => w'[c] = w[c]
    BY <1>1, <1>8, EndsFacts DEF WorkerCtxDone, WorkerEnds
  <2>2. left \/ ctx
    BY <1>1, <1>8 DEF WorkerCtxDone, Stopped, StageInv
  <2> QED BY <1>2, <1>4, <1>5, <1>7, <2>1, <2>2 DEF MergeInv, Count
<1>9. CASE WorkerEof(k)
  <2>1. UNCHANGED <<out, took>> /\ w'[k].pc = "end" /\ w'[k].why = "eof" /\ \A c \in B : c # k => w'[c] = w[c]
    BY <1>1, <1>9, EndsFacts DEF WorkerEof, WorkerEnds
  <2>2. ch[k] = << >> /\ shut[k] /\ Count(k) = Len(took[k])
    BY <1>5, <1>9 DEF WorkerEof, AtEnd
  <2>3. Len(routed[k]) = Len(took[k])
    <3>1. Held(took[k], ch[k], routed[k])
      BY <1>1, <1>2, <1>7 DEF KeptInv
    <3> QED BY <1>3, <2>2, <3>1, HeldNone
  <2> QED BY <1>2, <1>4, <1>5, <1>7, <2>1, <2>2, <2>3 DEF MergeInv, Count
<1>10. CASE Received(k)
  <2>1. w[k].pc = "recv" /\ MergeRecv(k) /\ out' = out
    BY <1>2, <1>10 DEF Received, EachRecv, CombineRecv, LatestRecv, SampleRecv, Is
  <2>2. TakeFrom(k) /\ Goes(k, "send", <<k, Head(ch[k])>>)
    BY <2>1 DEF MergeRecv
  <2>3. /\ Len(took'[k]) = Len(took[k]) + 1 /\ took'[k][Len(took[k]) + 1] = Head(ch[k])
        /\ \A i \in 1..Len(took[k]) : took'[k][i] = took[k][i]
        /\ \A c \in B : c # k => took'[c] = took[c]
    BY <1>1, <1>2, <2>2, StreamTaken
  <2>4. w'[k].pc = "send" /\ w'[k].val = <<k, Head(ch[k])>> /\ \A c \in B : c # k => w'[c] = w[c]
    BY <1>1, <2>2, GoesFacts
  <2>5. \A i \in 1..Len(out) : took'[out[i][1]][Nth(out, out[i][1], i)] = took[out[i][1]][Nth(out, out[i][1], i)]
    <3> SUFFICES ASSUME NEW i \in 1..Len(out)
                 PROVE  took'[out[i][1]][Nth(out, out[i][1], i)] = took[out[i][1]][Nth(out, out[i][1], i)]
      OBVIOUS
    <3>1. CASE out[i][1] = k
      <4>1. Nth(out, k, i) \in 1..Count(k)
        BY <1>3, <3>1, PickedBounds DEF Count
      <4>2. Nth(out, k, i) \in 1..Len(took[k])
        BY <1>3, <1>5, <4>1
      <4> QED BY <2>3, <3>1, <4>2
    <3>2. CASE out[i][1] # k
      BY <1>4, <2>3, <3>2
    <3> QED BY <3>1, <3>2
  <2>6. Count(k) = Len(took[k]) /\ Count(k) + 1 = Len(took'[k]) /\ Count(k) <= Len(took'[k])
    <3>1. Count(k) = Len(took[k]) /\ Count(k) \in Nat
      BY <1>3, <1>5, <2>1
    <3>2. Len(took'[k]) = Count(k) + 1
      BY <2>3, <3>1
    <3> QED BY <3>1, <3>2
  <2>7. w'[k].val = <<k, took'[k][Len(took'[k])]>>
    BY <2>3, <2>4
  <2>8. \A c \in B : Count(c)' = Count(c)
    BY <2>1 DEF Count
  <2>9. \A i \in 1..Len(out') : out'[i][1] \in B /\ out'[i][2] = took'[out'[i][1]][Nth(out', out'[i][1], i)]
    BY <1>4, <2>1, <2>5
  <2>10. ASSUME NEW c \in B
         PROVE  /\ Count(c)' <= Len(took'[c])
                /\ w'[c].pc = "recv" => Count(c)' = Len(took'[c])
                /\ w'[c].pc = "send" => Count(c)' + 1 = Len(took'[c]) /\ w'[c].val = <<c, took'[c][Len(took'[c])]>>
                /\ w'[c].pc = "end" => \/ w'[c].why = "eof" /\ shut[c] /\ Len(routed[c]) = Len(took'[c]) /\ Count(c)' = Len(took'[c])
                                       \/ left \/ ctx
    <3>1. CASE c = k
      BY <2>4, <2>6, <2>7, <2>8, <3>1
    <3>2. CASE c # k
      BY <1>5, <2>3, <2>4, <2>8, <3>2
    <3> QED BY <3>1, <3>2
  <2> QED BY <1>2, <1>7, <2>9, <2>10 DEF MergeInv
<1>11. CASE WorkerSend(k)
  <2> DEFINE v == w[k].val
  <2>1. w[k].pc = "send" /\ took' = took /\ w[k].why = "none" /\ out' = Append(out, v) /\ Goes(k, "recv", Idle)
    BY <1>1, <1>2, <1>7, <1>11 DEF WorkerSend, WorkInv, Is
  <2>2. w'[k].pc = "recv" /\ \A c \in B : c # k => w'[c] = w[c]
    BY <1>1, <2>1, GoesFacts
  <2>3. v = <<k, took[k][Len(took[k])]>> /\ v \in Seq(Nat) /\ Count(k) + 1 = Len(took[k])
    BY <1>1, <1>2, <1>5, <2>1 DEF WorkInv, Is
  <2> HIDE DEF v
  <2>4. v[1] = k /\ v[2] = took[k][Len(took[k])]
    BY <2>3
  <2>5. /\ Len(out') = Len(out) + 1 /\ out'[Len(out) + 1] = v
        /\ \A i \in 1..Len(out) : out'[i] = out[i]
        /\ \A i \in 1..Len(out') : i \in 1..Len(out) \/ i = Len(out) + 1
    BY <1>3, <2>1, <2>3, OutGrows
  <2>6. \A c \in B : Nth(out', c, Len(out) + 1) = IF c = k THEN Count(c) + 1 ELSE Count(c)
    <3> SUFFICES ASSUME NEW c \in B
                 PROVE  Nth(out', c, Len(out) + 1) = IF c = k THEN Count(c) + 1 ELSE Count(c)
      OBVIOUS
    <3>1. Nth(out', c, Len(out)) = Count(c)
      <4>1. \A i \in 1..Len(out) : out'[i] = out[i]
        BY <2>5
      <4>2. Nth(out', c, Len(out)) = Nth(out, c, Len(out))
        <5>1. Len(out) \in Nat
          BY <1>3
        <5> QED BY ONLY <4>1, <5>1, PickedSame
      <4> QED BY <4>2 DEF Count
    <3>2. Nth(out', c, Len(out) + 1) = IF out'[Len(out) + 1][1] = c THEN Nth(out', c, Len(out)) + 1 ELSE Nth(out', c, Len(out))
      BY <1>3, PickedNext
    <3> QED BY <2>4, <2>5, <3>1, <3>2
  <2>7. \A c \in B : Count(c)' = IF c = k THEN Count(c) + 1 ELSE Count(c)
    BY <2>5, <2>6 DEF Count
  <2>8. ASSUME NEW i \in 1..Len(out')
        PROVE  out'[i][1] \in B /\ out'[i][2] = took[out'[i][1]][Nth(out', out'[i][1], i)]
    <3>1. CASE i \in 1..Len(out)
      <4>1. \A j \in 1..i : out'[j] = out[j]
        BY <1>3, <2>5, <3>1
      <4>2. Nth(out', out[i][1], i) = Nth(out, out[i][1], i)
        BY <3>1, <4>1, PickedSame
      <4> QED BY <1>4, <2>5, <3>1, <4>2
    <3>2. CASE i = Len(out) + 1
      BY <2>3, <2>4, <2>5, <2>6, <3>2
    <3> QED BY <2>5, <3>1, <3>2
  <2>9. ASSUME NEW c \in B
        PROVE  /\ Count(c)' <= Len(took[c])
               /\ w'[c].pc = "recv" => Count(c)' = Len(took[c])
               /\ w'[c].pc = "send" => Count(c)' + 1 = Len(took[c]) /\ w'[c].val = <<c, took[c][Len(took[c])]>>
               /\ w'[c].pc = "end" => \/ w'[c].why = "eof" /\ shut[c] /\ Len(routed[c]) = Len(took[c]) /\ Count(c)' = Len(took[c])
                                      \/ left \/ ctx
    <3>1. CASE c = k
      BY <1>3, <2>2, <2>3, <2>7, <3>1
    <3>2. CASE c # k
      BY <1>5, <2>2, <2>7, <3>2
    <3> QED BY <3>1, <3>2
  <2> QED BY <1>2, <1>7, <2>1, <2>8, <2>9 DEF MergeInv
<1> QED BY <1>6, <1>8, <1>9, <1>10, <1>11

-----------------------------------------------------------------------------
(* The other steps. *)

LEMMA OperatorsStill ==
  ASSUME ZipInv, CombineInv, LatestInv, SampleInv, UNCHANGED <<kind, w, lat, out, took>>
  PROVE  ZipInv' /\ CombineInv' /\ LatestInv' /\ SampleInv'
<1>1. ZipInv'
  BY DEF ZipInv, Is
<1>2. CombineInv'
  BY DEF CombineInv, Is, Pair
<1>3. LatestInv'
  BY DEF LatestInv, Is, In
<1>4. SampleInv'
  BY DEF SampleInv, Is, In
<1> QED BY <1>1, <1>2, <1>3, <1>4

\* A branch that is shut stays as it is; the other only grows.
LEMMA FanGrows ==
  ASSUME FanInv, StreamInv, FanOutStep, NEW c \in B
  PROVE  /\ shut[c] => shut'[c] /\ ch'[c] = ch[c] /\ routed'[c] = routed[c]
         /\ Len(routed[c]) \in Nat /\ Len(routed'[c]) \in Nat /\ Len(routed[c]) <= Len(routed'[c])
         /\ \A i \in 1..Len(routed[c]) : i \in 1..Len(routed'[c]) /\ routed'[c][i] = routed[c][i]
<1>1. routed[c] \in Seq(Nat) /\ (shut[c] => shut'[c])
  BY FanFacts, HighType
<1>2. CASE UNCHANGED <<ch, routed>>
  BY <1>1, <1>2
<1>3. ASSUME NEW b \in B, NEW x \in Nat, Feeds(b, x)
      PROVE  (ch'[c] = ch[c] /\ routed'[c] = routed[c]) \/ (~shut[c] /\ routed'[c] = Append(routed[c], x))
  BY <1>3 DEF Feeds, StreamInv
<1>4. CASE \E x \in Nat : ~shut[c] /\ routed'[c] = Append(routed[c], x)
  <2>1. PICK x \in Nat : ~shut[c] /\ routed'[c] = Append(routed[c], x)
    BY <1>4
  <2>2. /\ Len(routed'[c]) = Len(routed[c]) + 1 /\ Len(routed[c]) \in Nat
        /\ \A i \in 1..Len(routed[c]) : routed'[c][i] = routed[c][i]
    BY <1>1, <2>1
  <2> QED BY <2>1, <2>2
<1>5. CASE ch'[c] = ch[c] /\ routed'[c] = routed[c]
  BY <1>1, <1>5
<1> QED BY <1>2, <1>3, <1>4, <1>5, FanFacts

LEMMA FanEqual ==
  ASSUME FanInv, StreamInv, EqualInv, FanOutStep
  PROVE  EqualInv'
<1>1. UNCHANGED <<kind, w, took>> /\ 1 \in B /\ 2 \in B
  BY FanFacts DEF fiVars, B
<1> SUFFICES ASSUME Is("sequenceEqual") PROVE EqualInv'
  BY <1>1 DEF EqualInv, Is
<1>2. w[1].pc = "second" =>
         \/ Len(took[1]) = Len(took[2]) + 1 /\ w[1].val = <<took[1][Len(took[1])]>>
         \/ Len(took[1]) = Len(took[2]) /\ w[1].val = <<0>> /\ ch'[1] = << >> /\ shut'[1]
  BY <1>1, FanGrows DEF EqualInv
<1>3. w[1].why = "eof" => shut'[1] /\ shut'[2] /\ routed'[1] = routed'[2]
  BY <1>1, FanGrows DEF EqualInv
<1>4. w[1].why = "differ" =>
         \/ \E i \in 1..Len(routed'[1]) : i <= Len(routed'[2]) /\ routed'[1][i] # routed'[2][i]
         \/ shut'[1] /\ Len(routed'[1]) < Len(routed'[2])
         \/ shut'[2] /\ Len(routed'[2]) < Len(routed'[1])
  <2>1. CASE \E i \in 1..Len(routed[1]) : i <= Len(routed[2]) /\ routed[1][i] # routed[2][i]
    <3>1. PICK i \in 1..Len(routed[1]) : i <= Len(routed[2]) /\ routed[1][i] # routed[2][i]
      BY <2>1
    <3>2. i \in 1..Len(routed[2])
      BY <1>1, <3>1, FanGrows
    <3>3. i \in 1..Len(routed'[1]) /\ routed'[1][i] = routed[1][i] /\ i \in 1..Len(routed'[2]) /\ routed'[2][i] = routed[2][i]
      BY <1>1, <3>1, <3>2, FanGrows
    <3>4. i <= Len(routed'[2])
      BY <1>1, <3>3, FanGrows
    <3> QED BY <3>1, <3>3, <3>4
  <2>2. CASE shut[1] /\ Len(routed[1]) < Len(routed[2])
    <3>1. /\ shut'[1] /\ routed'[1] = routed[1] /\ Len(routed[1]) \in Nat /\ Len(routed[2]) \in Nat
          /\ Len(routed'[2]) \in Nat /\ Len(routed[2]) <= Len(routed'[2])
      BY <1>1, <2>2, FanGrows
    <3> QED BY <2>2, <3>1
  <2>3. CASE shut[2] /\ Len(routed[2]) < Len(routed[1])
    <3>1. /\ shut'[2] /\ routed'[2] = routed[2] /\ Len(routed[1]) \in Nat /\ Len(routed[2]) \in Nat
          /\ Len(routed'[1]) \in Nat /\ Len(routed[1]) <= Len(routed'[1])
      BY <1>1, <2>3, FanGrows
    <3> QED BY <2>3, <3>1
  <2> QED BY <2>1, <2>2, <2>3 DEF EqualInv
<1> QED BY <1>1, <1>2, <1>3, <1>4 DEF EqualInv, Is

LEMMA FanMerge ==
  ASSUME FanInv, StreamInv, MergeInv, FanOutStep
  PROVE  MergeInv'
<1>1. UNCHANGED <<kind, w, took, out, stage, left, ctx>>
  BY FanFacts DEF fiVars, envVars
<1>2. \A c \in B : shut[c] => shut'[c] /\ routed'[c] = routed[c]
  BY FanGrows
<1> QED BY <1>1, <1>2 DEF MergeInv, Count, Is, Returned

LEMMA FanDrain ==
  ASSUME FanInv, StreamInv, WorkInv, StageInv, DrainOnlyWhenAllLeft, FanOutStep
  PROVE  DrainOnlyWhenAllLeft'
<1>1. UNCHANGED <<kind, w, stage>>
  BY FanFacts DEF fiVars
<1>2. CASE FanDrained
  <2>1. refs <= 0
    BY <1>2 DEF FanDrained
  <2>2. CASE Is("each")
    <3>1. w[1].val # Idle /\ w[2].val # Idle
      BY <2>1, <2>2 DEF StageInv
    <3>2. \A c \in B : Gone(c)
      BY <2>2, <3>1 DEF WorkInv, B, Gone
    <3> QED BY <1>1, <2>2, <3>2 DEF DrainOnlyWhenAllLeft, Awaited, Is, Returned, Gone
  <2>3. CASE ~Is("each")
    <3>1. Returned
      BY <2>1, <2>3 DEF StageInv
    <3> QED BY <1>1, <2>3, <3>1 DEF DrainOnlyWhenAllLeft, Awaited, Is, Returned, Gone
  <2> QED BY <2>2, <2>3
<1>3. CASE ~FanDrained
  <2>1. fwhy' = fwhy \/ fwhy' \in {"eof", "ctx"}
    BY <1>3 DEF FanOutStep, FanRecv, FanSend, FanEof, FanCtxDone, FanReturn, SourceFeeds, SourceEnds
  <2> QED BY <1>1, <2>1 DEF DrainOnlyWhenAllLeft, Awaited, Is, Returned, Gone
<1> QED BY <1>2, <1>3

LEMMA FanInvariant ==
  ASSUME Inv, FanOutStep
  PROVE  Inv'
<1>1. /\ FanInv /\ StreamInv /\ WorkInv /\ StageInv /\ KeptInv /\ BothInv
      /\ ZipInv /\ CombineInv /\ LatestInv /\ SampleInv /\ EqualInv /\ MergeInv
      /\ DrainOnlyWhenAllLeft
  BY DEF Inv
<1>2. UNCHANGED <<kind, w, lat, stage, out, took, left, ctx, refs>>
  BY <1>1, FanFacts DEF fiVars, envVars
<1>3. FanInv' /\ StreamInv' /\ KeptInv' /\ BothInv'
  BY <1>1, FanKeeps, StreamFed, KeptFed, BothFed
<1>4. WorkInv'
  BY <1>1, <1>2 DEF WorkInv, Is
<1>5. StageInv'
  BY <1>1, <1>2 DEF StageInv, Is, Returned, Gone
<1>6. ZipInv' /\ CombineInv' /\ LatestInv' /\ SampleInv'
  BY <1>1, <1>2, OperatorsStill
<1>7. EqualInv' /\ MergeInv' /\ DrainOnlyWhenAllLeft'
  BY <1>1, FanEqual, FanMerge, FanDrain
<1> QED BY <1>3, <1>4, <1>5, <1>6, <1>7 DEF Inv

LEMMA WorkInvariant ==
  ASSUME Inv, NEW k \in B, Work(k) \/ Fails(k)
  PROVE  Inv'
BY WorkBase, ZipWork, CombineWork, LatestWork, SampleWork, EqualWork, MergeWork DEF Inv

\* The consumer receives or leaves, the context ends.
LEMMA OutsideInvariant ==
  ASSUME Inv, UNCHANGED <<kind, foVars, fiVars, ch, refs>>, left => left', ctx => ctx'
  PROVE  Inv'
<1>1. /\ FanInv /\ StreamInv /\ WorkInv /\ StageInv /\ KeptInv /\ BothInv
      /\ ZipInv /\ CombineInv /\ LatestInv /\ SampleInv /\ EqualInv /\ MergeInv
      /\ DrainOnlyWhenAllLeft
  BY DEF Inv
<1>2. UNCHANGED <<kind, w, lat, stage, out, took, refs, fpc, fwhy, todo, read, shut, routed, ch>>
  BY DEF foVars, fiVars
<1>3. FanInv' /\ StreamInv' /\ BothInv'
  BY <1>1, <1>2, StreamStill, BothStill DEF FanInv
<1>4. KeptInv'
  BY <1>1, <1>2, KeptStill DEF Returned
<1>5. WorkInv'
  BY <1>1, <1>2 DEF WorkInv, Is
<1>6. StageInv'
  BY <1>1, <1>2 DEF StageInv, Is, Returned, Gone
<1>7. ZipInv' /\ CombineInv' /\ LatestInv' /\ SampleInv'
  BY <1>1, <1>2, OperatorsStill
<1>8. EqualInv' /\ MergeInv' /\ DrainOnlyWhenAllLeft'
  BY <1>1, <1>2 DEF EqualInv, MergeInv, Count, DrainOnlyWhenAllLeft, Awaited, Is, Returned, Gone
<1> QED BY <1>3, <1>4, <1>5, <1>6, <1>7, <1>8 DEF Inv

\* The stage returns.
LEMMA ReturnInvariant ==
  ASSUME Inv, NEW why, Return(why), ~Returned, why \notin {"run", "stop"},
         kind.in \in Lockstep => Gone(1) /\ why = w[1].why,
         \A k \in Awaited(why) : Gone(k),
         Is("merge") => \A k \in B : Gone(k)
  PROVE  Inv'
<1>1. /\ FanInv /\ StreamInv /\ WorkInv /\ StageInv /\ KeptInv /\ BothInv
      /\ ZipInv /\ CombineInv /\ LatestInv /\ SampleInv /\ EqualInv /\ MergeInv
      /\ DrainOnlyWhenAllLeft
  BY DEF Inv
<1>2. UNCHANGED <<kind, foVars, w, lat, out, took, left, ch>> /\ stage' = why /\ (ctx => ctx')
      /\ refs' = (IF Is("each") THEN refs ELSE refs - 2)
  BY DEF Return
<1>3. UNCHANGED <<fpc, fwhy, todo, read, shut, routed>> /\ Returned'
  BY <1>2 DEF foVars, Returned
<1>4. FanInv' /\ StreamInv' /\ BothInv' /\ KeptInv'
  BY <1>1, <1>2, <1>3, StreamStill, BothStill, KeptStill DEF FanInv
<1>5. WorkInv'
  BY <1>1, <1>2 DEF WorkInv, Is
<1>6. StageInv'
  <2>1. refs' \in Int
    BY <1>1, <1>2 DEF StageInv
  <2> QED BY <1>1, <1>2, <1>3, <2>1 DEF StageInv, Is, Gone
<1>7. ZipInv' /\ CombineInv' /\ LatestInv' /\ SampleInv'
  BY <1>1, <1>2, OperatorsStill
<1>8. EqualInv'
  BY <1>1, <1>2, <1>3 DEF EqualInv, Is
<1>9. MergeInv' /\ DrainOnlyWhenAllLeft'
  <2>1. MergeInv'
    BY <1>1, <1>2, <1>3 DEF MergeInv, Count, Is, Gone
  <2>2. DrainOnlyWhenAllLeft'
    BY <1>1, <1>2, <1>3 DEF DrainOnlyWhenAllLeft, Awaited, Is, Gone
  <2> QED BY <2>1, <2>2
<1> QED BY <1>4, <1>5, <1>6, <1>7, <1>8, <1>9 DEF Inv

LEMMA MergeStopsInvariant ==
  ASSUME Inv, MergeStops
  PROVE  Inv'
<1>1. /\ FanInv /\ StreamInv /\ WorkInv /\ StageInv /\ KeptInv /\ BothInv
      /\ ZipInv /\ CombineInv /\ LatestInv /\ SampleInv /\ EqualInv /\ MergeInv
      /\ DrainOnlyWhenAllLeft
  BY DEF Inv
<1>2. UNCHANGED <<kind, foVars, w, lat, out, took, envVars, ch, refs>> /\ stage' = "stop" /\ stage = "run"
      /\ Is("merge") /\ (left \/ ctx)
  BY DEF MergeStops
<1>3. UNCHANGED <<fpc, fwhy, todo, read, shut, routed, left, ctx>> /\ ~Returned /\ ~Returned'
  BY <1>2 DEF foVars, envVars, Returned
<1>4. FanInv' /\ StreamInv' /\ BothInv' /\ KeptInv'
  BY <1>1, <1>2, <1>3, StreamStill, BothStill, KeptStill DEF FanInv
<1>5. WorkInv'
  BY <1>1, <1>2 DEF WorkInv, Is
<1>6. StageInv'
  BY <1>1, <1>2, <1>3 DEF StageInv, Is, Gone
<1>7. ZipInv' /\ CombineInv' /\ LatestInv' /\ SampleInv'
  BY <1>1, <1>2, OperatorsStill
<1>8. EqualInv' /\ MergeInv' /\ DrainOnlyWhenAllLeft'
  BY <1>1, <1>2, <1>3 DEF EqualInv, MergeInv, Count, DrainOnlyWhenAllLeft, Awaited, Is, Gone
<1> QED BY <1>4, <1>5, <1>6, <1>7, <1>8 DEF Inv

\* With a consumer per branch the operators' own invariants say nothing.
LEMMA EachOnly ==
  ASSUME Is("each"), kind' = kind
  PROVE  KeptInv' /\ ZipInv' /\ CombineInv' /\ LatestInv' /\ SampleInv' /\ EqualInv' /\ MergeInv'
BY DEF Is, KeptInv, ZipInv, CombineInv, LatestInv, SampleInv, EqualInv, MergeInv

\* A consumer stops early, or signals its branch.
LEMMA EachInvariant ==
  ASSUME Inv, NEW k \in B, EachLeaves(k) \/ EachSignals(k)
  PROVE  Inv'
<1>1. FanInv /\ StreamInv /\ WorkInv /\ StageInv /\ BothInv /\ DrainOnlyWhenAllLeft
  BY DEF Inv
<1>2. UNCHANGED <<kind, foVars, lat, stage, out, took, ch>> /\ Is("each") /\ kind.in = "each"
  BY DEF EachLeaves, EachSignals, Is
<1>3. UNCHANGED <<fpc, fwhy, todo, read, shut, routed>>
  BY <1>2 DEF foVars
<1>4. FanInv' /\ StreamInv' /\ BothInv'
  BY <1>1, <1>2, <1>3, StreamStill, BothStill DEF FanInv
<1>5. KeptInv' /\ ZipInv' /\ CombineInv' /\ LatestInv' /\ SampleInv' /\ EqualInv' /\ MergeInv'
  BY <1>2, EachOnly
<1>6. /\ WorkInv' /\ refs' \in Int
      /\ refs' = (IF w'[1].val = Idle THEN 1 ELSE 0) + (IF w'[2].val = Idle THEN 1 ELSE 0)
      /\ \A c \in B : w[c].pc = "end" => w'[c].pc = "end"
  <2>1. out \in Seq(Seq(Nat)) /\ lat \in [B -> Nat] /\ refs \in Int
        /\ refs = (IF w[1].val = Idle THEN 1 ELSE 0) + (IF w[2].val = Idle THEN 1 ELSE 0)
    BY <1>1, <1>2 DEF WorkInv, StageInv
  <2>2. CASE EachLeaves(k)
    <3>1. Becomes(k, "end", Idle, "self") /\ w[k].pc = "recv" /\ refs' = refs
      BY <2>2 DEF EachLeaves, Becomes
    <3>2. Legal(k, "end", Idle, "self")
      BY <1>2, EndIsLegal DEF Lockstep
    <3>3. WorkInv' /\ w'[k].val = Idle /\ w'[k].pc = "end" /\ \A c \in B : c # k => w'[c] = w[c]
      BY <1>1, <1>2, <2>1, <3>1, <3>2, LegalMove
    <3>4. w[k].val = Idle
      BY <1>1, <1>2, <3>1 DEF WorkInv
    <3> QED BY <2>1, <3>1, <3>3, <3>4 DEF B
  <2>3. CASE EachSignals(k)
    <3>1. /\ w' = [w EXCEPT ![k].val = <<"signalled">>] /\ refs' = refs - 1 /\ w[k].pc = "end" /\ w[k].val = Idle
      BY <2>3 DEF EachSignals, Gone
    <3>2. w[k] = Worker(w[k].pc, w[k].val, w[k].why) /\ DOMAIN w = B /\ w = [c \in B |-> w[c]] /\ w[k].why \notin {"run", "stop"}
      BY <1>1 DEF WorkInv
    <3>3. /\ w'[k].pc = "end" /\ w'[k].val = <<"signalled">> /\ w'[k].why = w[k].why
          /\ w'[k] = Worker(w'[k].pc, w'[k].val, w'[k].why)
          /\ DOMAIN w' = B /\ w' = [c \in B |-> w'[c]] /\ \A c \in B : c # k => w'[c] = w[c]
      BY <3>1, <3>2 DEF Worker
    <3>4. <<"signalled">> # Idle
      BY DEF Idle
    <3>5. refs' = (IF w'[1].val = Idle THEN 1 ELSE 0) + (IF w'[2].val = Idle THEN 1 ELSE 0)
      BY <2>1, <3>1, <3>3, <3>4 DEF B
    <3>6. ASSUME NEW c \in B
          PROVE  /\ w'[c] = Worker(w'[c].pc, w'[c].val, w'[c].why)
                 /\ w'[c].pc \in {"recv", "end"} /\ w'[c].why \notin {"run", "stop"}
                 /\ w'[c].val \in {Idle, <<"signalled">>}
                 /\ w'[c].pc = "recv" => w'[c].val = Idle
                 /\ w'[c].pc # "end" => w'[c].why = "none"
      <4>1. CASE c = k
        BY <3>2, <3>3, <4>1
      <4>2. CASE c # k
        BY <1>1, <1>2, <3>3, <4>2 DEF WorkInv, Is
      <4> QED BY <4>1, <4>2
    <3>7. WorkInv'
      BY <1>2, <2>1, <3>3, <3>6 DEF WorkInv, Is, Lockstep
    <3> QED BY <2>1, <3>1, <3>3, <3>5, <3>7
  <2> QED BY <2>2, <2>3
<1>7. StageInv'
  BY <1>1, <1>2, <1>6 DEF StageInv, Is, Lockstep
<1>8. DrainOnlyWhenAllLeft'
  BY <1>1, <1>2, <1>3, <1>6 DEF DrainOnlyWhenAllLeft, Awaited, Is, Returned, Gone
<1> QED BY <1>4, <1>5, <1>6, <1>7, <1>8 DEF Inv

LEMMA FanInInvariant ==
  ASSUME Inv, FanInStep
  PROVE  Inv'
<1>1. WorkInv /\ StageInv
  BY DEF Inv
<1>2. CASE MergeStops
  BY <1>2, MergeStopsInvariant
<1>3. CASE MergeReturns
  <2>1. Is("merge") /\ kind.in \notin Lockstep /\ (\A k \in B : Gone(k)) /\ ~Returned
        /\ \E why \in {"ctx", "eof", "drain"} : Return(why)
    BY <1>3 DEF MergeReturns, Is, Lockstep, Returned
  <2> QED BY <2>1, ReturnInvariant DEF Awaited
<1>4. CASE CombineReturns
  <2>1. Is("combineLatest") /\ ~Is("merge") /\ kind.in \notin Lockstep /\ ~Returned
        /\ \E why \in {"err", "ctx", "eof", "drain"} :
             Return(why) /\ (why \notin {"err", "ctx"} => \A k \in B : Gone(k))
    BY <1>4 DEF CombineReturns, Is, Lockstep
  <2>2. \A why : (why \notin {"err", "ctx"} => \A k \in B : Gone(k)) => \A k \in Awaited(why) : Gone(k)
    BY <2>1 DEF Awaited
  <2> QED BY <2>1, <2>2, ReturnInvariant
<1>5. CASE MainReturns
  <2>1. ~Is("merge") /\ ~Returned /\ Gone(MainOf) /\ Return(w[MainOf].why) /\ MainOf \in B
        /\ (kind.in \in Lockstep => MainOf = 1)
    BY <1>5 DEF MainReturns, Is, Lockstep, MainOf, B
  <2>2. w[MainOf].why \notin {"run", "stop"}
    BY <1>1, <2>1 DEF WorkInv
  <2>3. \A k \in Awaited(w[MainOf].why) : Gone(k)
    BY <1>1, <1>5, <2>1 DEF MainReturns, WorkInv, Awaited, Is, Lockstep, MainOf, Gone, B
  <2> QED BY <2>1, <2>2, <2>3, ReturnInvariant
<1>6. CASE EachReturns
  <2>1. Is("each") /\ ~Is("merge") /\ kind.in \notin Lockstep /\ ~Returned /\ Return("eof")
        /\ \A k \in B : w[k].val = <<"signalled">>
    BY <1>6 DEF EachReturns, Is, Lockstep
  <2>2. \A k \in B : Gone(k)
    <3>1. <<"signalled">> # Idle
      BY DEF Idle
    <3>2. \A k \in B : w[k].pc = "recv" => w[k].val = Idle
      BY <1>1, <2>1 DEF WorkInv
    <3>3. \A k \in B : w[k].pc \in {"recv", "end"}
      BY <1>1, <2>1 DEF WorkInv
    <3> QED BY <2>1, <3>1, <3>2, <3>3 DEF Gone
  <2> QED BY <2>1, <2>2, ReturnInvariant DEF Awaited
<1>7. CASE \E k \in B : EachSignals(k)
  BY <1>7, EachInvariant
<1> QED BY <1>2, <1>3, <1>4, <1>5, <1>6, <1>7 DEF FanInStep

LEMMA DiscardInvariant ==
  ASSUME Inv, NEW k \in B, Discard(k)
  PROVE  Inv'
<1>1. /\ FanInv /\ StreamInv /\ WorkInv /\ StageInv /\ KeptInv /\ BothInv
      /\ ZipInv /\ CombineInv /\ LatestInv /\ SampleInv /\ EqualInv /\ MergeInv
      /\ DrainOnlyWhenAllLeft
  BY DEF Inv
<1>2. UNCHANGED <<kind, foVars, fiVars, envVars, refs>> /\ ch[k] # << >> /\ ch' = [ch EXCEPT ![k] = Tail(@)]
      /\ (Is("each") \/ Returned)
  BY DEF Discard, Discarding
<1>3. UNCHANGED <<kind, w, lat, stage, out, took, refs, fpc, fwhy, todo, read, shut, routed, left, ctx>>
  BY <1>2 DEF foVars, fiVars, envVars
<1>4. FanInv' /\ StreamInv' /\ BothInv'
  BY <1>1, <1>2, <1>3, StreamDropped, BothStill DEF FanInv
<1>5. KeptInv'
  <2>1. CASE Is("each")
    BY <1>3, <2>1, EachOnly
  <2>2. CASE Returned
    BY <1>1, <1>2, <1>3, <2>2, KeptStill DEF Returned
  <2> QED BY <1>2, <2>1, <2>2
<1>6. WorkInv'
  BY <1>1, <1>3 DEF WorkInv, Is
<1>7. StageInv'
  BY <1>1, <1>3 DEF StageInv, Is, Returned, Gone
<1>8. ZipInv' /\ CombineInv' /\ LatestInv' /\ SampleInv'
  BY <1>1, <1>3, OperatorsStill
<1>9. EqualInv'
  <2>1. Is("sequenceEqual") => w[1].pc = "end"
    BY <1>1, <1>2 DEF StageInv, Is, Lockstep, Gone
  <2> QED BY <1>1, <1>3, <2>1 DEF EqualInv, Is
<1>10. MergeInv' /\ DrainOnlyWhenAllLeft'
  BY <1>1, <1>3 DEF MergeInv, Count, DrainOnlyWhenAllLeft, Awaited, Is, Returned, Gone
<1> QED BY <1>4, <1>5, <1>6, <1>7, <1>8, <1>9, <1>10 DEF Inv

LEMMA InitInvariant ==
  ASSUME Init
  PROVE  Inv
<1>1. /\ kind \in Kinds /\ fwhy = "none" /\ todo = << >> /\ read = 0 /\ refs = 2 /\ stage = "run" /\ out = << >>
      /\ fpc = (IF kind.out = "sources" THEN "none" ELSE "recv")
      /\ shut = [b \in B |-> FALSE] /\ ch = [b \in B |-> << >>] /\ routed = [b \in B |-> << >>]
      /\ took = [b \in B |-> << >>] /\ lat = [k \in B |-> 0] /\ ~Returned
  BY DEF Init, FanOutInit, Returned
<1>2. w = [k \in B |-> IF k = 2 /\ kind.in \in Lockstep THEN Worker("end", Idle, "none") ELSE Worker("recv", Idle, "none")]
  BY DEF Init
<1>3. /\ DOMAIN w = B /\ w = [k \in B |-> w[k]]
      /\ \A k \in B : /\ w[k] = Worker(w[k].pc, w[k].val, w[k].why)
                      /\ w[k].val = Idle /\ w[k].why = "none"
                      /\ w[k].pc = IF k = 2 /\ kind.in \in Lockstep THEN "end" ELSE "recv"
  BY <1>2 DEF Worker
<1>4. 1 \in B /\ 2 \in B
  BY DEF B
<1>5. FanInv
  BY <1>1 DEF FanInv
<1>6. << >> \in Seq(Nat) /\ << >> \in Seq(Seq(Nat)) /\ Len(<< >>) = 0
  OBVIOUS
<1>7. \A b \in B : ch[b] = << >> /\ took[b] = << >> /\ routed[b] = << >> /\ lat[b] = 0 /\ Len(took[b]) = 0
                   /\ Len(ch[b]) = 0 /\ Len(routed[b]) = 0
  BY <1>1, <1>6
<1>8. StreamInv
  BY <1>1, <1>6, <1>7 DEF StreamInv, Branch
<1>9. WorkInv
  <2>1. Idle \in Seq(Nat) /\ out \in Seq(Seq(Nat)) /\ lat \in [B -> Nat]
    BY <1>1, <1>6 DEF Idle
  <2>2. ASSUME NEW k \in B
        PROVE  /\ w[k].pc \in {"recv", "end"} /\ w[k].why = "none" /\ w[k].val = Idle
               /\ w[k] = Worker(w[k].pc, w[k].val, w[k].why)
    BY <1>3
  <2>3. kind.in \in Lockstep => w[2].pc = "end"
    BY <1>3, <1>4
  <2> QED BY <1>3, <1>4, <2>1, <2>2, <2>3 DEF WorkInv
<1>10. StageInv
  BY <1>1, <1>3, <1>4 DEF StageInv
<1>11. KeptInv
  <2> SUFFICES ASSUME NEW b \in B PROVE Taken(took[b], routed[b]) /\ Held(took[b], ch[b], routed[b])
    BY DEF KeptInv
  <2>1. Len(took[b]) = 0 /\ Len(ch[b]) = 0 /\ Len(routed[b]) = 0
    BY <1>7
  <2>2. Taken(took[b], routed[b])
    BY <2>1 DEF Taken
  <2>3. Held(took[b], ch[b], routed[b])
    BY <2>1 DEF Held
  <2> QED BY <2>2, <2>3
<1>12. BothInv
  BY <1>1, <1>7 DEF BothInv, Pending
<1>13. ZipInv
  BY <1>1, <1>3, <1>4, <1>6, <1>7 DEF ZipInv
<1>14. CombineInv
  BY <1>1, <1>3, <1>4, <1>6, <1>7 DEF CombineInv
<1>15. LatestInv /\ SampleInv
  BY <1>1, <1>3, <1>4, <1>6, <1>7 DEF LatestInv, SampleInv
<1>16. EqualInv
  BY <1>1, <1>3, <1>4, <1>6, <1>7 DEF EqualInv, Is, Lockstep
<1>17. MergeInv
  <2>1. \A k : Count(k) = 0
    <3>1. \A k : Picked(out, k, Len(out)) = {}
      BY <1>1, <1>6 DEF Picked
    <3> QED BY <3>1, FS_EmptySet DEF Count, Nth
  <2> QED BY <1>1, <1>3, <1>6, <1>7, <2>1 DEF MergeInv, Is, Lockstep
<1>18. DrainOnlyWhenAllLeft
  BY <1>1 DEF DrainOnlyWhenAllLeft, Returned
<1> QED BY <1>5, <1>8, <1>9, <1>10, <1>11, <1>12, <1>13, <1>14, <1>15, <1>16, <1>17, <1>18 DEF Inv

LEMMA NextInvariant ==
  ASSUME Inv, [Next]_vars
  PROVE  Inv'
<1>1. CASE ~panic /\ FanOutStep
  BY <1>1, FanInvariant
<1>2. CASE FanInStep
  BY <1>2, FanInInvariant
<1>3. CASE Consume \/ Leave \/ Cancel \/ Halted \/ UNCHANGED vars
  <2>1. UNCHANGED <<kind, foVars, fiVars, ch, refs>> /\ (left => left') /\ (ctx => ctx')
    BY <1>3 DEF Consume, Leave, Cancel, Halted, vars, envVars
  <2> QED BY <2>1, OutsideInvariant
<1>4. ASSUME NEW k \in B, Work(k) \/ Fails(k) \/ Discard(k) \/ EachLeaves(k)
      PROVE  Inv'
  BY <1>4, WorkInvariant, DiscardInvariant, EachInvariant
<1> QED BY <1>1, <1>2, <1>3, <1>4 DEF Next

LEMMA InvAlways == Spec => []Inv
<1>1. Init => Inv
  BY InitInvariant
<1>2. Inv /\ [Next]_vars => Inv'
  BY NextInvariant
<1> QED BY <1>1, <1>2, PTL DEF Spec

\* A fan-out stops early only after the stage that joins its branches has
\* returned, or each of its consumers has left (the counter behind the drain
\* signal in pipeline.go); and a stage that joins them returns, and closes its
\* output, only after the readers it waits for have ended.
THEOREM StopsWhenAllLeft == Spec => []DrainOnlyWhenAllLeft
<1>1. Inv => DrainOnlyWhenAllLeft
  BY DEF Inv
<1> QED BY <1>1, InvAlways, PTL

-----------------------------------------------------------------------------
(* What the fan-ins promise follows from the invariant. *)

LEMMA TakenIsPrefix ==
  ASSUME NEW t \in Seq(Nat), NEW r \in Seq(Nat), Taken(t, r)
  PROVE  IsPrefix(t, r)
<1>1. Len(t) \in Nat /\ Len(r) \in Nat /\ Len(t) <= Len(r) /\ \A i \in 1..Len(t) : t[i] = r[i]
  BY DEF Taken
<1>2. SubSeq(t, 1, Len(t)) = [i \in 1..Len(t) |-> t[i]] /\ SubSeq(r, 1, Len(t)) = [i \in 1..Len(t) |-> r[i]]
  BY <1>1
<1>3. [i \in 1..Len(t) |-> t[i]] = [i \in 1..Len(t) |-> r[i]]
  BY <1>1
<1> QED BY <1>1, <1>2, <1>3 DEF IsPrefix

LEMMA MinIs ==
  ASSUME NEW a \in Nat, NEW b \in Nat, b <= a
  PROVE  Min({a, b}) = b
<1>1. \A x \in {a, b} : (\A y \in {a, b} : x <= y) => x = b
  OBVIOUS
<1>2. b \in {a, b} /\ \A y \in {a, b} : b <= y
  OBVIOUS
<1>3. Min({a, b}) \in {a, b} /\ \A y \in {a, b} : Min({a, b}) <= y
  BY <1>2 DEF Min
<1> QED BY <1>1, <1>3

LEMMA MergePromise ==
  ASSUME Inv
  PROVE  MergedRight
<1> SUFFICES ASSUME Is("merge") PROVE MergedRight
  BY DEF MergedRight
<1>1. FanInv /\ StreamInv /\ WorkInv /\ KeptInv /\ MergeInv /\ kind.in = "merge"
  BY DEF Inv, Is
<1>2. \A k, n : Cardinality(FromBranch(k, n)) = Nth(out, k, n)
  BY DEF FromBranch, Picked, Nth
<1>3. DOMAIN out = 1..Len(out)
  BY <1>1 DEF WorkInv
<1>4. \A i \in 1..Len(out) : out[i][2] = took[out[i][1]][Nth(out, out[i][1], i)]
  BY <1>1 DEF MergeInv
<1>5. \A k \in B : IsPrefix(took[k], routed[k]) /\ Nth(out, k, Len(out)) <= Len(took[k])
  <2> SUFFICES ASSUME NEW k \in B PROVE IsPrefix(took[k], routed[k]) /\ Nth(out, k, Len(out)) <= Len(took[k])
    OBVIOUS
  <2>1. took[k] \in Seq(Nat) /\ routed[k] \in Seq(Nat) /\ Taken(took[k], routed[k])
    BY <1>1, HighType DEF KeptInv
  <2>2. Nth(out, k, Len(out)) <= Len(took[k])
    BY <1>1 DEF MergeInv, Count
  <2> QED BY <2>1, <2>2, TakenIsPrefix
<1>6. Whole /\ Returned => \A k \in B : Nth(out, k, Len(out)) = Len(routed[k])
  BY <1>1 DEF Whole, MergeInv, Count
<1> QED BY <1>2, <1>3, <1>4, <1>5, <1>6 DEF MergedRight

LEMMA ZipPromise ==
  ASSUME Inv
  PROVE  ZippedRight
<1> SUFFICES ASSUME Is("zip") PROVE ZippedRight
  BY DEF ZippedRight
<1>1. FanInv /\ StreamInv /\ WorkInv /\ StageInv /\ KeptInv /\ BothInv /\ ZipInv /\ kind.in = "zip"
  BY DEF Inv, Is
<1>2. DOMAIN out = 1..Len(out) /\ Len(out) \in Nat /\ 1 \in B /\ 2 \in B
  BY <1>1 DEF WorkInv, B
<1>3. /\ \A i \in 1..Len(out) : out[i] = <<took[1][i], took[2][i]>>
      /\ Len(out) <= Len(took[2]) /\ Len(took[2]) <= Len(took[1])
      /\ Len(took[1]) \in Nat /\ Len(took[2]) \in Nat
  BY <1>1, <1>2 DEF ZipInv, StreamInv
<1>4. kind.out \in Both => \A i \in 1..Len(out) : out[i] = <<i, i>>
  <2> SUFFICES ASSUME kind.out \in Both, NEW i \in 1..Len(out) PROVE out[i] = <<i, i>>
    OBVIOUS
  <2>1. i \in 1..Len(took[1]) /\ i \in 1..Len(took[2])
    BY <1>2, <1>3
  <2>2. ASSUME NEW b \in B, i \in 1..Len(took[b]) PROVE took[b][i] = i
    <3>1. Taken(took[b], routed[b]) /\ \A j \in 1..Len(routed[b]) : routed[b][j] = j
      BY <1>1 DEF KeptInv, BothInv
    <3>2. took[b] \in Seq(Nat) /\ routed[b] \in Seq(Nat)
      BY <1>1, HighType
    <3>3. i \in 1..Len(routed[b]) /\ took[b][i] = routed[b][i]
      BY <2>2, <3>1, <3>2 DEF Taken
    <3> QED BY <3>1, <3>3
  <2>3. took[1][i] = i /\ took[2][i] = i
    BY <1>2, <2>1, <2>2
  <2> QED BY <1>3, <2>3
<1>5. stage = "eof" => Len(out) = Min({Len(took[1]), Len(took[2])})
  <2> SUFFICES ASSUME stage = "eof" PROVE Len(out) = Min({Len(took[1]), Len(took[2])})
    OBVIOUS
  <2>1. w[1].why = "eof"
    BY <1>1 DEF StageInv, Returned, Lockstep
  <2>2. Len(took[2]) = Len(out)
    BY <1>1, <2>1 DEF ZipInv
  <2> QED BY <1>3, <2>2, MinIs
<1> QED BY <1>2, <1>3, <1>4, <1>5 DEF ZippedRight

LEMMA CombinePromise ==
  ASSUME Inv
  PROVE  CombinedRight
<1>1. DOMAIN out = 1..Len(out) /\ CombineInv
  BY DEF Inv, WorkInv
<1> QED BY <1>1 DEF CombineInv, CombinedRight, Contains

LEMMA ColumnIs ==
  ASSUME WorkInv, NEW c
  PROVE  DOMAIN Column(c) = 1..Len(out) /\ \A i \in 1..Len(out) : Column(c)[i] = out[i][c]
BY DEF WorkInv, Column

LEMMA AllIn ==
  ASSUME WorkInv, NEW c, NEW t \in Seq(Nat), \A i \in 1..Len(out) : In(out[i][c], t)
  PROVE  ToSet(Column(c)) \subseteq ToSet(t)
<1>1. DOMAIN Column(c) = 1..Len(out) /\ \A i \in 1..Len(out) : Column(c)[i] = out[i][c]
  BY ColumnIs
<1>2. DOMAIN t = 1..Len(t)
  OBVIOUS
<1> SUFFICES ASSUME NEW x \in ToSet(Column(c)) PROVE x \in ToSet(t)
  OBVIOUS
<1>3. PICK i \in 1..Len(out) : x = out[i][c]
  BY <1>1 DEF ToSet
<1>4. PICK j \in 1..Len(t) : t[j] = x
  BY <1>3 DEF In
<1> QED BY <1>2, <1>4 DEF ToSet

LEMMA LatestPromise ==
  ASSUME Inv
  PROVE  LatestRight
<1> SUFFICES ASSUME Is("latestFrom") PROVE LatestRight
  BY DEF LatestRight
<1>1. WorkInv /\ LatestInv /\ took[2] \in Seq(Nat)
  BY HighType DEF Inv, B
<1>2. /\ \A i \in 1..Len(out) : In(out[i][2], took[2])
      /\ \A i, j \in 1..Len(out) : i < j => out[i][1] < out[j][1] /\ out[i][2] <= out[j][2]
  BY <1>1 DEF LatestInv
<1>3. Ordered(Column(1)) /\ Rising(Column(2))
  <2>1. \A i, j \in 1..Len(out) : i < j => Column(1)[i] < Column(1)[j] /\ Column(2)[i] <= Column(2)[j]
    BY <1>1, <1>2, ColumnIs
  <2>2. DOMAIN Column(1) = 1..Len(out) /\ DOMAIN Column(2) = 1..Len(out)
    BY <1>1, ColumnIs
  <2> QED BY <2>1, <2>2 DEF Ordered, Rising
<1>4. ToSet(Column(2)) \subseteq ToSet(took[2])
  BY <1>1, <1>2, AllIn
<1> QED BY <1>3, <1>4 DEF LatestRight

LEMMA SamplePromise ==
  ASSUME Inv
  PROVE  SampledRight
<1> SUFFICES ASSUME Is("sampleWith") PROVE SampledRight
  BY DEF SampledRight
<1>1. WorkInv /\ SampleInv /\ took[1] \in Seq(Nat)
  BY HighType DEF Inv, B
<1>2. /\ \A i \in 1..Len(out) : In(out[i][1], took[1])
      /\ \A i, j \in 1..Len(out) : i < j => out[i][1] < out[j][1]
      /\ Len(out) <= Len(took[2])
  BY <1>1 DEF SampleInv
<1>3. Ordered(Column(1))
  BY <1>1, <1>2, ColumnIs DEF Ordered
<1>4. ToSet(Column(1)) \subseteq ToSet(took[1])
  BY <1>1, <1>2, AllIn
<1> QED BY <1>2, <1>3, <1>4 DEF SampledRight

LEMMA EqualPromise ==
  ASSUME Inv
  PROVE  ComparedRight
<1> SUFFICES ASSUME Is("sequenceEqual") PROVE ComparedRight
  BY DEF ComparedRight
<1>1. StageInv /\ EqualInv /\ kind.in \in Lockstep /\ Len(routed[1]) \in Nat /\ Len(routed[2]) \in Nat
  BY HighType DEF Inv, Is, Lockstep, B
<1>2. stage \in {"eof", "differ"} => stage = w[1].why
  BY <1>1 DEF StageInv, Returned
<1>3. w[1].why = "eof" => routed[1] = routed[2]
  BY <1>1 DEF EqualInv
<1>4. w[1].why = "differ" => routed[1] # routed[2]
  <2> SUFFICES ASSUME w[1].why = "differ", routed[1] = routed[2] PROVE FALSE
    OBVIOUS
  <2>1. Len(routed[1]) < Len(routed[2]) \/ Len(routed[2]) < Len(routed[1])
    BY <1>1 DEF EqualInv
  <2> QED BY <1>1, <2>1
<1> QED BY <1>2, <1>3, <1>4 DEF ComparedRight

\* Whatever the fan-out before them, the length of the stream, the buffers and
\* the interleaving: Merge keeps each branch's order and sends everything, Zip
\* pairs by position, CombineLatest loses no update and repeats no pair,
\* LatestFrom never goes back, SampleWith repeats nothing, and SequenceEqual is
\* right (fan_out.go, fan_combine.go, collect.go).
THEOREM JoinsRight == Spec => []JoinedRight
<1>1. Inv => JoinedRight
  BY MergePromise, ZipPromise, CombinePromise, LatestPromise, SamplePromise, EqualPromise DEF JoinedRight
<1> QED BY <1>1, InvAlways, PTL

-----------------------------------------------------------------------------
(* Where the items of a stream go. *)

\* Item i has been sent into branch b, or is about to be.
Has(b, i) == (\E n \in 1..Len(routed[b]) : routed[b][n] = i) \/ (Pending(b) /\ i = read)
Placed(i) ==
  IF kind.out = "mapResult" THEN Has(1, i) <=> ~Has(2, i)
  ELSE \A b \in B : Has(b, i) <=> Belongs(b, i)

RouteInv ==
  /\ fpc # "end" => fwhy = "none"
  /\ kind.out # "sources" =>
       /\ \A b \in B : \A n \in 1..Len(routed[b]) : routed[b][n] \in 1..read /\ (Pending(b) => routed[b][n] < read)
       /\ \A b \in B : \A m, n \in 1..Len(routed[b]) : m < n => routed[b][m] < routed[b][n]
       /\ fwhy # "ctx" => \A i \in 1..read : Placed(i)

\* The sends for an item go into the branches it belongs to.
LEMMA RouteExact ==
  ASSUME NEW i \in Nat \ {0}, kind \in Kinds, kind.out # "sources", NEW r \in Routes(i)
  PROVE  \/ r = ToAll(i) /\ kind.out # "mapResult" /\ \A b \in B : Belongs(b, i)
         \/ \E b \in B : r = To(b, i) /\ (kind.out # "mapResult" => \A c \in B : Belongs(c, i) <=> c = b)
<1>1. CASE kind.out \in Both
  BY <1>1 DEF Routes, Both, Broadcast, Share, Unzip, Belongs
<1>2. CASE kind.out = "balance"
  <2> DEFINE b == 1 + ((i - 1) % 2)
  <2>1. b \in B
    BY DEF B
  <2>2. \A c \in B : i % 2 = c % 2 <=> c = b
    BY DEF B
  <2>3. r = To(b, i) /\ \A c \in B : Belongs(c, i) <=> i % 2 = c % 2
    BY <1>2 DEF Routes, Balance, Both, Belongs
  <2> QED BY <2>1, <2>2, <2>3
<1>3. CASE kind.out = "keyedBalance"
  <2>1. Shard(i) \in B
    BY DEF B, Shard
  <2> QED BY <1>3, <2>1 DEF Routes, KeyedBalance, Both, Belongs
<1>4. CASE kind.out = "partition"
  <2>1. PartitionOf(i) \in B
    BY DEF B, PartitionOf
  <2> QED BY <1>4, <2>1 DEF Routes, Partition, Both, Belongs
<1>5. CASE kind.out = "mapResult"
  BY <1>5 DEF Routes, MapResult, Both
<1> QED BY <1>1, <1>2, <1>3, <1>4, <1>5, KindType DEF Outs, Both

\* Which branches wait for an item once its sends are known.
LEMMA PendingIs ==
  ASSUME fpc = "send"
  PROVE  /\ \A b \in B : todo = To(b, read) => \A c \in B : Pending(c) <=> c = b
         /\ todo = ToAll(read) => \A c \in B : Pending(c)
<1>1. ASSUME NEW b \in B, todo = To(b, read) PROVE \A c \in B : Pending(c) <=> c = b
  BY <1>1 DEF To, Pending
<1>2. ASSUME todo = ToAll(read) PROVE \A c \in B : Pending(c)
  <2>1. Len(todo) = 2 /\ todo[1] = <<1, read>> /\ todo[2] = <<2, read>>
    BY <1>2 DEF ToAll
  <2>2. todo[1][1] = 1 /\ todo[2][1] = 2
    BY <2>1
  <2> QED BY <2>1, <2>2 DEF Pending, B
<1> QED BY <1>1, <1>2

\* A step that leaves the fan-out alone.
LEMMA RouteStill ==
  ASSUME RouteInv, UNCHANGED <<kind, fpc, fwhy, todo, read, routed>>
  PROVE  RouteInv'
<1>1. \A b \in B : Pending(b)' <=> Pending(b)
  BY DEF Pending
<1>2. \A b \in B : \A i : Has(b, i)' <=> Has(b, i)
  BY <1>1 DEF Has
<1>3. \A i : Placed(i)' <=> Placed(i)
  <2>1. \A b, i : Belongs(b, i)' = Belongs(b, i)
    BY DEF Belongs
  <2>2. 1 \in B /\ 2 \in B
    BY DEF B
  <2> QED BY <1>2, <2>1, <2>2 DEF Placed
<1> QED BY <1>1, <1>3 DEF RouteInv

\* Every step of the fan-out gives an item to the branches it belongs to.
LEMMA RouteStep ==
  ASSUME FanInv, StreamInv, RouteInv, FanOutStep
  PROVE  RouteInv'
<1>0. /\ kind' = kind /\ kind \in Kinds /\ read \in Nat /\ \A b \in B : routed[b] \in Seq(Nat)
      /\ 1 \in B /\ 2 \in B
  BY FanFacts DEF FanInv, StreamInv, B
<1>1. CASE kind.out = "sources"
  <2>1. fpc = "none"
    BY <1>1 DEF FanInv
  <2>2. fpc' = fpc /\ fwhy' = fwhy
    BY <2>1 DEF FanOutStep, FanRecv, FanSend, FanEof, FanCtxDone, FanDrained, FanReturn, SourceFeeds, SourceEnds
  <2> QED BY <1>0, <1>1, <2>1, <2>2 DEF RouteInv
<1>2. CASE kind.out # "sources" /\ FanRecv
  <2>1. /\ fpc = "recv" /\ fpc' = "send" /\ read' = read + 1 /\ fwhy' = fwhy /\ fwhy = "none" /\ routed' = routed
        /\ todo' \in Routes(read + 1)
    BY <1>2 DEF FanRecv, RouteInv
  <2>2. \A b \in B : ~Pending(b)
    BY <2>1 DEF Pending
  <2>3. \A b \in B : \A n \in 1..Len(routed[b]) : routed[b][n] \in 1..read
    BY <1>2 DEF RouteInv
  <2>4. \A i \in 1..read : (\A b \in B : Has(b, i)' <=> Has(b, i)) /\ Placed(i)' = Placed(i)
    <3>1. \A b \in B : \A i \in 1..read : Has(b, i)' <=> Has(b, i)
      BY <1>0, <2>1, <2>2 DEF Has
    <3> QED BY <1>0, <3>1 DEF Placed, Belongs
  <2>10. PICK x \in Nat \ {0} : x = read + 1
    BY <1>0
  <2>5. Placed(x)'
    <3>0. \A b \in B : \A n \in 1..Len(routed[b]) : routed[b][n] # x
      BY <1>0, <2>3, <2>10
    <3>1. \A b \in B : Has(b, x)' <=> Pending(b)'
      BY <2>1, <2>10, <3>0 DEF Has
    <3>2. /\ \A b \in B : todo' = To(b, x) => \A c \in B : Pending(c)' <=> c = b
          /\ todo' = ToAll(x) => \A c \in B : Pending(c)'
      <4>1. /\ \A b \in B : todo' = To(b, read') => \A c \in B : Pending(c)' <=> c = b
            /\ todo' = ToAll(read') => \A c \in B : Pending(c)'
        <5>1. ASSUME NEW b \in B, todo' = To(b, read') PROVE \A c \in B : Pending(c)' <=> c = b
          BY <2>1, <5>1 DEF To, Pending
        <5>2. ASSUME todo' = ToAll(read') PROVE \A c \in B : Pending(c)'
          <6>1. Len(todo') = 2 /\ todo'[1] = <<1, read'>> /\ todo'[2] = <<2, read'>>
            BY <5>2 DEF ToAll
          <6>2. todo'[1][1] = 1 /\ todo'[2][1] = 2
            BY <6>1
          <6> QED BY <2>1, <6>1, <6>2 DEF Pending, B
        <5> QED BY <5>1, <5>2
      <4> QED BY <2>1, <2>10, <4>1
    <3>3. todo' \in Routes(x)
      BY <2>1, <2>10
    <3>4. \/ todo' = ToAll(x) /\ kind.out # "mapResult" /\ \A b \in B : Belongs(b, x)
          \/ \E b \in B : todo' = To(b, x) /\ (kind.out # "mapResult" => \A c \in B : Belongs(c, x) <=> c = b)
      BY <1>0, <1>2, <3>3, RouteExact
    <3>5. \A b \in B : Belongs(b, x)' <=> Belongs(b, x)
      BY <1>0 DEF Belongs
    <3>6. CASE todo' = ToAll(x) /\ kind.out # "mapResult" /\ \A b \in B : Belongs(b, x)
      BY <1>0, <3>1, <3>2, <3>5, <3>6 DEF Placed
    <3>7. CASE \E b \in B : todo' = To(b, x) /\ (kind.out # "mapResult" => \A c \in B : Belongs(c, x) <=> c = b)
      <4>1. PICK b \in B : todo' = To(b, x) /\ (kind.out # "mapResult" => \A c \in B : Belongs(c, x) <=> c = b)
        BY <3>7
      <4>2. \A c \in B : Has(c, x)' <=> c = b
        BY <3>1, <3>2, <4>1
      <4>3. CASE kind.out = "mapResult"
        <5>1. Has(1, x)' <=> ~Has(2, x)'
          BY <1>0, <4>2 DEF B
        <5> QED BY <1>0, <4>3, <5>1 DEF Placed
      <4> QED BY <1>0, <3>5, <4>1, <4>2, <4>3 DEF Placed
    <3> QED BY <3>4, <3>6, <3>7
  <2>6. \A b \in B : \A n \in 1..Len(routed'[b]) :
           routed'[b][n] \in 1..read' /\ routed'[b][n] < read'
    BY <1>0, <2>1, <2>3
  <2>7. \A i \in 1..read' : i \in 1..read \/ i = x
    BY <1>0, <2>1, <2>10
  <2>8. \A i \in 1..read : Placed(i)
    BY <1>2, <2>1 DEF RouteInv
  <2>9. \A i \in 1..read' : Placed(i)'
    BY <2>4, <2>5, <2>7, <2>8
  <2> QED BY <1>0, <1>2, <2>1, <2>6, <2>9 DEF RouteInv
<1>3. CASE kind.out # "sources" /\ FanSend
  <2>0. PICK b \in B : b = todo[1][1]
    BY <1>3, TodoShape DEF FanSend
  <2> DEFINE s == routed[b]
  <2>1. /\ fpc = "send" /\ todo' = Tail(todo) /\ fpc' = (IF Len(todo) = 1 THEN "recv" ELSE "send")
        /\ read' = read /\ fwhy' = fwhy /\ fwhy = "none"
        /\ routed' = [routed EXCEPT ![b] = Append(@, todo[1][2])]
    BY <1>3, <2>0 DEF FanSend, RouteInv
  <2>2. b \in B /\ todo[1][2] = read /\ read \in Nat \ {0} /\ Pending(b)
    BY <2>0, <2>1, TodoShape
  <2>3. routed'[b] = Append(s, read) /\ \A c \in B \ {b} : routed'[c] = routed[c]
    BY <1>0, <2>1, <2>2 DEF StreamInv
  <2>4. /\ Len(routed'[b]) = Len(s) + 1 /\ Len(s) \in Nat
        /\ \A n \in 1..Len(s) : routed'[b][n] = s[n]
        /\ routed'[b][Len(s) + 1] = read
    BY <1>0, <2>2, <2>3, AppendFacts
  \* What still waits: the other branch, if it waited before.
  <2>5. ~Pending(b)' /\ \A c \in B \ {b} : Pending(c)' <=> Pending(c)
    <3>1. CASE Len(todo) = 1
      BY <2>0, <2>1, <2>2, <3>1, TodoShape DEF Pending
    <3>2. CASE Len(todo) = 2
      <4>1. todo' = To(2, read) /\ b = 1 /\ fpc' = "send" /\ \A c \in B : Pending(c)
        BY <2>0, <2>1, <3>2, TodoShape
      <4>2. \A c \in B : Pending(c)' <=> c = 2
        <5>1. Len(todo') = 1 /\ todo'[1][1] = 2
          BY <4>1 DEF To
        <5> QED BY <4>1, <5>1 DEF Pending
      <4> QED BY <4>1, <4>2 DEF B
    <3> QED BY <2>1, <3>1, <3>2, TodoShape
  <2>6. \A c \in B, i \in 1..read : Has(c, i)' <=> Has(c, i)
    <3>1. ASSUME NEW i \in 1..read PROVE Has(b, i)' <=> Has(b, i)
      <4>1. Has(b, i)' <=> \E n \in 1..Len(routed'[b]) : routed'[b][n] = i
        BY <2>5 DEF Has
      <4>2. Has(b, i) <=> (\E n \in 1..Len(s) : s[n] = i) \/ i = read
        BY <2>2 DEF Has
      <4>3. \A n \in 1..Len(routed'[b]) : n \in 1..Len(s) \/ n = Len(s) + 1
        BY <2>4
      <4>4. 1..Len(s) \subseteq 1..Len(routed'[b]) /\ Len(s) + 1 \in 1..Len(routed'[b])
        BY <2>4
      <4> QED BY <2>4, <4>1, <4>2, <4>3, <4>4
    <3>2. ASSUME NEW c \in B \ {b}, NEW i \in 1..read PROVE Has(c, i)' <=> Has(c, i)
      <4>1. routed'[c] = routed[c] /\ read' = read /\ (Pending(c)' <=> Pending(c))
        BY <2>1, <2>3, <2>5
      <4> QED BY <4>1 DEF Has
    <3> QED
      BY <3>1, <3>2
  <2>7. \A i \in 1..read : Placed(i)'
    <3>1. \A i \in 1..read : Placed(i)
      BY <1>3, <2>1 DEF RouteInv
    <3> QED BY <1>0, <2>6, <3>1 DEF Placed, Belongs
  <2>8. ASSUME NEW c \in B
        PROVE  /\ \A n \in 1..Len(routed'[c]) : routed'[c][n] \in 1..read /\ (Pending(c)' => routed'[c][n] < read)
               /\ \A m, n \in 1..Len(routed'[c]) : m < n => routed'[c][m] < routed'[c][n]
    <3>1. /\ \A n \in 1..Len(routed[c]) : routed[c][n] \in 1..read /\ (Pending(c) => routed[c][n] < read)
          /\ \A m, n \in 1..Len(routed[c]) : m < n => routed[c][m] < routed[c][n]
      BY <1>3 DEF RouteInv
    <3>2. CASE c # b
      BY <2>3, <2>5, <3>1, <3>2
    <3>3. CASE c = b
      <4>1. \A n \in 1..Len(s) : s[n] \in 1..read /\ s[n] < read
        BY <2>2, <3>1, <3>3
      <4>2. \A m, n \in 1..Len(s) : m < n => s[m] < s[n]
        BY <3>1, <3>3
      <4>3. \A n \in 1..Len(routed'[b]) : n \in 1..Len(s) \/ n = Len(s) + 1
        BY <2>4
      <4>4. \A n \in 1..Len(routed'[b]) : routed'[b][n] \in 1..read
        BY <2>2, <2>4, <4>1, <4>3
      <4>5. \A m, n \in 1..Len(routed'[b]) : m < n => routed'[b][m] < routed'[b][n]
        <5> SUFFICES ASSUME NEW m \in 1..Len(routed'[b]), NEW n \in 1..Len(routed'[b]), m < n
                     PROVE  routed'[b][m] < routed'[b][n]
          OBVIOUS
        <5>1. m \in 1..Len(s)
          BY <2>4
        <5>2. CASE n \in 1..Len(s)
          BY <2>4, <4>2, <5>1, <5>2
        <5>3. CASE n = Len(s) + 1
          BY <2>4, <4>1, <5>1, <5>3
        <5> QED BY <4>3, <5>2, <5>3
      <4>6. ~Pending(c)'
        BY <2>5, <3>3
      <4> HIDE DEF s
      <4> QED BY <3>3, <4>4, <4>5, <4>6
    <3> QED BY <3>2, <3>3
  <2> QED BY <1>0, <2>1, <2>7, <2>8 DEF RouteInv
<1>4. CASE kind.out # "sources" /\ (FanEof \/ FanDrained)
  <2>1. /\ fpc = "recv" /\ fpc' = "end" /\ fwhy = "none" /\ UNCHANGED <<kind, read, routed>>
    BY <1>4 DEF FanEof, FanDrained, FanReturn, RouteInv
  <2>2. \A b \in B : ~Pending(b) /\ ~Pending(b)'
    BY <2>1 DEF Pending
  <2>3. \A b \in B, i \in 1..read : Has(b, i)' <=> Has(b, i)
    BY <2>1, <2>2 DEF Has
  <2>4. \A i \in 1..read : Placed(i)'
    <3>1. \A i \in 1..read : Placed(i)
      BY <1>4, <2>1 DEF RouteInv
    <3> QED BY <1>0, <2>3, <3>1 DEF Placed, Belongs
  <2> QED BY <1>4, <2>1, <2>2, <2>4 DEF RouteInv
<1>5. CASE kind.out # "sources" /\ FanCtxDone
  <2>1. fpc' = "end" /\ fwhy' = "ctx" /\ UNCHANGED <<kind, read, routed>>
    BY <1>5 DEF FanCtxDone, FanReturn
  <2> QED BY <1>5, <2>1 DEF RouteInv, Pending
<1>6. CASE kind.out # "sources" /\ \E b \in B : SourceFeeds(b) \/ SourceEnds(b)
  BY <1>6 DEF SourceFeeds, SourceEnds, FanInv
<1> QED BY <1>1, <1>2, <1>3, <1>4, <1>5, <1>6 DEF FanOutStep

\* What the invariant says of the sends and of the items on their way.
LEMMA RoutePromise ==
  ASSUME FanInv, StreamInv, RouteInv
  PROVE  RoutedRight
<1> SUFFICES ASSUME fwhy # "ctx", kind.out # "sources" PROVE RoutedRight
  BY DEF RoutedRight
<1>1. \A b \in B : routed[b] \in Seq(Nat) /\ DOMAIN routed[b] = 1..Len(routed[b])
  BY DEF StreamInv
<1>2. \A b \in B : Underway(b) = IF Pending(b) THEN {read} ELSE {}
  <2>1. CASE fpc # "send"
    <3>1. todo = << >> /\ DOMAIN todo = {}
      BY <2>1 DEF FanInv
    <3> QED BY <2>1, <3>1 DEF Underway, Pending
  <2>2. CASE fpc = "send"
    <3>1. CASE \E b \in B : todo = To(b, read)
      <4>1. PICK b \in B : todo = To(b, read)
        BY <3>1
      <4>2. DOMAIN todo = {1} /\ todo[1] = <<b, read>> /\ todo[1][1] = b /\ todo[1][2] = read
        BY <4>1 DEF To
      <4>3. \A c \in B : Pending(c) <=> c = b
        BY <2>2, <4>1, PendingIs
      <4> QED BY <4>2, <4>3 DEF Underway
    <3>2. CASE todo = ToAll(read)
      <4>1. DOMAIN todo = {1, 2} /\ todo[1] = <<1, read>> /\ todo[2] = <<2, read>>
        BY <3>2 DEF ToAll
      <4>2. todo[1][1] = 1 /\ todo[2][1] = 2 /\ todo[1][2] = read /\ todo[2][2] = read
        BY <4>1
      <4>3. \A c \in B : Pending(c)
        BY <2>2, <3>2, PendingIs
      <4> QED BY <4>1, <4>2, <4>3 DEF Underway, B
    <3> QED BY <2>2, <3>1, <3>2 DEF FanInv
  <2> QED BY <2>1, <2>2
<1>3. \A b \in B : Ordered(routed[b]) /\ \A i \in ToSet(routed[b]), j \in Underway(b) : i < j
  BY <1>1, <1>2 DEF RouteInv, Ordered, ToSet
<1>4. \A b \in B : \A i : i \in Given(b) <=> (i \in 1..read /\ Has(b, i))
  <2>1. \A b \in B : \A i : i \in Given(b) <=> Has(b, i)
    BY <1>1, <1>2 DEF Given, Has, ToSet
  <2>2. \A b \in B : \A i : Has(b, i) => i \in 1..read
    <3>1. \A b \in B : Pending(b) => read \in 1..read
      BY DEF Pending, FanInv
    <3> QED BY <3>1 DEF Has, RouteInv
  <2> QED BY <2>1, <2>2
<1>5. \A i \in 1..read : Placed(i)
  BY DEF RouteInv
<1>6. CASE kind.out = "mapResult"
  <2>1. 1 \in B /\ 2 \in B
    BY DEF B
  <2>2. \A i \in 1..read : Has(1, i) <=> ~Has(2, i)
    BY <1>5, <1>6 DEF Placed
  <2>3. Given(1) \cup Given(2) = 1..read /\ Given(1) \cap Given(2) = {}
    BY <1>4, <2>1, <2>2
  <2> QED BY <1>3, <1>6, <2>3 DEF RoutedRight
<1>7. CASE kind.out # "mapResult"
  <2>1. \A b \in B : Given(b) = {i \in 1..read : Belongs(b, i)}
    BY <1>4, <1>5, <1>7 DEF Placed
  <2> QED BY <1>3, <1>7, <2>1 DEF RoutedRight
<1> QED BY <1>6, <1>7

\* Broadcast, Share and Unzip give every item to both branches, Balance,
\* KeyedBalance, Partition and MapResult to exactly one, in the order of the
\* stream and without leaving one out (fan_out.go), whoever leaves and whatever
\* the buffers hold.
THEOREM RoutesRight == Spec => []RoutedRight
<1>1. Init => RouteInv
  <2> SUFFICES ASSUME Init PROVE RouteInv
    OBVIOUS
  <2>1. fwhy = "none" /\ read = 0 /\ fpc # "send" /\ routed = [b \in B |-> << >>]
    BY DEF Init, FanOutInit
  <2>2. \A b \in B : 1..Len(routed[b]) = {} /\ ~Pending(b)
    BY <2>1 DEF Pending
  <2>3. 1..read = {}
    BY <2>1
  <2> QED BY <2>1, <2>2, <2>3 DEF RouteInv
<1>2. Inv /\ RouteInv /\ [Next]_vars => RouteInv'
  <2> SUFFICES ASSUME Inv, RouteInv, [Next]_vars PROVE RouteInv'
    OBVIOUS
  <2>1. FanInv /\ StreamInv
    BY DEF Inv
  <2>2. CASE FanOutStep
    BY <2>1, <2>2, RouteStep
  <2>3. CASE UNCHANGED <<kind, foVars>>
    BY <2>3, RouteStill DEF foVars
  <2>4. ASSUME FanInStep \/ Consume \/ Leave \/ Cancel \/ Halted PROVE UNCHANGED <<kind, foVars>>
    BY <2>4 DEF FanInStep, MergeStops, MergeReturns, CombineReturns, MainReturns, EachReturns, EachSignals, Return,
                Consume, Leave, Cancel, Halted, vars
  <2>5. ASSUME NEW k \in B, Work(k) \/ Fails(k) \/ Discard(k) \/ EachLeaves(k) PROVE UNCHANGED <<kind, foVars>>
    BY <2>5 DEF Work, WorkerEof, WorkerCtxDone, WorkerDrained, WorkerFails, WorkerEnds, Received, WorkerSend, ZipRecv,
                EqualRecv, Fails, Discard, EachLeaves
  <2> QED BY <2>2, <2>3, <2>4, <2>5 DEF Next, vars
<1>3. Inv /\ RouteInv => RoutedRight
  BY RoutePromise DEF Inv
<1> QED BY <1>1, <1>2, <1>3, InvAlways, PTL DEF Spec
=============================================================================
