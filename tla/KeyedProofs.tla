----------------------------- MODULE KeyedProofs ----------------------------
(***************************************************************************)
(* Proofs about Keyed for every number of workers, keys, items and ticks:  *)
(* what the user's function finds in its reference is what the previous    *)
(* item of the same key left there, and items keep their order.            *)
(***************************************************************************)
EXTENDS Keyed, TLAPS

KeySet == {Key(i) : i \in Items}
Keys == KeySet \cup {0}
Refs == [val : Nat, at : Nat, wrote : Nat]
Entries == [item : Items, w : Workers, val : Nat, at : Nat, n : Nat]

\* The worker that owns the key of item i.
Owner(i) == IF Serial THEN 1 ELSE (Key(i) % N) + 1

StageType ==
  /\ mode \in Modes /\ now \in Nat \ {0}
  /\ read \in Nat /\ read <= mode.len
  /\ Pulls => disp.pc = "none"
  /\ disp.pc \in {"slot", "give"} => disp.item \in Items
  /\ disp = [pc |-> disp.pc, item |-> disp.item, next |-> disp.next]
  /\ disp.next \in 1..N
  /\ wq \in [Workers -> Seq(Items)]
  /\ DOMAIN wk = Workers /\ wk = [w \in Workers |-> wk[w]]
  /\ \A w \in Workers : wk[w].pc = "work" => wk[w].item \in Items
  /\ maps \in [Workers -> [Keys -> Refs]]
  /\ gets \in [KeySet -> Seq(Nat)]
  /\ log \in Seq(Entries)

\* With keys, items wait at, are worked on by and are logged for the worker
\* that owns their key.
RouteInv ==
  mode.keyed =>
    /\ \A w \in Workers : \A n \in 1..Len(wq[w]) : Owner(wq[w][n]) = w
    /\ \A w \in Workers : wk[w].pc = "work" => Owner(wk[w].item) = w
    /\ \A n \in 1..Len(log) : Owner(log[n].item) = log[n].w

\* A worker has looked up the reference of the item it works on, and nobody
\* has looked it up or swept it since.
LookedUp(r, G) == Len(G) > 0 /\ r.at = G[Len(G)]
WorkInv ==
  mode.keyed => \A w \in Workers : wk[w].pc = "work" => LookedUp(maps[w][Key(wk[w].item)], gets[Key(wk[w].item)])

\* What entry p of the log left in its reference is gone, G being the times
\* at which the reference was looked up.
Lost(p, G) ==
  /\ ~mode.store
  /\ \/ mode.ttl = "key" /\ \E x \in p.n..Len(G) - 1 : G[x + 1] - G[x] > TTL
     \/ mode.ttl = "state" /\ G[Len(G)] - p.at > TTL

\* At time t reference r holds what entry p left in it, or what is left of
\* that: it has not been swept since the last look-up, or it has.
Kept(r, p, G) ==
  /\ r.at = G[Len(G)]
  /\ Lost(p, G) => r.val = 0 /\ r.wrote = 0
  /\ ~Lost(p, G) => r.val = p.val /\ (mode.store \/ r.wrote = p.at)
SweptSince(r, p, G, t) ==
  /\ mode.ttl = "key" /\ t - G[Len(G)] > TTL
  /\ r.val = (IF mode.store THEN p.val ELSE 0) /\ r.at = 0 /\ r.wrote = 0
Holds(r, p, G, t) ==
  IF mode.keyed THEN Kept(r, p, G) \/ SweptSince(r, p, G, t) ELSE r.val = p.val /\ r.wrote = p.at

\* Entry n of the log l used reference k of worker w, and the last to do so.
Uses(l, n, w, k) == l[n].w = w /\ Entity(l[n].item) = k
LastUse(l, n, w, k) == /\ n \in 1..Len(l) /\ Uses(l, n, w, k)
                       /\ \A j \in 1..Len(l) : Uses(l, j, w, k) => j <= n
HeldBy(r, l, G, t, w, k) ==
  \/ r.val = 0 /\ r.wrote = 0 /\ \A n \in 1..Len(l) : ~Uses(l, n, w, k)
  \/ \E n \in 1..Len(l) : LastUse(l, n, w, k) /\ Holds(r, l[n], G, t)

TimeInv ==
  /\ \A n \in 1..Len(log) : log[n].at \in 1..now
  /\ mode.keyed => \A n \in 1..Len(log) : log[n].n \in 1..Len(gets[Key(log[n].item)])
  /\ \A k \in KeySet : \A x \in 1..Len(gets[k]) : gets[k][x] \in 1..now
HeldInv == \A w \in Workers, k \in Keys : HeldBy(maps[w][k], log, gets[k], now, w, k)
RefInv == TimeInv /\ HeldInv

\* The entry before n that used its reference last, if there is one: the
\* provers have no induction to find the largest number of a finite set with.
Prev(n) ==
  \/ \A j \in 1..n - 1 : ~Same(log[j], log[n])
  \/ \E x \in 1..n - 1 : Same(log[x], log[n]) /\ \A j \in 1..n - 1 : Same(log[j], log[n]) => j <= x
PrevInv == \A n \in 1..Len(log) : Prev(n)

Inv == StageType /\ RouteInv /\ WorkInv /\ RefInv /\ PrevInv /\ PerKeyState

-----------------------------------------------------------------------------
(* The references. *)

\* The modes of the run, field by field.
LEMMA ModeType ==
  ASSUME mode \in Modes
  PROVE  /\ mode.kind \in {"serial", "concurrent", "ordered"}
         /\ mode.keyed \in BOOLEAN /\ mode.store \in BOOLEAN
         /\ mode.len \in Nat /\ mode.len <= MaxItems
BY KeyedAssumption

\* Every worker has a number, and the owner of a key is one of them.
LEMMA WorkerFacts ==
  /\ Workers \subseteq Nat /\ 1 \in Workers
  /\ \A i \in Items : Owner(i) \in Workers
BY KeyedAssumption DEF Workers, Owner, Items

\* A largest number of a set is its maximum.
LEMMA MaxIs ==
  ASSUME NEW S \in SUBSET Nat, NEW n \in S, \A j \in S : j <= n
  PROVE  Max(S) = n
<1>1. \A x \in S : (\A y \in S : x >= y) => x = n
  OBVIOUS
<1>2. \E x \in S : \A y \in S : x >= y
  OBVIOUS
<1> QED BY <1>1, <1>2 DEF Max

\* A reset between two entries depends on the look-ups up to the second one.
ResetsIn(p, a, G) ==
  /\ ~mode.store
  /\ \/ mode.keyed /\ mode.ttl = "key" /\ \E x \in p.n..a.n - 1 : G[x + 1] - G[x] > TTL
     \/ /\ mode.ttl = "state"
        /\ (mode.keyed /\ G[a.n] - p.at > TTL) \/ (mode.fn = "getset" /\ a.at - p.at > TTL)

LEMMA ResetsAre ==
  /\ \A p, a : Resets(p, a) <=> ResetsIn(p, a, gets[Key(a.item)])
  /\ mode' = mode => \A p, a : Resets(p, a)' <=> ResetsIn(p, a, gets'[Key(a.item)])
BY DEF Resets, ResetsIn, Idle, TooOld

LEMMA ResetsKept ==
  ASSUME NEW p \in Entries, NEW a \in Entries, NEW G, NEW H,
         mode.keyed => p.n >= 1 /\ a.n \in 1..Len(G) /\ Len(G) \in Nat /\ \A x \in 1..Len(G) : H[x] = G[x]
  PROVE  ResetsIn(p, a, H) <=> ResetsIn(p, a, G)
<1>1. CASE ~mode.keyed
  BY <1>1 DEF ResetsIn
<1>2. CASE mode.keyed
  <2>1. p.n \in Nat /\ a.n \in Nat
    BY DEF Entries
  <2>2. \A x \in p.n..a.n - 1 : x \in 1..Len(G) /\ x + 1 \in 1..Len(G)
    BY <1>2, <2>1
  <2>3. \A x \in p.n..a.n - 1 : H[x] = G[x] /\ H[x + 1] = G[x + 1]
    BY <1>2, <2>2
  <2>4. H[a.n] = G[a.n]
    BY <1>2
  <2> QED BY <2>3, <2>4 DEF ResetsIn
<1> QED BY <1>1, <1>2

\* The entries of the log hold on when the log and the look-ups grow.
Good(n) ==
  LET q == {j \in 1..n - 1 : Same(log[j], log[n])}
  IN  log[n].val = IF q = {} \/ Resets(log[Max(q)], log[n]) THEN 1 ELSE log[Max(q)].val + 1

LEMMA PastKept ==
  ASSUME StageType, TimeInv, PrevInv, PerKeyState, mode' = mode,
         \A k \in KeySet : \A x \in 1..Len(gets[k]) : gets'[k][x] = gets[k][x],
         \A n \in 1..Len(log) : log'[n] = log[n],
         NEW n \in 1..Len(log)
  PROVE  Good(n)' /\ Prev(n)'
<1> DEFINE q == {j \in 1..n - 1 : Same(log[j], log[n])}
           q1 == {j \in 1..n - 1 : Same(log'[j], log'[n])}
<1>1. Len(log) \in Nat /\ n \in Nat /\ DOMAIN log = 1..Len(log)
      /\ \A j \in 1..Len(log) : log[j] \in Entries
  BY DEF StageType
<1>2. \A j \in 1..n - 1 : j \in 1..Len(log) /\ log'[j] = log[j]
  BY <1>1
<1>3. log'[n] = log[n]
  OBVIOUS
<1>4. q = q1
  BY <1>2, <1>3
<1>5. \A a, b : Same(a, b)' <=> Same(a, b)
  BY DEF Same, Entity
<1>6. Prev(n)'
  <2>1. Prev(n)
    BY DEF PrevInv
  <2>2. \A j \in 1..n - 1 : Same(log[j], log[n])' <=> Same(log[j], log[n])
    BY <1>2, <1>3 DEF Same, Entity
  <2> QED BY <2>1, <2>2 DEF Prev
<1>7. q # {} => Max(q) \in q
  <2> SUFFICES ASSUME q # {} PROVE Max(q) \in q
    OBVIOUS
  <2>1. \E x \in q : \A y \in q : y <= x
    BY DEF PrevInv, Prev
  <2>2. q \in SUBSET Nat
    BY <1>1
  <2> HIDE DEF q
  <2>3. \A x \in q : (\A y \in q : y <= x) => Max(q) = x
    BY <2>2, MaxIs
  <2> QED BY <2>1, <2>3
<1>8. q # {} => Max(q) \in 1..Len(log) /\ log'[Max(q)] = log[Max(q)]
  BY <1>2, <1>7
<1>9. ASSUME q # {}
      PROVE  ResetsIn(log[Max(q)], log[n], gets'[Key(log[n].item)]) <=> ResetsIn(log[Max(q)], log[n], gets[Key(log[n].item)])
  <2> DEFINE p == log[Max(q)]
             a == log[n]
             G == gets[Key(a.item)]
             H == gets'[Key(a.item)]
  <2>1. p \in Entries /\ a \in Entries
    BY <1>1, <1>8, <1>9
  <2>2. Key(a.item) \in KeySet
    BY <2>1 DEF KeySet, Entries
  <2>3. Len(G) \in Nat
    BY <2>2 DEF StageType
  <2>4. \A x \in 1..Len(G) : H[x] = G[x]
    BY <2>2
  <2>5. mode.keyed => p.n \in 1..Len(gets[Key(p.item)]) /\ a.n \in 1..Len(G)
    BY <1>8, <1>9 DEF TimeInv
  <2>6. Key(p.item) \in KeySet
    <3> HIDE DEF p
    <3> QED BY <2>1 DEF KeySet, Entries
  <2>7. mode.keyed => p.n >= 1
    <3>1. Len(gets[Key(p.item)]) \in Nat
      BY <2>6 DEF StageType
    <3> HIDE DEF p
    <3> QED BY <2>5, <3>1
  <2> HIDE DEF p, a, G, H
  <2>8. ResetsIn(p, a, H) <=> ResetsIn(p, a, G)
    BY <2>1, <2>3, <2>4, <2>5, <2>7, ResetsKept
  <2> QED BY <2>8 DEF p, a, G, H
<1>10. log[n].val = IF q = {} \/ ResetsIn(log[Max(q)], log[n], gets[Key(log[n].item)]) THEN 1 ELSE log[Max(q)].val + 1
  <2>1. Good(n)
    BY <1>1 DEF PerKeyState, Good
  <2> QED BY <2>1, ResetsAre DEF Good
<1> HIDE DEF q, q1
<1>11. log'[n].val = IF q1 = {} \/ ResetsIn(log'[Max(q1)], log'[n], gets'[Key(log'[n].item)])
                     THEN 1 ELSE log'[Max(q1)].val + 1
  <2>1. CASE q = {}
    BY <1>3, <1>4, <1>10, <2>1
  <2>2. CASE q # {}
    BY <1>3, <1>4, <1>8, <1>9, <1>10, <2>2
  <2> QED BY <2>1, <2>2
<1>12. Good(n)'
  BY <1>11 DEF Good, q1, Resets, Idle, TooOld, ResetsIn, Same, Entity
<1> QED BY <1>6, <1>12

\* So a step that leaves the log keeps what is known of its entries.
LEMMA LogKept ==
  ASSUME StageType, TimeInv, PrevInv, PerKeyState, UNCHANGED <<mode, log>>,
         \A k \in KeySet : \A x \in 1..Len(gets[k]) : gets'[k][x] = gets[k][x]
  PROVE  PrevInv' /\ PerKeyState'
<1>1. \A n \in 1..Len(log) : Good(n)' /\ Prev(n)'
  BY PastKept
<1>2. DOMAIN log = 1..Len(log)
  BY DEF StageType
<1> QED BY <1>1, <1>2 DEF PrevInv, PerKeyState, Good

\* The references after a step, from the values of the variables after it.
LEMMA HeldNext ==
  ASSUME mode' = mode,
         \A w \in Workers, k \in Keys : HeldBy(maps'[w][k], log', gets'[k], now', w, k)
  PROVE  HeldInv'
<1>1. Workers' = Workers /\ \A x : Entity(x)' = Entity(x)
  BY DEF Workers, Serial, Entity
<1>2. \A w, k : HeldBy(maps[w][k], log, gets[k], now, w, k)' <=> HeldBy(maps'[w][k], log', gets'[k], now', w, k)
  BY <1>1 DEF HeldBy, LastUse, Uses, Holds, Kept, SweptSince, Lost, Entity
<1> QED BY <1>1, <1>2 DEF HeldInv

\* Where the references, the clock and the log stay, so does what is known
\* of them.
LEMMA CalmRefs ==
  ASSUME StageType, RefInv, PrevInv, PerKeyState, UNCHANGED <<mode, maps, gets, now, log>>
  PROVE  RefInv' /\ PrevInv' /\ PerKeyState'
<1>1. TimeInv'
  BY DEF RefInv, TimeInv
<1>2. HeldInv'
  BY HeldNext DEF RefInv, HeldInv
<1> QED BY <1>1, <1>2, LogKept DEF RefInv

\* Time alone only makes a swept reference older.
LEMMA TickRefs ==
  ASSUME StageType, RefInv, PrevInv, PerKeyState, now' = now + 1, UNCHANGED <<mode, maps, gets, log>>
  PROVE  RefInv' /\ PrevInv' /\ PerKeyState'
<1>1. \A x \in 1..now : x \in 1..now'
  BY DEF StageType
<1>2. TimeInv'
  BY <1>1 DEF RefInv, TimeInv
<1>3. ASSUME NEW r, NEW p, NEW k \in KeySet, Len(gets[k]) > 0, Holds(r, p, gets[k], now)
      PROVE  Holds(r, p, gets[k], now')
  <2>1. Len(gets[k]) \in Nat
    BY DEF StageType
  <2>2. gets[k][Len(gets[k])] \in Nat
    BY <1>3, <2>1 DEF StageType
  <2>3. now \in Nat /\ TTL \in Nat
    BY KeyedAssumption DEF StageType
  <2>4. now - gets[k][Len(gets[k])] > TTL => (now + 1) - gets[k][Len(gets[k])] > TTL
    BY <2>2, <2>3
  <2> QED BY <1>3, <2>4 DEF Holds, SweptSince
<1>4. ASSUME NEW w \in Workers, NEW k \in Keys
      PROVE  HeldBy(maps[w][k], log, gets[k], now', w, k)
  <2>1. CASE ~mode.keyed
    BY <2>1 DEF RefInv, HeldInv, HeldBy, Holds
  <2>2. CASE mode.keyed
    <3>1. ASSUME NEW n \in 1..Len(log), Uses(log, n, w, k)
          PROVE  k \in KeySet /\ Len(gets[k]) > 0
      <4>1. k = Key(log[n].item)
        BY <2>2, <3>1 DEF Uses, Entity
      <4>2. log[n] \in Entries
        BY DEF StageType
      <4>3. k \in KeySet
        BY <4>1, <4>2 DEF Entries, KeySet
      <4>4. Len(gets[k]) \in Nat
        BY <4>3 DEF StageType
      <4>5. log[n].n \in 1..Len(gets[k])
        BY <2>2, <4>1 DEF RefInv, TimeInv
      <4> QED BY <4>3, <4>4, <4>5
    <3>2. \A n \in 1..Len(log) : LastUse(log, n, w, k) /\ Holds(maps[w][k], log[n], gets[k], now)
                                   => Holds(maps[w][k], log[n], gets[k], now')
      BY <1>3, <3>1 DEF LastUse
    <3> QED BY <3>2 DEF RefInv, HeldInv, HeldBy
  <2> QED BY <2>1, <2>2
<1>5. HeldInv'
  BY <1>4, HeldNext
<1> QED BY <1>2, <1>5, LogKept DEF RefInv

\* What a look-up finds is what the last entry left, or what is left of it.
LEMMA LookupHolds ==
  ASSUME StageType, mode.keyed, NEW r \in Refs, NEW p \in Entries, NEW G \in Seq(Nat),
         p.n \in 1..Len(G), p.at \in 1..now, G[Len(G)] \in 1..now, Holds(r, p, G, now)
  PROVE  LET s == [IF Swept(r) \/ Expired(r) THEN Gone(r) ELSE r EXCEPT !.at = now]
         IN  Holds(s, p, Append(G, now), now)
<1> DEFINE s == [IF Swept(r) \/ Expired(r) THEN Gone(r) ELSE r EXCEPT !.at = now]
           H == Append(G, now)
           L == Len(G)
           l == G[L]
           b == p.n
<1>0. now \in Nat /\ TTL \in Nat /\ L \in Nat
  BY KeyedAssumption DEF StageType
<1>1. /\ p.at \in Nat /\ p.at # 0 /\ p.val \in Nat
      /\ b \in Nat /\ b >= 1 /\ b <= L /\ l \in Nat /\ l # 0 /\ l <= now
  <2>1. p.at \in Nat /\ p.at # 0
    BY <1>0
  <2>2. p.val \in Nat
    BY DEF Entries
  <2>3. b \in Nat /\ b >= 1 /\ b <= L
    <3>1. b \in 1..L
      OBVIOUS
    <3> HIDE DEF b, L
    <3> QED BY <1>0, <3>1
  <2>4. l \in Nat /\ l # 0 /\ l <= now
    <3>1. l \in 1..now
      OBVIOUS
    <3> HIDE DEF l
    <3> QED BY <1>0, <3>1
  <2> QED BY <2>1, <2>2, <2>3, <2>4
<1>2. Len(H) = L + 1 /\ H[L + 1] = now /\ \A x \in 1..L : H[x] = G[x]
  BY <1>0
<1>3. /\ s.at = now
      /\ Swept(r) \/ Expired(r) => s.val = (IF mode.store THEN r.val ELSE 0) /\ s.wrote = 0
      /\ ~(Swept(r) \/ Expired(r)) => s.val = r.val /\ s.wrote = r.wrote
  BY <1>0 DEF Refs, Gone
<1> HIDE DEF s
<1>4. H[Len(H)] = now
  BY <1>2
<1>5. (\E x \in b..Len(H) - 1 : H[x + 1] - H[x] > TTL) <=> (\E x \in b..L - 1 : G[x + 1] - G[x] > TTL) \/ now - l > TTL
  <2>1. b..L = (b..L - 1) \cup {L}
    <3>1. b \in Nat /\ L \in Nat /\ b <= L
      BY <1>0, <1>1
    <3> HIDE DEF b, L
    <3>2. \A x : x \in b..L <=> x \in b..L - 1 \/ x = L
      BY <3>1
    <3> QED BY <3>2
  <2>2. Len(H) - 1 = L
    BY <1>0, <1>2
  <2>3. \A x \in b..L - 1 : x \in 1..L /\ x + 1 \in 1..L
    BY <1>0, <1>1
  <2>4. \A x \in b..L - 1 : H[x + 1] = G[x + 1] /\ H[x] = G[x]
    BY <1>2, <2>3
  <2>5. H[L + 1] = now /\ H[L] = l
    BY <1>0, <1>1, <1>2
  <2> HIDE DEF H, l, L, b
  <2>6. (\E x \in b..L : H[x + 1] - H[x] > TTL) <=> (\E x \in b..L - 1 : H[x + 1] - H[x] > TTL) \/ H[L + 1] - H[L] > TTL
    BY <2>1
  <2>7. (\E x \in b..L - 1 : H[x + 1] - H[x] > TTL) <=> (\E x \in b..L - 1 : G[x + 1] - G[x] > TTL)
    BY <2>4
  <2> QED BY <2>2, <2>5, <2>6, <2>7
<1>6. l - p.at > TTL => now - p.at > TTL
  BY <1>0, <1>1
<1> HIDE DEF H
<1>7. Lost(p, H) <=> \/ Lost(p, G)
                     \/ ~mode.store /\ mode.ttl = "key" /\ now - l > TTL
                     \/ ~mode.store /\ mode.ttl = "state" /\ now - p.at > TTL
  <2>1. mode.ttl = "key" => mode.ttl # "state"
    OBVIOUS
  <2>2. Lost(p, H) <=> /\ ~mode.store
                       /\ \/ mode.ttl = "key" /\ ((\E x \in b..L - 1 : G[x + 1] - G[x] > TTL) \/ now - l > TTL)
                          \/ mode.ttl = "state" /\ now - p.at > TTL
    BY <1>4, <1>5 DEF Lost
  <2> QED BY <1>6, <2>2 DEF Lost
<1>8. ASSUME Kept(r, p, G)
      PROVE  Holds(s, p, H, now)
  <2>1. r.at = l
    BY <1>8 DEF Kept
  <2>2. Swept(r) <=> mode.ttl = "key" /\ now - l > TTL
    BY <1>0, <1>1, <2>1 DEF Swept, Old
  <2>3. CASE Lost(p, G)
    <3>1. r.val = 0 /\ r.wrote = 0
      BY <1>8, <2>3 DEF Kept
    <3>2. s.val = 0 /\ s.wrote = 0
      BY <1>3, <3>1
    <3> QED BY <1>3, <1>4, <1>7, <2>3, <3>2 DEF Holds, Kept
  <2>4. CASE ~Lost(p, G) /\ mode.store
    <3>1. ~Lost(p, H) /\ r.val = p.val
      BY <1>8, <2>4 DEF Kept, Lost
    <3>2. s.val = p.val
      BY <1>3, <2>4, <3>1
    <3> QED BY <1>3, <1>4, <2>4, <3>1, <3>2 DEF Holds, Kept
  <2>5. CASE ~Lost(p, G) /\ ~mode.store
    <3>1. r.val = p.val /\ r.wrote = p.at
      BY <1>8, <2>5 DEF Kept
    <3>2. Expired(r) <=> mode.ttl = "state" /\ now - p.at > TTL
      BY <1>0, <1>1, <2>5, <3>1 DEF Expired, Old
    <3>3. Lost(p, H) <=> Swept(r) \/ Expired(r)
      BY <1>7, <2>2, <2>5, <3>2
    <3> QED BY <1>3, <1>4, <2>5, <3>1, <3>3 DEF Holds, Kept
  <2> QED BY <2>3, <2>4, <2>5
<1>9. ASSUME SweptSince(r, p, G, now)
      PROVE  Holds(s, p, H, now)
  <2>1. ~Swept(r) /\ ~Expired(r)
    BY <1>9 DEF SweptSince, Swept, Expired, Old
  <2>2. s.val = (IF mode.store THEN p.val ELSE 0) /\ s.wrote = 0
    BY <1>3, <1>9, <2>1 DEF SweptSince
  <2>3. Lost(p, H) <=> ~mode.store
    BY <1>7, <1>9 DEF SweptSince, Lost
  <2> QED BY <1>3, <1>4, <2>2, <2>3 DEF Holds, Kept
<1> QED BY <1>8, <1>9 DEF Holds, s, H

\* A look-up leaves another reference alone or sweeps it.
LEMMA SweepHolds ==
  ASSUME StageType, mode.keyed, NEW r \in Refs, NEW p, NEW G \in Seq(Nat), Len(G) > 0, G[Len(G)] # 0,
         mode.ttl = "key", Swept(r), Holds(r, p, G, now)
  PROVE  Holds(Gone(r), p, G, now)
<1>1. r.at # 0 /\ now - r.at > TTL
  BY DEF Swept, Old
<1>2. Kept(r, p, G)
  BY <1>1 DEF Holds, SweptSince
<1>3. r.at = G[Len(G)] /\ (mode.store => r.val = p.val)
  BY <1>2 DEF Kept, Lost
<1>4. Gone(r).val = (IF mode.store THEN p.val ELSE 0) /\ Gone(r).at = 0 /\ Gone(r).wrote = 0
  BY <1>3 DEF Gone
<1> QED BY <1>1, <1>3, <1>4 DEF Holds, SweptSince

\* The map of a worker after a look-up.
LEMMA GetRefIs ==
  ASSUME StageType, NEW m \in [Keys -> Refs], NEW k \in Keys, NEW due \in BOOLEAN
  PROVE  /\ GetRef(m, k, due) \in [Keys -> Refs]
         /\ GetRef(m, k, due)[k] = [IF Swept(m[k]) \/ Expired(m[k]) THEN Gone(m[k]) ELSE m[k] EXCEPT !.at = now]
         /\ \A j \in Keys : j # k => GetRef(m, k, due)[j] = IF due /\ Swept(m[j]) THEN Gone(m[j]) ELSE m[j]
<1>1. now \in Nat
  BY DEF StageType
<1>2. \A r \in Refs : Gone(r) \in Refs /\ [r EXCEPT !.at = now] \in Refs
  BY <1>1 DEF Gone, Refs
<1>3. DOMAIN m = Keys
  OBVIOUS
<1>4. GetRef(m, k, due)[k] = [IF Swept(m[k]) \/ Expired(m[k]) THEN Gone(m[k]) ELSE m[k] EXCEPT !.at = now]
  BY <1>3 DEF GetRef
<1>5. \A j \in Keys : j # k => GetRef(m, k, due)[j] = IF due /\ Swept(m[j]) THEN Gone(m[j]) ELSE m[j]
  BY <1>3 DEF GetRef
<1>6. \A j \in Keys : GetRef(m, k, due)[j] \in Refs
  <2>1. GetRef(m, k, due)[k] \in Refs
    BY <1>2, <1>4
  <2>2. \A j \in Keys : j # k => GetRef(m, k, due)[j] \in Refs
    BY <1>2, <1>5
  <2> QED BY <2>1, <2>2
<1>7. GetRef(m, k, due) = [j \in Keys |-> GetRef(m, k, due)[j]]
  BY <1>3 DEF GetRef
<1>8. GetRef(m, k, due) \in [Keys -> Refs]
  BY <1>6, <1>7
<1> QED BY <1>4, <1>5, <1>8

\* The look-ups of a step.
LEMMA LookupIs ==
  ASSUME StageType, mode.keyed, NEW w \in Workers, NEW i \in Items, Lookup(w, i)
  PROVE  /\ maps' \in [Workers -> [Keys -> Refs]]
         /\ \A v \in Workers : v # w => maps'[v] = maps[v]
         /\ maps'[w][Key(i)] = LET r == maps[w][Key(i)]
                               IN  [IF Swept(r) \/ Expired(r) THEN Gone(r) ELSE r EXCEPT !.at = now]
         /\ \A j \in Keys : j # Key(i) => \/ maps'[w][j] = maps[w][j]
                                          \/ mode.ttl = "key" /\ Swept(maps[w][j]) /\ maps'[w][j] = Gone(maps[w][j])
         /\ gets' \in [KeySet -> Seq(Nat)]
         /\ gets'[Key(i)] = Append(gets[Key(i)], now)
         /\ \A k \in KeySet : k # Key(i) => gets'[k] = gets[k]
<1>1. Key(i) \in KeySet /\ Key(i) \in Keys /\ now \in Nat
  BY DEF KeySet, Keys, StageType
<1>2. PICK due \in BOOLEAN : /\ due => mode.ttl = "key"
                             /\ maps' = [maps EXCEPT ![w] = GetRef(maps[w], Key(i), due)]
                             /\ gets' = [gets EXCEPT ![Key(i)] = Append(gets[Key(i)], now)]
  BY DEF Lookup
<1>3. maps[w] \in [Keys -> Refs]
  BY DEF StageType
<1> DEFINE m == GetRef(maps[w], Key(i), due)
<1>4. /\ m \in [Keys -> Refs]
      /\ m[Key(i)] = [IF Swept(maps[w][Key(i)]) \/ Expired(maps[w][Key(i)]) THEN Gone(maps[w][Key(i)]) ELSE maps[w][Key(i)]
                        EXCEPT !.at = now]
      /\ \A j \in Keys : j # Key(i) => m[j] = IF due /\ Swept(maps[w][j]) THEN Gone(maps[w][j]) ELSE maps[w][j]
  BY <1>1, <1>3, GetRefIs
<1> HIDE DEF m
<1>5. maps' = [maps EXCEPT ![w] = m]
  BY <1>2 DEF m
<1>6. maps' \in [Workers -> [Keys -> Refs]] /\ maps'[w] = m /\ \A v \in Workers : v # w => maps'[v] = maps[v]
  BY <1>4, <1>5 DEF StageType
<1>7. Append(gets[Key(i)], now) \in Seq(Nat)
  BY <1>1 DEF StageType
<1>8. /\ gets' \in [KeySet -> Seq(Nat)] /\ gets'[Key(i)] = Append(gets[Key(i)], now)
      /\ \A k \in KeySet : k # Key(i) => gets'[k] = gets[k]
  BY <1>1, <1>2, <1>7 DEF StageType
<1> QED BY <1>2, <1>4, <1>6, <1>8

\* A worker looks up the reference of its item: no reference loses what the
\* last entry left in it.
LEMMA LookupRefs ==
  ASSUME StageType, RouteInv, RefInv, PrevInv, PerKeyState,
         NEW w \in Workers, NEW i \in Items, mode.keyed => Owner(i) = w, Lookup(w, i),
         UNCHANGED <<mode, now, log>>
  PROVE  RefInv' /\ PrevInv' /\ PerKeyState'
<1>1. CASE ~mode.keyed
  BY <1>1, CalmRefs DEF Lookup
<1>2. CASE mode.keyed
  <2> DEFINE k0 == Key(i)
  <2>1. /\ maps' \in [Workers -> [Keys -> Refs]]
        /\ \A v \in Workers : v # w => maps'[v] = maps[v]
        /\ maps'[w][k0] = LET r == maps[w][k0]
                          IN  [IF Swept(r) \/ Expired(r) THEN Gone(r) ELSE r EXCEPT !.at = now]
        /\ \A j \in Keys : j # k0 => \/ maps'[w][j] = maps[w][j]
                                     \/ mode.ttl = "key" /\ Swept(maps[w][j]) /\ maps'[w][j] = Gone(maps[w][j])
        /\ gets' \in [KeySet -> Seq(Nat)]
        /\ gets'[k0] = Append(gets[k0], now)
        /\ \A k \in KeySet : k # k0 => gets'[k] = gets[k]
    BY <1>2, LookupIs
  <2>2. /\ k0 \in KeySet /\ k0 \in Keys /\ now \in 1..now
        /\ log \in Seq(Entries) /\ gets \in [KeySet -> Seq(Nat)] /\ maps \in [Workers -> [Keys -> Refs]]
    <3>1. k0 \in KeySet /\ k0 \in Keys
      BY DEF KeySet, Keys
    <3>2. now \in Nat \ {0}
      BY DEF StageType
    <3>3. now \in 1..now
      BY <3>2
    <3> QED BY <3>1, <3>3 DEF StageType
  <2> HIDE DEF k0
  <2>3. gets[k0] \in Seq(Nat) /\ Len(gets[k0]) \in Nat
    BY <2>2
  <2>4. Len(gets'[k0]) = Len(gets[k0]) + 1 /\ gets'[k0][Len(gets[k0]) + 1] = now
        /\ \A x \in 1..Len(gets[k0]) : gets'[k0][x] = gets[k0][x]
    BY <2>1, <2>2, <2>3
  <2>5. \A k \in KeySet : /\ Len(gets[k]) \in Nat /\ Len(gets'[k]) \in Nat /\ Len(gets[k]) <= Len(gets'[k])
                          /\ \A x \in 1..Len(gets[k]) : gets'[k][x] = gets[k][x]
    <3> SUFFICES ASSUME NEW k \in KeySet
                 PROVE  /\ Len(gets[k]) \in Nat /\ Len(gets'[k]) \in Nat /\ Len(gets[k]) <= Len(gets'[k])
                        /\ \A x \in 1..Len(gets[k]) : gets'[k][x] = gets[k][x]
      OBVIOUS
    <3>1. CASE k = k0
      <4>1. Len(gets[k0]) <= Len(gets[k0]) + 1 /\ Len(gets[k0]) + 1 \in Nat
        BY <2>3
      <4> QED BY <2>3, <2>4, <3>1, <4>1
    <3>2. CASE k # k0
      <4>1. gets'[k] = gets[k] /\ Len(gets[k]) \in Nat
        BY <2>1, <2>2, <3>2
      <4>2. Len(gets[k]) <= Len(gets[k])
        BY <4>1
      <4> QED BY <4>1, <4>2
    <3> QED BY <3>1, <3>2
  <2>6. \A n \in 1..Len(log) : log[n] \in Entries /\ Key(log[n].item) \in KeySet
    <3>1. \A n \in 1..Len(log) : log[n] \in Entries
      BY <2>2
    <3> QED BY <3>1 DEF Entries, KeySet
  <2>7. TimeInv'
    <3>1. \A n \in 1..Len(log') : log'[n].at \in 1..now'
      BY DEF RefInv, TimeInv
    <3>2. \A n \in 1..Len(log) : log[n].n \in 1..Len(gets'[Key(log[n].item)])
      <4> SUFFICES ASSUME NEW n \in 1..Len(log) PROVE log[n].n \in 1..Len(gets'[Key(log[n].item)])
        OBVIOUS
      <4>1. log[n].n \in 1..Len(gets[Key(log[n].item)])
        BY <1>2 DEF RefInv, TimeInv
      <4>2. Len(gets[Key(log[n].item)]) \in Nat /\ Len(gets'[Key(log[n].item)]) \in Nat
            /\ Len(gets[Key(log[n].item)]) <= Len(gets'[Key(log[n].item)])
        BY <2>5, <2>6
      <4> QED BY <4>1, <4>2
    <3>3. \A k \in KeySet : \A x \in 1..Len(gets'[k]) : gets'[k][x] \in 1..now
      <4> SUFFICES ASSUME NEW k \in KeySet, NEW x \in 1..Len(gets'[k]) PROVE gets'[k][x] \in 1..now
        OBVIOUS
      <4>1. CASE k # k0
        BY <2>1, <4>1 DEF RefInv, TimeInv
      <4>2. CASE k = k0 /\ x = Len(gets[k0]) + 1
        BY <2>2, <2>4, <4>2
      <4>3. CASE k = k0 /\ x # Len(gets[k0]) + 1
        <5>1. x \in 1..Len(gets[k0])
          BY <2>3, <2>4, <4>3
        <5> QED BY <2>2, <2>4, <4>3, <5>1 DEF RefInv, TimeInv
      <4> QED BY <4>1, <4>2, <4>3
    <3> QED BY <3>1, <3>2, <3>3 DEF TimeInv
  <2>8. ASSUME NEW v \in Workers, NEW j \in Keys, NEW n \in 1..Len(log), Uses(log, n, v, j)
        PROVE  /\ j \in KeySet /\ log[n] \in Entries /\ gets[j] \in Seq(Nat) /\ Len(gets[j]) > 0
               /\ log[n].n \in 1..Len(gets[j]) /\ log[n].at \in 1..now
               /\ gets[j][Len(gets[j])] \in 1..now
               /\ j = k0 => v = w
    <3>1. j = Key(log[n].item) /\ v = log[n].w
      BY <1>2, <2>8 DEF Uses, Entity
    <3>2. j \in KeySet /\ log[n] \in Entries
      BY <2>6, <3>1
    <3>3. gets[j] \in Seq(Nat) /\ Len(gets[j]) \in Nat
      BY <2>2, <3>2
    <3>4. log[n].n \in 1..Len(gets[j]) /\ log[n].at \in 1..now
      BY <1>2, <3>1 DEF RefInv, TimeInv
    <3>5. Len(gets[j]) > 0 /\ Len(gets[j]) \in 1..Len(gets[j])
      <4> DEFINE z == Len(gets[j])
      <4>1. z \in Nat /\ log[n].n \in 1..z
        BY <3>3, <3>4
      <4> HIDE DEF z
      <4>2. z > 0 /\ z \in 1..z
        BY <4>1
      <4> QED BY <4>2 DEF z
    <3>6. gets[j][Len(gets[j])] \in 1..now
      BY <3>2, <3>5 DEF RefInv, TimeInv
    <3>7. j = k0 => v = w
      <4>1. Owner(log[n].item) = log[n].w
        BY <1>2 DEF RouteInv
      <4>2. Key(log[n].item) = Key(i) => Owner(log[n].item) = Owner(i)
        BY DEF Owner
      <4> QED BY <1>2, <3>1, <4>1, <4>2 DEF k0
    <3> QED BY <3>2, <3>3, <3>4, <3>5, <3>6, <3>7
  <2>9. ASSUME NEW v \in Workers, NEW j \in Keys
        PROVE  HeldBy(maps'[v][j], log, gets'[j], now, v, j)
    <3> DEFINE r == maps[v][j]
    <3>0. r \in Refs /\ maps'[v][j] \in Refs
      BY <2>1, <2>2
    <3>1. CASE r.val = 0 /\ r.wrote = 0 /\ \A n \in 1..Len(log) : ~Uses(log, n, v, j)
      <4>1. maps'[v][j].val = 0 /\ maps'[v][j].wrote = 0
        <5>1. CASE v # w
          BY <2>1, <3>1, <5>1
        <5>2. CASE v = w /\ j = k0
          <6>1. maps'[v][j] = [IF Swept(r) \/ Expired(r) THEN Gone(r) ELSE r EXCEPT !.at = now]
            BY <2>1, <5>2
          <6>2. r = [val |-> 0, at |-> r.at, wrote |-> 0]
            BY <3>0, <3>1 DEF Refs
          <6> HIDE DEF r
          <6>3. Gone(r) = [val |-> 0, at |-> 0, wrote |-> 0]
            BY <3>1 DEF Gone
          <6> QED BY <6>1, <6>2, <6>3
        <5>3. CASE v = w /\ j # k0
          <6>1. maps'[v][j] = r \/ maps'[v][j] = Gone(r)
            BY <2>1, <5>3
          <6> HIDE DEF r
          <6> QED BY <3>1, <6>1 DEF Gone
        <5> QED BY <5>1, <5>2, <5>3
      <4> QED BY <3>1, <4>1 DEF HeldBy
    <3>2. ASSUME NEW n \in 1..Len(log), LastUse(log, n, v, j), Holds(r, log[n], gets[j], now)
          PROVE  Holds(maps'[v][j], log[n], gets'[j], now)
      <4>1. /\ j \in KeySet /\ log[n] \in Entries /\ gets[j] \in Seq(Nat) /\ Len(gets[j]) > 0
            /\ log[n].n \in 1..Len(gets[j]) /\ log[n].at \in 1..now
            /\ gets[j][Len(gets[j])] \in 1..now
            /\ j = k0 => v = w
        BY <2>8, <3>2 DEF LastUse
      <4>2. CASE v # w
        <5>1. gets'[j] = gets[j] /\ maps'[v][j] = r
          BY <2>1, <4>1, <4>2
        <5> QED BY <3>2, <5>1
      <4>3. CASE v = w /\ j = k0
        <5>1. maps'[v][j] = [IF Swept(r) \/ Expired(r) THEN Gone(r) ELSE r EXCEPT !.at = now]
          BY <2>1, <4>3
        <5>2. gets'[j] = Append(gets[j], now)
          BY <2>1, <4>3
        <5> HIDE DEF r
        <5>3. Holds([IF Swept(r) \/ Expired(r) THEN Gone(r) ELSE r EXCEPT !.at = now], log[n], Append(gets[j], now), now)
          BY <1>2, <3>0, <3>2, <4>1, LookupHolds
        <5> QED BY <5>1, <5>2, <5>3
      <4>4. CASE v = w /\ j # k0
        <5>1. gets'[j] = gets[j]
          BY <2>1, <4>1, <4>4
        <5>2. maps'[v][j] = r \/ (mode.ttl = "key" /\ Swept(r) /\ maps'[v][j] = Gone(r))
          BY <2>1, <4>4
        <5>3. gets[j][Len(gets[j])] # 0
          BY <4>1
        <5> HIDE DEF r
        <5>4. mode.ttl = "key" /\ Swept(r) => Holds(Gone(r), log[n], gets[j], now)
          BY <1>2, <3>0, <3>2, <4>1, <5>3, SweepHolds
        <5> QED BY <3>2, <5>1, <5>2, <5>4
      <4> QED BY <4>2, <4>3, <4>4
    <3>3. HeldBy(r, log, gets[j], now, v, j)
      BY DEF RefInv, HeldInv
    <3> HIDE DEF r
    <3> QED BY <3>1, <3>2, <3>3 DEF HeldBy
  <2>10. HeldInv'
    BY <2>9, HeldNext
  <2>11. PrevInv' /\ PerKeyState'
    BY <2>5, LogKept DEF RefInv
  <2> QED BY <2>7, <2>10, <2>11 DEF RefInv
<1> QED BY <1>1, <1>2

\* What counting leaves in a reference.
LEMMA CountedIs ==
  ASSUME StageType, NEW r \in Refs
  PROVE  /\ Counted(r) \in Refs /\ Counted(r).wrote = now /\ Counted(r).at = r.at
         /\ Counted(r).val = (IF mode.fn = "getset" /\ Expired(r) THEN 0 ELSE r.val) + 1
<1> DEFINE v == (IF mode.fn = "getset" THEN RefGet(r) ELSE RefUpdate(r)) + 1
<1>1. now \in Nat /\ r.val \in Nat
  BY DEF StageType, Refs
<1>2. v = (IF mode.fn = "getset" /\ Expired(r) THEN 0 ELSE r.val) + 1 /\ v \in Nat
  BY <1>1 DEF RefGet, RefUpdate
<1>3. Counted(r) = [r EXCEPT !.val = v, !.wrote = now]
  BY DEF Counted
<1> HIDE DEF v
<1> QED BY <1>1, <1>2, <1>3 DEF Refs

\* The function counts on from the last entry, unless the reference has been
\* reset since.
LEMMA CountsOn ==
  ASSUME StageType, NEW r \in Refs, NEW p \in Entries, NEW a \in Entries, NEW G,
         p.at \in 1..now, a.at = now, mode.keyed => LookedUp(r, G) /\ G[Len(G)] \in 1..now /\ a.n = Len(G),
         Holds(r, p, G, now)
  PROVE  Counted(r).val = IF ResetsIn(p, a, G) THEN 1 ELSE p.val + 1
<1>1. now \in Nat /\ TTL \in Nat /\ p.at \in Nat /\ p.at # 0 /\ p.val \in Nat
  <2>1. now \in Nat /\ TTL \in Nat
    BY KeyedAssumption DEF StageType
  <2>2. p.val \in Nat
    BY DEF Entries
  <2> QED BY <2>1, <2>2
<1>2. Counted(r).val = (IF mode.fn = "getset" /\ Expired(r) THEN 0 ELSE r.val) + 1
  BY CountedIs
<1>3. CASE ~mode.keyed
  <2>1. r.val = p.val /\ r.wrote = p.at
    BY <1>3 DEF Holds
  <2>2. Expired(r) <=> mode.ttl = "state" /\ ~mode.store /\ now - p.at > TTL
    BY <1>1, <2>1 DEF Expired, Old
  <2>3. ResetsIn(p, a, G) <=> mode.fn = "getset" /\ Expired(r)
    BY <1>3, <2>2 DEF ResetsIn
  <2> QED BY <1>1, <1>2, <2>1, <2>3
<1>4. CASE mode.keyed
  <2>1. Kept(r, p, G)
    <3>1. r.at # 0
      BY <1>1, <1>4 DEF LookedUp
    <3> QED BY <1>4, <3>1 DEF Holds, SweptSince
  <2>2. ResetsIn(p, a, G) <=> \/ Lost(p, G)
                              \/ ~mode.store /\ mode.ttl = "state" /\ mode.fn = "getset" /\ now - p.at > TTL
    BY <1>4 DEF ResetsIn, Lost
  <2>3. CASE Lost(p, G)
    <3>1. r.val = 0 /\ r.wrote = 0
      BY <2>1, <2>3 DEF Kept
    <3>2. ~Expired(r)
      BY <3>1 DEF Expired, Old
    <3> QED BY <1>2, <2>2, <2>3, <3>1, <3>2
  <2>4. CASE ~Lost(p, G) /\ mode.store
    <3>1. r.val = p.val /\ ~Expired(r)
      BY <2>1, <2>4 DEF Kept, Expired
    <3> QED BY <1>2, <2>2, <2>4, <3>1
  <2>5. CASE ~Lost(p, G) /\ ~mode.store
    <3>1. r.val = p.val /\ r.wrote = p.at
      BY <2>1, <2>5 DEF Kept
    <3>2. Expired(r) <=> mode.ttl = "state" /\ now - p.at > TTL
      BY <1>1, <2>5, <3>1 DEF Expired, Old
    <3>3. ResetsIn(p, a, G) <=> mode.fn = "getset" /\ Expired(r)
      BY <2>2, <2>5, <3>2
    <3> QED BY <1>1, <1>2, <3>1, <3>3
  <2> QED BY <2>3, <2>4, <2>5
<1> QED BY <1>3, <1>4

\* It leaves what it has counted.
LEMMA CountedHolds ==
  ASSUME StageType, NEW r \in Refs, NEW a \in Entries, NEW G, a.val = Counted(r).val, a.at = now,
         mode.keyed => LookedUp(r, G) /\ Len(G) \in Nat /\ G[Len(G)] \in 1..now /\ a.n = Len(G)
  PROVE  Holds(Counted(r), a, G, now)
<1>1. now \in Nat /\ TTL \in Nat
  BY KeyedAssumption DEF StageType
<1>2. Counted(r).wrote = now /\ Counted(r).at = r.at
  BY CountedIs
<1>3. CASE ~mode.keyed
  BY <1>2, <1>3 DEF Holds
<1>4. CASE mode.keyed
  <2>1. ~\E x \in a.n..Len(G) - 1 : TRUE
    <3>1. a.n = Len(G) /\ Len(G) \in Nat
      BY <1>4
    <3> QED BY <3>1
  <2>2. ~(G[Len(G)] - a.at > TTL)
    <3>1. G[Len(G)] \in 1..now /\ a.at = now
      BY <1>4
    <3> QED BY <1>1, <3>1
  <2>3. ~Lost(a, G)
    BY <2>1, <2>2 DEF Lost
  <2>4. Kept(Counted(r), a, G)
    BY <1>2, <1>4, <2>3 DEF Kept, LookedUp
  <2> QED BY <1>4, <2>4 DEF Holds
<1> QED BY <1>3, <1>4

\* Worker w counts item i: c is its reference then, and a the log's entry.
Counts(w, i, c, a) ==
  /\ c = Counted(maps[w][Entity(i)])
  /\ a = [item |-> i, w |-> w, val |-> c.val, at |-> now, n |-> IF mode.keyed THEN Len(gets[Entity(i)]) ELSE 0]
  /\ maps' = [maps EXCEPT ![w] = [maps[w] EXCEPT ![Entity(i)] = c]]
  /\ log' = Append(log, a)

\* An item is counted: its reference goes on from its last use, and the other
\* references stay.
LEMMA ProcessRefs ==
  ASSUME StageType, RouteInv, WorkInv, RefInv, PrevInv, PerKeyState,
         NEW w \in Workers, wk[w].pc = "work",
         NEW i \in Items, i = wk[w].item,
         NEW c, NEW a, Counts(w, i, c, a), UNCHANGED <<mode, now, gets>>
  PROVE  /\ RefInv' /\ PrevInv' /\ PerKeyState'
         /\ maps' \in [Workers -> [Keys -> Refs]] /\ log' \in Seq(Entries)
<1> DEFINE k == Entity(i)
           G == gets[k]
           r == maps[w][k]
           L == Len(log)
<1>1. k \in Keys /\ (mode.keyed => k \in KeySet /\ k = Key(i))
  BY DEF Keys, KeySet, Entity
<1>2. log \in Seq(Entries) /\ L \in Nat /\ maps \in [Workers -> [Keys -> Refs]] /\ now \in Nat \ {0} /\ now \in 1..now
      /\ r \in Refs
  <2>1. now \in Nat \ {0}
    BY DEF StageType
  <2> QED BY <1>1, <2>1 DEF StageType
<1>3. mode.keyed => Len(G) \in Nat /\ LookedUp(r, G) /\ Len(G) \in 1..Len(G) /\ G[Len(G)] \in 1..now
  <2> SUFFICES ASSUME mode.keyed
               PROVE  Len(G) \in Nat /\ LookedUp(r, G) /\ Len(G) \in 1..Len(G) /\ G[Len(G)] \in 1..now
    OBVIOUS
  <2>1. Len(G) \in Nat
    BY <1>1 DEF StageType
  <2>2. LookedUp(r, G)
    BY <1>1 DEF WorkInv
  <2>3. Len(G) \in 1..Len(G)
    <3>1. Len(G) > 0
      BY <2>2 DEF LookedUp
    <3> HIDE DEF G
    <3> QED BY <2>1, <3>1
  <2>4. G[Len(G)] \in 1..now
    BY <1>1, <2>3 DEF RefInv, TimeInv
  <2> QED BY <2>1, <2>2, <2>3, <2>4
<1>4. c = Counted(r) /\ c \in Refs
  BY <1>2, CountedIs DEF Counts
<1>5. a.item = i /\ a.w = w /\ a.val = c.val /\ a.at = now /\ a.n = (IF mode.keyed THEN Len(G) ELSE 0)
  BY DEF Counts
<1>6. a \in Entries
  <2>1. c.val \in Nat
    BY <1>4 DEF Refs
  <2>2. (IF mode.keyed THEN Len(G) ELSE 0) \in Nat
    BY <1>3
  <2>3. a = [item |-> i, w |-> w, val |-> c.val, at |-> now, n |-> IF mode.keyed THEN Len(G) ELSE 0]
    BY DEF Counts
  <2> HIDE DEF G, k
  <2> QED BY <1>2, <2>1, <2>2, <2>3 DEF Entries
<1> HIDE DEF k, G, r
<1>7. maps' = [maps EXCEPT ![w] = [maps[w] EXCEPT ![k] = c]]
  BY DEF Counts, k
<1>8. /\ maps' \in [Workers -> [Keys -> Refs]] /\ maps'[w][k] = c
      /\ \A v \in Workers, j \in Keys : ~(v = w /\ j = k) => maps'[v][j] = maps[v][j]
  <2> DEFINE m == [maps[w] EXCEPT ![k] = c]
  <2>1. m \in [Keys -> Refs] /\ m[k] = c /\ \A j \in Keys : j # k => m[j] = maps[w][j]
    BY <1>1, <1>2, <1>4
  <2>2. maps' = [maps EXCEPT ![w] = m]
    BY <1>7
  <2> HIDE DEF m
  <2>3. maps' \in [Workers -> [Keys -> Refs]] /\ maps'[w] = m /\ \A v \in Workers : v # w => maps'[v] = maps[v]
    BY <1>2, <2>1, <2>2
  <2> QED BY <2>1, <2>3
<1>9. /\ log' \in Seq(Entries) /\ Len(log') = L + 1 /\ log'[L + 1] = a
      /\ \A n \in 1..L : log'[n] = log[n]
  <2>1. log' = Append(log, a)
    BY DEF Counts
  <2> QED BY <1>2, <1>6, <2>1
<1>10. 1..(L + 1) = 1..L \cup {L + 1} /\ L + 1 \notin 1..L
  BY <1>2
<1>11. /\ \A n \in 1..L : \A v, j : Uses(log', n, v, j) <=> Uses(log, n, v, j)
       /\ \A v, j : Uses(log', L + 1, v, j) <=> v = w /\ j = k
  BY <1>5, <1>9 DEF Uses, k
<1>12. TimeInv'
  <2>1. \A n \in 1..Len(log') : log'[n].at \in 1..now'
    BY <1>2, <1>5, <1>9, <1>10 DEF RefInv, TimeInv
  <2>2. mode.keyed => \A n \in 1..Len(log') : log'[n].n \in 1..Len(gets'[Key(log'[n].item)])
    <3> SUFFICES ASSUME mode.keyed, NEW n \in 1..Len(log') PROVE log'[n].n \in 1..Len(gets[Key(log'[n].item)])
      OBVIOUS
    <3>1. CASE n = L + 1
      <4>1. log'[n].n = Len(G) /\ Key(log'[n].item) = k
        BY <1>1, <1>5, <1>9, <3>1
      <4>2. Len(G) \in 1..Len(G)
        BY <1>3
      <4> QED BY <4>1, <4>2 DEF G
    <3>2. CASE n \in 1..L
      BY <1>9, <3>2 DEF RefInv, TimeInv
    <3> QED BY <1>9, <1>10, <3>1, <3>2
  <2>3. \A j \in KeySet : \A x \in 1..Len(gets'[j]) : gets'[j][x] \in 1..now'
    BY DEF RefInv, TimeInv
  <2> QED BY <2>1, <2>2, <2>3 DEF TimeInv
<1>13. HeldBy(r, log, G, now, w, k)
  BY <1>1 DEF RefInv, HeldInv, r, G
<1>14. ASSUME NEW n \in 1..L, LastUse(log, n, w, k), Holds(r, log[n], G, now)
       PROVE  c.val = IF ResetsIn(log[n], a, G) THEN 1 ELSE log[n].val + 1
  <2>1. log[n] \in Entries /\ log[n].at \in 1..now
    BY <1>2 DEF RefInv, TimeInv
  <2>2. c = Counted(r)
    BY <1>4
  <2>3. mode.keyed => LookedUp(r, G) /\ G[Len(G)] \in 1..now /\ a.n = Len(G)
    BY <1>3, <1>5
  <2> QED BY <1>2, <1>5, <1>6, <1>14, <2>1, <2>2, <2>3, CountsOn
<1>15. r.val = 0 /\ r.wrote = 0 => c.val = 1
  <2>1. c = Counted(r)
    BY <1>4
  <2>2. r.wrote = 0 => ~Expired(r)
    BY DEF Expired, Old
  <2> QED BY <1>2, <2>1, <2>2, CountedIs
<1>16. Holds(c, a, G, now)
  <2>1. c = Counted(r)
    BY <1>4
  <2>2. mode.keyed => LookedUp(r, G) /\ Len(G) \in Nat /\ G[Len(G)] \in 1..now /\ a.n = Len(G)
    BY <1>3, <1>5
  <2> QED BY <1>2, <1>5, <1>6, <2>1, <2>2, CountedHolds
<1>17. ASSUME NEW v \in Workers, NEW j \in Keys
       PROVE  HeldBy(maps'[v][j], log', gets'[j], now', v, j)
  <2>1. CASE v = w /\ j = k
    <3>1. LastUse(log', L + 1, v, j)
      BY <1>2, <1>9, <1>11, <2>1 DEF LastUse
    <3>2. maps'[v][j] = c /\ log'[L + 1] = a /\ gets'[j] = G /\ now' = now /\ L + 1 \in 1..Len(log')
      BY <1>2, <1>8, <1>9, <2>1 DEF G
    <3>3. Holds(maps'[v][j], log'[L + 1], gets'[j], now')
      BY <1>16, <3>2
    <3>4. \E n \in 1..Len(log') : LastUse(log', n, v, j) /\ Holds(maps'[v][j], log'[n], gets'[j], now')
      BY <3>1, <3>2, <3>3
    <3> QED BY <3>4 DEF HeldBy
  <2>2. CASE ~(v = w /\ j = k)
    <3>1. HeldBy(maps[v][j], log, gets[j], now, v, j)
      BY DEF RefInv, HeldInv
    <3>2. maps'[v][j] = maps[v][j] /\ gets'[j] = gets[j] /\ now' = now
      BY <1>8, <2>2
    <3>3. \A n \in 1..L : LastUse(log, n, v, j) => n \in 1..Len(log') /\ LastUse(log', n, v, j) /\ log'[n] = log[n]
      BY <1>9, <1>10, <1>11, <2>2 DEF LastUse
    <3>4. (\A n \in 1..L : ~Uses(log, n, v, j)) => \A n \in 1..Len(log') : ~Uses(log', n, v, j)
      BY <1>9, <1>10, <1>11, <2>2
    <3> QED BY <3>1, <3>2, <3>3, <3>4 DEF HeldBy
  <2> QED BY <2>1, <2>2
<1>18. HeldInv'
  BY <1>17, HeldNext
<1>19. \A n \in 1..L : Same(log[n], a) <=> Uses(log, n, w, k)
  <2> SUFFICES ASSUME NEW n \in 1..L PROVE Same(log[n], a) <=> Uses(log, n, w, k)
    OBVIOUS
  <2>1. CASE ~mode.keyed
    BY <1>5, <2>1 DEF Same, Uses, Entity, k
  <2>2. CASE mode.keyed
    <3>1. Owner(log[n].item) = log[n].w /\ Owner(i) = w
      BY <2>2 DEF RouteInv
    <3>2. Key(log[n].item) = Key(i) => Owner(log[n].item) = Owner(i)
      BY DEF Owner
    <3> QED BY <1>5, <2>2, <3>1, <3>2 DEF Same, Uses, Entity, k
  <2> QED BY <2>1, <2>2
<1>20. \A n \in 1..L : Good(n)' /\ Prev(n)'
  <2>1. TimeInv /\ \A j \in KeySet : \A x \in 1..Len(gets[j]) : gets'[j][x] = gets[j][x]
    BY DEF RefInv
  <2>2. \A n \in 1..Len(log) : log'[n] = log[n]
    BY <1>9
  <2> QED BY <2>1, <2>2, PastKept
<1> DEFINE q == {j \in 1..(L + 1) - 1 : Same(log'[j], log'[L + 1])}
<1>21. q = {j \in 1..L : Uses(log, j, w, k)}
  <2>1. (L + 1) - 1 = L
    BY <1>2
  <2> QED BY <1>9, <1>19, <2>1
<1>22. ASSUME NEW n1, n1 = L + 1
       PROVE  Prev(n1)'
  <2>1. \A j \in 1..L : Same(log'[j], log'[L + 1]) <=> Uses(log, j, w, k)
    BY <1>9, <1>19
  <2>2. (L + 1) - 1 = L
    BY <1>2
  <2>3. \/ \A j \in 1..L : ~Uses(log, j, w, k)
        \/ \E x \in 1..L : Uses(log, x, w, k) /\ \A j \in 1..L : Uses(log, j, w, k) => j <= x
    BY <1>13 DEF HeldBy, LastUse
  <2>4. \/ \A j \in 1..(L + 1) - 1 : ~Same(log'[j], log'[L + 1])
        \/ \E x \in 1..(L + 1) - 1 : /\ Same(log'[x], log'[L + 1])
                                     /\ \A j \in 1..(L + 1) - 1 : Same(log'[j], log'[L + 1]) => j <= x
    BY <2>1, <2>2, <2>3
  <2>5. \/ \A j \in 1..n1 - 1 : ~Same(log'[j], log'[n1])
        \/ \E x \in 1..n1 - 1 : /\ Same(log'[x], log'[n1])
                                /\ \A j \in 1..n1 - 1 : Same(log'[j], log'[n1]) => j <= x
    BY <1>22, <2>4
  <2> QED BY <2>5 DEF Prev, Same, Entity
<1>23. ASSUME NEW n1, n1 = L + 1
       PROVE  Good(n1)'
  <2> HIDE DEF q
  <2>1. Key(a.item) = k \/ ~mode.keyed
    BY <1>1, <1>5
  <2>2. log'[L + 1].val = IF q = {} \/ ResetsIn(log'[Max(q)], log'[L + 1], gets'[Key(log'[L + 1].item)])
                          THEN 1 ELSE log'[Max(q)].val + 1
    <3>1. CASE r.val = 0 /\ r.wrote = 0 /\ \A n \in 1..L : ~Uses(log, n, w, k)
      <4>1. q = {}
        BY <1>21, <3>1
      <4> QED BY <1>5, <1>9, <1>15, <3>1, <4>1
    <3>2. ASSUME NEW n \in 1..L, LastUse(log, n, w, k), Holds(r, log[n], G, now)
          PROVE  log'[L + 1].val = IF q = {} \/ ResetsIn(log'[Max(q)], log'[L + 1], gets'[Key(log'[L + 1].item)])
                                   THEN 1 ELSE log'[Max(q)].val + 1
      <4>1. n \in q /\ q \in SUBSET Nat /\ \A j \in q : j <= n
        BY <1>21, <3>2 DEF LastUse
      <4>2. Max(q) = n
        BY <4>1, MaxIs
      <4>3. log'[Max(q)] = log[n] /\ log'[L + 1] = a /\ q # {}
        BY <1>9, <4>1, <4>2
      <4>4. ResetsIn(log[n], a, gets'[Key(a.item)]) <=> ResetsIn(log[n], a, G)
        BY <2>1 DEF ResetsIn, G
      <4>5. c.val = IF ResetsIn(log[n], a, G) THEN 1 ELSE log[n].val + 1
        BY <1>14, <3>2
      <4> QED BY <1>5, <4>3, <4>4, <4>5
    <3> QED BY <1>13, <3>1, <3>2 DEF HeldBy
  <2> DEFINE q1 == {j \in 1..n1 - 1 : Same(log'[j], log'[n1])}
  <2>3. q1 = q
    BY <1>23 DEF q
  <2> HIDE DEF q1
  <2>4. log'[n1].val = IF q1 = {} \/ ResetsIn(log'[Max(q1)], log'[n1], gets'[Key(log'[n1].item)])
                       THEN 1 ELSE log'[Max(q1)].val + 1
    BY <1>23, <2>2, <2>3
  <2>5. mode' = mode
    OBVIOUS
  <2> QED BY ZenonT(60), <2>4, <2>5 DEF Good, q1, Resets, Idle, TooOld, ResetsIn, Same, Entity
<1>24. PrevInv' /\ PerKeyState'
  <2>1. \A n \in 1..Len(log') : Good(n)' /\ Prev(n)'
    BY <1>9, <1>10, <1>20, <1>22, <1>23
  <2>2. DOMAIN log' = 1..Len(log')
    BY <1>9
  <2> QED BY <2>1, <2>2 DEF PrevInv, PerKeyState, Good
<1> QED BY <1>8, <1>9, <1>12, <1>18, <1>24 DEF RefInv
-----------------------------------------------------------------------------
(* The stage. *)

\* Steps that leave the dispatcher and the workers where they are.
LEMMA CalmStage ==
  ASSUME StageType, RouteInv, now' \in Nat \ {0}, UNCHANGED <<mode, read, disp, wq, wk, maps, gets, log>>
  PROVE  StageType' /\ RouteInv'
BY DEF StageType, RouteInv, Owner, Workers, Serial, Pulls, Entries

\* Nobody takes an item.
LEMMA CalmWork ==
  ASSUME WorkInv, UNCHANGED <<mode, wk, maps, gets>>
  PROVE  WorkInv'
BY DEF WorkInv, LookedUp, Workers, Serial

\* A worker is done with its item.
LEMMA WorkLeft ==
  ASSUME StageType, WorkInv, NEW w \in Workers, NEW pc, NEW i, NEW outs, WorkerAt(w, pc, i, outs), pc # "work",
         \A v \in Workers : v # w => maps'[v] = maps[v], UNCHANGED <<mode, gets>>
  PROVE  WorkInv'
<1>1. Workers' = Workers
  BY DEF Workers, Serial
<1>2. wk'[w].pc = pc /\ \A v \in Workers : v # w => wk'[v] = wk[v]
  BY DEF StageType, WorkerAt
<1>3. ASSUME mode.keyed, NEW v \in Workers, wk'[v].pc = "work"
      PROVE  LookedUp(maps'[v][Key(wk'[v].item)], gets'[Key(wk'[v].item)])
  <2>1. v # w
    BY <1>2, <1>3
  <2> QED BY <1>2, <1>3, <2>1 DEF WorkInv
<1> QED BY <1>1, <1>3 DEF WorkInv, LookedUp

\* A worker takes an item of its own: no other worker looks up its key.
LEMMA WorkTaken ==
  ASSUME StageType, RouteInv, WorkInv, NEW w \in Workers, NEW i \in Items, mode.keyed => Owner(i) = w,
         WorkerAt(w, "work", i, << >>), Lookup(w, i), UNCHANGED <<mode, now>>
  PROVE  /\ WorkInv'
         /\ maps' \in [Workers -> [Keys -> Refs]] /\ gets' \in [KeySet -> Seq(Nat)]
<1>1. CASE ~mode.keyed
  BY <1>1 DEF Lookup, StageType, WorkInv
<1>2. CASE mode.keyed
  <2>1. /\ maps' \in [Workers -> [Keys -> Refs]]
        /\ \A v \in Workers : v # w => maps'[v] = maps[v]
        /\ maps'[w][Key(i)] = LET r == maps[w][Key(i)]
                              IN  [IF Swept(r) \/ Expired(r) THEN Gone(r) ELSE r EXCEPT !.at = now]
        /\ gets' \in [KeySet -> Seq(Nat)]
        /\ gets'[Key(i)] = Append(gets[Key(i)], now)
        /\ \A k \in KeySet : k # Key(i) => gets'[k] = gets[k]
    BY <1>2, LookupIs
  <2>2. Workers' = Workers
    BY DEF Workers, Serial
  <2>3. /\ wk'[w].pc = "work" /\ wk'[w].item = i
        /\ \A v \in Workers : v # w => wk'[v] = wk[v]
    BY DEF StageType, WorkerAt
  <2>4. Key(i) \in KeySet /\ Key(i) \in Keys
    BY DEF KeySet, Keys
  <2>5. LookedUp(maps'[w][Key(i)], gets'[Key(i)])
    <3> DEFINE G == gets[Key(i)]
               r == maps[w][Key(i)]
    <3>1. G \in Seq(Nat) /\ r \in Refs /\ now \in Nat
      BY <2>4 DEF StageType
    <3>2. maps'[w][Key(i)] = [IF Swept(r) \/ Expired(r) THEN Gone(r) ELSE r EXCEPT !.at = now] /\ gets'[Key(i)] = Append(G, now)
      BY <2>1
    <3> HIDE DEF G, r
    <3>3. [IF Swept(r) \/ Expired(r) THEN Gone(r) ELSE r EXCEPT !.at = now].at = now
      BY <3>1 DEF Refs, Gone
    <3>4. Len(Append(G, now)) > 0 /\ Append(G, now)[Len(Append(G, now))] = now
      <4> HIDE DEF G
      <4>1. Len(Append(G, now)) = Len(G) + 1 /\ Len(G) \in Nat /\ Append(G, now)[Len(G) + 1] = now
        BY <3>1
      <4> QED BY <4>1
    <3> QED BY <3>2, <3>3, <3>4 DEF LookedUp
  <2>6. ASSUME NEW v \in Workers, v # w, wk'[v].pc = "work"
        PROVE  LookedUp(maps'[v][Key(wk'[v].item)], gets'[Key(wk'[v].item)])
    <3>1. wk'[v] = wk[v] /\ wk[v].item \in Items /\ Owner(wk[v].item) = v
      BY <1>2, <2>3, <2>6 DEF StageType, RouteInv
    <3>2. Key(wk[v].item) # Key(i)
      <4>1. Key(wk[v].item) = Key(i) => Owner(wk[v].item) = Owner(i)
        BY DEF Owner
      <4> QED BY <1>2, <2>6, <3>1, <4>1
    <3>3. Key(wk[v].item) \in KeySet
      BY <3>1 DEF KeySet
    <3>4. gets'[Key(wk[v].item)] = gets[Key(wk[v].item)] /\ maps'[v] = maps[v]
      BY <2>1, <2>6, <3>2, <3>3
    <3> QED BY <1>2, <2>6, <3>1, <3>4 DEF WorkInv
  <2>7. \A v \in Workers : wk'[v].pc = "work" => LookedUp(maps'[v][Key(wk'[v].item)], gets'[Key(wk'[v].item)])
    BY <2>3, <2>5, <2>6
  <2>8. WorkInv'
    BY <2>2, <2>7 DEF WorkInv, LookedUp
  <2> QED BY <2>1, <2>8
<1> QED BY <1>1, <1>2

\* A step of one worker: it is elsewhere, and works on an item only if the
\* item is one of its own.
LEMMA WorkerMoves ==
  ASSUME StageType, RouteInv, NEW w \in Workers, NEW pc, NEW i, NEW outs,
         WorkerAt(w, pc, i, outs),
         pc = "work" => i \in Items /\ (mode.keyed => Owner(i) = w),
         UNCHANGED <<mode, disp, now>>,
         read' \in Nat, read' <= mode.len,
         wq' \in [Workers -> Seq(Items)],
         mode.keyed => \A v \in Workers : \A n \in 1..Len(wq'[v]) : Owner(wq'[v][n]) = v,
         maps' \in [Workers -> [Keys -> Refs]], gets' \in [KeySet -> Seq(Nat)], log' \in Seq(Entries),
         mode.keyed => \A n \in 1..Len(log') : Owner(log'[n].item) = log'[n].w
  PROVE  StageType' /\ RouteInv'
<1>1. /\ Workers' = Workers /\ Entries' = Entries /\ (Serial' <=> Serial) /\ (Pulls' <=> Pulls)
      /\ \A x : Owner(x)' = Owner(x)
  BY DEF Workers, Serial, Pulls, Entries, Owner
<1>2. /\ DOMAIN wk' = Workers
      /\ wk'[w] = [pc |-> pc, item |-> i, outs |-> outs]
      /\ \A v \in Workers : v # w => wk'[v] = wk[v]
      /\ wk' = [v \in Workers |-> wk'[v]]
  BY DEF StageType, WorkerAt
<1>3. \A v \in Workers : wk'[v].pc = "work" => wk'[v].item \in Items /\ (mode.keyed => Owner(wk'[v].item) = v)
  <2> SUFFICES ASSUME NEW v \in Workers, wk'[v].pc = "work"
               PROVE  wk'[v].item \in Items /\ (mode.keyed => Owner(wk'[v].item) = v)
    OBVIOUS
  <2>1. CASE v = w
    BY <1>2, <2>1
  <2>2. CASE v # w
    BY <1>2, <2>2 DEF StageType, RouteInv
  <2> QED BY <2>1, <2>2
<1>4. StageType'
  BY <1>1, <1>2, <1>3 DEF StageType
<1>5. RouteInv'
  <2>1. \A v \in Workers : \A n \in 1..Len(wq'[v]) : Owner(wq[v][n])' = Owner(wq'[v][n])
    BY DEF Owner, Serial
  <2>2. \A v \in Workers : Owner(wk[v].item)' = Owner(wk'[v].item)
    BY DEF Owner, Serial
  <2>3. \A n \in 1..Len(log') : Owner(log[n].item)' = Owner(log'[n].item)
    BY DEF Owner, Serial
  <2> QED BY <1>1, <1>3, <2>1, <2>2, <2>3 DEF RouteInv
<1> QED BY <1>4, <1>5

\* A step of the dispatcher: what it gives away goes to its owner.
LEMMA DispatchStage ==
  ASSUME StageType, RouteInv, Dispatch
  PROVE  StageType' /\ RouteInv'
<1>1. UNCHANGED <<mode, wk, maps, gets, now, log>>
  BY DEF Dispatch, DispRecv, DispSlot, DispGive, DispEnd, dispRest
<1>2. /\ Workers' = Workers /\ Entries' = Entries /\ (Serial' <=> Serial) /\ (Pulls' <=> Pulls)
  BY <1>1 DEF Workers, Serial, Pulls, Entries
<1>3. ~Serial /\ disp.pc # "none"
  BY DEF Dispatch, DispRecv, DispSlot, DispGive, DispEnd, StageType, Pulls
<1>4. N \in Nat /\ N > 0 /\ Workers = 1..N
  BY <1>3, KeyedAssumption DEF Workers
<1>5. mode.len \in Nat /\ mode.len <= MaxItems /\ MaxItems \in Nat
  BY ModeType, KeyedAssumption DEF StageType
<1>6. /\ disp' = [pc |-> disp'.pc, item |-> disp'.item, next |-> disp'.next]
      /\ disp'.next \in 1..N /\ (Pulls => disp'.pc = "none")
      /\ disp'.pc \in {"slot", "give"} => disp'.item \in Items
      /\ read' \in Nat /\ read' <= mode.len
  <2>1. CASE DispRecv
    <3>1. disp' = [pc |-> IF InOrder THEN "slot" ELSE "give", item |-> read + 1, next |-> disp.next]
      BY <2>1 DEF DispRecv, StageType
    <3>2. read + 1 \in Items /\ read' = read + 1 /\ read + 1 <= mode.len /\ read + 1 \in Nat
      BY <1>5, <2>1 DEF DispRecv, StageType, Items
    <3>3. ~Pulls /\ disp.next \in 1..N
      BY <2>1 DEF DispRecv, StageType
    <3> QED BY <3>1, <3>2, <3>3
  <2>2. CASE DispSlot
    BY <1>3, <1>4, <2>2 DEF DispSlot, StageType
  <2>3. CASE DispGive
    BY <1>3, <1>4, <2>3 DEF DispGive, StageType
  <2>4. CASE DispEnd
    BY <1>3, <1>4, <2>4 DEF DispEnd, StageType
  <2> QED BY <2>1, <2>2, <2>3, <2>4 DEF Dispatch
<1>7. /\ wq' \in [Workers -> Seq(Items)]
      /\ mode.keyed => \A v \in Workers : \A n \in 1..Len(wq'[v]) : Owner(wq'[v][n]) = v
  <2>1. CASE DispGive
    <3> DEFINE t == Target(disp.item)
               q == Append(wq[t], disp.item)
    <3>1. disp.item \in Items /\ disp.pc = "give"
      BY <2>1 DEF DispGive, StageType
    <3>2. t \in Workers /\ (mode.keyed => t = Owner(disp.item))
      BY SMTT(30), <1>3, <1>4, <3>1, KeyedAssumption DEF Target, Owner, StageType, Items
    <3> HIDE DEF t
    <3>3. wq \in [Workers -> Seq(Items)] /\ wq' = [wq EXCEPT ![t] = q]
      BY <2>1 DEF DispGive, StageType, t
    <3>4. q \in Seq(Items) /\ Len(q) = Len(wq[t]) + 1 /\ q[Len(q)] = disp.item
          /\ \A n \in 1..Len(wq[t]) : q[n] = wq[t][n]
      BY <3>1, <3>2, <3>3
    <3> HIDE DEF q
    <3>5. wq'[t] = q /\ \A v \in Workers : v # t => wq'[v] = wq[v]
      BY <3>2, <3>3
    <3>6. wq' \in [Workers -> Seq(Items)]
      BY <3>3, <3>4
    <3>7. ASSUME mode.keyed, NEW v \in Workers, NEW n \in 1..Len(wq'[v])
          PROVE  Owner(wq'[v][n]) = v
      <4>1. CASE v # t
        BY <3>5, <3>7, <4>1 DEF RouteInv
      <4>2. CASE v = t /\ n = Len(q)
        BY <3>2, <3>4, <3>5, <3>7, <4>2
      <4>3. CASE v = t /\ n # Len(q)
        <5>1. n \in 1..Len(wq[t])
          BY <3>3, <3>4, <3>5, <3>7, <3>2, <4>3
        <5> QED BY <3>2, <3>4, <3>5, <3>7, <4>3, <5>1 DEF RouteInv
      <4> QED BY <4>1, <4>2, <4>3
    <3> QED BY <3>6, <3>7
  <2>2. CASE UNCHANGED wq
    BY <2>2 DEF StageType, RouteInv
  <2> QED BY <2>1, <2>2 DEF Dispatch, DispRecv, DispSlot, DispEnd
<1>8. StageType'
  BY <1>1, <1>2, <1>6, <1>7 DEF StageType
<1>9. RouteInv'
  <2>1. \A v \in Workers : \A n \in 1..Len(wq'[v]) : Owner(wq[v][n])' = Owner(wq'[v][n])
    BY <1>1 DEF Owner, Serial
  <2>2. \A x : Owner(x)' = Owner(x)
    BY <1>1 DEF Owner, Serial
  <2> QED BY <1>1, <1>2, <1>7, <2>1, <2>2 DEF RouteInv
<1> QED BY <1>8, <1>9

\* A step of a worker, or its failure.
LEMMA WorkStage ==
  ASSUME Inv, NEW w \in Workers, Work(w) \/ Fail(w)
  PROVE  Inv'
<1> USE DEF Inv
<1>1. UNCHANGED <<mode, disp, now>>
  BY DEF Work, Fail, WorkerTakes, WorkerEnds, Process, WorkerSends, WorkerSendStops, workRest
<1>2. /\ read \in Nat /\ read <= mode.len /\ wq \in [Workers -> Seq(Items)]
      /\ maps \in [Workers -> [Keys -> Refs]] /\ gets \in [KeySet -> Seq(Nat)] /\ log \in Seq(Entries)
      /\ mode.keyed => /\ \A v \in Workers : \A n \in 1..Len(wq[v]) : Owner(wq[v][n]) = v
                       /\ \A n \in 1..Len(log) : Owner(log[n].item) = log[n].w
  BY DEF StageType, RouteInv
<1>3. CASE WorkerTakes(w)
  <2>0. UNCHANGED log
    BY <1>3 DEF WorkerTakes
  <2>1. CASE /\ Pulls /\ ~eof /\ read < mode.len /\ read' = read + 1 /\ UNCHANGED wq
             /\ WorkerAt(w, "work", read + 1, << >>) /\ Lookup(w, read + 1)
    <3>1. read + 1 \in Items
      BY <1>2, <2>1, ModeType, KeyedAssumption DEF StageType, Items
    <3>2. mode.keyed => Owner(read + 1) = w
      BY <2>1, ModeType DEF Pulls, Owner, Workers, StageType, Serial
    <3>3. read' \in Nat /\ read' <= mode.len
      BY <1>2, <2>1, ModeType DEF StageType
    <3>4. WorkInv' /\ maps' \in [Workers -> [Keys -> Refs]] /\ gets' \in [KeySet -> Seq(Nat)]
      BY <1>1, <2>1, <3>1, <3>2, WorkTaken
    <3>5. RefInv' /\ PrevInv' /\ PerKeyState'
      BY <1>1, <2>0, <2>1, <3>1, <3>2, LookupRefs
    <3>6. StageType' /\ RouteInv'
      BY <1>1, <1>2, <2>0, <2>1, <3>1, <3>2, <3>3, <3>4, WorkerMoves
    <3> QED BY <3>4, <3>5, <3>6
  <2>2. CASE /\ ~Pulls /\ wq[w] # << >> /\ wq' = [wq EXCEPT ![w] = Tail(@)] /\ UNCHANGED read
             /\ WorkerAt(w, "work", Head(wq[w]), << >>) /\ Lookup(w, Head(wq[w]))
    <3>1. wq[w] \in Seq(Items) /\ Head(wq[w]) \in Items /\ Tail(wq[w]) \in Seq(Items)
          /\ Head(wq[w]) = wq[w][1] /\ 1 \in 1..Len(wq[w])
          /\ \A n \in 1..Len(Tail(wq[w])) : Tail(wq[w])[n] = wq[w][n + 1] /\ n + 1 \in 1..Len(wq[w])
      BY <1>2, <2>2
    <3>2. mode.keyed => Owner(Head(wq[w])) = w
      BY <1>2, <3>1
    <3>3. wq' \in [Workers -> Seq(Items)] /\ wq'[w] = Tail(wq[w]) /\ \A v \in Workers : v # w => wq'[v] = wq[v]
      BY <1>2, <2>2, <3>1
    <3>4. mode.keyed => \A v \in Workers : \A n \in 1..Len(wq'[v]) : Owner(wq'[v][n]) = v
      <4> SUFFICES ASSUME mode.keyed, NEW v \in Workers, NEW n \in 1..Len(wq'[v])
                   PROVE  Owner(wq'[v][n]) = v
        OBVIOUS
      <4>1. CASE v = w
        <5>1. wq'[v][n] = wq[w][n + 1] /\ n + 1 \in 1..Len(wq[w])
          BY <3>1, <3>3, <4>1
        <5>2. Owner(wq[w][n + 1]) = w
          BY <1>2, <5>1
        <5> QED BY <4>1, <5>1, <5>2
      <4>2. CASE v # w
        BY <1>2, <3>3, <4>2
      <4> QED BY <4>1, <4>2
    <3>5. WorkInv' /\ maps' \in [Workers -> [Keys -> Refs]] /\ gets' \in [KeySet -> Seq(Nat)]
      BY <1>1, <2>2, <3>1, <3>2, WorkTaken
    <3>6. RefInv' /\ PrevInv' /\ PerKeyState'
      BY <1>1, <2>0, <2>2, <3>1, <3>2, LookupRefs
    <3>7. StageType' /\ RouteInv'
      BY <1>1, <1>2, <2>0, <2>2, <3>1, <3>2, <3>3, <3>4, <3>5, WorkerMoves
    <3> QED BY <3>5, <3>6, <3>7
  <2> QED BY <1>3, <2>1, <2>2 DEF WorkerTakes
<1>4. CASE WorkerEnds(w)
  <2>1. WorkerAt(w, "end", 0, << >>) /\ UNCHANGED <<read, wq, maps, gets, log>>
    BY <1>4 DEF WorkerEnds
  <2> QED BY <1>1, <1>2, <2>1, WorkerMoves, WorkLeft, CalmRefs
<1>5. ASSUME NEW how \in {"ok", "skip", "err"}, NEW i, NEW outs, Leaves(w, i, how, outs)
      PROVE  WorkerAt(w, "idle", 0, << >>) \/ WorkerAt(w, "send", i, outs) \/ WorkerAt(w, "idle", i, outs)
  BY <1>5 DEF Leaves
<1>6. CASE Process(w)
  <2> DEFINE i == wk[w].item
  <2>1. i \in Items /\ (mode.keyed => Owner(i) = w) /\ wk[w].pc = "work"
    BY <1>6 DEF Process, StageType, RouteInv
  <2>2. UNCHANGED <<read, wq, gets>>
    BY <1>6 DEF Process
  <2>3. ASSUME NEW c, NEW a, Counts(w, i, c, a), Leaves(w, i, "ok", Outputs(i, c.val))
        PROVE  Inv'
    <3>1. RefInv' /\ PrevInv' /\ PerKeyState' /\ maps' \in [Workers -> [Keys -> Refs]] /\ log' \in Seq(Entries)
      BY <1>1, <2>1, <2>2, <2>3, ProcessRefs
    <3>0. \A v \in Workers : v # w => maps'[v] = maps[v]
      BY <1>2, <2>3 DEF Counts
    <3>2. mode.keyed => \A n \in 1..Len(log') : Owner(log'[n].item) = log'[n].w
      <4> SUFFICES ASSUME mode.keyed, NEW n \in 1..Len(log') PROVE Owner(log'[n].item) = log'[n].w
        OBVIOUS
      <4>1. /\ Len(log') = Len(log) + 1 /\ log'[Len(log) + 1].item = i /\ log'[Len(log) + 1].w = w
            /\ \A j \in 1..Len(log) : log'[j] = log[j]
        <5>1. log' = Append(log, a) /\ a.item = i /\ a.w = w
          BY <2>3 DEF Counts
        <5> HIDE DEF i
        <5> QED BY <1>2, <5>1
      <4>2. CASE n = Len(log) + 1
        <5>1. log'[n].item = i /\ log'[n].w = w
          BY <4>1, <4>2
        <5>2. Owner(i) = w
          BY <2>1
        <5> HIDE DEF i
        <5> QED BY <5>1, <5>2
      <4>3. CASE n # Len(log) + 1
        <5>1. n \in 1..Len(log)
          BY <1>2, <4>1, <4>3
        <5> QED BY <1>2, <4>1, <5>1
      <4> QED BY <4>2, <4>3
    <3> DEFINE o == Outputs(i, c.val)
    <3>3. WorkerAt(w, "idle", 0, << >>) \/ WorkerAt(w, "send", i, o) \/ WorkerAt(w, "idle", i, o)
      BY <1>5, <2>3
    <3> HIDE DEF o, i
    <3>4. StageType' /\ RouteInv' /\ WorkInv'
      <4>1. CASE WorkerAt(w, "idle", 0, << >>)
        BY <1>1, <1>2, <2>2, <3>0, <3>1, <3>2, <4>1, WorkerMoves, WorkLeft
      <4>2. CASE WorkerAt(w, "send", i, o)
        BY <1>1, <1>2, <2>2, <3>0, <3>1, <3>2, <4>2, WorkerMoves, WorkLeft
      <4>3. CASE WorkerAt(w, "idle", i, o)
        BY <1>1, <1>2, <2>2, <3>0, <3>1, <3>2, <4>3, WorkerMoves, WorkLeft
      <4> QED BY <3>3, <4>1, <4>2, <4>3
    <3> QED BY <3>1, <3>4
  <2>4. CASE Leaves(w, i, "skip", << >>) /\ UNCHANGED <<maps, log>>
    <3>1. WorkerAt(w, "idle", 0, << >>) \/ WorkerAt(w, "send", i, << >>) \/ WorkerAt(w, "idle", i, << >>)
      BY <1>5, <2>4
    <3> HIDE DEF i
    <3>2. StageType' /\ RouteInv' /\ WorkInv'
      <4>1. CASE WorkerAt(w, "idle", 0, << >>)
        BY <1>1, <1>2, <2>2, <2>4, <4>1, WorkerMoves, WorkLeft
      <4>2. CASE WorkerAt(w, "send", i, << >>)
        BY <1>1, <1>2, <2>2, <2>4, <4>2, WorkerMoves, WorkLeft
      <4>3. CASE WorkerAt(w, "idle", i, << >>)
        BY <1>1, <1>2, <2>2, <2>4, <4>3, WorkerMoves, WorkLeft
      <4> QED BY <3>1, <4>1, <4>2, <4>3
    <3> QED BY <1>1, <2>2, <2>4, <3>2, CalmRefs
  <2>5. \/ \E c, a : Counts(w, i, c, a) /\ Leaves(w, i, "ok", Outputs(i, c.val))
        \/ Leaves(w, i, "skip", << >>) /\ UNCHANGED <<maps, log>>
    BY <1>6 DEF Process, Counts
  <2> HIDE DEF i
  <2> QED BY <2>3, <2>4, <2>5
<1>7. CASE Fail(w)
  <2>1. UNCHANGED <<read, wq, maps, gets, log>>
    BY <1>7 DEF Fail
  <2>2. \E pc, i, outs : pc # "work" /\ WorkerAt(w, pc, i, outs)
    <3>1. CASE InOrder
      BY <1>7, <3>1, <1>5 DEF Fail
    <3>2. CASE ~InOrder
      BY <1>7, <3>2 DEF Fail
    <3> QED BY <3>1, <3>2
  <2>3. PICK pc, i, outs : pc # "work" /\ WorkerAt(w, pc, i, outs)
    BY <2>2
  <2> QED BY <1>1, <1>2, <2>1, <2>3, WorkerMoves, WorkLeft, CalmRefs
<1>8. CASE WorkerSends(w) \/ WorkerSendStops(w)
  <2>1. UNCHANGED <<read, wq, maps, gets, log>>
    BY <1>8 DEF WorkerSends, WorkerSendStops
  <2>2. \E pc, i, outs : pc # "work" /\ WorkerAt(w, pc, i, outs)
    BY <1>8 DEF WorkerSends, WorkerSendStops
  <2>3. PICK pc, i, outs : pc # "work" /\ WorkerAt(w, pc, i, outs)
    BY <2>2
  <2> QED BY <1>1, <1>2, <2>1, <2>3, WorkerMoves, WorkLeft, CalmRefs
<1> QED BY <1>3, <1>4, <1>6, <1>7, <1>8 DEF Work

\* inner() starts again: the channels are empty, the references are kept.
LEMMA ReturnStage ==
  ASSUME StageType, RouteInv, WorkInv, Return
  PROVE  StageType' /\ RouteInv' /\ WorkInv'
<1>1. UNCHANGED <<mode, read, maps, gets, now, log>>
  BY DEF Return
<1>2. CASE UNCHANGED <<disp, wq, wk>>
  <2>1. now' \in Nat \ {0}
    BY <1>1 DEF StageType
  <2> QED BY <1>1, <1>2, <2>1, CalmStage, CalmWork
<1>3. CASE disp' = Fresh(mode).disp /\ wk' = Fresh(mode).wk /\ wq' = [w \in Workers |-> << >>]
  <2>1. /\ Workers' = Workers /\ Entries' = Entries /\ (Serial' <=> Serial) /\ (Pulls' <=> Pulls)
        /\ \A x : Owner(x)' = Owner(x)
    BY <1>1 DEF Workers, Serial, Pulls, Entries, Owner
  <2>2. /\ Pulls => disp'.pc = "none"
        /\ disp'.pc \notin {"slot", "give"} /\ disp'.next = 1
        /\ disp' = [pc |-> disp'.pc, item |-> disp'.item, next |-> disp'.next]
    BY <1>3 DEF Fresh, Pulls, Serial
  <2>3. DOMAIN wk' = Workers /\ wk' = [w \in Workers |-> wk'[w]] /\ \A w \in Workers : wk'[w].pc = "idle"
    BY <1>3 DEF Fresh, Workers, Serial
  <2>4. wq' \in [Workers -> Seq(Items)] /\ \A w \in Workers : Len(wq'[w]) = 0
    BY <1>3
  <2>5. 1 \in 1..N
    BY KeyedAssumption
  <2>6. StageType'
    BY <1>1, <2>1, <2>2, <2>3, <2>4, <2>5 DEF StageType
  <2>7. RouteInv'
    BY <1>1, <2>1, <2>3, <2>4 DEF RouteInv
  <2>8. WorkInv'
    BY <2>1, <2>3 DEF WorkInv
  <2> QED BY <2>6, <2>7, <2>8
<1> QED BY <1>2, <1>3 DEF Return

LEMMA InitInv == Init => Inv
<1> SUFFICES ASSUME Init PROVE Inv
  OBVIOUS
<1>1. mode.len \in Nat /\ 1 \in 1..N
  BY ModeType, KeyedAssumption DEF Init
<1>2. /\ Pulls => disp.pc = "none"
      /\ disp.pc \notin {"slot", "give"} /\ disp.next = 1
      /\ disp = [pc |-> disp.pc, item |-> disp.item, next |-> disp.next]
  BY DEF Init, Fresh, Pulls, Serial
<1>3. DOMAIN wk = Workers /\ wk = [w \in Workers |-> wk[w]] /\ \A w \in Workers : wk[w].pc = "idle"
  BY DEF Init, Fresh, Workers, Serial
<1>4. wq \in [Workers -> Seq(Items)] /\ \A w \in Workers : Len(wq[w]) = 0
  BY DEF Init
<1>5. maps \in [Workers -> [Keys -> Refs]] /\ \A w \in Workers, k \in Keys : maps[w][k] = NoRef
  BY DEF Init, Keys, KeySet, Refs, NoRef
<1>6. log = << >> /\ log \in Seq(Entries) /\ Len(log) = 0 /\ DOMAIN log = {}
  BY DEF Init
<1>7. gets \in [KeySet -> Seq(Nat)] /\ \A k \in KeySet : Len(gets[k]) = 0
  BY DEF Init, KeySet
<1>8. StageType
  BY <1>1, <1>2, <1>3, <1>4, <1>5, <1>6, <1>7 DEF StageType, Init
<1>9. RouteInv /\ WorkInv /\ PrevInv
  BY <1>3, <1>4, <1>6 DEF RouteInv, WorkInv, PrevInv
<1>10. TimeInv /\ HeldInv
  BY <1>5, <1>6, <1>7 DEF TimeInv, HeldInv, HeldBy, NoRef
<1>11. PerKeyState
  BY <1>6 DEF PerKeyState
<1> QED BY <1>8, <1>9, <1>10, <1>11 DEF Inv, RefInv

LEMMA NextInv == Inv /\ [Next]_vars => Inv'
<1> SUFFICES ASSUME Inv, [Next]_vars PROVE Inv'
  OBVIOUS
<1> USE DEF Inv
<1>1. CASE Dispatch
  <2>1. UNCHANGED <<mode, wk, maps, gets, now, log>>
    BY <1>1 DEF Dispatch, DispRecv, DispSlot, DispGive, DispEnd, dispRest
  <2> QED BY <1>1, <2>1, DispatchStage, CalmWork, CalmRefs
<1>2. CASE Return
  <2>1. UNCHANGED <<mode, maps, gets, now, log>>
    BY <1>2 DEF Return
  <2> QED BY <1>2, <2>1, ReturnStage, CalmRefs
<1>3. CASE \E w \in Workers : Work(w) \/ Fail(w)
  BY <1>3, WorkStage
<1>4. CASE Tick
  <2>1. now' = now + 1 /\ UNCHANGED <<mode, read, disp, wq, wk, maps, gets, log>>
    BY <1>4 DEF Tick, envRest, innerVars
  <2>2. now' \in Nat \ {0}
    BY <2>1 DEF StageType
  <2> QED BY <2>1, <2>2, CalmStage, CalmWork, TickRefs
<1>5. CASE Drainer \/ Monitor \/ InputCloses \/ Cancel \/ ConsumerLeaves \/ Halted \/ UNCHANGED vars
  <2>1. UNCHANGED <<mode, read, disp, wq, wk, maps, gets, now, log>>
    BY <1>5 DEF Drainer, DrainerTakes, DrainerGets, DrainerSends, drainRest, Monitor, InputCloses, Cancel,
                ConsumerLeaves, Halted, envRest, innerVars, vars
  <2>2. now' \in Nat \ {0}
    BY <2>1 DEF StageType
  <2> QED BY <2>1, <2>2, CalmStage, CalmWork, CalmRefs
<1> QED BY <1>1, <1>2, <1>3, <1>4, <1>5 DEF Next

\* However the workers of MapWith, FlatMapWith, MapWithKey and FlatMapWithKey
\* interleave, across supervised restarts and whenever the map sweeps its idle
\* keys, the function sees in its reference what the previous counted item of
\* the same key (without keys: of the same worker) left there, or a new one if
\* the key was not looked up, or the value not written, for longer than the
\* TTL.  Items that are skipped or fail look their key up too.
THEOREM KeysKeepState == Spec => []PerKeyState
<1>1. Inv => PerKeyState
  BY DEF Inv
<1> QED BY <1>1, InitInv, NextInv, PTL DEF Spec
-----------------------------------------------------------------------------
(* The order of the items.  The inductive invariant. *)

Pairs == Items \X Nat
\* All items elsewhere than at the dispatcher are at most Hi.
Held == disp.pc \in {"slot", "give"}
Hi == IF Held THEN read - 1 ELSE read
\* Item i waits at worker w or is worked on there.
At(w, i) == (wk[w].pc = "work" /\ wk[w].item = i) \/ \E n \in 1..Len(wq[w]) : wq[w][n] = i
LoggedBy(w, i) == \E n \in 1..Len(log) : log[n].w = w /\ log[n].item = i
Logged(i) == \E n \in 1..Len(log) : log[n].item = i
Sent(i) == \E n \in 1..Len(out) : out[n][1] = i
\* These are the results of item i, or what is left of them.
ResultsOf(s, i) == s # << >> /\ \A n \in 1..Len(s) : s[n][1] = i

SendType ==
  /\ disp.pc \in {"none", "recv", "slot", "give", "end"} /\ (disp.pc = "slot" => InOrder)
  /\ \A w \in Workers : /\ wk[w] = [pc |-> wk[w].pc, item |-> wk[w].item, outs |-> wk[w].outs]
                        /\ wk[w].pc \in {"idle", "work", "send", "end"} /\ wk[w].outs \in Seq(Pairs)
                        /\ InOrder => wk[w].pc # "send"
  /\ slots \in Seq(Items) /\ out \in Seq(Pairs)
  /\ res \in [Items -> [outs : Seq(Pairs), how : {"none", "ok", "skip", "err"}]]
  /\ dr = [pc |-> dr.pc, item |-> dr.item, outs |-> dr.outs]
  /\ dr.pc \in {"take", "wait", "send", "end"} /\ dr.outs \in Seq(Pairs)
  /\ dr.pc \in {"wait", "send"} => dr.item \in Items
  /\ ~InOrder => dr.pc = "end"

\* A worker gets its items in input order, and counts them in that order.
OrderInv ==
  /\ Held => disp.item = read /\ read > 0
  /\ Pulls => \A w \in Workers : wq[w] = << >>
  /\ \A w \in Workers : \A i : At(w, i) => i \in 1..Hi /\ \A v \in Workers : At(v, i) => v = w
  /\ \A w \in Workers : /\ \A m, n \in 1..Len(wq[w]) : m < n => wq[w][m] < wq[w][n]
                        /\ wk[w].pc = "work" => \A n \in 1..Len(wq[w]) : wk[w].item < wq[w][n]
  /\ \A n \in 1..Len(log) : log[n].item <= Hi /\ \A i : At(log[n].w, i) => log[n].item < i
  /\ \A m, n \in 1..Len(log) : m < n /\ log[m].w = log[n].w => log[m].item < log[n].item

\* An item is counted once: by then it is nowhere else.
FreshInv ==
  /\ \A n \in 1..Len(log), v \in Workers : ~At(v, log[n].item)
  /\ \A m, n \in 1..Len(log) : log[m].item = log[n].item => log[m].w = log[n].w

\* A worker of a stage that is not ordered sends what it has counted before
\* it takes another item.
SendInv ==
  ~InOrder =>
    /\ \A w \in Workers : wk[w].pc = "send" =>
         /\ LoggedBy(w, wk[w].item) /\ ResultsOf(wk[w].outs, wk[w].item)
         /\ \A n \in 1..Len(out) : LoggedBy(w, out[n][1]) => out[n][1] <= wk[w].item
    /\ \A n \in 1..Len(out) : Logged(out[n][1])
    /\ \A w \in Workers : \A m, n \in 1..Len(out) :
         m < n /\ LoggedBy(w, out[m][1]) /\ LoggedBy(w, out[n][1]) => out[m][1] <= out[n][1]

\* The drainer of an ordered stage takes the slots in input order.
LineInv ==
  InOrder =>
    /\ \A i \in Items : /\ res[i].how = "ok" => Logged(i) /\ ResultsOf(res[i].outs, i)
                        /\ res[i].how # "none" => i <= Hi /\ \A w \in Workers : ~At(w, i)
    /\ dr.pc = "send" => Logged(dr.item) /\ ResultsOf(dr.outs, dr.item)
    /\ \A m, n \in 1..Len(slots) : m < n => slots[m] < slots[n]
    /\ \A n \in 1..Len(slots) : slots[n] <= read /\ (disp.pc = "slot" => slots[n] < read)
    /\ dr.pc \in {"wait", "send"} =>
         /\ \A n \in 1..Len(slots) : dr.item < slots[n]
         /\ dr.item <= read /\ (disp.pc = "slot" => dr.item < read)
    /\ \A n \in 1..Len(out) : /\ Logged(out[n][1])
                              /\ \A m \in 1..Len(slots) : out[n][1] < slots[m]
                              /\ dr.pc = "wait" => out[n][1] < dr.item
                              /\ dr.pc = "send" => out[n][1] <= dr.item
    /\ \A m, n \in 1..Len(out) : m < n => out[m][1] <= out[n][1]

\* The slot of item i has not been emptied yet.
InLine(i) == (\E n \in 1..Len(slots) : slots[n] = i) \/ (dr.pc = "wait" /\ dr.item = i)

\* As long as there is no error, what has been counted is sent or waits to be.
DoneInv ==
  /\ restarts \in Nat /\ err \in {"none", "err", "ctx"}
  /\ stage # "run" => AllEnded /\ dr.pc = "end" /\ (stage = "nil" => err = "none")
  /\ InOrder /\ err = "none" =>
       /\ dr.pc = "end" => slots = << >> /\ AllEnded
       /\ \A i \in Items : (disp.pc = "give" /\ i = read) \/ (\E w \in Workers : At(w, i)) => InLine(i)
  /\ err = "none" /\ restarts = 0 =>
       \A n \in 1..Len(log) : LET i == log[n].item IN
         \/ Sent(i)
         \/ ~InOrder /\ \E w \in Workers : wk[w].pc = "send" /\ wk[w].item = i
         \/ InOrder /\ InLine(i) /\ res[i].how = "ok"
         \/ InOrder /\ dr.pc = "send" /\ dr.item = i

-----------------------------------------------------------------------------
(* What the steps of a worker do. *)

\* A worker that moves leaves the others where they are.
LEMMA WorkerIs ==
  ASSUME StageType, NEW w \in Workers, NEW pc, NEW i, NEW outs, WorkerAt(w, pc, i, outs)
  PROVE  /\ DOMAIN wk' = Workers /\ wk' = [v \in Workers |-> wk'[v]]
         /\ wk'[w] = [pc |-> pc, item |-> i, outs |-> outs]
         /\ wk'[w].pc = pc /\ wk'[w].item = i /\ wk'[w].outs = outs
         /\ \A v \in Workers : v # w => wk'[v] = wk[v]
BY DEF StageType, WorkerAt

Pull(w) ==
  /\ Pulls /\ wk[w].pc = "idle" /\ read < mode.len /\ read' = read + 1 /\ WorkerAt(w, "work", read + 1, << >>)
  /\ UNCHANGED <<wq, res, err, out, log>>
Take(w) ==
  /\ ~Pulls /\ wk[w].pc = "idle" /\ wq[w] # << >> /\ wq' = [wq EXCEPT ![w] = Tail(@)]
  /\ WorkerAt(w, "work", Head(wq[w]), << >>) /\ UNCHANGED <<read, res, err, out, log>>
Count(w) ==
  /\ wk[w].pc = "work" /\ UNCHANGED <<read, wq, err, out>>
  /\ \E e \in Entries : /\ e.item = wk[w].item /\ e.w = w /\ log' = Append(log, e)
                        /\ LET o == Outputs(e.item, e.val) IN
                           IF InOrder THEN /\ res' = [res EXCEPT ![e.item] = [outs |-> o, how |-> "ok"]]
                                           /\ WorkerAt(w, "idle", 0, << >>)
                                      ELSE WorkerAt(w, "send", e.item, o) /\ UNCHANGED res
Drop(w) ==
  /\ UNCHANGED <<read, wq, out, log>> /\ wk[w].pc # "end" /\ (\E pc \in {"idle", "end"} : \E i : WorkerAt(w, pc, i, << >>))
  /\ wk[w].pc = "send" => err' # "none"
  /\ \/ UNCHANGED res /\ (InOrder => wk[w].pc # "work")
     \/ InOrder /\ wk[w].pc = "work" /\ UNCHANGED err
        /\ \E how \in {"skip", "err"} : res' = [res EXCEPT ![wk[w].item] = [outs |-> << >>, how |-> how]]
Emit(w) ==
  /\ wk[w].pc = "send" /\ out' = Append(out, Head(wk[w].outs)) /\ UNCHANGED <<read, wq, res, err, log>>
  /\ IF Len(wk[w].outs) = 1 THEN WorkerAt(w, "idle", 0, << >>) ELSE WorkerAt(w, "send", wk[w].item, Tail(wk[w].outs))

\* A worker gets an item, counts it, gives it up, or sends a result.
LEMMA WorkShape ==
  ASSUME StageType, NEW w \in Workers, Work(w) \/ Fail(w)
  PROVE  /\ UNCHANGED <<mode, disp, slots, dr, stage, restarts>> /\ wk[w].pc # "end"
         /\ err' = "none" => err = "none"
         /\ Pull(w) \/ Take(w) \/ Count(w) \/ Drop(w) \/ Emit(w)
<1>1. UNCHANGED <<mode, disp, slots, dr, stage, restarts>>
  BY DEF Work, Fail, WorkerTakes, WorkerEnds, Process, WorkerSends, WorkerSendStops, workRest
<1>2. CASE WorkerTakes(w)
  BY <1>1, <1>2 DEF WorkerTakes, Pull, Take
<1>3. CASE WorkerEnds(w)
  <2>1. /\ wk[w].pc = "idle" /\ UNCHANGED <<read, wq, res, out, log>> /\ WorkerAt(w, "end", 0, << >>)
        /\ err' = "none" => err = "none"
    BY <1>3 DEF WorkerEnds
  <2> QED BY <1>1, <2>1 DEF Drop
<1>4. CASE Process(w)
  <2> DEFINE i == wk[w].item
  <2>1. wk[w].pc = "work" /\ i \in Items /\ UNCHANGED <<read, wq, err, out>>
    BY <1>4 DEF Process, StageType
  <2>2. ASSUME NEW c, NEW e, Counts(w, i, c, e), Leaves(w, i, "ok", Outputs(i, c.val))
        PROVE  Count(w)
    <3> DEFINE v == c.val
    <3>1. Entity(i) \in Keys /\ (mode.keyed => Entity(i) \in KeySet)
      BY <2>1 DEF Keys, KeySet, Entity
    <3>2. maps[w][Entity(i)] \in Refs /\ c = Counted(maps[w][Entity(i)])
      BY <2>2, <3>1 DEF StageType, Counts
    <3>3. v \in Nat
      BY <3>2, CountedIs DEF Refs
    <3> DEFINE m == IF mode.keyed THEN Len(gets[Entity(i)]) ELSE 0
    <3>4. m \in Nat
      BY <3>1 DEF StageType
    <3>5. log' = Append(log, e) /\ Leaves(w, i, "ok", Outputs(i, v)) /\ e = [item |-> i, w |-> w, val |-> v, at |-> now, n |-> m]
      BY <2>2 DEF Counts
    <3> HIDE DEF v, m
    <3>6. e \in Entries /\ e.item = i /\ e.w = w /\ e.val = v
      BY <2>1, <3>3, <3>4, <3>5 DEF Entries, StageType
    <3>7. IF InOrder THEN res' = [res EXCEPT ![i] = [outs |-> Outputs(i, v), how |-> "ok"]] /\ WorkerAt(w, "idle", 0, << >>)
                     ELSE WorkerAt(w, "send", i, Outputs(i, v)) /\ UNCHANGED res
      BY <3>5 DEF Leaves
    <3> HIDE DEF i
    <3> QED BY <2>1, <3>5, <3>6, <3>7 DEF Count, i
  <2>3. ASSUME Leaves(w, i, "skip", << >>) /\ UNCHANGED log
        PROVE  Drop(w)
    <3>1. CASE InOrder
      <4>1. res' = [res EXCEPT ![i] = [outs |-> << >>, how |-> "skip"]] /\ WorkerAt(w, "idle", 0, << >>)
        BY <2>3, <3>1 DEF Leaves
      <4> QED BY <2>1, <2>3, <3>1, <4>1 DEF Drop
    <3>2. CASE ~InOrder
      <4>1. UNCHANGED res /\ WorkerAt(w, "idle", i, << >>)
        BY <2>3, <3>2 DEF Leaves
      <4> QED BY <2>1, <2>3, <3>2, <4>1 DEF Drop
    <3> QED BY <3>1, <3>2
  <2>4. \/ \E c, a : Counts(w, i, c, a) /\ Leaves(w, i, "ok", Outputs(i, c.val))
        \/ Leaves(w, i, "skip", << >>) /\ UNCHANGED log
    BY <1>4 DEF Process, Counts
  <2> QED BY <1>1, <1>4, <2>1, <2>2, <2>3, <2>4 DEF Process
<1>5. CASE Fail(w)
  <2>1. wk[w].pc = "work" /\ UNCHANGED <<read, wq, out, log>> /\ (err' = "none" => err = "none")
    BY <1>5 DEF Fail, Reports
  <2>2. CASE InOrder
    <3>1. UNCHANGED err /\ Leaves(w, wk[w].item, "err", << >>)
      BY <1>5, <2>2 DEF Fail
    <3>2. res' = [res EXCEPT ![wk[w].item] = [outs |-> << >>, how |-> "err"]] /\ WorkerAt(w, "idle", 0, << >>)
      BY <2>2, <3>1 DEF Leaves
    <3> QED BY <1>1, <2>1, <2>2, <3>1, <3>2 DEF Drop
  <2>3. CASE ~InOrder
    BY <1>1, <1>5, <2>1, <2>3 DEF Fail, Drop
  <2> QED BY <2>2, <2>3
<1>6. CASE WorkerSends(w)
  BY <1>1, <1>6 DEF WorkerSends, Emit
<1>7. CASE WorkerSendStops(w)
  BY <1>1, <1>7 DEF WorkerSendStops, Reports, Drop
<1> QED BY <1>2, <1>3, <1>4, <1>5, <1>6, <1>7 DEF Work

\* The results of an item are one or two pairs.
LEMMA OutputsAre ==
  ASSUME NEW i \in Items, NEW v \in Nat
  PROVE  Outputs(i, v) \in Seq(Pairs) /\ ResultsOf(Outputs(i, v), i)
<1> DEFINE x == <<i, v>>
<1>1. x \in Pairs /\ x[1] = i
  BY DEF Pairs
<1> HIDE DEF x
<1>2. << x >> \in Seq(Pairs) /\ << x, x >> \in Seq(Pairs)
  BY <1>1
<1>3. ResultsOf(<< x >>, i) /\ ResultsOf(<< x, x >>, i)
  BY <1>1 DEF ResultsOf
<1> QED BY <1>2, <1>3 DEF Outputs, x

\* Every step keeps the types of what is sent.
LEMMA WorkSendType ==
  ASSUME StageType, SendType, SendInv, NEW w \in Workers, Work(w) \/ Fail(w)
  PROVE  SendType'
<1>1. UNCHANGED <<mode, disp, slots, dr>> /\ Workers' = Workers /\ InOrder' = InOrder
  BY WorkShape DEF Workers, Serial, InOrder
<1>2. ASSUME NEW pc \in {"idle", "work", "send", "end"}, NEW i, NEW outs \in Seq(Pairs), WorkerAt(w, pc, i, outs),
             InOrder => pc # "send", out' \in Seq(Pairs),
             res' \in [Items -> [outs : Seq(Pairs), how : {"none", "ok", "skip", "err"}]]
      PROVE  SendType'
  <2>1. \A v \in Workers : /\ wk'[v] = [pc |-> wk'[v].pc, item |-> wk'[v].item, outs |-> wk'[v].outs]
                           /\ wk'[v].pc \in {"idle", "work", "send", "end"} /\ wk'[v].outs \in Seq(Pairs)
                           /\ InOrder => wk'[v].pc # "send"
    <3> SUFFICES ASSUME NEW v \in Workers
                 PROVE  /\ wk'[v] = [pc |-> wk'[v].pc, item |-> wk'[v].item, outs |-> wk'[v].outs]
                        /\ wk'[v].pc \in {"idle", "work", "send", "end"} /\ wk'[v].outs \in Seq(Pairs)
                        /\ InOrder => wk'[v].pc # "send"
      OBVIOUS
    <3>1. CASE v = w
      <4>1. wk'[w] = [pc |-> pc, item |-> i, outs |-> outs] /\ wk'[w].pc = pc /\ wk'[w].item = i /\ wk'[w].outs = outs
        BY <1>2, WorkerIs
      <4> QED BY <1>2, <3>1, <4>1
    <3>2. CASE v # w
      <4>1. wk'[v] = wk[v]
        BY <1>2, <3>2, WorkerIs
      <4> QED BY <1>1, <4>1 DEF SendType
    <3> QED BY <3>1, <3>2
  <2> QED BY <1>1, <1>2, <2>1 DEF SendType
<1>3. /\ << >> \in Seq(Pairs) /\ out \in Seq(Pairs) /\ wk[w].outs \in Seq(Pairs)
      /\ res \in [Items -> [outs : Seq(Pairs), how : {"none", "ok", "skip", "err"}]]
      /\ wk[w].pc = "work" => wk[w].item \in Items
  BY DEF SendType, StageType
<1>4. CASE Pull(w) \/ Take(w)
  BY <1>2, <1>3, <1>4 DEF Pull, Take
<1>5. CASE Count(w)
  <2>1. PICK e \in Entries : /\ e.item = wk[w].item /\ e.w = w
                             /\ LET o == Outputs(e.item, e.val) IN
                                IF InOrder THEN /\ res' = [res EXCEPT ![e.item] = [outs |-> o, how |-> "ok"]]
                                                /\ WorkerAt(w, "idle", 0, << >>)
                                           ELSE WorkerAt(w, "send", e.item, o) /\ UNCHANGED res
    BY <1>5 DEF Count
  <2> DEFINE o == Outputs(e.item, e.val)
  <2>2. o \in Seq(Pairs) /\ e.item \in Items /\ out' = out
    BY <1>5, <2>1, OutputsAre DEF Entries, Count
  <2> HIDE DEF o
  <2>3. CASE InOrder
    <3>1. res' \in [Items -> [outs : Seq(Pairs), how : {"none", "ok", "skip", "err"}]]
      BY <1>3, <2>1, <2>2, <2>3 DEF o
    <3> QED BY <1>2, <1>3, <2>1, <2>2, <2>3, <3>1
  <2>4. CASE ~InOrder
    <3>1. WorkerAt(w, "send", e.item, o) /\ UNCHANGED res
      BY <2>1, <2>4 DEF o
    <3> QED BY <1>2, <1>3, <2>2, <2>4, <3>1
  <2> QED BY <2>3, <2>4
<1>6. CASE Drop(w)
  <2>1. res' \in [Items -> [outs : Seq(Pairs), how : {"none", "ok", "skip", "err"}]]
    <3>1. CASE UNCHANGED res
      BY <1>3, <3>1
    <3>2. ASSUME NEW how \in {"skip", "err"}, wk[w].pc = "work", res' = [res EXCEPT ![wk[w].item] = [outs |-> << >>, how |-> how]]
          PROVE  res' \in [Items -> [outs : Seq(Pairs), how : {"none", "ok", "skip", "err"}]]
      <4> DEFINE s == [outs |-> << >>, how |-> how]
      <4>1. s \in [outs : Seq(Pairs), how : {"none", "ok", "skip", "err"}]
        BY <1>3
      <4> HIDE DEF s
      <4> QED BY <1>3, <3>2, <4>1 DEF s
    <3> QED BY <1>6, <3>1, <3>2 DEF Drop
  <2>2. PICK pc \in {"idle", "end"} : \E i : WorkerAt(w, pc, i, << >>)
    BY <1>6 DEF Drop
  <2>3. out' \in Seq(Pairs)
    BY <1>3, <1>6 DEF Drop
  <2> QED BY <1>2, <1>3, <2>1, <2>2, <2>3
<1>7. CASE Emit(w)
  <2>1. wk[w].pc = "send" /\ UNCHANGED res /\ ~InOrder
    BY <1>7 DEF Emit, SendType
  <2>2. wk[w].outs # << >>
    BY <2>1 DEF SendInv, ResultsOf
  <2>3. out' \in Seq(Pairs) /\ Tail(wk[w].outs) \in Seq(Pairs)
    BY <1>3, <1>7, <2>2 DEF Emit
  <2> QED BY <1>2, <1>3, <1>7, <2>1, <2>3 DEF Emit
<1> QED BY <1>4, <1>5, <1>6, <1>7, WorkShape

LEMMA DispSendType ==
  ASSUME StageType, SendType, Dispatch
  PROVE  SendType'
<1>1. UNCHANGED <<mode, wk, res, dr, out>>
  BY DEF Dispatch, DispRecv, DispSlot, DispGive, DispEnd, dispRest
<1>2. Workers' = Workers /\ InOrder' = InOrder
  BY <1>1 DEF Workers, Serial, InOrder
<1>3. disp = [pc |-> disp.pc, item |-> disp.item, next |-> disp.next] /\ (disp.pc = "slot" => disp.item \in Items)
  BY DEF StageType
<1>4. disp'.pc \in {"recv", "slot", "give", "end"} /\ (disp'.pc = "slot" => InOrder)
  <2>1. CASE DispRecv
    <3>1. disp' = [pc |-> IF InOrder THEN "slot" ELSE "give", item |-> read + 1, next |-> disp.next]
      BY <1>3, <2>1 DEF DispRecv
    <3> QED BY <3>1
  <2>2. CASE DispSlot
    BY <1>3, <2>2 DEF DispSlot
  <2>3. CASE DispGive
    BY <2>3 DEF DispGive
  <2>4. CASE DispEnd
    BY <1>3, <2>4 DEF DispEnd
  <2> QED BY <2>1, <2>2, <2>3, <2>4 DEF Dispatch
<1>5. slots' \in Seq(Items)
  <2>1. CASE DispSlot
    <3>1. disp.item \in Items /\ slots \in Seq(Items) /\ slots' = Append(slots, disp.item)
      BY <1>3, <2>1 DEF DispSlot, SendType
    <3> QED BY <3>1
  <2>2. CASE UNCHANGED slots
    BY <2>2 DEF SendType
  <2> QED BY <2>1, <2>2 DEF Dispatch, DispRecv, DispGive, DispEnd
<1> QED BY <1>1, <1>2, <1>4, <1>5 DEF SendType

LEMMA DrainSendType ==
  ASSUME StageType, SendType, LineInv, Drainer
  PROVE  SendType'
<1>1. UNCHANGED <<mode, disp, wk, res>> /\ Workers' = Workers /\ InOrder' = InOrder
  BY DEF Drainer, DrainerTakes, DrainerGets, DrainerSends, drainRest, Workers, Serial, InOrder
<1>2. InOrder /\ dr = [pc |-> dr.pc, item |-> dr.item, outs |-> dr.outs] /\ dr.outs \in Seq(Pairs)
  BY DEF Drainer, DrainerTakes, DrainerGets, DrainerSends, SendType
<1>3. /\ slots' \in Seq(Items) /\ out' \in Seq(Pairs)
      /\ dr' = [pc |-> dr'.pc, item |-> dr'.item, outs |-> dr'.outs]
      /\ dr'.pc \in {"take", "wait", "send", "end"} /\ dr'.outs \in Seq(Pairs)
      /\ dr'.pc \in {"wait", "send"} => dr'.item \in Items
  <2>1. CASE DrainerTakes
    <3>1. slots # << >> => Head(slots) \in Items /\ Tail(slots) \in Seq(Items)
      BY DEF SendType
    <3> QED BY <1>2, <2>1, <3>1 DEF DrainerTakes, SendType
  <2>2. CASE DrainerGets
    <3>1. dr.item \in Items /\ res[dr.item].outs \in Seq(Pairs) /\ res[dr.item].how \in {"ok", "skip", "err"}
      BY <2>2 DEF DrainerGets, SendType
    <3>2. UNCHANGED <<slots, out>>
      BY <2>2, <3>1 DEF DrainerGets
    <3> QED BY <1>2, <2>2, <3>1, <3>2 DEF DrainerGets, SendType
  <2>3. CASE DrainerSends
    <3>1. dr.outs # << >> /\ dr.item \in Items /\ UNCHANGED slots
      BY <1>2, <2>3 DEF DrainerSends, LineInv, ResultsOf, SendType
    <3>2. Head(dr.outs) \in Pairs /\ Tail(dr.outs) \in Seq(Pairs)
      BY <1>2, <3>1
    <3>3. CASE /\ out' = Append(out, Head(dr.outs))
               /\ dr' = [dr EXCEPT !.pc = IF Len(dr.outs) = 1 THEN "take" ELSE "send", !.outs = Tail(@)]
      <4>1. dr' = [pc |-> IF Len(dr.outs) = 1 THEN "take" ELSE "send", item |-> dr.item, outs |-> Tail(dr.outs)]
        BY <1>2, <3>3
      <4>2. out' \in Seq(Pairs)
        BY <3>2, <3>3 DEF SendType
      <4> QED BY <3>1, <3>2, <4>1, <4>2 DEF SendType
    <3>4. CASE dr' = [dr EXCEPT !.pc = "end"] /\ UNCHANGED out
      <4>1. dr' = [pc |-> "end", item |-> dr.item, outs |-> dr.outs]
        BY <1>2, <3>4
      <4> QED BY <1>2, <3>1, <3>4, <4>1 DEF SendType
    <3> QED BY <2>3, <3>3, <3>4 DEF DrainerSends
  <2> QED BY <2>1, <2>2, <2>3 DEF Drainer
<1> QED BY <1>1, <1>2, <1>3 DEF SendType

LEMMA ReturnSendType ==
  ASSUME StageType, SendType, Return
  PROVE  SendType'
<1>1. UNCHANGED <<mode, res, out>> /\ Workers' = Workers /\ InOrder' = InOrder
  BY DEF Return, Workers, Serial, InOrder
<1>2. CASE UNCHANGED <<disp, wk, dr, slots>>
  BY <1>1, <1>2 DEF SendType
<1>3. CASE disp' = Fresh(mode).disp /\ wk' = Fresh(mode).wk /\ dr' = Fresh(mode).dr /\ slots' = << >>
  <2>1. disp'.pc \in {"none", "recv"} /\ dr' = [pc |-> IF InOrder THEN "take" ELSE "end", item |-> 0, outs |-> << >>]
    BY <1>3 DEF Fresh, InOrder
  <2>2. \A w \in Workers : wk'[w] = [pc |-> "idle", item |-> 0, outs |-> << >>]
    BY <1>3 DEF Fresh, Workers, Serial
  <2>3. << >> \in Seq(Pairs) /\ << >> \in Seq(Items)
    OBVIOUS
  <2>4. \A w \in Workers : /\ wk'[w] = [pc |-> wk'[w].pc, item |-> wk'[w].item, outs |-> wk'[w].outs]
                           /\ wk'[w].pc = "idle" /\ wk'[w].outs \in Seq(Pairs)
    <3> SUFFICES ASSUME NEW w \in Workers
                 PROVE  /\ wk'[w] = [pc |-> wk'[w].pc, item |-> wk'[w].item, outs |-> wk'[w].outs]
                        /\ wk'[w].pc = "idle" /\ wk'[w].outs \in Seq(Pairs)
      OBVIOUS
    <3>1. wk'[w] = [pc |-> "idle", item |-> 0, outs |-> << >>]
      BY <2>2
    <3>2. wk'[w].pc = "idle" /\ wk'[w].item = 0 /\ wk'[w].outs = << >>
      BY <3>1
    <3> QED BY <2>3, <3>1, <3>2
  <2>5. /\ dr' = [pc |-> dr'.pc, item |-> dr'.item, outs |-> dr'.outs] /\ dr'.outs \in Seq(Pairs)
        /\ dr'.pc \in {"take", "end"} /\ (~InOrder => dr'.pc = "end")
    BY <2>1, <2>3
  <2>6. slots' \in Seq(Items)
    BY <1>3, <2>3
  <2> QED BY <1>1, <2>1, <2>4, <2>5, <2>6 DEF SendType
<1> QED BY <1>2, <1>3 DEF Return

-----------------------------------------------------------------------------
(* The order in which the workers get and count their items. *)

LEMMA HiType ==
  ASSUME StageType, OrderInv
  PROVE  Hi \in Nat /\ read \in Nat /\ Hi <= read /\ (Held => Hi = read - 1) /\ (~Held => Hi = read)
BY DEF StageType, OrderInv, Hi, Held

\* A step that puts no item into the hands of another worker.
LEMMA OrderKept ==
  ASSUME StageType, OrderInv, UNCHANGED <<mode, log>>, Hi' \in Nat, Hi <= Hi', Held' => disp'.item = read' /\ read' > 0,
         \A v \in Workers : (wq'[v] = wq[v] \/ wq'[v] = << >>) /\ (wk'[v].pc = "work" => wk'[v] = wk[v])
  PROVE  OrderInv' /\ \A v \in Workers : \A i : At(v, i)' => At(v, i)
<1>1. Workers' = Workers /\ Pulls' = Pulls
  BY DEF Workers, Serial, Pulls
<1>2. ASSUME NEW v \in Workers PROVE \A i : At(v, i)' => At(v, i)
  <2>1. CASE wq'[v] = wq[v]
    BY <2>1 DEF At
  <2>2. CASE wq'[v] = << >>
    BY <2>2 DEF At
  <2> QED BY <2>1, <2>2
<1>3. \A v \in Workers : \A i : At(v, i)' => i \in 1..Hi' /\ \A u \in Workers : At(u, i)' => u = v
  BY <1>2, HiType DEF OrderInv
<1>4. ASSUME NEW v \in Workers
      PROVE  /\ \A m, n \in 1..Len(wq'[v]) : m < n => wq'[v][m] < wq'[v][n]
             /\ wk'[v].pc = "work" => \A n \in 1..Len(wq'[v]) : wk'[v].item < wq'[v][n]
             /\ Pulls => wq'[v] = << >>
  <2>1. CASE wq'[v] = wq[v]
    BY <2>1 DEF OrderInv
  <2>2. CASE wq'[v] = << >>
    <3>1. 1..Len(wq'[v]) = {}
      BY <2>2
    <3> QED BY <2>2, <3>1
  <2> QED BY <2>1, <2>2
<1>5. \A n \in 1..Len(log) : log[n].item \in Nat /\ log[n].w \in Workers
  <2>1. \A n \in 1..Len(log) : log[n] \in Entries
    BY DEF StageType
  <2> QED BY <2>1 DEF Entries, Items
<1>6. \A n \in 1..Len(log') : log'[n].item <= Hi' /\ \A i : At(log[n].w, i)' => log'[n].item < i
  <2>1. \A n \in 1..Len(log) : log[n].item <= Hi' /\ \A i : At(log[n].w, i)' => log[n].item < i
    <3> SUFFICES ASSUME NEW n \in 1..Len(log) PROVE log[n].item <= Hi' /\ \A i : At(log[n].w, i)' => log[n].item < i
      OBVIOUS
    <3>1. log[n].item <= Hi'
      BY <1>5, HiType DEF OrderInv
    <3>2. \A v \in Workers : log[n].w = v => \A i : At(v, i)' => log[n].item < i
      BY <1>2 DEF OrderInv
    <3>3. log'[n] = log[n]
      OBVIOUS
    <3>4. \A v \in Workers : log[n].w = v => \A i : At(log[n].w, i)' => At(v, i)'
      BY <3>3 DEF At
    <3> QED BY <1>5, <3>1, <3>2, <3>4
  <2> QED BY <2>1
<1>7. OrderInv'
  BY <1>1, <1>3, <1>4, <1>6 DEF OrderInv
<1> QED BY <1>2, <1>7

\* A worker pulls the next item.
LEMMA OrderPulled ==
  ASSUME StageType, OrderInv, NEW w \in Workers, Pull(w), UNCHANGED <<mode, disp>>
  PROVE  OrderInv' /\ \A v \in Workers : \A i : At(v, i)' => At(v, i) \/ i = read + 1
<1>1. Workers' = Workers /\ Pulls' = Pulls /\ Pulls /\ UNCHANGED <<wq, log>> /\ read' = read + 1
  BY DEF Workers, Serial, Pulls, Pull
<1>2. ~Held /\ ~Held' /\ Hi = read /\ Hi' = read + 1 /\ read \in Nat
  BY <1>1 DEF StageType, Held, Hi
<1>3. \A v \in Workers : wq[v] = << >> /\ 1..Len(wq[v]) = {}
  <2>1. \A v \in Workers : wq[v] = << >>
    BY <1>1 DEF OrderInv
  <2> QED BY <2>1
<1>4. /\ wk'[w].pc = "work" /\ wk'[w].item = read + 1
      /\ \A v \in Workers : v # w => wk'[v] = wk[v]
  BY WorkerIs DEF Pull
<1>5. \A v \in Workers : \A i : At(v, i)' => (v = w /\ i = read + 1) \/ (v # w /\ At(v, i))
  BY <1>1, <1>3, <1>4 DEF At
<1>6. \A v \in Workers : \A i : At(v, i)' => i \in 1..Hi' /\ \A u \in Workers : At(u, i)' => u = v
  <2>1. \A v \in Workers : \A i : At(v, i) => i \in 1..read /\ \A u \in Workers : At(u, i) => u = v
    BY <1>2 DEF OrderInv
  <2>2. read + 1 \notin 1..read /\ read + 1 \in 1..(read + 1) /\ \A i \in 1..read : i \in 1..(read + 1)
    BY <1>2
  <2> QED BY <1>2, <1>5, <2>1, <2>2
<1>7. \A n \in 1..Len(log) : log[n].item \in Nat /\ log[n].w \in Workers
  <2>1. \A n \in 1..Len(log) : log[n] \in Entries
    BY DEF StageType
  <2> QED BY <2>1 DEF Entries, Items
<1>8. \A n \in 1..Len(log) : log[n].item <= read /\ \A v \in Workers : log[n].w = v => \A i : At(v, i)' => log[n].item < i
  <2> SUFFICES ASSUME NEW n \in 1..Len(log)
               PROVE  log[n].item <= read /\ \A v \in Workers : log[n].w = v => \A i : At(v, i)' => log[n].item < i
    OBVIOUS
  <2>1. log[n].item <= read
    BY <1>2 DEF OrderInv
  <2>2. log[n].item < read + 1
    BY <1>2, <1>7, <2>1
  <2> QED BY <1>5, <2>1, <2>2 DEF OrderInv
<1>9. \A n \in 1..Len(log') : log'[n].item <= Hi' /\ \A i : At(log[n].w, i)' => log'[n].item < i
  <2> SUFFICES ASSUME NEW n \in 1..Len(log) PROVE log[n].item <= Hi' /\ \A i : At(log[n].w, i)' => log[n].item < i
    BY <1>1
  <2>1. PICK v \in Workers : log[n].w = v
    BY <1>7
  <2>2. log'[n].w = v
    BY <1>1, <2>1
  <2>3. \A i : At(log[n].w, i)' => At(v, i)'
    BY <2>2 DEF At
  <2> QED BY <1>2, <1>7, <1>8, <2>1, <2>3
<1>10. Held' => disp'.item = read' /\ read' > 0
  BY <1>2
<1>11. OrderInv'
  BY <1>1, <1>3, <1>6, <1>9, <1>10 DEF OrderInv
<1> QED BY <1>5, <1>11

\* A worker takes the first item of its channel.
LEMMA OrderTaken ==
  ASSUME StageType, OrderInv, NEW w \in Workers, Take(w), UNCHANGED <<mode, disp>>
  PROVE  OrderInv' /\ \A v \in Workers : \A i : At(v, i)' => At(v, i)
<1> DEFINE q == wq[w]
<1>1. Workers' = Workers /\ Pulls' = Pulls /\ ~Pulls /\ UNCHANGED <<read, log>> /\ Held' = Held /\ Hi' = Hi
  BY DEF Workers, Serial, Pulls, Take, Held, Hi
<1>2. /\ q \in Seq(Items) /\ q # << >> /\ wq' = [wq EXCEPT ![w] = Tail(q)]
      /\ wq'[w] = Tail(q) /\ \A v \in Workers : v # w => wq'[v] = wq[v]
  BY DEF StageType, Take
<1>3. /\ Head(q) = q[1] /\ Len(Tail(q)) = Len(q) - 1 /\ Len(q) \in Nat /\ 1 \in 1..Len(q)
      /\ \A n \in 1..Len(Tail(q)) : Tail(q)[n] = q[n + 1] /\ n + 1 \in 1..Len(q)
      /\ \A n \in 1..Len(q) : q[n] \in Nat
  <2> HIDE DEF q
  <2>1. \A n \in 1..Len(q) : q[n] \in Items
    BY <1>2
  <2>2. \A x \in Items : x \in Nat
    BY DEF Items
  <2>3. Head(q) = q[1] /\ Len(Tail(q)) = Len(q) - 1 /\ Len(q) \in Nat /\ 1 \in 1..Len(q)
    BY <1>2
  <2>4. \A n \in 1..Len(Tail(q)) : Tail(q)[n] = q[n + 1] /\ n + 1 \in 1..Len(q)
    BY <1>2, <2>3
  <2> QED BY <2>1, <2>2, <2>3, <2>4
<1>4. /\ wk'[w].pc = "work" /\ wk'[w].item = q[1]
      /\ \A v \in Workers : v # w => wk'[v] = wk[v]
  <2> DEFINE x == q[1]
  <2>1. WorkerAt(w, "work", x, << >>)
    BY <1>3 DEF Take
  <2> HIDE DEF x
  <2>2. wk'[w].pc = "work" /\ wk'[w].item = x /\ \A v \in Workers : v # w => wk'[v] = wk[v]
    BY <2>1 DEF WorkerAt, StageType
  <2> QED BY <2>2 DEF x
<1>5. \A v \in Workers : \A i : At(v, i)' => At(v, i)
  <2>1. \A i : At(w, i)' => \E n \in 1..Len(q) : q[n] = i
    BY <1>2, <1>3, <1>4 DEF At
  <2>2. \A v \in Workers : v # w => \A i : At(v, i)' => At(v, i)
    BY <1>2, <1>4 DEF At
  <2> QED BY <2>1, <2>2 DEF At
<1>6. \A v \in Workers : \A i : At(v, i)' => i \in 1..Hi' /\ \A u \in Workers : At(u, i)' => u = v
  BY <1>1, <1>5 DEF OrderInv
<1>7. ASSUME NEW v \in Workers
      PROVE  /\ \A m, n \in 1..Len(wq'[v]) : m < n => wq'[v][m] < wq'[v][n]
             /\ wk'[v].pc = "work" => \A n \in 1..Len(wq'[v]) : wk'[v].item < wq'[v][n]
  <2>1. CASE v = w
    <3>1. \A m, n \in 1..Len(q) : m < n => q[m] < q[n]
      BY DEF OrderInv
    <3>2. \A n \in 1..Len(Tail(q)) : 1 < n + 1
      BY <1>3
    <3>3. \A m, n \in 1..Len(Tail(q)) : m < n => m + 1 < n + 1
      BY <1>3
    <3> HIDE DEF q
    <3>4. \A m, n \in 1..Len(Tail(q)) : m < n => Tail(q)[m] < Tail(q)[n]
      BY <1>3, <3>1, <3>3
    <3>5. \A n \in 1..Len(Tail(q)) : q[1] < Tail(q)[n]
      BY <1>3, <3>1, <3>2
    <3> QED BY <1>2, <1>4, <2>1, <3>4, <3>5
  <2>2. CASE v # w
    BY <1>2, <1>4, <2>2 DEF OrderInv
  <2> QED BY <2>1, <2>2
<1>8. \A n \in 1..Len(log') : log'[n].item <= Hi' /\ \A i : At(log[n].w, i)' => log'[n].item < i
  <2> SUFFICES ASSUME NEW n \in 1..Len(log) PROVE log[n].item <= Hi' /\ \A i : At(log[n].w, i)' => log[n].item < i
    BY <1>1
  <2>1. log[n] \in Entries
    BY DEF StageType
  <2>2. PICK v \in Workers : log[n].w = v
    BY <2>1 DEF Entries
  <2>3. log'[n].w = v
    BY <1>1, <2>2
  <2>4. \A i : At(log[n].w, i)' => At(v, i)'
    BY <2>3 DEF At
  <2>5. \A i : At(v, i) => log[n].item < i
    BY <2>2 DEF OrderInv
  <2> QED BY <1>1, <1>5, <2>4, <2>5 DEF OrderInv
<1>9. OrderInv'
  BY <1>1, <1>6, <1>7, <1>8 DEF OrderInv
<1> QED BY <1>5, <1>9

\* The dispatcher gives its item to a worker.
LEMMA OrderGiven ==
  ASSUME StageType, OrderInv, DispGive
  PROVE  OrderInv' /\ \A v \in Workers : \A i : At(v, i)' => At(v, i) \/ i = read
<1>0. ~Pulls /\ disp.pc = "give" /\ disp.item \in Items
  BY DEF StageType, DispGive
<1>1. Workers' = Workers /\ Pulls' = Pulls /\ UNCHANGED <<read, log, wk, mode>>
  BY DEF Workers, Serial, Pulls, DispGive, dispRest
<1>2. Held /\ Hi = read - 1 /\ read \in Nat /\ read > 0 /\ disp.item = read /\ ~Held' /\ Hi' = read
  BY <1>0, <1>1 DEF OrderInv, StageType, Held, Hi, DispGive
<1>3. PICK t : wq' = [wq EXCEPT ![t] = Append(@, read)] /\ t = Target(disp.item)
  BY <1>2 DEF DispGive
<1>4. t \in Workers
  <2>1. ~Serial /\ N \in Nat /\ N > 0 /\ Workers = 1..N
    BY <1>0, KeyedAssumption DEF Workers, Pulls
  <2>2. mode.keyed => Key(disp.item) \in Nat /\ t = (Key(disp.item) % N) + 1
    BY <1>0, <1>3, KeyedAssumption DEF Target, Items
  <2>3. ~mode.keyed => t \in 1..N
    BY <1>3 DEF Target, StageType
  <2> QED BY SMTT(30), <2>1, <2>2, <2>3
<1> DEFINE q == wq[t]
<1>5. /\ q \in Seq(Items) /\ read \in Items /\ wq'[t] = Append(q, read) /\ \A v \in Workers : v # t => wq'[v] = wq[v]
  BY <1>0, <1>2, <1>3, <1>4 DEF StageType
<1>6. /\ Len(Append(q, read)) = Len(q) + 1 /\ Len(q) \in Nat
      /\ \A n \in 1..Len(q) : Append(q, read)[n] = q[n]
      /\ Append(q, read)[Len(q) + 1] = read
      /\ \A n \in 1..(Len(q) + 1) : n \in 1..Len(q) \/ n = Len(q) + 1
  BY <1>5
<1>7. \A v \in Workers : \A i : At(v, i) => i \in 1..(read - 1) /\ \A u \in Workers : At(u, i) => u = v
  BY <1>2 DEF OrderInv
<1>8. \A n \in 1..Len(q) : q[n] < read /\ q[n] \in Nat
  <2>1. \A n \in 1..Len(q) : At(t, q[n])
    BY <1>4 DEF At
  <2>2. \A i \in 1..(read - 1) : i < read /\ i \in Nat
    BY <1>2
  <2> QED BY <1>4, <1>7, <2>1, <2>2
<1> HIDE DEF q
<1>9. \A v \in Workers : \A i : At(v, i)' => At(v, i) \/ (v = t /\ i = read)
  <2>1. \A i : At(t, i)' => At(t, i) \/ i = read
    BY <1>1, <1>5, <1>6 DEF At, q
  <2>2. \A v \in Workers : v # t => \A i : At(v, i)' => At(v, i)
    BY <1>1, <1>5 DEF At
  <2> QED BY <2>1, <2>2
<1>10. \A v \in Workers : \A i : At(v, i)' => i \in 1..Hi' /\ \A u \in Workers : At(u, i)' => u = v
  <2>1. read \notin 1..(read - 1) /\ read \in 1..read /\ \A i \in 1..(read - 1) : i \in 1..read
    BY <1>2
  <2> QED BY <1>2, <1>7, <1>9, <2>1
<1>11. ASSUME NEW v \in Workers
       PROVE  /\ \A m, n \in 1..Len(wq'[v]) : m < n => wq'[v][m] < wq'[v][n]
              /\ wk'[v].pc = "work" => \A n \in 1..Len(wq'[v]) : wk'[v].item < wq'[v][n]
  <2>1. CASE v = t
    <3>1. \A m, n \in 1..Len(q) : m < n => q[m] < q[n]
      BY <1>4 DEF OrderInv, q
    <3>2. wk[t].pc = "work" => \A n \in 1..Len(q) : wk[t].item < q[n]
      BY <1>4 DEF OrderInv, q
    <3>3. wk[t].pc = "work" => wk[t].item < read
      <4>1. wk[t].pc = "work" => At(t, wk[t].item)
        BY DEF At
      <4>2. \A i \in 1..(read - 1) : i < read
        BY <1>2
      <4> QED BY <1>4, <1>7, <4>1, <4>2
    <3>4. \A m, n \in 1..(Len(q) + 1) : m < n => m \in 1..Len(q)
      BY <1>6
    <3>5. \A m, n \in 1..(Len(q) + 1) : m < n => Append(q, read)[m] < Append(q, read)[n]
      BY <1>6, <1>8, <3>1, <3>4
    <3>6. wk[t].pc = "work" => \A n \in 1..(Len(q) + 1) : wk[t].item < Append(q, read)[n]
      BY <1>6, <3>2, <3>3
    <3> QED BY <1>1, <1>5, <1>6, <2>1, <3>5, <3>6
  <2>2. CASE v # t
    BY <1>1, <1>5, <2>2 DEF OrderInv
  <2> QED BY <2>1, <2>2
<1>12. \A n \in 1..Len(log') : log'[n].item <= Hi' /\ \A i : At(log[n].w, i)' => log'[n].item < i
  <2> SUFFICES ASSUME NEW n \in 1..Len(log) PROVE log[n].item <= Hi' /\ \A i : At(log[n].w, i)' => log[n].item < i
    BY <1>1
  <2>1. log[n] \in Entries
    BY DEF StageType
  <2>2. PICK v \in Workers : log[n].w = v
    BY <2>1 DEF Entries
  <2>3. log[n].item <= read - 1 /\ log[n].item \in Nat /\ \A i : At(v, i) => log[n].item < i
    BY <1>2, <2>1, <2>2 DEF OrderInv, Entries, Items
  <2>4. log[n].item <= read /\ log[n].item < read
    BY <1>2, <2>3
  <2>5. log'[n].w = v
    BY <1>1, <2>2
  <2>6. \A i : At(log[n].w, i)' => At(v, i)'
    BY <2>5 DEF At
  <2> QED BY <1>2, <1>9, <2>3, <2>4, <2>6
<1>13. OrderInv'
  BY <1>0, <1>1, <1>2, <1>10, <1>11, <1>12 DEF OrderInv
<1> QED BY <1>9, <1>13

\* A worker counts its item.
LEMMA OrderCounted ==
  ASSUME StageType, OrderInv, NEW w \in Workers, Count(w), UNCHANGED <<mode, disp>>
  PROVE  OrderInv' /\ \A v \in Workers : \A i : At(v, i)' <=> At(v, i) /\ ~(v = w /\ i = wk[w].item)
<1>1. /\ Workers' = Workers /\ Pulls' = Pulls /\ Held' = Held /\ Hi' = Hi /\ UNCHANGED <<read, wq>> /\ wk[w].pc = "work"
  BY DEF Workers, Serial, Pulls, Held, Hi, Count
<1>2. PICK e \in Entries : e.item = wk[w].item /\ e.w = w /\ log' = Append(log, e)
  BY DEF Count
<1>3. /\ wk'[w].pc # "work" /\ \A v \in Workers : v # w => wk'[v] = wk[v]
  <2>1. \E pc \in {"idle", "send"} : \E i, o : WorkerAt(w, pc, i, o)
    BY DEF Count
  <2>2. PICK pc, i, o : pc \in {"idle", "send"} /\ WorkerAt(w, pc, i, o)
    BY <2>1
  <2> QED BY <2>2, WorkerIs
<1>4. \A v \in Workers : \A i : At(v, i)' <=> At(v, i) /\ ~(v = w /\ i = wk[w].item)
  <2>1. \A n \in 1..Len(wq[w]) : wq[w][n] # wk[w].item
    <3>1. \A n \in 1..Len(wq[w]) : wk[w].item < wq[w][n] /\ wq[w][n] \in Nat /\ wk[w].item \in Nat
      <4>1. wq[w] \in Seq(Items) /\ \A x \in Items : x \in Nat
        BY DEF StageType, Items
      <4>2. \A n \in 1..Len(wq[w]) : wq[w][n] \in Nat
        BY <4>1
      <4>3. wk[w].item \in Nat
        BY <1>1, <4>1 DEF StageType
      <4> QED BY <1>1, <4>2, <4>3 DEF OrderInv
    <3> QED BY <3>1
  <2>2. \A i : At(w, i)' <=> At(w, i) /\ i # wk[w].item
    BY <1>1, <1>3, <2>1 DEF At
  <2>3. \A v \in Workers : v # w => \A i : At(v, i)' <=> At(v, i)
    BY <1>1, <1>3 DEF At
  <2> QED BY <2>2, <2>3
<1>5. /\ Len(log') = Len(log) + 1 /\ Len(log) \in Nat /\ log'[Len(log) + 1] = e
      /\ \A n \in 1..Len(log) : log'[n] = log[n]
      /\ \A n \in 1..Len(log') : n \in 1..Len(log) \/ n = Len(log) + 1
  BY <1>2 DEF StageType
<1>6. At(w, e.item) /\ e.item \in Nat
  BY <1>1, <1>2 DEF At, Entries, Items
<1>7. \A v \in Workers : \A i : At(v, i)' => i \in 1..Hi' /\ \A u \in Workers : At(u, i)' => u = v
  BY <1>1, <1>4 DEF OrderInv
<1>8. \A v \in Workers : wk'[v].pc = "work" => wk'[v] = wk[v]
  BY <1>3
<1>9. ASSUME NEW n \in 1..Len(log')
      PROVE  log'[n].item <= Hi' /\ \A i : At(log[n].w, i)' => log'[n].item < i
  <2>1. CASE n \in 1..Len(log)
    <3>1. log[n] \in Entries /\ log'[n] = log[n]
      BY <1>5, <2>1 DEF StageType
    <3>2. PICK v \in Workers : log[n].w = v
      BY <3>1 DEF Entries
    <3>3. log[n].item <= Hi /\ \A i : At(v, i) => log[n].item < i
      BY <2>1, <3>2 DEF OrderInv
    <3>4. \A i : At(log[n].w, i)' => At(v, i)'
      BY <3>1, <3>2 DEF At
    <3> QED BY <1>1, <1>4, <3>1, <3>3, <3>4
  <2>2. CASE n = Len(log) + 1
    <3>1. log'[n].w = w /\ log'[n].item = wk[w].item
      BY <1>2, <1>5, <2>2
    <3>2. \A i : At(log[n].w, i)' => At(w, i)'
      BY <3>1 DEF At
    <3>3. \A i : At(w, i)' => wk[w].item < i
      BY <1>1, <1>3 DEF At, OrderInv
    <3>4. wk[w].item \in 1..Hi
      BY <1>2, <1>6 DEF OrderInv
    <3>5. wk[w].item <= Hi
      BY <3>4, HiType
    <3> QED BY <1>1, <3>1, <3>2, <3>3, <3>5
  <2> QED BY <1>5, <2>1, <2>2
<1>10. ASSUME NEW m \in 1..Len(log'), NEW n \in 1..Len(log'), m < n, log'[m].w = log'[n].w
       PROVE  log'[m].item < log'[n].item
  <2>1. m \in 1..Len(log)
    BY <1>5, <1>10
  <2>2. CASE n \in 1..Len(log)
    BY <1>5, <1>10, <2>1, <2>2 DEF OrderInv
  <2>3. CASE n = Len(log) + 1
    <3>1. log[m].w = w /\ log'[m] = log[m] /\ log'[n].item = e.item
      BY <1>2, <1>5, <1>10, <2>1, <2>3
    <3>2. At(log[m].w, e.item)
      BY <1>6, <3>1
    <3> QED BY <2>1, <3>1, <3>2 DEF OrderInv
  <2> QED BY <1>5, <2>2, <2>3
<1>11. OrderInv'
  BY <1>1, <1>7, <1>8, <1>9, <1>10 DEF OrderInv
<1> QED BY <1>4, <1>11

\* Giving an item up, ending or sending puts none into the hands of another.
LEMMA OrderDropped ==
  ASSUME StageType, OrderInv, NEW w \in Workers, Drop(w) \/ Emit(w), UNCHANGED <<mode, disp>>
  PROVE  OrderInv' /\ \A v \in Workers : \A i : At(v, i)' => At(v, i) /\ ~(v = w /\ wk[w].pc = "work" /\ i = wk[w].item)
<1>1. \E pc \in {"idle", "end", "send"} : \E i, o : WorkerAt(w, pc, i, o)
  BY DEF Drop, Emit
<1>2. PICK pc, i, o : pc \in {"idle", "end", "send"} /\ WorkerAt(w, pc, i, o)
  BY <1>1
<1>3. wk'[w].pc # "work" /\ \A v \in Workers : v # w => wk'[v] = wk[v]
  BY <1>2, WorkerIs
<1>4. UNCHANGED <<read, wq, log>> /\ Hi' = Hi /\ Held' = Held
  BY DEF Drop, Emit, Hi, Held
<1>5. Hi' \in Nat /\ Hi <= Hi' /\ (Held' => disp'.item = read' /\ read' > 0)
  BY <1>4, HiType DEF OrderInv
<1>6. \A v \in Workers : (wq'[v] = wq[v] \/ wq'[v] = << >>) /\ (wk'[v].pc = "work" => wk'[v] = wk[v])
  BY <1>3, <1>4
<1>7. OrderInv' /\ \A v \in Workers : \A j : At(v, j)' => At(v, j)
  BY <1>4, <1>5, <1>6, OrderKept
<1>8. wk[w].pc = "work" => \A n \in 1..Len(wq[w]) : wq[w][n] # wk[w].item
  <2> SUFFICES ASSUME wk[w].pc = "work", NEW n \in 1..Len(wq[w]) PROVE wq[w][n] # wk[w].item
    OBVIOUS
  <2>1. wq[w] \in Seq(Items) /\ \A x \in Items : x \in Nat
    BY DEF StageType, Items
  <2>2. wq[w][n] \in Nat /\ wk[w].item \in Nat
    BY <2>1 DEF StageType
  <2> QED BY <2>2 DEF OrderInv
<1>9. \A j : At(w, j)' => ~(wk[w].pc = "work" /\ j = wk[w].item)
  BY <1>3, <1>4, <1>8 DEF At
<1> QED BY <1>7, <1>9

\* Nothing is counted, and an item that gets to a worker is new to them all.
Calm ==
  /\ UNCHANGED <<mode, log>> /\ read <= read' /\ Hi <= Hi'
  /\ \A v \in Workers : \A i : At(v, i)' => At(v, i) \/ i > Hi

\* A step counts an item or is calm.
LEMMA OrderStep ==
  ASSUME StageType, OrderInv, [Next]_vars
  PROVE  OrderInv' /\ mode' = mode /\ Workers' = Workers /\ (Calm \/ \E w \in Workers : Count(w) /\ UNCHANGED disp)
<1>0. Workers' = Workers /\ mode' = mode
  BY DEF Next, Dispatch, DispRecv, DispSlot, DispGive, DispEnd, dispRest, Drainer, DrainerTakes, DrainerGets,
         DrainerSends, drainRest, Monitor, Return, Work, Fail, WorkerTakes, WorkerEnds, Process, WorkerSends,
         WorkerSendStops, workRest, InputCloses, Cancel, ConsumerLeaves, Tick, Halted, envRest, vars, Workers, Serial
<1>1. CASE DispGive
  <2>1. \A v \in Workers : \A i : At(v, i)' => At(v, i) \/ i = read
    BY <1>1, OrderGiven
  <2>2. Hi < read /\ UNCHANGED <<read, log>> /\ disp'.pc = "recv"
    BY <1>1, HiType DEF DispGive, dispRest, Held
  <2>3. Hi' = read
    BY <2>2 DEF Hi, Held
  <2>4. \A v \in Workers : \A i : At(v, i)' => At(v, i) \/ i > Hi
    BY <2>1, <2>2
  <2>5. Calm
    BY <1>0, <2>2, <2>3, <2>4, HiType DEF Calm
  <2> QED BY <1>0, <1>1, <2>5, OrderGiven
<1>2. CASE UNCHANGED <<wq, wk, log>> /\ ((disp' = disp /\ read' = read) \/ DispRecv \/ DispSlot \/ DispEnd)
  <2>1. Hi' \in Nat /\ Hi <= Hi' /\ (Held' => disp'.item = read' /\ read' > 0)
    <3>1. CASE disp' = disp /\ read' = read
      <4>1. Hi' = Hi /\ Held' = Held
        BY <3>1 DEF Hi, Held
      <4> QED BY <3>1, <4>1, HiType DEF OrderInv
    <3>2. CASE DispRecv
      <4>1. Held' /\ ~Held /\ read' = read + 1 /\ disp'.item = read + 1
        <5>1. disp' = [pc |-> IF InOrder THEN "slot" ELSE "give", item |-> read + 1, next |-> disp.next]
          BY <3>2 DEF DispRecv, StageType
        <5> QED BY <3>2, <5>1 DEF DispRecv, Held
      <4>2. Hi' = read' - 1 /\ Hi = read
        BY <4>1 DEF Hi
      <4> QED BY <4>1, <4>2, HiType
    <3>3. CASE DispSlot
      <4>1. Held' /\ Held /\ read' = read /\ disp'.item = disp.item
        <5>1. disp' = [pc |-> "give", item |-> disp.item, next |-> disp.next]
          BY <3>3 DEF DispSlot, StageType
        <5> QED BY <3>3, <5>1 DEF DispSlot, Held
      <4>2. Hi' = Hi
        BY <4>1 DEF Hi
      <4> QED BY <4>1, <4>2, HiType DEF OrderInv
    <3>4. CASE DispEnd
      <4>1. disp' = [pc |-> "end", item |-> disp.item, next |-> disp.next] /\ read' = read
        BY <3>4 DEF DispEnd, StageType
      <4>2. ~Held' /\ Hi' = read
        BY <4>1 DEF Held, Hi
      <4> QED BY <4>2, HiType
    <3> QED BY <1>2, <3>1, <3>2, <3>3, <3>4
  <2>2. \A v \in Workers : (wq'[v] = wq[v] \/ wq'[v] = << >>) /\ (wk'[v].pc = "work" => wk'[v] = wk[v])
    BY <1>2
  <2>3. read <= read'
    BY <1>2, HiType DEF DispRecv, DispSlot, DispEnd
  <2>4. OrderInv' /\ \A v \in Workers : \A i : At(v, i)' => At(v, i)
    BY <1>0, <1>2, <2>1, <2>2, OrderKept
  <2>5. Calm
    BY <1>0, <1>2, <2>1, <2>3, <2>4 DEF Calm
  <2> QED BY <1>0, <2>4, <2>5
<1>3. CASE Dispatch
  BY <1>1, <1>2, <1>3 DEF Dispatch, DispRecv, DispSlot, DispEnd, dispRest
<1>4. ASSUME NEW w \in Workers, Work(w) \/ Fail(w)
      PROVE  OrderInv' /\ (Calm \/ (Count(w) /\ UNCHANGED disp))
  <2>1. UNCHANGED <<mode, disp>> /\ (Pull(w) \/ Take(w) \/ Count(w) \/ Drop(w) \/ Emit(w))
    BY <1>4, WorkShape
  <2>2. CASE Pull(w)
    <3>1. OrderInv' /\ \A v \in Workers : \A i : At(v, i)' => At(v, i) \/ i = read + 1
      BY <2>1, <2>2, OrderPulled
    <3>2. read + 1 > Hi /\ UNCHANGED log /\ read' = read + 1 /\ read <= read'
      BY <2>2, HiType DEF Pull
    <3>3. Hi <= Hi'
      BY <2>1, <3>2, HiType DEF Hi, Held
    <3>4. \A v \in Workers : \A i : At(v, i)' => At(v, i) \/ i > Hi
      BY <3>1, <3>2
    <3> QED BY <1>0, <3>1, <3>2, <3>3, <3>4 DEF Calm
  <2>3. CASE Take(w)
    <3>1. OrderInv' /\ \A v \in Workers : \A i : At(v, i)' => At(v, i)
      BY <2>1, <2>3, OrderTaken
    <3>2. UNCHANGED <<read, log>> /\ Hi' = Hi
      BY <2>1, <2>3 DEF Take, Hi, Held
    <3> QED BY <1>0, <3>1, <3>2, HiType DEF Calm
  <2>4. CASE Count(w)
    BY <2>1, <2>4, OrderCounted
  <2>5. CASE Drop(w) \/ Emit(w)
    <3>1. OrderInv' /\ \A v \in Workers : \A i : At(v, i)' => At(v, i)
      BY <2>1, <2>5, OrderDropped
    <3>2. UNCHANGED <<read, log>> /\ Hi' = Hi
      BY <2>1, <2>5 DEF Drop, Emit, Hi, Held
    <3> QED BY <1>0, <3>1, <3>2, HiType DEF Calm
  <2> QED BY <2>1, <2>2, <2>3, <2>4, <2>5
<1>5. CASE Return
  <2>1. UNCHANGED <<read, log>>
    BY <1>5 DEF Return
  <2>2. CASE UNCHANGED <<disp, wk, wq>>
    BY <1>2, <2>1, <2>2
  <2>3. CASE disp' = Fresh(mode).disp /\ wk' = Fresh(mode).wk /\ wq' = [w \in Workers |-> << >>]
    <3>1. disp'.pc \in {"none", "recv"} /\ \A v \in Workers : wk'[v].pc = "idle" /\ wq'[v] = << >>
      BY <2>3 DEF Fresh, Workers, Serial
    <3>2. ~Held' /\ Hi' = read /\ Hi <= Hi' /\ Hi' \in Nat
      BY <2>1, <3>1, HiType DEF Held, Hi
    <3>3. OrderInv' /\ \A v \in Workers : \A i : At(v, i)' => At(v, i)
      BY <1>0, <2>1, <3>1, <3>2, OrderKept
    <3> QED BY <1>0, <2>1, <3>2, <3>3, HiType DEF Calm
  <2> QED BY <1>5, <2>2, <2>3 DEF Return
<1>6. CASE Drainer \/ Monitor \/ InputCloses \/ Cancel \/ ConsumerLeaves \/ Tick \/ Halted \/ UNCHANGED vars
  <2>1. UNCHANGED <<read, disp, wq, wk, log>>
    BY <1>6 DEF Drainer, DrainerTakes, DrainerGets, DrainerSends, drainRest, Monitor, InputCloses, Cancel,
                ConsumerLeaves, Tick, Halted, envRest, innerVars, vars
  <2> QED BY <1>2, <2>1
<1> QED BY <1>0, <1>3, <1>4, <1>5, <1>6 DEF Next

\* What is counted is new, and gone from the workers.
LEMMA FreshStep ==
  ASSUME StageType, OrderInv, FreshInv, [Next]_vars
  PROVE  FreshInv'
<1>0. \A n \in 1..Len(log) : log[n] \in Entries /\ log[n].item \in Nat
  <2>1. \A n \in 1..Len(log) : log[n] \in Entries
    BY DEF StageType
  <2> QED BY <2>1 DEF Entries, Items
<1>1. CASE Calm
  <2>1. log' = log /\ Workers' = Workers
    BY <1>1 DEF Calm, Workers, Serial
  <2>2. ASSUME NEW n \in 1..Len(log), NEW v \in Workers, NEW i, i = log[n].item
        PROVE  ~At(v, i)'
    <3>1. ~At(v, i) /\ ~(i > Hi)
      <4>1. ~At(v, log[n].item) /\ log[n].item <= Hi
        BY DEF FreshInv, OrderInv
      <4>2. At(v, i) => At(v, log[n].item)
        BY <2>2
      <4> QED BY <1>0, <2>2, <4>1, <4>2, HiType
    <3> QED BY <1>1, <3>1 DEF Calm
  <2>3. ASSUME NEW n \in 1..Len(log'), NEW v \in Workers'
        PROVE  ~At(v, log[n].item)'
    <3>1. PICK i : i = log'[n].item
      OBVIOUS
    <3>2. ~At(v, i)'
      BY <2>1, <2>2, <3>1
    <3> QED BY <3>1, <3>2 DEF At
  <2> QED BY <2>1, <2>3 DEF FreshInv
<1>2. ASSUME NEW w \in Workers, Count(w), UNCHANGED <<mode, disp>>
      PROVE  FreshInv'
  <2>1. PICK e \in Entries : e.item = wk[w].item /\ e.w = w /\ log' = Append(log, e)
    BY <1>2 DEF Count
  <2>2. At(w, e.item)
    BY <1>2, <2>1 DEF At, Count
  <2>3. \A n \in 1..Len(log) : log[n].item # e.item
    <3> SUFFICES ASSUME NEW n \in 1..Len(log), log[n].item = e.item PROVE FALSE
      OBVIOUS
    <3>1. ~At(w, log[n].item)
      BY DEF FreshInv
    <3> QED BY <2>2, <3>1
  <2>4. \A v \in Workers : \A i : At(v, i)' => At(v, i) /\ i # e.item
    <3>1. \A v \in Workers : \A i : At(v, i)' => At(v, i) /\ ~(v = w /\ i = e.item)
      BY <1>2, <2>1, OrderCounted
    <3>2. \A v \in Workers : At(v, e.item) => v = w
      BY <2>2 DEF OrderInv
    <3> QED BY <3>1, <3>2
  <2>5. /\ Len(log') = Len(log) + 1 /\ Len(log) \in Nat /\ log'[Len(log) + 1] = e
        /\ \A n \in 1..Len(log) : log'[n] = log[n]
        /\ \A n \in 1..Len(log') : n \in 1..Len(log) \/ n = Len(log) + 1
    BY <2>1 DEF StageType
  <2>6. ASSUME NEW n \in 1..Len(log'), NEW v \in Workers'
        PROVE  ~At(v, log[n].item)'
    <3>1. v \in Workers
      BY <1>2 DEF Workers, Serial
    <3>2. PICK i : i = log'[n].item
      OBVIOUS
    <3>3. CASE n \in 1..Len(log)
      <4>1. ~At(v, log[n].item)
        BY <3>1, <3>3 DEF FreshInv
      <4>2. log[n].item = i
        BY <2>5, <3>2, <3>3
      <4>3. ~At(v, i)
        BY <4>1, <4>2
      <4> QED BY <2>4, <3>1, <3>2, <4>3 DEF At
    <3>4. CASE n = Len(log) + 1
      <4>1. ~At(v, i)'
        BY <2>4, <2>5, <3>1, <3>2, <3>4
      <4> QED BY <3>2, <4>1 DEF At
    <3> QED BY <2>5, <3>3, <3>4
  <2>7. ASSUME NEW m \in 1..Len(log'), NEW n \in 1..Len(log'), log'[m].item = log'[n].item
        PROVE  log'[m].w = log'[n].w
    <3>1. CASE m \in 1..Len(log) /\ n \in 1..Len(log)
      BY <2>5, <2>7, <3>1 DEF FreshInv
    <3>2. CASE m = Len(log) + 1 /\ n = Len(log) + 1
      BY <3>2
    <3>3. CASE ~(m = Len(log) + 1 <=> n = Len(log) + 1)
      BY <2>3, <2>5, <2>7, <3>3
    <3> QED BY <2>5, <3>1, <3>2, <3>3
  <2> QED BY <2>6, <2>7 DEF FreshInv
<1> QED BY <1>1, <1>2, OrderStep

-----------------------------------------------------------------------------
(* What a stage without slots sends. *)

\* What a step adds to the log is added behind it.
LEMMA LogGrows ==
  ASSUME StageType, NEW e \in Entries, log' = Append(log, e)
  PROVE  /\ \A v, i : LoggedBy(v, i)' <=> LoggedBy(v, i) \/ (v = e.w /\ i = e.item)
         /\ \A i : Logged(i)' <=> Logged(i) \/ i = e.item
<1>1. /\ Len(log') = Len(log) + 1 /\ Len(log) \in Nat /\ log'[Len(log) + 1] = e
      /\ \A n \in 1..Len(log) : log'[n] = log[n] /\ n \in 1..Len(log')
      /\ \A n \in 1..Len(log') : n \in 1..Len(log) \/ n = Len(log) + 1
  BY DEF StageType
<1>2. Len(log) + 1 \in 1..Len(log')
  BY <1>1
<1>3. ASSUME NEW v, NEW i PROVE LoggedBy(v, i)' <=> LoggedBy(v, i) \/ (v = e.w /\ i = e.item)
  <2>1. LoggedBy(v, i) => LoggedBy(v, i)'
    BY <1>1 DEF LoggedBy
  <2>2. v = e.w /\ i = e.item => LoggedBy(v, i)'
    BY <1>1, <1>2 DEF LoggedBy
  <2>3. LoggedBy(v, i)' => LoggedBy(v, i) \/ (v = e.w /\ i = e.item)
    BY <1>1 DEF LoggedBy
  <2> QED BY <2>1, <2>2, <2>3
<1>4. ASSUME NEW i PROVE Logged(i)' <=> Logged(i) \/ i = e.item
  <2>1. Logged(i) => Logged(i)'
    BY <1>1 DEF Logged
  <2>2. i = e.item => Logged(i)'
    BY <1>1, <1>2 DEF Logged
  <2>3. Logged(i)' => Logged(i) \/ i = e.item
    BY <1>1 DEF Logged
  <2> QED BY <2>1, <2>2, <2>3
<1> QED BY <1>3, <1>4

\* What is logged has a worker and is an item.
LEMMA LogIs ==
  ASSUME StageType
  PROVE  /\ \A n \in 1..Len(log) : log[n] \in Entries /\ log[n].item \in Items /\ log[n].item \in Nat /\ log[n].w \in Workers
         /\ \A i : Logged(i) <=> \E w \in Workers : LoggedBy(w, i)
<1>1. \A n \in 1..Len(log) : log[n] \in Entries
  BY DEF StageType
<1>2. \A n \in 1..Len(log) : log[n].item \in Items /\ log[n].item \in Nat /\ log[n].w \in Workers
  BY <1>1 DEF Entries, Items
<1> QED BY <1>1, <1>2 DEF Logged, LoggedBy

LEMMA SendKept ==
  ASSUME SendInv, UNCHANGED <<mode, log, out>>, \A v \in Workers : wk'[v].pc = "send" => wk'[v] = wk[v]
  PROVE  SendInv'
<1>1. Workers' = Workers /\ InOrder' = InOrder
  BY DEF Workers, Serial, InOrder
<1>2. (\A v, i : LoggedBy(v, i)' <=> LoggedBy(v, i)) /\ (\A i : Logged(i)' <=> Logged(i))
  BY DEF LoggedBy, Logged
<1>3. ASSUME ~InOrder, NEW v \in Workers, wk'[v].pc = "send"
      PROVE  /\ LoggedBy(v, wk[v].item)' /\ ResultsOf(wk[v].outs, wk[v].item)'
             /\ \A n \in 1..Len(out') : LoggedBy(v, out[n][1])' => out'[n][1] <= wk'[v].item
  <2>1. wk'[v] = wk[v] /\ wk[v].pc = "send"
    BY <1>3
  <2>2. LoggedBy(v, wk[v].item) /\ ResultsOf(wk[v].outs, wk[v].item)
    BY <1>3, <2>1 DEF SendInv
  <2>3. \A n \in 1..Len(out) : LoggedBy(v, out[n][1]) => out[n][1] <= wk[v].item
    BY <1>3, <2>1 DEF SendInv
  <2>4. LoggedBy(v, wk[v].item)'
    BY <2>1, <2>2 DEF LoggedBy
  <2>5. ResultsOf(wk[v].outs, wk[v].item)'
    BY <2>1, <2>2 DEF ResultsOf
  <2>6. \A n \in 1..Len(out') : LoggedBy(v, out[n][1])' => out'[n][1] <= wk'[v].item
    BY <2>1, <2>3 DEF LoggedBy
  <2> QED BY <2>4, <2>5, <2>6
<1>4. ~InOrder => \A n \in 1..Len(out') : Logged(out[n][1])'
  BY DEF Logged, SendInv
<1>5. ~InOrder => \A w \in Workers : \A m, n \in 1..Len(out') :
                    m < n /\ LoggedBy(w, out[m][1])' /\ LoggedBy(w, out[n][1])' => out'[m][1] <= out'[n][1]
  BY DEF LoggedBy, SendInv
<1> QED BY <1>1, <1>3, <1>4, <1>5 DEF SendInv

\* What is counted is new.
LEMMA CountIs ==
  ASSUME StageType, OrderInv, FreshInv, NEW w \in Workers, Count(w)
  PROVE  \E e \in Entries :
           /\ e.item = wk[w].item /\ e.w = w /\ log' = Append(log, e) /\ At(w, e.item)
           /\ e.item \in Items /\ e.item \in Nat /\ e.item \in 1..Hi /\ ~Logged(e.item)
           /\ \A i : LoggedBy(w, i) => i < e.item
           /\ LET o == Outputs(e.item, e.val) IN
                IF InOrder THEN res' = [res EXCEPT ![e.item] = [outs |-> o, how |-> "ok"]] /\ WorkerAt(w, "idle", 0, << >>)
                ELSE WorkerAt(w, "send", e.item, o) /\ UNCHANGED res
<1>1. PICK e \in Entries :
        /\ e.item = wk[w].item /\ e.w = w /\ log' = Append(log, e)
        /\ LET o == Outputs(e.item, e.val) IN
             IF InOrder THEN res' = [res EXCEPT ![e.item] = [outs |-> o, how |-> "ok"]] /\ WorkerAt(w, "idle", 0, << >>)
             ELSE WorkerAt(w, "send", e.item, o) /\ UNCHANGED res
  BY DEF Count
<1>2. At(w, e.item)
  BY <1>1 DEF At, Count
<1>3. e.item \in Items /\ e.item \in Nat
  BY DEF Entries, Items
<1>4. e.item \in 1..Hi
  BY <1>2 DEF OrderInv
<1>5. ~Logged(e.item)
  <2> SUFFICES ASSUME NEW n \in 1..Len(log), log[n].item = e.item PROVE FALSE
    BY DEF Logged
  <2>1. ~At(w, log[n].item)
    BY DEF FreshInv
  <2> QED BY <1>2, <2>1
<1>6. \A i : LoggedBy(w, i) => i < e.item
  <2> SUFFICES ASSUME NEW n \in 1..Len(log), log[n].w = w PROVE log[n].item < e.item
    BY DEF LoggedBy
  <2>1. At(log[n].w, e.item)
    BY <1>2
  <2> QED BY <2>1 DEF OrderInv
<1> QED BY <1>1, <1>2, <1>3, <1>4, <1>5, <1>6

LEMMA SendCounted ==
  ASSUME StageType, SendType, OrderInv, FreshInv, SendInv, NEW w \in Workers, Count(w), UNCHANGED <<mode, disp>>
  PROVE  SendInv'
<1>0. SUFFICES ASSUME ~InOrder PROVE SendInv'
  BY DEF SendInv, InOrder
<1>1. Workers' = Workers /\ out' = out
  BY DEF Workers, Serial, Count
<1>2. PICK e \in Entries :
        /\ e.item = wk[w].item /\ e.w = w /\ log' = Append(log, e) /\ e.item \in Items /\ e.item \in Nat /\ ~Logged(e.item)
        /\ (\A i : LoggedBy(w, i) => i < e.item) /\ WorkerAt(w, "send", e.item, Outputs(e.item, e.val))
  BY <1>0, CountIs
<1>3. /\ \A v, i : LoggedBy(v, i)' <=> LoggedBy(v, i) \/ (v = w /\ i = e.item)
      /\ \A i : Logged(i)' <=> Logged(i) \/ i = e.item
  BY <1>2, LogGrows
<1>4. \A n \in 1..Len(out) : Logged(out[n][1]) /\ out[n][1] # e.item
  BY <1>0, <1>2 DEF SendInv
<1>5. ASSUME NEW v, NEW n \in 1..Len(out)
      PROVE  LoggedBy(v, out[n][1])' <=> LoggedBy(v, out[n][1])
  <2>1. PICK i : i = out[n][1]
    OBVIOUS
  <2>2. LoggedBy(v, i)' <=> LoggedBy(v, i)
    BY <1>3, <1>4, <2>1
  <2>3. LoggedBy(v, out[n][1])' <=> LoggedBy(v, i)'
    BY <1>1, <2>1 DEF LoggedBy
  <2> QED BY <2>1, <2>2, <2>3
<1>6. ASSUME NEW n \in 1..Len(out)
      PROVE  Logged(out[n][1])'
  <2>1. PICK i : i = out[n][1]
    OBVIOUS
  <2>2. Logged(i)'
    BY <1>3, <1>4, <2>1
  <2> QED BY <1>1, <2>1, <2>2 DEF Logged
<1>7. /\ wk'[w].pc = "send" /\ wk'[w].item = e.item /\ wk'[w].outs = Outputs(e.item, e.val)
      /\ \A v \in Workers : v # w => wk'[v] = wk[v]
  <2>1. PICK o : o = Outputs(e.item, e.val)
    OBVIOUS
  <2>2. WorkerAt(w, "send", e.item, o)
    BY <1>2, <2>1
  <2> QED BY <2>1, <2>2 DEF WorkerAt, StageType
<1>8. ASSUME NEW v \in Workers, wk'[v].pc = "send"
      PROVE  /\ LoggedBy(v, wk[v].item)' /\ ResultsOf(wk[v].outs, wk[v].item)'
             /\ \A n \in 1..Len(out') : LoggedBy(v, out[n][1])' => out'[n][1] <= wk'[v].item
  <2>1. CASE v = w
    <3>1. LoggedBy(w, e.item)'
      BY <1>3
    <3>2. LoggedBy(v, wk[v].item)'
      BY <1>7, <2>1, <3>1 DEF LoggedBy
    <3>3. ResultsOf(Outputs(e.item, e.val), e.item)
      BY <1>2, OutputsAre DEF Entries
    <3>4. ResultsOf(wk[v].outs, wk[v].item)'
      BY <1>7, <2>1, <3>3 DEF ResultsOf
    <3>5. ASSUME NEW n \in 1..Len(out'), LoggedBy(v, out[n][1])' PROVE out'[n][1] <= wk'[v].item
      <4>0. out \in Seq(Pairs) /\ n \in 1..Len(out)
        BY <1>1 DEF SendType
      <4>1. LoggedBy(v, out[n][1])
        BY <1>5, <3>5, <4>0
      <4>2. out[n] \in Pairs
        BY <4>0
      <4>3. out[n][1] < e.item /\ out[n][1] \in Nat
        BY <1>2, <2>1, <4>1, <4>2 DEF Pairs, Items
      <4> QED BY <1>1, <1>2, <1>7, <2>1, <4>3
    <3> QED BY <3>2, <3>4, <3>5
  <2>2. CASE v # w
    <3>1. wk'[v] = wk[v] /\ wk[v].pc = "send"
      BY <1>7, <1>8, <2>2
    <3>2. LoggedBy(v, wk[v].item) /\ ResultsOf(wk[v].outs, wk[v].item)
      BY <1>0, <3>1 DEF SendInv
    <3>3. \A n \in 1..Len(out) : LoggedBy(v, out[n][1]) => out[n][1] <= wk[v].item
      BY <1>0, <3>1 DEF SendInv
    <3>4. PICK i : i = wk[v].item
      OBVIOUS
    <3>5. LoggedBy(v, i)'
      BY <1>3, <3>2, <3>4
    <3>6. LoggedBy(v, wk[v].item)'
      BY <3>1, <3>4, <3>5 DEF LoggedBy
    <3>7. ResultsOf(wk[v].outs, wk[v].item)'
      BY <3>1, <3>2 DEF ResultsOf
    <3>8. \A n \in 1..Len(out') : LoggedBy(v, out[n][1])' => out'[n][1] <= wk'[v].item
      BY <1>1, <1>5, <3>1, <3>3
    <3> QED BY <3>6, <3>7, <3>8
  <2> QED BY <2>1, <2>2
<1>9. ASSUME NEW v \in Workers, NEW m \in 1..Len(out'), NEW n \in 1..Len(out'),
             m < n, LoggedBy(v, out[m][1])', LoggedBy(v, out[n][1])'
      PROVE  out'[m][1] <= out'[n][1]
  BY <1>0, <1>1, <1>5, <1>9 DEF SendInv
<1>10. \A n \in 1..Len(out') : Logged(out[n][1])'
  BY <1>1, <1>6
<1> QED BY <1>1, <1>8, <1>9, <1>10 DEF SendInv

LEMMA SendEmitted ==
  ASSUME StageType, SendType, FreshInv, SendInv, NEW w \in Workers, Emit(w), UNCHANGED <<mode, disp>>
  PROVE  SendInv'
<1>0. ~InOrder /\ InOrder' = InOrder /\ Workers' = Workers /\ log' = log
  BY DEF Emit, SendType, InOrder, Workers, Serial
<1> DEFINE o == wk[w].outs
           k == wk[w].item
<1>1. /\ LoggedBy(w, k) /\ ResultsOf(o, k) /\ o \in Seq(Pairs)
      /\ \A n \in 1..Len(out) : LoggedBy(w, out[n][1]) => out[n][1] <= k
  BY <1>0 DEF Emit, SendInv, SendType
<1>2. o # << >> /\ Head(o) = o[1] /\ Len(o) \in Nat /\ Len(o) > 0 /\ Head(o)[1] = k
  <2> HIDE DEF o, k
  <2>1. o # << >> /\ Len(o) \in Nat /\ Len(o) > 0 /\ Head(o) = o[1]
    BY <1>1 DEF ResultsOf
  <2> QED BY <1>1, <2>1 DEF ResultsOf
<1>3. Len(o) # 1 => ResultsOf(Tail(o), k)
  <2> HIDE DEF o, k
  <2>1. SUFFICES ASSUME Len(o) # 1 PROVE ResultsOf(Tail(o), k)
    OBVIOUS
  <2>2. Len(Tail(o)) = Len(o) - 1
    BY <1>1, <1>2
  <2>3. Tail(o) # << >>
    BY <1>2, <2>1, <2>2
  <2>4. \A n \in 1..Len(Tail(o)) : Tail(o)[n] = o[n + 1] /\ n + 1 \in 1..Len(o)
    BY <1>1, <1>2, <2>2
  <2> QED BY <1>1, <2>3, <2>4 DEF ResultsOf
<1>4. /\ out' = Append(out, Head(o)) /\ out \in Seq(Pairs) /\ Len(out') = Len(out) + 1 /\ Len(out) \in Nat
      /\ out'[Len(out) + 1] = Head(o) /\ \A n \in 1..Len(out) : out'[n] = out[n] /\ out[n][1] \in Nat
      /\ \A n \in 1..Len(out') : n \in 1..Len(out) \/ n = Len(out) + 1
  <2> HIDE DEF o
  <2>1. out' = Append(out, Head(o)) /\ out \in Seq(Pairs)
    BY DEF Emit, SendType, o
  <2>2. \A n \in 1..Len(out) : out[n] \in Pairs
    BY <2>1
  <2>3. \A n \in 1..Len(out) : out[n][1] \in Nat
    BY <2>2 DEF Pairs, Items
  <2> QED BY <2>1, <2>3
<1>5. /\ wk'[w].pc = "send" => wk'[w].item = k /\ ResultsOf(wk'[w].outs, k)
      /\ \A v \in Workers : v # w => wk'[v] = wk[v]
  <2>1. CASE Len(o) = 1
    <3>1. WorkerAt(w, "idle", 0, << >>)
      BY <2>1 DEF Emit
    <3> QED BY <3>1 DEF WorkerAt, StageType
  <2>2. CASE Len(o) # 1
    <3>1. WorkerAt(w, "send", k, Tail(o))
      BY <2>2 DEF Emit
    <3> HIDE DEF o, k
    <3>2. PICK j, s : j = k /\ s = Tail(o)
      OBVIOUS
    <3>3. WorkerAt(w, "send", j, s)
      BY <3>1, <3>2
    <3>4. wk'[w].item = k /\ wk'[w].outs = Tail(o) /\ \A v \in Workers : v # w => wk'[v] = wk[v]
      BY <3>2, <3>3 DEF WorkerAt, StageType
    <3> QED BY <1>3, <2>2, <3>4
  <2> QED BY <2>1, <2>2
<1>6. \A v \in Workers : LoggedBy(v, k) => v = w
  BY <1>1 DEF LoggedBy, FreshInv
<1>7. Items \subseteq Nat /\ k \in Nat
  <2>1. Items \subseteq Nat
    BY DEF Items
  <2> QED BY <1>1, <2>1, LogIs DEF LoggedBy
<1> HIDE DEF o, k
<1>8. \A v, i : LoggedBy(v, i)' <=> LoggedBy(v, i)
  BY <1>0 DEF LoggedBy
<1>9. ASSUME NEW v, NEW n \in 1..Len(out')
      PROVE  LoggedBy(v, out[n][1])' <=> (IF n = Len(out) + 1 THEN LoggedBy(v, k) ELSE LoggedBy(v, out[n][1]))
  <2>1. PICK i : i = out'[n][1]
    OBVIOUS
  <2>2. LoggedBy(v, out[n][1])' <=> LoggedBy(v, i)
    BY <1>0, <2>1 DEF LoggedBy
  <2>3. i = IF n = Len(out) + 1 THEN k ELSE out[n][1]
    BY <1>2, <1>4, <2>1
  <2> QED BY <2>2, <2>3
<1>10. ASSUME NEW v \in Workers, wk'[v].pc = "send"
       PROVE  /\ LoggedBy(v, wk[v].item)' /\ ResultsOf(wk[v].outs, wk[v].item)'
              /\ \A n \in 1..Len(out') : LoggedBy(v, out[n][1])' => out'[n][1] <= wk'[v].item
  <2>1. CASE v = w
    <3>1. wk'[v].item = k /\ ResultsOf(wk'[v].outs, k)
      BY <1>5, <1>10, <2>1
    <3>2. LoggedBy(v, wk[v].item)'
      BY <1>0, <1>1, <2>1, <3>1 DEF LoggedBy
    <3>3. ResultsOf(wk[v].outs, wk[v].item)'
      BY <3>1 DEF ResultsOf
    <3>4. \A n \in 1..Len(out') : LoggedBy(v, out[n][1])' => out'[n][1] <= wk'[v].item
      BY <1>1, <1>2, <1>4, <1>7, <1>9, <2>1, <3>1
    <3> QED BY <3>2, <3>3, <3>4
  <2>2. CASE v # w
    <3>1. wk'[v] = wk[v] /\ wk[v].pc = "send"
      BY <1>5, <1>10, <2>2
    <3>2. LoggedBy(v, wk[v].item) /\ ResultsOf(wk[v].outs, wk[v].item)
      BY <1>0, <3>1 DEF SendInv
    <3>3. \A n \in 1..Len(out) : LoggedBy(v, out[n][1]) => out[n][1] <= wk[v].item
      BY <1>0, <3>1 DEF SendInv
    <3>4. LoggedBy(v, wk[v].item)'
      BY <1>0, <3>1, <3>2 DEF LoggedBy
    <3>5. ResultsOf(wk[v].outs, wk[v].item)'
      BY <3>1, <3>2 DEF ResultsOf
    <3>6. \A n \in 1..Len(out') : LoggedBy(v, out[n][1])' => out'[n][1] <= wk'[v].item
      BY <1>4, <1>6, <1>9, <2>2, <3>1, <3>3
    <3> QED BY <3>4, <3>5, <3>6
  <2> QED BY <2>1, <2>2
<1>11. ASSUME NEW n \in 1..Len(out')
       PROVE  Logged(out[n][1])'
  <2>1. CASE n \in 1..Len(out)
    <3>1. Logged(out[n][1]) /\ out'[n] = out[n]
      BY <1>0, <1>4, <2>1 DEF SendInv
    <3> QED BY <1>0, <3>1 DEF Logged
  <2>2. CASE n = Len(out) + 1
    <3>1. Logged(k) /\ out'[n][1] = k
      BY <1>1, <1>2, <1>4, <2>2 DEF Logged, LoggedBy
    <3> QED BY <1>0, <3>1 DEF Logged
  <2> QED BY <1>4, <2>1, <2>2
<1>12. ASSUME NEW v \in Workers, NEW m \in 1..Len(out'), NEW n \in 1..Len(out'),
              m < n, LoggedBy(v, out[m][1])', LoggedBy(v, out[n][1])'
       PROVE  out'[m][1] <= out'[n][1]
  <2>0. m \in 1..Len(out)
    BY <1>4, <1>12
  <2>1. m # Len(out) + 1 /\ out'[m] = out[m]
    BY <1>4, <2>0
  <2>4. LoggedBy(v, out[m][1])
    BY <1>9, <1>12, <2>1
  <2>2. CASE n \in 1..Len(out)
    <3>1. n # Len(out) + 1 /\ out'[n] = out[n]
      BY <1>4, <2>2
    <3>2. LoggedBy(v, out[n][1])
      BY <1>9, <1>12, <3>1
    <3> QED BY <1>0, <1>12, <2>0, <2>1, <2>2, <2>4, <3>1, <3>2 DEF SendInv
  <2>3. CASE n = Len(out) + 1
    <3>1. v = w /\ out'[n][1] = k
      BY <1>2, <1>4, <1>6, <1>9, <1>12, <2>3
    <3> QED BY <1>1, <2>0, <2>1, <2>4, <3>1
  <2> QED BY <1>4, <2>2, <2>3
<1> QED BY <1>0, <1>10, <1>11, <1>12 DEF SendInv

-----------------------------------------------------------------------------
(* The line of an ordered stage. *)

\* The items of the line, its drainer and what has been sent.
LEMMA LineIs ==
  ASSUME StageType, SendType
  PROVE  /\ Items \subseteq Nat /\ Len(slots) \in Nat /\ Len(out) \in Nat
         /\ \A n \in 1..Len(slots) : slots[n] \in Items /\ slots[n] \in Nat
         /\ \A n \in 1..Len(out) : out[n] \in Pairs /\ out[n][1] \in Items /\ out[n][1] \in Nat
         /\ dr.pc \in {"wait", "send"} => dr.item \in Items /\ dr.item \in Nat
<1>1. Items \subseteq Nat
  BY DEF Items
<1>2. slots \in Seq(Items) /\ out \in Seq(Pairs)
  BY DEF SendType
<1>3. \A n \in 1..Len(slots) : slots[n] \in Items
  BY <1>2
<1>4. \A n \in 1..Len(out) : out[n] \in Pairs
  BY <1>2
<1>5. \A n \in 1..Len(out) : out[n][1] \in Items
  BY <1>4 DEF Pairs
<1> QED BY <1>1, <1>2, <1>3, <1>4, <1>5 DEF SendType

\* A calm step that leaves the line alone, or clears it.
LEMMA LineKept ==
  ASSUME StageType, SendType, OrderInv, LineInv, Calm, Workers' = Workers, UNCHANGED <<res, out>>,
         UNCHANGED slots \/ slots' = << >>, dr' = dr \/ dr'.pc = "take",
         disp'.pc = "slot" => (disp.pc = "slot" /\ read' = read) \/ read' > read, Hi' \in Nat, read' \in Nat
  PROVE  LineInv'
<1>1. SUFFICES ASSUME InOrder PROVE LineInv'
  BY DEF LineInv, InOrder, Calm
<1>2. UNCHANGED <<mode, log>> /\ read <= read' /\ Hi <= Hi' /\ Hi \in Nat /\ read \in Nat /\ InOrder'
  BY <1>1, HiType DEF Calm, InOrder
<1>3. \A i : Logged(i)' <=> Logged(i)
  BY <1>2 DEF Logged
<1>4. ASSUME NEW i \in Items
      PROVE  /\ res'[i].how = "ok" => Logged(i)' /\ ResultsOf(res[i].outs, i)'
             /\ res'[i].how # "none" => i <= Hi' /\ \A w \in Workers : ~At(w, i)'
  <2>1. res'[i].how = "ok" => Logged(i)' /\ ResultsOf(res[i].outs, i)'
    BY <1>1, <1>3 DEF LineInv, ResultsOf
  <2>2. i \in Nat
    BY LineIs
  <2>3. ASSUME res'[i].how # "none" PROVE i <= Hi' /\ \A w \in Workers : ~At(w, i)'
    <3>1. i <= Hi /\ \A w \in Workers : ~At(w, i)
      BY <1>1, <2>3 DEF LineInv
    <3>2. \A w \in Workers : At(w, i)' => At(w, i) \/ i > Hi
      BY DEF Calm
    <3> QED BY <1>2, <2>2, <3>1, <3>2
  <2> QED BY <2>1, <2>3
<1>0. \A n \in 1..Len(slots') : n \in 1..Len(slots) /\ slots'[n] = slots[n]
  <2>1. slots' = << >> => 1..Len(slots') = {}
    OBVIOUS
  <2> QED BY <2>1
<1>5. dr'.pc = "send" => Logged(dr.item)' /\ ResultsOf(dr.outs, dr.item)'
  <2> SUFFICES ASSUME dr' = dr, dr.pc = "send" PROVE Logged(dr.item)' /\ ResultsOf(dr.outs, dr.item)'
    OBVIOUS
  <2> QED BY <1>1, <1>2 DEF LineInv, ResultsOf, Logged
<1>6. \A n \in 1..Len(slots') : slots'[n] <= read' /\ (disp'.pc = "slot" => slots'[n] < read')
  <2> SUFFICES ASSUME NEW n \in 1..Len(slots) PROVE slots[n] <= read' /\ (disp'.pc = "slot" => slots[n] < read')
    BY <1>0
  <2>1. slots[n] \in Nat /\ slots[n] <= read /\ (disp.pc = "slot" => slots[n] < read)
    BY <1>1, LineIs DEF LineInv
  <2> QED BY <1>2, <2>1
<1>7. dr'.pc \in {"wait", "send"} => dr'.item <= read' /\ (disp'.pc = "slot" => dr'.item < read')
  <2> SUFFICES ASSUME dr' = dr, dr.pc \in {"wait", "send"} PROVE dr.item <= read' /\ (disp'.pc = "slot" => dr.item < read')
    OBVIOUS
  <2>1. dr.item \in Nat /\ dr.item <= read /\ (disp.pc = "slot" => dr.item < read)
    BY <1>1, LineIs DEF LineInv
  <2> QED BY <1>2, <2>1
<1>8. \A n \in 1..Len(out') : Logged(out[n][1])'
  BY <1>1, <1>2 DEF LineInv, Logged
<1>9. \A m, n \in 1..Len(slots') : m < n => slots'[m] < slots'[n]
  BY <1>0, <1>1 DEF LineInv
<1>10. dr'.pc \in {"wait", "send"} => \A n \in 1..Len(slots') : dr'.item < slots'[n]
  BY <1>0, <1>1 DEF LineInv
<1>11. \A n \in 1..Len(out') : /\ \A m \in 1..Len(slots') : out'[n][1] < slots'[m]
                               /\ dr'.pc = "wait" => out'[n][1] < dr'.item
                               /\ dr'.pc = "send" => out'[n][1] <= dr'.item
  BY <1>0, <1>1 DEF LineInv
<1>12. \A m, n \in 1..Len(out') : m < n => out'[m][1] <= out'[n][1]
  BY <1>1 DEF LineInv
<1> QED BY <1>4, <1>5, <1>6, <1>7, <1>8, <1>9, <1>10, <1>11, <1>12 DEF LineInv

\* An item gets in line behind the others.
LEMMA LineJoined ==
  ASSUME StageType, SendType, OrderInv, LineInv, DispSlot
  PROVE  LineInv'
<1>1. /\ InOrder /\ UNCHANGED <<mode, read, wq, wk, res, dr, out, log>> /\ disp'.pc = "give" /\ disp.pc = "slot"
      /\ slots' = Append(slots, read) /\ read \in Nat /\ Hi = read - 1
  BY HiType DEF DispSlot, dispRest, SendType, OrderInv, StageType, Held
<1>2. Workers' = Workers /\ Hi' = Hi
  BY <1>1 DEF Workers, Serial, Hi, Held
<1>3. /\ Len(slots') = Len(slots) + 1 /\ slots'[Len(slots) + 1] = read
      /\ \A n \in 1..Len(slots) : slots'[n] = slots[n] /\ slots[n] \in Nat /\ slots[n] < read
      /\ \A n \in 1..Len(slots') : n \in 1..Len(slots) \/ n = Len(slots) + 1
  BY <1>1, LineIs DEF LineInv, SendType
<1>4. \A i \in Items : /\ res'[i].how = "ok" => Logged(i)' /\ ResultsOf(res[i].outs, i)'
                       /\ res'[i].how # "none" => i <= Hi' /\ \A w \in Workers' : ~At(w, i)'
  BY <1>1, <1>2 DEF LineInv, Logged, ResultsOf, At
<1>5. dr'.pc = "send" => Logged(dr.item)' /\ ResultsOf(dr.outs, dr.item)'
  BY <1>1 DEF LineInv, Logged, ResultsOf
<1>6. \A m, n \in 1..Len(slots') : m < n => slots'[m] < slots'[n]
  <2> SUFFICES ASSUME NEW m \in 1..Len(slots'), NEW n \in 1..Len(slots'), m < n PROVE slots'[m] < slots'[n]
    OBVIOUS
  <2>1. m \in 1..Len(slots)
    BY <1>3, LineIs
  <2>2. CASE n \in 1..Len(slots)
    BY <1>1, <1>3, <2>1, <2>2 DEF LineInv
  <2>3. CASE n = Len(slots) + 1
    BY <1>3, <2>1, <2>3
  <2> QED BY <1>3, <2>2, <2>3
<1>7. \A n \in 1..Len(slots') : slots'[n] <= read'
  BY <1>1, <1>3
<1>8. dr'.pc \in {"wait", "send"} => (\A n \in 1..Len(slots') : dr'.item < slots'[n]) /\ dr'.item <= read'
  BY <1>1, <1>3 DEF LineInv
<1>9. \A n \in 1..Len(out') : Logged(out[n][1])' /\ out'[n][1] < read
  <2> SUFFICES ASSUME NEW n \in 1..Len(out) PROVE Logged(out[n][1])' /\ out'[n][1] < read
    BY <1>1
  <2>1. Logged(out[n][1]) /\ out[n][1] \in Nat
    BY <1>1, LineIs DEF LineInv
  <2>2. out[n][1] <= Hi
    BY <2>1 DEF Logged, OrderInv
  <2> QED BY <1>1, <2>1, <2>2 DEF Logged
<1>10. \A n \in 1..Len(out') : /\ \A m \in 1..Len(slots') : out'[n][1] < slots'[m]
                               /\ dr'.pc = "wait" => out'[n][1] < dr'.item
                               /\ dr'.pc = "send" => out'[n][1] <= dr'.item
  BY <1>1, <1>3, <1>9 DEF LineInv
<1>11. \A m, n \in 1..Len(out') : m < n => out'[m][1] <= out'[n][1]
  BY <1>1 DEF LineInv
<1> QED BY <1>1, <1>4, <1>5, <1>6, <1>7, <1>8, <1>9, <1>10, <1>11 DEF LineInv

\* A worker leaves a result, or none, in the slot of its item.
LEMMA LineFilled ==
  ASSUME StageType, SendType, OrderInv, LineInv, InOrder, NEW w \in Workers, wk[w].pc = "work",
         UNCHANGED <<mode, disp, read, slots, dr, out>>, Hi' = Hi, NEW k, k = wk[w].item,
         \A v \in Workers : \A i : At(v, i)' => At(v, i) /\ ~(v = w /\ i = k),
         \A i : Logged(i) => Logged(i)',
         NEW r, res' = [res EXCEPT ![k] = r], r.how = "ok" => Logged(k)' /\ ResultsOf(r.outs, k)
  PROVE  LineInv'
<1>1. Workers' = Workers /\ InOrder'
  BY DEF Workers, Serial, InOrder
<1>2. k \in Items /\ At(w, k) /\ k \in 1..Hi /\ \A v \in Workers : At(v, k) => v = w
  BY DEF StageType, At, OrderInv
<1>3. \A v \in Workers : ~At(v, k)'
  BY <1>2
<1>4. res'[k] = r /\ \A i \in Items : i # k => res'[i] = res[i]
  BY <1>2 DEF SendType
<1>5. ASSUME NEW i \in Items
      PROVE  /\ res'[i].how = "ok" => Logged(i)' /\ ResultsOf(res[i].outs, i)'
             /\ res'[i].how # "none" => i <= Hi' /\ \A v \in Workers' : ~At(v, i)'
  <2>1. CASE i = k
    <3>1. res'[i].how = "ok" => Logged(i)' /\ ResultsOf(res[i].outs, i)'
      BY <1>4, <2>1 DEF ResultsOf
    <3> QED BY <1>1, <1>2, <1>3, <2>1, <3>1, HiType
  <2>2. CASE i # k
    <3>1. res'[i] = res[i]
      BY <1>4, <2>2
    <3>2. res'[i].how = "ok" => Logged(i)' /\ ResultsOf(res[i].outs, i)'
      BY <3>1 DEF LineInv, ResultsOf
    <3>3. res'[i].how # "none" => i <= Hi /\ \A v \in Workers : ~At(v, i)
      BY <3>1 DEF LineInv
    <3> QED BY <1>1, <3>2, <3>3
  <2> QED BY <2>1, <2>2
<1>6. dr'.pc = "send" => Logged(dr.item)' /\ ResultsOf(dr.outs, dr.item)'
  <2> SUFFICES ASSUME dr.pc = "send" PROVE Logged(dr.item)' /\ ResultsOf(dr.outs, dr.item)'
    OBVIOUS
  <2>1. PICK i : i = dr.item
    OBVIOUS
  <2>2. Logged(i)'
    BY <2>1 DEF LineInv
  <2>3. Logged(dr.item)'
    BY <2>1, <2>2 DEF Logged
  <2>4. ResultsOf(dr.outs, dr.item)'
    BY DEF LineInv, ResultsOf
  <2> QED BY <2>3, <2>4
<1>7. \A n \in 1..Len(out') : Logged(out[n][1])'
  <2> SUFFICES ASSUME NEW n \in 1..Len(out) PROVE Logged(out[n][1])'
    OBVIOUS
  <2>1. PICK i : i = out[n][1]
    OBVIOUS
  <2>2. Logged(i)'
    BY <2>1 DEF LineInv
  <2> QED BY <2>1, <2>2 DEF Logged
<1>8. /\ \A m, n \in 1..Len(slots') : m < n => slots'[m] < slots'[n]
      /\ \A n \in 1..Len(slots') : slots'[n] <= read' /\ (disp'.pc = "slot" => slots'[n] < read')
      /\ dr'.pc \in {"wait", "send"} =>
           /\ \A n \in 1..Len(slots') : dr'.item < slots'[n]
           /\ dr'.item <= read' /\ (disp'.pc = "slot" => dr'.item < read')
      /\ \A n \in 1..Len(out') : /\ \A m \in 1..Len(slots') : out'[n][1] < slots'[m]
                                 /\ dr'.pc = "wait" => out'[n][1] < dr'.item
                                 /\ dr'.pc = "send" => out'[n][1] <= dr'.item
      /\ \A m, n \in 1..Len(out') : m < n => out'[m][1] <= out'[n][1]
  BY DEF LineInv
<1> QED BY <1>5, <1>6, <1>7, <1>8 DEF LineInv

LEMMA LineWorked ==
  ASSUME StageType, SendType, OrderInv, FreshInv, LineInv, InOrder, NEW w \in Workers,
         UNCHANGED <<mode, disp, slots, dr>>,
         Count(w) \/ (Drop(w) /\ wk[w].pc = "work")
  PROVE  LineInv'
<1>1. PICK k : k = wk[w].item
  OBVIOUS
<1>2. wk[w].pc = "work" /\ k \in Items /\ UNCHANGED <<read, out>> /\ Hi' = Hi
  BY <1>1 DEF Count, Drop, StageType, Hi, Held
<1>5. UNCHANGED <<mode, disp, read, slots, dr, out>>
  BY <1>2
<1>6. wk[w].pc = "work" /\ Hi' = Hi
  BY <1>2
<1>3. CASE Count(w)
  <2>1. PICK e \in Entries : /\ e.item = k /\ log' = Append(log, e)
                             /\ res' = [res EXCEPT ![k] = [outs |-> Outputs(e.item, e.val), how |-> "ok"]]
    BY <1>1, <1>3, CountIs
  <2>2. PICK o : o = Outputs(e.item, e.val)
    OBVIOUS
  <2>3. ResultsOf(o, k)
    BY <2>1, <2>2, OutputsAre DEF Entries
  <2>4. \A i : Logged(i)' <=> Logged(i) \/ i = k
    BY <2>1, LogGrows
  <2>5. PICK r : r = [outs |-> o, how |-> "ok"]
    OBVIOUS
  <2>6. r.outs = o
    BY <2>5
  <2>7. \A v \in Workers : \A i : At(v, i)' => At(v, i) /\ ~(v = w /\ i = k)
    BY <1>1, <1>3, OrderCounted
  <2>8. res' = [res EXCEPT ![k] = r] /\ \A i : Logged(i) => Logged(i)'
    BY <2>1, <2>2, <2>4, <2>5
  <2>9. r.how = "ok" => Logged(k)' /\ ResultsOf(r.outs, k)
    BY <2>3, <2>4, <2>6
  <2> QED BY <1>1, <1>5, <1>6, <2>7, <2>8, <2>9, LineFilled
<1>4. CASE Drop(w) /\ wk[w].pc = "work"
  <2>1. PICK how \in {"skip", "err"} : res' = [res EXCEPT ![k] = [outs |-> << >>, how |-> how]]
    BY <1>1, <1>4 DEF Drop
  <2>2. PICK r : r = [outs |-> << >>, how |-> how]
    OBVIOUS
  <2>3. r.how # "ok" /\ res' = [res EXCEPT ![k] = r]
    BY <2>1, <2>2
  <2>4. \A i : Logged(i) => Logged(i)'
    BY <1>4 DEF Drop, Logged
  <2>5. \A v \in Workers : \A i : At(v, i)' => At(v, i) /\ ~(v = w /\ i = k)
    BY <1>1, <1>4, OrderDropped
  <2>6. r.how = "ok" => Logged(k)' /\ ResultsOf(r.outs, k)
    BY <2>3
  <2>7. res' = [res EXCEPT ![k] = r]
    BY <2>3
  <2> QED BY <1>1, <1>5, <1>6, <2>4, <2>5, <2>6, <2>7, LineFilled
<1> QED BY <1>3, <1>4

\* The drainer takes a slot, looks into it, and sends what is there.
LEMMA LineDrained ==
  ASSUME StageType, SendType, OrderInv, LineInv, Drainer
  PROVE  LineInv'
<1>1. InOrder /\ UNCHANGED <<mode, read, disp, wq, wk, res, log>> /\ dr = [pc |-> dr.pc, item |-> dr.item, outs |-> dr.outs]
  BY DEF Drainer, DrainerTakes, DrainerGets, DrainerSends, drainRest, SendType
<1>2. Workers' = Workers /\ Hi' = Hi
  BY <1>1 DEF Workers, Serial, Hi, Held
<1>3. \A i \in Items : /\ res'[i].how = "ok" => Logged(i)' /\ ResultsOf(res[i].outs, i)'
                       /\ res'[i].how # "none" => i <= Hi' /\ \A w \in Workers' : ~At(w, i)'
  BY <1>1, <1>2 DEF LineInv, Logged, ResultsOf, At
<1>4. CASE DrainerTakes /\ slots # << >>
  <2>1. /\ slots' = Tail(slots) /\ dr' = [pc |-> "wait", item |-> Head(slots), outs |-> dr.outs] /\ out' = out
    BY <1>1, <1>4 DEF DrainerTakes
  <2>2. /\ Head(slots) = slots[1] /\ Len(slots) > 0 /\ Len(slots') = Len(slots) - 1
        /\ \A n \in 1..Len(slots') : slots'[n] = slots[n + 1] /\ n + 1 \in 1..Len(slots)
    <3>1. slots \in Seq(Items) /\ slots # << >>
      BY <1>4 DEF SendType
    <3> QED BY <2>1, <3>1
  <2>3. dr'.pc = "wait" /\ dr'.item = slots[1] /\ 1 \in 1..Len(slots)
    BY <2>1, <2>2, LineIs
  <2>4. \A m, n \in 1..Len(slots') : m < n => slots'[m] < slots'[n]
    BY SMTT(40), <1>1, <2>2, LineIs DEF LineInv
  <2>5. \A n \in 1..Len(slots') : slots'[n] <= read' /\ (disp'.pc = "slot" => slots'[n] < read')
    BY <1>1, <2>2 DEF LineInv
  <2>6. /\ \A n \in 1..Len(slots') : dr'.item < slots'[n]
        /\ dr'.item <= read' /\ (disp'.pc = "slot" => dr'.item < read')
    <3>1. \A n \in 1..Len(slots') : slots[1] < slots[n + 1]
      BY <1>1, <2>2, <2>3 DEF LineInv
    <3> QED BY <1>1, <2>2, <2>3, <3>1 DEF LineInv
  <2>7. \A n \in 1..Len(out') : /\ Logged(out[n][1])'
                                /\ \A m \in 1..Len(slots') : out'[n][1] < slots'[m]
                                /\ out'[n][1] < dr'.item
    BY <1>1, <2>1, <2>2, <2>3 DEF LineInv, Logged
  <2>8. \A m, n \in 1..Len(out') : m < n => out'[m][1] <= out'[n][1]
    BY <1>1, <2>1 DEF LineInv
  <2> QED BY <1>3, <2>3, <2>4, <2>5, <2>6, <2>7, <2>8 DEF LineInv
<1>5. CASE UNCHANGED <<slots, out>> /\ dr'.pc \in {"take", "end"}
  <2>1. \A n \in 1..Len(slots') : slots'[n] <= read' /\ (disp'.pc = "slot" => slots'[n] < read')
    BY <1>1, <1>5 DEF LineInv
  <2>2. \A m, n \in 1..Len(slots') : m < n => slots'[m] < slots'[n]
    BY <1>1, <1>5 DEF LineInv
  <2>3. \A n \in 1..Len(out') : Logged(out[n][1])' /\ \A m \in 1..Len(slots') : out'[n][1] < slots'[m]
    BY <1>1, <1>5 DEF LineInv, Logged
  <2>4. \A m, n \in 1..Len(out') : m < n => out'[m][1] <= out'[n][1]
    BY <1>1, <1>5 DEF LineInv
  <2> QED BY <1>3, <1>5, <2>1, <2>2, <2>3, <2>4 DEF LineInv
<1>6. CASE DrainerGets
  <2>1. dr.pc = "wait" /\ dr.item \in Items /\ UNCHANGED <<slots, out>> /\ res[dr.item].how \in {"ok", "skip", "err"}
    BY <1>6 DEF DrainerGets, SendType
  <2>2. CASE res[dr.item].how = "ok"
    <3>1. dr' = [pc |-> "send", item |-> dr.item, outs |-> res[dr.item].outs]
      BY <1>1, <1>6, <2>2 DEF DrainerGets
    <3>2. dr'.pc = "send" /\ dr'.item = dr.item /\ dr'.outs = res[dr.item].outs
      BY <3>1
    <3>3. Logged(dr.item) /\ ResultsOf(res[dr.item].outs, dr.item)
      BY <1>1, <2>1, <2>2 DEF LineInv
    <3>4. Logged(dr.item)' /\ ResultsOf(dr.outs, dr.item)'
      BY <1>1, <3>2, <3>3 DEF Logged, ResultsOf
    <3>5. /\ \A n \in 1..Len(slots') : dr'.item < slots'[n]
          /\ dr'.item <= read' /\ (disp'.pc = "slot" => dr'.item < read')
      BY <1>1, <2>1, <3>2 DEF LineInv
    <3>6. \A n \in 1..Len(out') : /\ Logged(out[n][1])'
                                  /\ \A m \in 1..Len(slots') : out'[n][1] < slots'[m]
      BY <1>1, <2>1 DEF LineInv, Logged
    <3>7. \A n \in 1..Len(out') : out'[n][1] <= dr'.item
      <4> SUFFICES ASSUME NEW n \in 1..Len(out) PROVE out[n][1] <= dr.item
        BY <2>1, <3>2
      <4>1. out[n][1] < dr.item /\ out[n][1] \in Nat /\ dr.item \in Nat
        BY <1>1, <2>1, LineIs DEF LineInv
      <4> QED BY <4>1
    <3>8. /\ \A m, n \in 1..Len(slots') : m < n => slots'[m] < slots'[n]
          /\ \A n \in 1..Len(slots') : slots'[n] <= read' /\ (disp'.pc = "slot" => slots'[n] < read')
          /\ \A m, n \in 1..Len(out') : m < n => out'[m][1] <= out'[n][1]
      BY <1>1, <2>1 DEF LineInv
    <3> QED BY <1>3, <3>2, <3>4, <3>5, <3>6, <3>7, <3>8 DEF LineInv
  <2>3. CASE res[dr.item].how \in {"skip", "err"}
    <3>1. dr'.pc \in {"take", "end"}
      BY <1>1, <1>6, <2>3 DEF DrainerGets
    <3> QED BY <1>5, <2>1, <3>1
  <2> QED BY <2>1, <2>2, <2>3
<1>7. CASE dr.pc = "send" /\ UNCHANGED slots /\ out' = Append(out, Head(dr.outs))
           /\ dr' = [dr EXCEPT !.pc = IF Len(dr.outs) = 1 THEN "take" ELSE "send", !.outs = Tail(@)]
  <2> DEFINE o == dr.outs
             k == dr.item
  <2>1. ResultsOf(o, k) /\ Logged(k) /\ o \in Seq(Pairs) /\ k \in Nat
    BY <1>1, <1>7, LineIs DEF LineInv, SendType
  <2>2. dr' = [pc |-> IF Len(o) = 1 THEN "take" ELSE "send", item |-> k, outs |-> Tail(o)] /\ out' = Append(out, Head(o))
    BY <1>1, <1>7
  <2>3. /\ \A n \in 1..Len(slots) : k < slots[n]
        /\ k <= read /\ (disp.pc = "slot" => k < read)
        /\ \A n \in 1..Len(out) : out[n][1] <= k
    BY <1>1, <1>7 DEF LineInv
  <2> HIDE DEF o, k
  <2>4. o # << >> /\ Len(o) \in Nat /\ Len(o) > 0 /\ Head(o) = o[1] /\ Head(o)[1] = k
    BY <2>1 DEF ResultsOf
  <2>5. Len(o) # 1 => ResultsOf(Tail(o), k)
    <3>1. SUFFICES ASSUME Len(o) # 1 PROVE ResultsOf(Tail(o), k)
      OBVIOUS
    <3>2. Len(Tail(o)) = Len(o) - 1
      BY <2>1, <2>4
    <3>3. Tail(o) # << >>
      BY <2>4, <3>1, <3>2
    <3>4. \A n \in 1..Len(Tail(o)) : Tail(o)[n] = o[n + 1] /\ n + 1 \in 1..Len(o)
      BY <2>1, <2>4, <3>2
    <3> QED BY <2>1, <3>3, <3>4 DEF ResultsOf
  <2>6. /\ dr'.pc \in {"take", "send"} /\ dr'.item = k /\ (dr'.pc = "send" => ResultsOf(dr'.outs, k))
    BY <2>2, <2>5
  <2>7. /\ Len(out') = Len(out) + 1 /\ Len(out) \in Nat /\ out'[Len(out) + 1][1] = k
        /\ \A n \in 1..Len(out) : out'[n] = out[n]
        /\ \A n \in 1..Len(out') : n \in 1..Len(out) \/ n = Len(out) + 1
    BY <2>2, <2>4 DEF SendType
  <2>8. dr'.pc = "send" => Logged(dr.item)' /\ ResultsOf(dr.outs, dr.item)'
    BY <1>1, <2>1, <2>6 DEF Logged, ResultsOf
  <2>9. dr'.pc = "send" => (\A n \in 1..Len(slots') : dr'.item < slots'[n]) /\ dr'.item <= read'
                           /\ (disp'.pc = "slot" => dr'.item < read')
    BY <1>1, <1>7, <2>3, <2>6
  <2>10. ASSUME NEW n \in 1..Len(out')
         PROVE  /\ Logged(out[n][1])' /\ out'[n][1] <= k
                /\ \A m \in 1..Len(slots') : out'[n][1] < slots'[m]
    <3>1. CASE n \in 1..Len(out)
      BY <1>1, <1>7, <2>3, <2>7, <3>1 DEF LineInv, Logged
    <3>2. CASE n = Len(out) + 1
      <4>1. out'[n][1] = k
        BY <2>7, <3>2
      <4> QED BY <1>1, <1>7, <2>1, <2>3, <4>1 DEF Logged
    <3> QED BY <2>7, <3>1, <3>2
  <2>11. ASSUME NEW m \in 1..Len(out'), NEW n \in 1..Len(out'), m < n
         PROVE  out'[m][1] <= out'[n][1]
    <3>1. m \in 1..Len(out)
      BY <2>7, <2>11
    <3>2. CASE n \in 1..Len(out)
      BY <1>1, <2>7, <2>11, <3>1, <3>2 DEF LineInv
    <3>3. CASE n = Len(out) + 1
      BY <2>3, <2>7, <3>1, <3>3
    <3> QED BY <2>7, <3>2, <3>3
  <2>12. /\ \A m, n \in 1..Len(slots') : m < n => slots'[m] < slots'[n]
         /\ \A n \in 1..Len(slots') : slots'[n] <= read' /\ (disp'.pc = "slot" => slots'[n] < read')
    BY <1>1, <1>7 DEF LineInv
  <2> QED BY <1>3, <2>6, <2>8, <2>9, <2>10, <2>11, <2>12 DEF LineInv
<1>8. CASE DrainerTakes /\ slots = << >>
  <2>1. dr'.pc = "end" /\ UNCHANGED <<slots, out>>
    BY <1>1, <1>8 DEF DrainerTakes
  <2> QED BY <1>5, <2>1
<1>9. CASE DrainerSends
  <2>1. CASE dr' = [dr EXCEPT !.pc = "end"] /\ UNCHANGED out
    <3>1. dr'.pc = "end" /\ UNCHANGED <<slots, out>>
      BY <1>1, <1>9, <2>1 DEF DrainerSends, drainRest
    <3> QED BY <1>5, <3>1
  <2> QED BY <1>7, <1>9, <2>1 DEF DrainerSends
<1> QED BY <1>4, <1>6, <1>8, <1>9 DEF Drainer

-----------------------------------------------------------------------------
(* Every step sends in order. *)

\* What a step of the environment, or none, leaves alone.
Quiet == UNCHANGED <<mode, read, disp, wq, wk, slots, res, dr, out, log, err, stage, restarts>>

LEMMA Steps ==
  ASSUME [Next]_vars
  PROVE  Dispatch \/ Drainer \/ Return \/ Quiet \/ \E w \in Workers : Work(w) \/ Fail(w)
<1>1. Monitor \/ InputCloses \/ Cancel \/ ConsumerLeaves \/ Tick \/ Halted \/ UNCHANGED vars => Quiet
  BY DEF Monitor, InputCloses, Cancel, ConsumerLeaves, Tick, Halted, envRest, innerVars, vars, Quiet
<1> QED BY <1>1 DEF Next

\* What a stage starts again with.
LEMMA Restarts ==
  ASSUME StageType, SendType, Return
  PROVE  /\ AllEnded /\ dr.pc = "end" /\ stage = "run" /\ UNCHANGED <<mode, read, res, out, log>>
         /\ \/ /\ stage' = IF err = "none" THEN "nil" ELSE err
               /\ UNCHANGED <<disp, wk, dr, wq, slots, err, restarts>>
            \/ /\ disp'.pc \in {"none", "recv"} /\ slots' = << >> /\ restarts' = restarts + 1 /\ UNCHANGED stage
               /\ \A w \in Workers : wk'[w].pc = "idle" /\ wq'[w] = << >>
               /\ dr'.pc = IF InOrder THEN "take" ELSE "end"
<1>1. CASE disp' = Fresh(mode).disp /\ wk' = Fresh(mode).wk /\ dr' = Fresh(mode).dr
           /\ wq' = [w \in Workers |-> << >>] /\ slots' = << >> /\ restarts' = restarts + 1 /\ UNCHANGED stage
  <2>1. disp'.pc \in {"none", "recv"} /\ dr'.pc = IF InOrder THEN "take" ELSE "end"
    BY <1>1 DEF Fresh, InOrder
  <2>2. \A w \in Workers : wk'[w].pc = "idle" /\ wq'[w] = << >>
    BY <1>1 DEF Fresh, Workers, Serial
  <2> QED BY <1>1, <2>1, <2>2 DEF Return
<1>2. CASE stage' = (IF err = "none" THEN "nil" ELSE err) /\ UNCHANGED <<disp, wk, dr, wq, slots, err, restarts>>
  BY <1>2 DEF Return
<1> QED BY <1>1, <1>2 DEF Return

\* A step that logs nothing counts nothing.
LEMMA CalmStep ==
  ASSUME StageType, OrderInv, [Next]_vars, UNCHANGED log
  PROVE  Calm
<1> SUFFICES ASSUME NEW w \in Workers, Count(w) PROVE FALSE
  BY OrderStep
<1>1. PICK e \in Entries : log' = Append(log, e)
  BY DEF Count
<1> QED BY <1>1 DEF StageType

LEMMA SendStep ==
  ASSUME StageType, SendType, OrderInv, FreshInv, SendInv, LineInv, [Next]_vars, StageType', OrderInv'
  PROVE  SendType' /\ SendInv' /\ LineInv'
<1>1. Hi \in Nat /\ read \in Nat /\ Hi' \in Nat /\ read' \in Nat /\ mode' = mode /\ Workers' = Workers
  <2>1. Hi' \in Nat /\ read' \in Nat
    BY DEF StageType, OrderInv, Hi, Held
  <2> QED BY <2>1, HiType, OrderStep
<1>2. InOrder' = InOrder
  BY <1>1 DEF InOrder
<1>3. CASE Dispatch
  <2>1. UNCHANGED <<mode, wk, res, dr, out, log>>
    BY <1>3 DEF Dispatch, DispRecv, DispSlot, DispGive, DispEnd, dispRest
  <2>2. SendInv'
    BY <2>1, SendKept
  <2>3. Calm
    BY <2>1, CalmStep
  <2>4. CASE DispSlot
    BY <1>3, <2>2, <2>4, DispSendType, LineJoined
  <2>5. CASE ~DispSlot
    <3>1. UNCHANGED slots /\ (disp'.pc = "slot" => read' > read)
      BY <1>1, <1>3, <2>5 DEF Dispatch, DispRecv, DispGive, DispEnd, StageType
    <3> QED BY <1>1, <1>3, <2>1, <2>2, <2>3, <3>1, DispSendType, LineKept
  <2> QED BY <2>4, <2>5
<1>4. CASE Drainer
  <2>1. UNCHANGED <<mode, wk, log>> /\ InOrder
    BY <1>4 DEF Drainer, DrainerTakes, DrainerGets, DrainerSends, drainRest, SendType
  <2> QED BY <1>2, <1>4, <2>1, DrainSendType, LineDrained DEF SendInv
<1>5. CASE Return
  <2>1. UNCHANGED <<mode, read, res, out, log>>
    BY <1>5, Restarts
  <2>2. Calm
    BY <2>1, CalmStep
  <2>3. /\ (UNCHANGED slots \/ slots' = << >>)
        /\ \A w \in Workers : wk'[w].pc = "send" => wk'[w] = wk[w]
        /\ disp'.pc = "slot" => disp.pc = "slot"
    BY <1>5, Restarts
  <2>4. InOrder => dr' = dr \/ dr'.pc = "take"
    BY <1>5, Restarts
  <2>5. SendInv'
    BY <2>1, <2>3, SendKept
  <2>6. CASE InOrder
    BY <1>1, <1>5, <2>1, <2>2, <2>3, <2>4, <2>5, <2>6, ReturnSendType, LineKept
  <2>7. CASE ~InOrder
    BY <1>2, <1>5, <2>5, <2>7, ReturnSendType DEF LineInv
  <2> QED BY <2>6, <2>7
<1>6. CASE Quiet
  <2>1. SendType'
    BY <1>1, <1>2, <1>6 DEF Quiet, SendType
  <2>2. SendInv'
    BY <1>6, SendKept DEF Quiet
  <2>3. Calm
    BY <1>6, CalmStep DEF Quiet
  <2>4. UNCHANGED <<slots, res, dr, out, disp, read>>
    BY <1>6 DEF Quiet
  <2> QED BY <1>1, <2>1, <2>2, <2>3, <2>4, LineKept
<1>7. ASSUME NEW w \in Workers, Work(w) \/ Fail(w)
      PROVE  SendType' /\ SendInv' /\ LineInv'
  <2>1. SendType'
    BY <1>7, WorkSendType
  <2>2. /\ UNCHANGED <<mode, disp, slots, dr>>
        /\ Pull(w) \/ Take(w) \/ Count(w) \/ Drop(w) \/ Emit(w)
    BY <1>7, WorkShape
  <2>3. CASE Count(w)
    <3>1. SendInv'
      BY <2>2, <2>3, SendCounted
    <3>2. LineInv'
      BY <1>2, <2>2, <2>3, LineWorked DEF LineInv
    <3> QED BY <2>1, <3>1, <3>2
  <2>4. CASE Emit(w)
    <3>1. SendInv' /\ ~InOrder
      BY <2>2, <2>4, SendEmitted DEF Emit, SendType
    <3> QED BY <1>2, <2>1, <3>1 DEF LineInv
  <2>5. CASE Pull(w) \/ Take(w) \/ Drop(w)
    <3>1. UNCHANGED <<out, log>> /\ \A v \in Workers : wk'[v].pc = "send" => wk'[v] = wk[v]
      <4>1. \E pc \in {"idle", "end", "work"} : \E i, o : WorkerAt(w, pc, i, o)
        BY <2>5 DEF Pull, Take, Drop
      <4>2. PICK pc, i, o : pc \in {"idle", "end", "work"} /\ WorkerAt(w, pc, i, o)
        BY <4>1
      <4>3. wk'[w].pc # "send" /\ \A v \in Workers : v # w => wk'[v] = wk[v]
        BY <4>2, WorkerIs
      <4> QED BY <2>5, <4>3 DEF Pull, Take, Drop
    <3>2. SendInv'
      BY <2>2, <3>1, SendKept
    <3>3. CASE InOrder /\ Drop(w) /\ wk[w].pc = "work"
      BY <2>1, <2>2, <3>2, <3>3, LineWorked
    <3>4. CASE InOrder /\ ~(Drop(w) /\ wk[w].pc = "work")
      <4>1. UNCHANGED res
        BY <2>5, <3>4 DEF Pull, Take, Drop
      <4>2. read' = read
        BY <2>5, <3>4 DEF Pull, Take, Drop, Pulls, InOrder, Serial
      <4>3. Calm
        BY <3>1, CalmStep
      <4> QED BY <1>1, <2>1, <2>2, <3>1, <3>2, <4>1, <4>2, <4>3, LineKept
    <3>5. CASE ~InOrder
      BY <1>2, <2>1, <3>2, <3>5 DEF LineInv
    <3> QED BY <3>3, <3>4, <3>5
  <2> QED BY <2>2, <2>3, <2>4, <2>5
<1> QED BY <1>3, <1>4, <1>5, <1>6, <1>7, Steps

-----------------------------------------------------------------------------
(* What has been counted is sent before the stage returns nil. *)

\* Item i is on its way from the log to the output.
Leaving(i) ==
  \/ Sent(i)
  \/ ~InOrder /\ \E w \in Workers : wk[w].pc = "send" /\ wk[w].item = i
  \/ InOrder /\ InLine(i) /\ res[i].how = "ok"
  \/ InOrder /\ dr.pc = "send" /\ dr.item = i

\* The invariant, part by part.
LEMMA DoneParts ==
  ASSUME Workers' = Workers, mode' = mode, restarts' \in Nat, err' \in {"none", "err", "ctx"},
         stage' # "run" => AllEnded' /\ dr'.pc = "end" /\ (stage' = "nil" => err' = "none"),
         InOrder /\ err' = "none" /\ dr'.pc = "end" => slots' = << >> /\ AllEnded',
         InOrder /\ err' = "none" => \A i \in Items : (disp'.pc = "give" /\ i = read') \/ (\E w \in Workers : At(w, i)') => InLine(i)',
         err' = "none" /\ restarts' = 0 => \A i : Logged(i)' => Leaving(i)'
  PROVE  DoneInv'
<1>1. InOrder' = InOrder
  BY DEF InOrder
<1>2. ASSUME err' = "none", restarts' = 0, NEW n \in 1..Len(log')
      PROVE  \/ Sent(log[n].item)'
             \/ ~InOrder /\ \E w \in Workers : wk'[w].pc = "send" /\ wk'[w].item = log'[n].item
             \/ InOrder /\ InLine(log[n].item)' /\ res'[log'[n].item].how = "ok"
             \/ InOrder /\ dr'.pc = "send" /\ dr'.item = log'[n].item
  <2>1. PICK i : i = log'[n].item
    OBVIOUS
  <2>2. Leaving(i)'
    BY <1>2, <2>1 DEF Logged
  <2>3. (Sent(i)' <=> Sent(log[n].item)') /\ (InLine(i)' <=> InLine(log[n].item)')
    BY <2>1 DEF Sent, InLine
  <2> QED BY <1>1, <2>1, <2>2, <2>3 DEF Leaving
<1> QED BY <1>1, <1>2 DEF DoneInv

LEMMA DoneLeaving ==
  ASSUME DoneInv, err = "none", restarts = 0
  PROVE  \A i : Logged(i) => Leaving(i)
BY DEF DoneInv, Logged, Leaving

LEMMA DoneDispatch ==
  ASSUME StageType, SendType, OrderInv, DoneInv, Dispatch
  PROVE  DoneInv'
<1>1. UNCHANGED <<mode, wk, res, dr, err, stage, restarts, out, log>>
  BY DEF Dispatch, DispRecv, DispSlot, DispGive, DispEnd, dispRest
<1>2. Workers' = Workers /\ InOrder' = InOrder
  BY <1>1 DEF Workers, Serial, InOrder
<1>3. ~AllEnded
  BY DEF Dispatch, DispRecv, DispSlot, DispGive, DispEnd, AllEnded
<1>4. stage' = "run" /\ restarts' \in Nat /\ err' \in {"none", "err", "ctx"}
  BY <1>1, <1>3 DEF DoneInv
<1>5. \A i : InLine(i) => InLine(i)'
  <2>1. CASE slots' = slots
    BY <1>1, <2>1 DEF InLine
  <2>2. CASE slots' = Append(slots, disp.item)
    <3>1. \A n \in 1..Len(slots) : slots'[n] = slots[n] /\ n \in 1..Len(slots')
      BY <2>2 DEF SendType
    <3> QED BY <1>1, <3>1 DEF InLine
  <2> QED BY <2>1, <2>2 DEF Dispatch, DispRecv, DispSlot, DispGive, DispEnd
<1>6. ASSUME InOrder, err = "none", NEW i \in Items,
             (disp'.pc = "give" /\ i = read') \/ (\E w \in Workers : At(w, i)')
      PROVE  InLine(i)'
  <2>1. (disp.pc = "give" /\ i = read) \/ (\E w \in Workers : At(w, i)) => InLine(i)'
    BY <1>5, <1>6 DEF DoneInv
  <2>2. CASE DispRecv
    <3>1. disp'.pc = "slot" /\ UNCHANGED wq
      BY <1>6, <2>2 DEF DispRecv, StageType
    <3> QED BY <1>1, <1>6, <2>1, <3>1 DEF At
  <2>3. CASE DispSlot
    <3>1. slots' = Append(slots, disp.item) /\ disp.item = read /\ UNCHANGED <<read, wq>>
      BY <2>3 DEF DispSlot, dispRest, OrderInv, Held
    <3>2. slots'[Len(slots) + 1] = read /\ Len(slots) + 1 \in 1..Len(slots')
      BY <3>1 DEF SendType
    <3>3. InLine(read)'
      BY <3>2, <3>1 DEF InLine
    <3>4. i = read' => InLine(i)'
      BY <3>1, <3>2 DEF InLine
    <3> QED BY <1>1, <1>6, <2>1, <3>1, <3>4 DEF At
  <2>4. CASE DispGive
    <3>1. \A v \in Workers : At(v, i)' => At(v, i) \/ i = read
      BY <2>4, OrderGiven
    <3>2. disp.pc = "give" /\ disp'.pc = "recv"
      BY <2>4 DEF DispGive
    <3> QED BY <1>6, <2>1, <3>1, <3>2
  <2>5. CASE DispEnd
    <3>1. disp'.pc = "end" /\ UNCHANGED wq
      BY <2>5 DEF DispEnd, StageType
    <3> QED BY <1>1, <1>6, <2>1, <3>1 DEF At
  <2> QED BY <2>2, <2>3, <2>4, <2>5 DEF Dispatch
<1>7. ASSUME err = "none", restarts = 0, NEW i, Logged(i)'
      PROVE  Leaving(i)'
  <2>1. Leaving(i)
    BY <1>1, <1>7, DoneLeaving DEF Logged
  <2> QED BY <1>1, <1>2, <1>5, <2>1 DEF Leaving, Sent
<1>8. InOrder /\ err' = "none" => dr'.pc # "end"
  BY <1>1, <1>3 DEF DoneInv
<1> QED BY <1>1, <1>2, <1>4, <1>6, <1>7, <1>8, DoneParts

LEMMA DoneReturn ==
  ASSUME StageType, SendType, DoneInv, Return
  PROVE  DoneInv'
<1>1. AllEnded /\ dr.pc = "end" /\ stage = "run" /\ UNCHANGED <<mode, read, res, out, log>> /\ restarts \in Nat
  BY Restarts DEF DoneInv
<1>2. Workers' = Workers /\ InOrder' = InOrder
  BY <1>1 DEF Workers, Serial, InOrder
<1>3. CASE stage' = (IF err = "none" THEN "nil" ELSE err) /\ UNCHANGED <<disp, wk, dr, wq, slots, err, restarts>>
  <2>1. AllEnded' /\ (stage' = "nil" => err' = "none") /\ err' \in {"none", "err", "ctx"}
    BY <1>1, <1>2, <1>3 DEF AllEnded, DoneInv
  <2>2. \A i : InLine(i)' <=> InLine(i)
    BY <1>3 DEF InLine
  <2>3. \A w \in Workers : \A i : At(w, i)' <=> At(w, i)
    BY <1>3 DEF At
  <2>4. ASSUME err' = "none", restarts' = 0, NEW i, Logged(i)'
        PROVE  Leaving(i)'
    <3>1. Leaving(i)
      BY <1>1, <1>3, <2>4, DoneLeaving DEF Logged
    <3> QED BY <1>1, <1>2, <1>3, <2>2, <3>1 DEF Leaving, Sent
  <2>5. InOrder /\ err' = "none" => \A i \in Items : (disp'.pc = "give" /\ i = read') \/ (\E w \in Workers : At(w, i)') => InLine(i)'
    BY <1>1, <1>3, <2>2, <2>3 DEF DoneInv
  <2>6. InOrder /\ err' = "none" /\ dr'.pc = "end" => slots' = << >> /\ AllEnded'
    BY <1>3, <2>1 DEF DoneInv
  <2> QED BY <1>1, <1>2, <1>3, <2>1, <2>4, <2>5, <2>6, DoneParts
<1>4. CASE /\ disp'.pc \in {"none", "recv"} /\ slots' = << >> /\ restarts' = restarts + 1 /\ UNCHANGED stage
           /\ \A w \in Workers : wk'[w].pc = "idle" /\ wq'[w] = << >>
           /\ dr'.pc = IF InOrder THEN "take" ELSE "end"
  <2>1. \A w \in Workers : \A i : ~At(w, i)'
    BY <1>4 DEF At
  <2>2. err' \in {"none", "err", "ctx"}
    BY DEF Return, DoneInv
  <2>3. restarts' \in Nat /\ restarts' # 0
    BY <1>1, <1>4
  <2> QED BY <1>1, <1>2, <1>4, <2>1, <2>2, <2>3, DoneParts
<1> QED BY <1>3, <1>4, Restarts

LEMMA DoneDrainer ==
  ASSUME StageType, SendType, OrderInv, LineInv, DoneInv, Drainer
  PROVE  DoneInv'
<1>1. /\ InOrder /\ UNCHANGED <<mode, read, disp, wq, wk, res, stage, restarts, log>>
      /\ dr = [pc |-> dr.pc, item |-> dr.item, outs |-> dr.outs]
  BY DEF Drainer, DrainerTakes, DrainerGets, DrainerSends, drainRest, SendType
<1>2. Workers' = Workers /\ InOrder' /\ AllEnded' = AllEnded
  BY <1>1 DEF Workers, Serial, InOrder, AllEnded
<1>3. stage' = "run" /\ restarts' \in Nat
  BY <1>1 DEF Drainer, DrainerTakes, DrainerGets, DrainerSends, DoneInv
<1>4. \A w \in Workers : \A i : At(w, i)' <=> At(w, i)
  BY <1>1 DEF At
<1>5. CASE DrainerTakes /\ slots # << >>
  <2>1. /\ slots' = Tail(slots) /\ dr' = [pc |-> "wait", item |-> Head(slots), outs |-> dr.outs]
        /\ UNCHANGED <<out, err>> /\ dr.pc = "take"
    BY <1>1, <1>5 DEF DrainerTakes
  <2>2. /\ Head(slots) = slots[1] /\ Len(slots) \in Nat /\ Len(slots') = Len(slots) - 1
        /\ \A n \in 1..Len(slots') : slots'[n] = slots[n + 1]
    <3>1. slots \in Seq(Items) /\ slots # << >>
      BY <1>5 DEF SendType
    <3> QED BY <2>1, <3>1
  <2>3. dr'.pc = "wait" /\ dr'.item = slots[1]
    BY <2>1, <2>2
  <2>4. ASSUME NEW i, InLine(i) PROVE InLine(i)'
    <3>1. PICK n \in 1..Len(slots) : slots[n] = i
      BY <2>1, <2>4 DEF InLine
    <3>2. CASE n = 1
      BY <2>3, <3>1, <3>2 DEF InLine
    <3>3. CASE n # 1
      <4>1. n - 1 \in 1..Len(slots') /\ slots'[n - 1] = i
        BY <2>2, <3>1, <3>3
      <4> QED BY <4>1 DEF InLine
    <3> QED BY <3>2, <3>3
  <2>5. ASSUME err' = "none", restarts' = 0, NEW i, Logged(i)'
        PROVE  Leaving(i)'
    <3>1. Leaving(i)
      BY <1>1, <2>1, <2>5, DoneLeaving DEF Logged
    <3> QED BY <1>1, <1>2, <2>1, <2>4, <3>1 DEF Leaving, Sent
  <2>6. err' = "none" => \A i \in Items : (disp'.pc = "give" /\ i = read') \/ (\E w \in Workers : At(w, i)') => InLine(i)'
    BY <1>1, <1>4, <2>1, <2>4 DEF DoneInv
  <2>7. err' \in {"none", "err", "ctx"}
    BY <2>1 DEF DoneInv
  <2> QED BY <1>1, <1>2, <1>3, <2>3, <2>5, <2>6, <2>7, DoneParts
<1>6. CASE DrainerTakes /\ slots = << >>
  <2>1. AllEnded /\ dr'.pc = "end" /\ UNCHANGED <<slots, out, err>> /\ dr.pc = "take"
    BY <1>1, <1>6 DEF DrainerTakes
  <2>2. \A i : ~InLine(i)
    BY <1>6, <2>1 DEF InLine
  <2>3. ASSUME err' = "none", restarts' = 0, NEW i, Logged(i)'
        PROVE  Leaving(i)'
    <3>1. Leaving(i)
      BY <1>1, <2>1, <2>3, DoneLeaving DEF Logged
    <3> QED BY <1>1, <1>2, <2>1, <2>2, <3>1 DEF Leaving, Sent
  <2>4. err' = "none" => \A i \in Items : ~(disp'.pc = "give" /\ i = read') /\ ~(\E w \in Workers : At(w, i)')
    BY <1>1, <1>4, <2>1, <2>2 DEF DoneInv
  <2>5. err' \in {"none", "err", "ctx"}
    BY <2>1 DEF DoneInv
  <2> QED BY <1>1, <1>2, <1>3, <1>6, <2>1, <2>3, <2>4, <2>5, DoneParts
<1>7. CASE err' \in {"err", "ctx"}
  <2>1. err' # "none" /\ err' \in {"none", "err", "ctx"}
    BY <1>7
  <2> QED BY <1>1, <1>2, <1>3, <2>1, DoneParts
<1>8. CASE DrainerGets /\ ~(err' \in {"err", "ctx"})
  <2>1. /\ dr.pc = "wait" /\ dr.item \in Items /\ UNCHANGED <<slots, out, err>> /\ res[dr.item].how \in {"ok", "skip"}
        /\ dr'.pc = IF res[dr.item].how = "ok" THEN "send" ELSE "take"
        /\ dr'.item = dr.item
    <3>1. dr.pc = "wait" /\ dr.item \in Items /\ UNCHANGED <<slots, out>> /\ res[dr.item].how \in {"ok", "skip", "err"}
      BY <1>8 DEF DrainerGets, SendType
    <3>2. res[dr.item].how # "err"
      BY <1>8 DEF DrainerGets, Reports, DoneInv
    <3>3. UNCHANGED err
      BY <1>8, <3>1, <3>2 DEF DrainerGets
    <3>4. CASE res[dr.item].how = "ok"
      <4>1. dr' = [pc |-> "send", item |-> dr.item, outs |-> res[dr.item].outs]
        BY <1>1, <1>8, <3>4 DEF DrainerGets
      <4> QED BY <3>1, <3>3, <3>4, <4>1
    <3>5. CASE res[dr.item].how = "skip"
      <4>1. dr' = [pc |-> "take", item |-> dr.item, outs |-> dr.outs]
        BY <1>1, <1>8, <3>5 DEF DrainerGets
      <4> QED BY <3>1, <3>3, <3>5, <4>1
    <3> QED BY <3>1, <3>2, <3>4, <3>5
  <2>2. \A i : InLine(i) => InLine(i)' \/ i = dr.item
    BY <2>1 DEF InLine
  <2>3. dr.item <= Hi /\ \A w \in Workers : ~At(w, dr.item)
    BY <1>1, <2>1 DEF LineInv
  <2>4. disp.pc = "give" => dr.item # read
    BY <2>1, <2>3, HiType, LineIs DEF Held
  <2>5. ASSUME err' = "none", NEW i \in Items, (disp'.pc = "give" /\ i = read') \/ (\E w \in Workers : At(w, i)')
        PROVE  InLine(i)'
    <3>1. i # dr.item
      BY <1>1, <1>4, <2>3, <2>4, <2>5
    <3>2. InLine(i)
      BY <1>1, <1>4, <2>1, <2>5 DEF DoneInv
    <3> QED BY <2>2, <3>1, <3>2
  <2>6. ASSUME err' = "none", restarts' = 0, NEW i, Logged(i)'
        PROVE  Leaving(i)'
    <3>1. Leaving(i)
      BY <1>1, <2>1, <2>6, DoneLeaving DEF Logged
    <3>2. CASE Sent(i)
      BY <2>1, <3>2 DEF Leaving, Sent
    <3>3. CASE InLine(i) /\ res[i].how = "ok"
      BY <1>1, <1>2, <2>1, <2>2, <3>3 DEF Leaving
    <3> QED BY <1>1, <2>1, <3>1, <3>2, <3>3 DEF Leaving
  <2>7. dr'.pc # "end" /\ err' \in {"none", "err", "ctx"}
    BY <2>1 DEF DoneInv
  <2> QED BY <1>1, <1>2, <1>3, <2>5, <2>6, <2>7, DoneParts
<1>9. CASE DrainerSends /\ ~(err' \in {"err", "ctx"})
  <2>1. ~Reports("ctx")
    BY <1>9 DEF Reports, DoneInv
  <2>2. /\ dr.pc = "send" /\ out' = Append(out, Head(dr.outs)) /\ UNCHANGED <<slots, err>> /\ dr'.pc \in {"take", "send"}
        /\ dr'.item = dr.item
    <3>1. dr' = [dr EXCEPT !.pc = IF Len(dr.outs) = 1 THEN "take" ELSE "send", !.outs = Tail(@)]
      BY <1>9, <2>1 DEF DrainerSends
    <3>2. dr' = [pc |-> IF Len(dr.outs) = 1 THEN "take" ELSE "send", item |-> dr.item, outs |-> Tail(dr.outs)]
      BY <1>1, <3>1
    <3>3. dr'.pc \in {"take", "send"} /\ dr'.item = dr.item
      BY <3>2
    <3> QED BY <1>9, <2>1, <3>3 DEF DrainerSends, drainRest
  <2>3. Head(dr.outs)[1] = dr.item
    <3>1. ResultsOf(dr.outs, dr.item) /\ dr.outs \in Seq(Pairs)
      BY <1>1, <2>2 DEF LineInv, SendType
    <3>2. Head(dr.outs) = dr.outs[1] /\ 1 \in 1..Len(dr.outs)
      BY <3>1 DEF ResultsOf
    <3> QED BY <3>1, <3>2 DEF ResultsOf
  <2>4. \A i : InLine(i) <=> InLine(i)'
    BY <2>2 DEF InLine
  <2>5. /\ Len(out) + 1 \in 1..Len(out') /\ out'[Len(out) + 1][1] = dr.item
        /\ \A n \in 1..Len(out) : out'[n] = out[n] /\ n \in 1..Len(out')
    BY <2>2, <2>3 DEF SendType
  <2>6. \A i : Sent(i) \/ i = dr.item => Sent(i)'
    BY <2>5 DEF Sent
  <2>7. ASSUME err' = "none", restarts' = 0, NEW i, Logged(i)'
        PROVE  Leaving(i)'
    <3>1. Leaving(i)
      BY <1>1, <2>2, <2>7, DoneLeaving DEF Logged
    <3> QED BY <1>1, <1>2, <2>4, <2>6, <3>1 DEF Leaving
  <2>8. err' = "none" => \A i \in Items : (disp'.pc = "give" /\ i = read') \/ (\E w \in Workers : At(w, i)') => InLine(i)'
    BY <1>1, <1>4, <2>2, <2>4 DEF DoneInv
  <2>9. dr'.pc # "end" /\ err' \in {"none", "err", "ctx"}
    BY <2>2 DEF DoneInv
  <2> QED BY <1>1, <1>2, <1>3, <2>7, <2>8, <2>9, DoneParts
<1> QED BY <1>5, <1>6, <1>7, <1>8, <1>9 DEF Drainer

LEMMA DoneWork ==
  ASSUME StageType, SendType, OrderInv, FreshInv, SendInv, DoneInv, NEW w \in Workers, Work(w) \/ Fail(w), [Next]_vars
  PROVE  DoneInv'
<1>1. /\ UNCHANGED <<mode, disp, slots, dr, stage, restarts>> /\ wk[w].pc # "end" /\ (err' = "none" => err = "none")
      /\ Pull(w) \/ Take(w) \/ Count(w) \/ Drop(w) \/ Emit(w)
  BY WorkShape
<1>2. Workers' = Workers /\ InOrder' = InOrder /\ ~AllEnded
  BY <1>1 DEF Workers, Serial, InOrder, AllEnded
<1>3. stage' = "run" /\ restarts' \in Nat
  BY <1>1, <1>2 DEF DoneInv
<1>4. err' \in {"none", "err", "ctx"}
  BY DEF Work, Fail, WorkerTakes, WorkerEnds, Process, WorkerSends, WorkerSendStops, Reports, DoneInv
<1>5. \A i : InLine(i)' <=> InLine(i)
  BY <1>1 DEF InLine
<1>6. ASSUME InOrder, err' = "none", NEW i \in Items, (disp'.pc = "give" /\ i = read') \/ (\E v \in Workers : At(v, i)')
      PROVE  InLine(i)'
  <2>1. read' = read
    BY <1>1, <1>6 DEF Pull, Take, Count, Drop, Emit, Pulls, InOrder, Serial
  <2>2. \A v \in Workers : At(v, i)' => At(v, i)
    <3>1. CASE Take(w)
      BY <1>1, <3>1, OrderTaken
    <3>2. CASE Count(w)
      BY <1>1, <3>2, OrderCounted
    <3>3. CASE Drop(w) \/ Emit(w)
      BY <1>1, <3>3, OrderDropped
    <3>4. ~Pull(w)
      BY <1>6 DEF Pull, Pulls, InOrder, Serial
    <3> QED BY <1>1, <3>1, <3>2, <3>3, <3>4
  <2> QED BY <1>1, <1>5, <1>6, <2>1, <2>2 DEF DoneInv
<1>7. ASSUME err' = "none", restarts' = 0, NEW i, Logged(i)'
      PROVE  Leaving(i)'
  <2>1. err = "none" /\ restarts = 0
    BY <1>1, <1>7
  <2>2. CASE Count(w)
    <3>1. PICK e \in Entries :
            /\ e.item = wk[w].item /\ log' = Append(log, e) /\ At(w, e.item) /\ e.item \in Items /\ ~Logged(e.item)
            /\ LET o == Outputs(e.item, e.val) IN
                 IF InOrder THEN res' = [res EXCEPT ![e.item] = [outs |-> o, how |-> "ok"]] /\ WorkerAt(w, "idle", 0, << >>)
                 ELSE WorkerAt(w, "send", e.item, o) /\ UNCHANGED res
      BY <2>2, CountIs
    <3>2. Logged(i) \/ i = e.item
      BY <1>7, <3>1, LogGrows
    <3>3. CASE InOrder
      <4>1. res'[e.item].how = "ok" /\ \A j \in Items : j # e.item => res'[j] = res[j]
        BY <3>1, <3>3 DEF SendType
      <4>2. CASE i = e.item
        <5>1. InLine(e.item)
          BY <2>1, <3>1, <3>3 DEF DoneInv
        <5> QED BY <1>2, <1>5, <3>3, <4>1, <4>2, <5>1 DEF Leaving
      <4>3. CASE i # e.item
        <5>1. Logged(i) /\ i \in Items
          BY <3>2, <4>3, LogIs DEF Logged
        <5>2. Leaving(i) /\ res'[i] = res[i] /\ out' = out
          BY <2>1, <2>2, <4>1, <4>3, <5>1, DoneLeaving DEF Count
        <5> QED BY <1>1, <1>2, <1>5, <3>3, <5>2 DEF Leaving, Sent
      <4> QED BY <4>2, <4>3
    <3>4. CASE ~InOrder
      <4>1. /\ wk'[w].pc = "send" /\ wk'[w].item = e.item /\ \A v \in Workers : v # w => wk'[v] = wk[v]
        <5>1. PICK o : o = Outputs(e.item, e.val)
          OBVIOUS
        <5>2. WorkerAt(w, "send", e.item, o)
          BY <3>1, <3>4, <5>1
        <5> QED BY <5>2 DEF WorkerAt, StageType
      <4>2. CASE i = e.item
        BY <1>2, <3>4, <4>1, <4>2 DEF Leaving
      <4>3. CASE i # e.item
        <5>1. Leaving(i) /\ out' = out /\ wk[w].pc = "work"
          BY <2>1, <2>2, <3>2, <4>3, DoneLeaving DEF Count
        <5>2. CASE Sent(i)
          BY <5>1, <5>2 DEF Leaving, Sent
        <5>3. CASE \E v \in Workers : wk[v].pc = "send" /\ wk[v].item = i
          <6>1. PICK v \in Workers : wk[v].pc = "send" /\ wk[v].item = i
            BY <5>3
          <6>2. v # w /\ wk'[v] = wk[v]
            BY <4>1, <5>1, <6>1
          <6> QED BY <1>2, <3>4, <6>1, <6>2 DEF Leaving
        <5> QED BY <3>4, <5>1, <5>2, <5>3 DEF Leaving
      <4> QED BY <4>2, <4>3
    <3> QED BY <3>3, <3>4
  <2>3. ASSUME ~Count(w)
        PROVE  Leaving(i)'
    <3>1. UNCHANGED log /\ Logged(i) /\ Leaving(i)
      BY <1>1, <1>7, <2>1, <2>3, DoneLeaving DEF Pull, Take, Drop, Emit, Logged
    <3>2. i \in Items
      BY <3>1, LogIs DEF Logged
    <3>3. Sent(i) => Sent(i)'
      <4>1. CASE Emit(w)
        <5>1. \A n \in 1..Len(out) : out'[n] = out[n] /\ n \in 1..Len(out')
          BY <4>1 DEF Emit, SendType
        <5> QED BY <5>1 DEF Sent
      <4>2. CASE Pull(w) \/ Take(w) \/ Drop(w)
        BY <4>2 DEF Pull, Take, Drop, Sent
      <4> QED BY <1>1, <2>3, <4>1, <4>2
    <3>4. CASE InOrder
      <4>1. res'[i].how = "ok" \/ res[i].how # "ok"
        <5>1. CASE Drop(w) /\ wk[w].pc = "work"
          <6>1. PICK how \in {"skip", "err"} : res' = [res EXCEPT ![wk[w].item] = [outs |-> << >>, how |-> how]]
            BY <3>4, <5>1 DEF Drop
          <6>2. At(w, wk[w].item)
            BY <5>1 DEF At
          <6>3. i # wk[w].item
            <7>1. \A n \in 1..Len(log) : ~At(w, log[n].item)
              BY DEF FreshInv
            <7> QED BY <3>1, <6>2, <7>1 DEF Logged
          <6>4. res'[i] = res[i]
            BY <3>2, <6>1, <6>3 DEF SendType
          <6> QED BY <6>4
        <5>2. CASE ~(Drop(w) /\ wk[w].pc = "work")
          BY <1>1, <2>3, <3>4, <5>2 DEF Pull, Take, Drop, Emit
        <5> QED BY <5>1, <5>2
      <4> QED BY <1>1, <1>2, <1>5, <3>1, <3>3, <3>4, <4>1 DEF Leaving
    <3>5. CASE ~InOrder /\ Emit(w)
      <4>1. wk[w].pc = "send" /\ ResultsOf(wk[w].outs, wk[w].item) /\ wk[w].outs \in Seq(Pairs) /\ out' = Append(out, Head(wk[w].outs))
        BY <3>5 DEF Emit, SendInv, SendType
      <4>2. Head(wk[w].outs)[1] = wk[w].item
        <5>1. PICK o, k : o = wk[w].outs /\ k = wk[w].item
          OBVIOUS
        <5>2. o \in Seq(Pairs) /\ ResultsOf(o, k)
          BY <4>1, <5>1
        <5>3. Head(o) = o[1] /\ 1 \in 1..Len(o)
          BY <5>2 DEF ResultsOf
        <5> QED BY <5>1, <5>2, <5>3 DEF ResultsOf
      <4>3. i = wk[w].item => Sent(i)'
        <5>1. Len(out) + 1 \in 1..Len(out') /\ out'[Len(out) + 1] = Head(wk[w].outs)
          BY <4>1 DEF SendType
        <5> QED BY <4>2, <5>1 DEF Sent
      <4>4. \A v \in Workers : v # w => wk'[v] = wk[v]
        BY <3>5 DEF Emit, WorkerAt, StageType
      <4> QED BY <1>2, <3>1, <3>3, <3>5, <4>3, <4>4 DEF Leaving
    <3>6. CASE ~InOrder /\ (Pull(w) \/ Take(w) \/ Drop(w))
      <4>1. \E pc, j, o : WorkerAt(w, pc, j, o)
        BY <3>6 DEF Pull, Take, Drop
      <4>2. \A v \in Workers : v # w => wk'[v] = wk[v]
        BY <4>1 DEF WorkerAt, StageType
      <4>3. wk[w].pc # "send"
        BY <1>7, <3>6 DEF Pull, Take, Drop
      <4> QED BY <1>2, <3>1, <3>3, <3>6, <4>2, <4>3 DEF Leaving
    <3> QED BY <1>1, <2>3, <3>4, <3>5, <3>6
  <2> QED BY <2>2, <2>3
<1>8. InOrder /\ err' = "none" => dr'.pc # "end"
  BY <1>1, <1>2 DEF DoneInv
<1> QED BY <1>1, <1>2, <1>3, <1>4, <1>6, <1>7, <1>8, DoneParts

LEMMA DoneQuiet ==
  ASSUME DoneInv, Quiet
  PROVE  DoneInv'
<1>1. Workers' = Workers /\ InOrder' = InOrder /\ AllEnded' = AllEnded
  BY DEF Quiet, Workers, Serial, InOrder, AllEnded
<1>2. (\A i : InLine(i)' <=> InLine(i)) /\ (\A i : Sent(i)' <=> Sent(i)) /\ (\A i : Logged(i)' <=> Logged(i))
  BY DEF Quiet, InLine, Sent, Logged
<1>3. \A w \in Workers : \A i : At(w, i)' <=> At(w, i)
  BY DEF Quiet, At
<1>4. ASSUME err' = "none", restarts' = 0, NEW i, Logged(i)'
      PROVE  Leaving(i)'
  <2>1. Leaving(i)
    BY <1>2, <1>4, DoneLeaving DEF Quiet
  <2> QED BY <1>1, <1>2, <2>1 DEF Leaving, Quiet
<1>5. InOrder /\ err' = "none" => \A i \in Items : (disp'.pc = "give" /\ i = read') \/ (\E w \in Workers : At(w, i)') => InLine(i)'
  BY <1>2, <1>3 DEF DoneInv, Quiet
<1>6. /\ restarts' \in Nat /\ err' \in {"none", "err", "ctx"} /\ mode' = mode
      /\ stage' # "run" => AllEnded' /\ dr'.pc = "end" /\ (stage' = "nil" => err' = "none")
      /\ InOrder /\ err' = "none" /\ dr'.pc = "end" => slots' = << >> /\ AllEnded'
  BY <1>1 DEF DoneInv, Quiet
<1> QED BY <1>1, <1>4, <1>5, <1>6, DoneParts

-----------------------------------------------------------------------------
SendAll == Inv /\ SendType /\ OrderInv /\ FreshInv /\ SendInv /\ LineInv /\ DoneInv

LEMMA InitSendAll == Init => SendAll
<1> SUFFICES ASSUME Init PROVE SendAll
  OBVIOUS
<1>1. Inv
  BY InitInv
<1>2. disp.pc \in {"none", "recv"} /\ dr = [pc |-> IF InOrder THEN "take" ELSE "end", item |-> 0, outs |-> << >>]
  BY DEF Init, Fresh, InOrder
<1>3. \A w \in Workers : wk[w] = [pc |-> "idle", item |-> 0, outs |-> << >>] /\ wq[w] = << >> /\ 1..Len(wq[w]) = {}
  BY DEF Init, Fresh, Workers, Serial
<1>4. log = << >> /\ out = << >> /\ slots = << >> /\ 1..Len(log) = {} /\ 1..Len(out) = {} /\ 1..Len(slots) = {}
      /\ restarts = 0 /\ err = "none" /\ stage = "run" /\ read = 0 /\ res = [i \in Items |-> Slot0]
  BY DEF Init
<1>5. << >> \in Seq(Pairs) /\ << >> \in Seq(Items)
  OBVIOUS
<1>6. \A w \in Workers : wk[w].pc = "idle" /\ wk[w].item = 0 /\ wk[w].outs = << >> /\ \A i : ~At(w, i)
  BY <1>3 DEF At
<1>7. dr.pc \in {"take", "end"} /\ (~InOrder => dr.pc = "end") /\ (InOrder => dr.pc = "take") /\ dr.item = 0 /\ dr.outs = << >>
  BY <1>2
<1>8. res \in [Items -> [outs : Seq(Pairs), how : {"none", "ok", "skip", "err"}]] /\ \A i \in Items : res[i].how = "none"
  BY <1>4, <1>5 DEF Slot0
<1>9. SendType
  BY <1>2, <1>3, <1>4, <1>5, <1>6, <1>7, <1>8 DEF SendType
<1>10. OrderInv
  BY <1>2, <1>3, <1>4, <1>6 DEF OrderInv, Held
<1>11. FreshInv /\ SendInv
  BY <1>4, <1>6 DEF FreshInv, SendInv
<1>12. LineInv
  BY <1>4, <1>7, <1>8 DEF LineInv
<1>13. DoneInv
  BY <1>2, <1>4, <1>6, <1>7 DEF DoneInv
<1> QED BY <1>1, <1>9, <1>10, <1>11, <1>12, <1>13 DEF SendAll

LEMMA NextSendAll == SendAll /\ [Next]_vars => SendAll'
<1> SUFFICES ASSUME SendAll, [Next]_vars PROVE SendAll'
  OBVIOUS
<1> USE DEF SendAll
<1>1. Inv' /\ StageType /\ StageType'
  BY NextInv DEF Inv
<1>2. OrderInv' /\ FreshInv'
  BY <1>1, OrderStep, FreshStep
<1>3. SendType' /\ SendInv' /\ LineInv'
  BY <1>1, <1>2, SendStep
<1>4. DoneInv'
  BY <1>1, Steps, DoneDispatch, DoneDrainer, DoneReturn, DoneWork, DoneQuiet
<1> QED BY <1>1, <1>2, <1>3, <1>4

LEMMA InOrderOf == SendAll => KeyedOrder
<1> SUFFICES ASSUME SendAll PROVE KeyedOrder
  OBVIOUS
<1>1. StageType /\ RouteInv /\ SendType /\ OrderInv /\ FreshInv /\ SendInv /\ LineInv /\ DoneInv
  BY DEF SendAll, Inv
<1>2. DOMAIN log = 1..Len(log) /\ DOMAIN out = 1..Len(out) /\ log \in Seq(Entries) /\ out \in Seq(Pairs)
  BY <1>1 DEF StageType, SendType
<1>3. \A i : i \in {e.item : e \in ToSet(log)} <=> Logged(i)
  BY <1>2 DEF ToSet, Logged
<1>4. \A i : i \in {o[1] : o \in ToSet(out)} <=> Sent(i)
  BY <1>2 DEF ToSet, Sent
<1>5. \A n \in 1..Len(out) : Logged(out[n][1])
  BY <1>1 DEF SendInv, LineInv
<1>6. ASSUME mode.keyed, NEW m \in 1..Len(log), NEW n \in 1..Len(log), m < n, Key(log[m].item) = Key(log[n].item)
      PROVE  log[m].item < log[n].item
  <2>1. log[m].w = log[n].w
    BY <1>1, <1>6 DEF RouteInv, Owner
  <2> QED BY <1>1, <1>6, <2>1 DEF OrderInv
<1>7. ASSUME InOrder, NEW m \in 1..Len(out), NEW n \in 1..Len(out), m < n
      PROVE  out[m][1] <= out[n][1]
  BY <1>1, <1>7 DEF LineInv
<1>8. ASSUME ~InOrder, NEW m \in 1..Len(out), NEW n \in 1..Len(out), m < n,
             Serial \/ (mode.keyed /\ Key(out[m][1]) = Key(out[n][1]))
      PROVE  out[m][1] <= out[n][1]
  <2>1. PICK v \in Workers, u \in Workers : LoggedBy(v, out[m][1]) /\ LoggedBy(u, out[n][1])
    BY <1>1, <1>5, LogIs
  <2>2. v = u
    <3>1. CASE Serial
      BY <3>1 DEF Workers
    <3>2. CASE mode.keyed /\ Key(out[m][1]) = Key(out[n][1])
      <4>1. Owner(out[m][1]) = v /\ Owner(out[n][1]) = u
        BY <1>1, <2>1, <3>2 DEF RouteInv, LoggedBy
      <4> QED BY <3>2, <4>1 DEF Owner
    <3> QED BY <1>8, <3>1, <3>2
  <2> QED BY <1>1, <1>8, <2>1, <2>2 DEF SendInv
<1>9. ASSUME stage = "nil", restarts = 0, NEW i, Logged(i)
      PROVE  Sent(i)
  <2>1. err = "none" /\ AllEnded /\ dr.pc = "end"
    BY <1>1, <1>9 DEF DoneInv
  <2>2. Leaving(i)
    BY <1>1, <1>9, <2>1, DoneLeaving
  <2>3. InOrder => slots = << >>
    BY <1>1, <2>1 DEF DoneInv
  <2>4. InOrder => ~InLine(i)
    BY <2>1, <2>3 DEF InLine
  <2> QED BY <2>1, <2>2, <2>4 DEF Leaving, AllEnded
<1>10. {o[1] : o \in ToSet(out)} \subseteq {e.item : e \in ToSet(log)}
  BY <1>3, <1>4, <1>5 DEF Sent
<1>11. stage = "nil" /\ restarts = 0 => {o[1] : o \in ToSet(out)} = {e.item : e \in ToSet(log)}
  BY <1>3, <1>4, <1>9, <1>10
<1>12. /\ mode.keyed => /\ \A i, j \in DOMAIN log : i < j /\ Key(log[i].item) = Key(log[j].item) => log[i].item < log[j].item
                        /\ \A i, j \in DOMAIN out : i < j /\ Key(out[i][1]) = Key(out[j][1]) => out[i][1] <= out[j][1]
       /\ InOrder \/ Serial => \A i, j \in DOMAIN out : i < j => out[i][1] <= out[j][1]
  BY <1>2, <1>6, <1>7, <1>8
<1> QED BY <1>10, <1>11, <1>12 DEF KeyedOrder

\* Items of one key are counted and their results sent in input order, whatever
\* the concurrency; a serial or ordered stage sends everything in input order;
\* and what a stage that returns nil has counted it has sent, even one that was
\* cancelled or left by its consumer, unless a supervised restart dropped it.
THEOREM KeysKeepOrder == Spec => []KeyedOrder
<1> QED BY InitSendAll, NextSendAll, InOrderOf, PTL DEF Spec
=============================================================================
