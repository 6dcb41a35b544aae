--------------------------- MODULE InnerFlowProofs --------------------------
(***************************************************************************)
(* What comes out of the stages that run streams inside, for any input,    *)
(* any nested pipelines, factories, buffers and parallelism: every item of *)
(* every stream that is not dropped or left, once, in order and without a  *)
(* gap.  The invariants say where each item is on its way.                 *)
(***************************************************************************)
EXTENDS InnerProofs

-----------------------------------------------------------------------------
(* The invariants: Amb, the nested pipelines, and an item's own stream. *)
\* The items of factory i that the source has taken, and the last one that its
\* forwarder has put on the merged channel.
TakenOf(i) == IF winner = i THEN Len(sent) + (IF pc = "yield" THEN 1 ELSE 0) ELSE 0
PutOf(i) == f[i].n - Len(f[i].ch) - (IF fwd[i].pc = "send" THEN 1 ELSE 0)

\* Until a factory is cancelled nothing of it gets lost on the way.
FactoryFlow(i) ==
  /\ f[i].n <= NPerRun /\ (f[i].up \/ (f[i].n = NPerRun /\ ends[i] = "ok"))
  /\ \A p \in 1..Len(f[i].ch) : f[i].ch[p] = f[i].n - Len(f[i].ch) + p
  /\ fwd[i].pc = "send" => fwd[i].item = f[i].n - Len(f[i].ch)
  /\ fwd[i].pc = "end" => ~f[i].up /\ f[i].ch = << >>
  /\ TakenOf(i) <= PutOf(i)
  /\ \A m \in Nat : TakenOf(i) < m /\ m <= PutOf(i) => \E p \in 1..Len(merged) : merged[p] = <<i, m>>
  /\ \A p \in 1..Len(merged) : merged[p][1] = i => TakenOf(i) < merged[p][2] /\ merged[p][2] <= PutOf(i)
  /\ \A p, q \in 1..Len(merged) : p < q /\ merged[p][1] = i /\ merged[q][1] = i => merged[p][2] < merged[q][2]

FlowType ==
  /\ fwd \in [Factories -> [pc : {"recv", "send", "end"}, item : Nat]]
  /\ merged \in Seq(Factories \X Nat) /\ sent \in Seq(Factories \X Nat)
  /\ winner \in Factories \cup {0} /\ pc \in {"recv", "yield", "done"}
  /\ pc = "yield" => item \in Factories \X Nat /\ item[1] = winner
  /\ winner = 0 => sent = << >> /\ pc # "yield"
  /\ fctx = IF winner = 0 THEN {} ELSE Factories \ {winner}
  /\ pc = "done" <=> ret # "run"
  /\ inner => firstErr = "err" \/ pc = "done"
  /\ \A p \in 1..Len(sent) : sent[p][1] = winner

AmbFlow ==
  /\ FlowType
  /\ ~left /\ ~ctx /\ ~inner =>
       /\ \A p \in 1..Len(sent) : sent[p] = <<winner, p>>
       /\ pc = "yield" => item = <<winner, Len(sent) + 1>>
       /\ \A i \in Factories \ fctx : FactoryFlow(i)
  /\ ret = "nil" /\ ~left /\ ~ctx => winner # 0 /\ ends[winner] = "ok" /\ Len(sent) = NPerRun

-----------------------------------------------------------------------------
(* Nested. *)
\* The items sent, at their places among what has been sent.
Out == [p \in N!Values |-> N!Item(p)]
\* The items of the present run that have been sent.
Passed == pos - Len(buf) - (IF each = "yield" THEN 1 ELSE 0)
\* Run j has sent items 1 to n.
Upto(j, n) == \A m \in Nat : (1 <= m /\ m <= n) <=> (\E p \in DOMAIN Out : Out[p] = <<j, m>>)
\* What Materialize sends at the end.
Last == IF ends[1] = "nil" THEN <<"complete">> ELSE <<"error", ends[1]>>

FlowItems == (1..Runs) \X Nat
\* What is sent: items, bare or wrapped, and the outcome.
Sendable == FlowItems \cup ({"next"} \X FlowItems) \cup {<<"complete">>} \cup {<<"error", e>> : e \in {"nil", "err", "canceled", "ctx"}}

\* A run in progress: what its source has emitted is in its channel, in
\* ForEach's hand or sent, and all of it is when it ends without an error.
RunFlow ==
  /\ pos \in 0..nested[k].n /\ buf \in Seq(FlowItems) /\ src \in {"run", "end"} /\ each \in {"take", "yield", "end"}
  /\ Passed >= 0
  /\ \A p \in 1..Len(buf) : buf[p] = <<k, pos - Len(buf) + p>>
  /\ each = "yield" => item = <<k, pos - Len(buf)>>
  /\ src = "end" /\ nres = "nil" => pos = nested[k].n
  /\ each = "end" /\ nres = "nil" => buf = << >> /\ src = "end"
  /\ op.name # "ignore" => Upto(k, Passed)

SentFlow ==
  /\ sent \in Seq(Sendable) /\ (pc # "run" => src \in {"none", "end"} /\ each = "end")
  /\ \A p \in DOMAIN Out : Out[p] \in (1..k) \X Nat
  /\ \A p, q \in DOMAIN Out : p < q =>
       \/ Out[p][1] < Out[q][1]
       \/ Out[p][1] = Out[q][1] /\ Out[p][2] < Out[q][2]
  /\ pc = "start" => \A p \in DOMAIN Out : Out[p][1] < k
  /\ \A j \in 1..Runs : \E n \in 0..nested[j].n : Upto(j, n)
  /\ \A j \in 1..Len(ends) : ends[j] = "nil" /\ op.name # "ignore" => Upto(j, nested[j].n)
  /\ op.name = "ignore" => sent = << >>
  /\ \A p \in 1..Len(sent) : p \in DOMAIN Out \/ (p = Len(sent) /\ pc = "done" /\ sent[p] = Last)
  /\ pc = "last" => nres = ends[1]
  /\ op.name = "materialize" /\ pc = "done" => Len(sent) > 0 /\ Len(sent) \notin DOMAIN Out

NestedFlow == ~left /\ ~ctx => SentFlow /\ (pc = "run" => RunFlow)

-----------------------------------------------------------------------------
(* SubStreams. *)
SentOf(i, n) == \A m \in Nat : (1 <= m /\ m <= n) <=> (\E p \in 1..Len(sent) : sent[p] = <<i, m>>)

\* How many outputs of an item have been sent.  (The last one is not counted
\* in j, except by the drainer.)
SentBy(i) == IF g[i].pc = "done" /\ kind # "ordered" THEN g[i].n ELSE g[i].j

\* What has been sent of every item, in order; serial stages and the drainer
\* send item after item.
OutputInv ==
  /\ sent \in Seq((1..NItems) \X Nat)
  /\ \A i \in 1..NItems :
       /\ SentOf(i, SentBy(i)) /\ g[i].j <= g[i].n
       /\ g[i].pc \in {"none", "call", "wait", "skip"} => g[i].j = 0
       /\ g[i].pc = "send" => g[i].j < g[i].n /\ kind # "ordered"
  /\ \A p, q \in 1..Len(sent) : p < q =>
       /\ sent[p][1] = sent[q][1] => sent[p][2] < sent[q][2]
       /\ kind \notin {"concurrent", "switch"} => sent[p][1] <= sent[q][1]

\* A stage that works on its items itself has one at a time; ExhaustMap too.
SerialInv ==
  /\ disp.pc = "sem" => kind \in {"concurrent", "ordered"}
  /\ kind # "fast" => Len(batch) <= 1
  /\ kind \in {"fast", "serial", "exhaust"} =>
       /\ \A i, j \in 1..NItems : g[i].pc \in {"call", "wait", "send"} /\ g[j].pc \in {"call", "wait", "send"} => i = j
       /\ \A p \in 1..Len(sent) : \A i \in 1..NItems : g[i].pc \in {"call", "wait", "send"} => sent[p][1] <= i

\* The items that an ordered stage has in line come after the one that the
\* drainer has in hand, and those before it are through.
LineInv ==
  kind = "ordered" =>
    /\ dr.item < next - Len(batch)
    /\ \A p \in 1..Len(sent) : sent[p][1] <= dr.item
    /\ \A p \in 1..Len(line) : dr.item < line[p] /\ line[p] < next - Len(batch)
    /\ \A p, q \in 1..Len(line) : p < q => line[p] < line[q]
    /\ dr.pc = "get" => g[dr.item].j = 0
    /\ dr.pc = "send" => g[dr.item].pc = "done" /\ g[dr.item].j < g[dr.item].n
    /\ \A i \in 1..NItems : g[i].pc = "done" => g[i].j = g[i].n \/ dr.err # "nil"
         \/ (dr.pc \in {"get", "send"} /\ dr.item = i) \/ (\E p \in 1..Len(line) : line[p] = i)

\* What is left undone, and why.
UndoneInv ==
  /\ kind # "exhaust" => \A i \in 1..NItems : g[i].pc = "none" => i >= next - Len(batch)
  /\ disp.why = "closed" => next = NItems + 1 /\ batch = << >>
  /\ disp.why = "inner" => inner \/ ctx
  /\ \A i \in 1..NItems : g[i].pc \in {"user", "ctx"} /\ ~ctx =>
       /\ kind \in {"fast", "serial"} => disp.why \in {"user", "ctx"}
       /\ kind = "concurrent" => errs # "nil"
       /\ kind = "switch" => errs # "nil" \/ disp.why = "user" \/ i \in over
       /\ kind = "exhaust" => errs # "nil" \/ disp.why = "user"
  /\ kind = "switch" => cur = next - 1 /\ over \subseteq 1..NItems /\ \A i \in over : i < cur \/ disp.why \in {"ctx", "drain", "user"}

\* What has become of the items when the stage ends by itself.
EndInv ==
  ret = "nil" /\ ~ctx /\ consumer = "reading" => \A i \in 1..NItems :
    \/ g[i].pc = "done" /\ SentBy(i) = g[i].n
    \/ g[i].pc = "skip"
    \/ kind = "switch" /\ i < NItems
    \/ kind = "exhaust" /\ g[i].pc = "none"

SubFlow == OutputInv /\ SerialInv /\ LineInv /\ UndoneInv /\ EndInv

-----------------------------------------------------------------------------
(* Amb: what leaves it is what its winner sent. *)

LEMMA TailFacts ==
  ASSUME NEW C, NEW s \in Seq(C), s # << >>
  PROVE  /\ s[1] \in C /\ Head(s) = s[1] /\ Tail(s) \in Seq(C)
         /\ Len(s) \in Nat /\ Len(s) > 0 /\ Len(Tail(s)) = Len(s) - 1
         /\ \A p \in 1..Len(Tail(s)) : Tail(s)[p] = s[p + 1]
<1>1. /\ Tail(s) \in Seq(C) /\ Len(Tail(s)) = Len(s) - 1
      /\ \A p \in 1..Len(Tail(s)) : Tail(s)[p] = s[p + 1]
  BY HeadTailProperties
<1>2. Len(s) \in Nat /\ Len(s) > 0
  BY EmptySeq, LenProperties
<1>3. Head(s) = s[1]
  BY SMT
<1>4. 1 \in 1..Len(s)
  BY <1>2
<1>5. s[1] \in C
  BY <1>4, ElementOfSeq, Zenon
<1> QED BY <1>1, <1>2, <1>3, <1>5

Forwarders == [pc : {"recv", "send", "end"}, item : Nat]

LEMMA FlowTypeInit == A!Init => FlowType
<1> SUFFICES ASSUME A!Init PROVE FlowType
  OBVIOUS
<1>1. [pc |-> "recv", item |-> 0] \in Forwarders
  BY DEF Forwarders
<1>2. fwd \in [Factories -> Forwarders]
  BY <1>1 DEF A!Init
<1>3. << >> \in Seq(Factories \X Nat)
  OBVIOUS
<1> QED BY <1>2, <1>3 DEF FlowType, A!Init, Forwarders

\* What a forwarder does to its own record.
LEMMA ForwarderEffect ==
  ASSUME AmbInv, FlowType, NEW i \in Factories
  PROVE  /\ A!ForwarderTakes(i) =>
              /\ fwd' \in [Factories -> Forwarders] /\ \A j \in Factories : j # i => fwd'[j] = fwd[j] /\ f'[j] = f[j]
              /\ fwd[i].pc = "recv" /\ f'[i].up = f[i].up /\ f'[i].n = f[i].n
              /\ \/ f[i].ch # << >> /\ fwd'[i].pc = "send" /\ fwd'[i].item = f[i].ch[1] /\ f'[i].ch = Tail(f[i].ch)
                 \/ f[i].ch = << >> /\ ~f[i].up /\ fwd'[i].pc = "end" /\ f'[i].ch = f[i].ch
         /\ A!ForwarderSends(i) =>
              /\ fwd' \in [Factories -> Forwarders] /\ \A j \in Factories : j # i => fwd'[j] = fwd[j]
              /\ f' = f /\ fwd[i].pc = "send" /\ fwd[i].item \in Nat
              /\ \/ merged' = Append(merged, <<i, fwd[i].item>>) /\ fwd'[i].pc = "recv"
                 \/ A!FDone(i) /\ merged' = merged /\ fwd'[i].pc = "end"
<1>1. /\ fwd \in [Factories -> Forwarders] /\ fwd[i] \in Forwarders /\ f \in [Factories -> Goroutines]
      /\ f[i] \in Goroutines /\ f[i].ch \in Seq(Nat) /\ fwd[i].item \in Nat
  BY DEF FlowType, Forwarders, AmbInv, Goroutines
<1>2. ASSUME A!ForwarderTakes(i)
      PROVE  /\ fwd' \in [Factories -> Forwarders] /\ \A j \in Factories : j # i => fwd'[j] = fwd[j] /\ f'[j] = f[j]
             /\ fwd[i].pc = "recv" /\ f'[i].up = f[i].up /\ f'[i].n = f[i].n
             /\ \/ f[i].ch # << >> /\ fwd'[i].pc = "send" /\ fwd'[i].item = f[i].ch[1] /\ f'[i].ch = Tail(f[i].ch)
                \/ f[i].ch = << >> /\ ~f[i].up /\ fwd'[i].pc = "end" /\ f'[i].ch = f[i].ch
  <2>1. CASE f[i].ch # << >> /\ fwd' = [fwd EXCEPT ![i] = [pc |-> "send", item |-> Head(f[i].ch)]] /\ f' = [f EXCEPT ![i].ch = Tail(@)]
    <3>1. Head(f[i].ch) = f[i].ch[1] /\ f[i].ch[1] \in Nat
      BY <1>1, <2>1, TailFacts
    <3>2. fwd' = [fwd EXCEPT ![i] = [pc |-> "send", item |-> f[i].ch[1]]] /\ [pc |-> "send", item |-> f[i].ch[1]] \in Forwarders
      BY <2>1, <3>1 DEF Forwarders
    <3>3. /\ fwd' \in [Factories -> Forwarders] /\ \A j \in Factories : j # i => fwd'[j] = fwd[j]
          /\ fwd'[i].pc = "send" /\ fwd'[i].item = f[i].ch[1]
      BY <1>1, <3>2
    <3>4. /\ f'[i].up = f[i].up /\ f'[i].n = f[i].n /\ f'[i].ch = Tail(f[i].ch)
          /\ \A j \in Factories : j # i => f'[j] = f[j]
      BY <1>1, <2>1 DEF Goroutines
    <3>5. fwd[i].pc = "recv"
      BY <1>2 DEF A!ForwarderTakes
    <3> QED BY <2>1, <3>3, <3>4, <3>5
  <2>2. CASE f[i].ch = << >> /\ ~f[i].up /\ fwd' = [fwd EXCEPT ![i].pc = "end"] /\ UNCHANGED f
    <3>1. fwd' \in [Factories -> Forwarders] /\ fwd'[i].pc = "end" /\ \A j \in Factories : j # i => fwd'[j] = fwd[j]
      BY <1>1, <2>2 DEF Forwarders
    <3>2. fwd[i].pc = "recv"
      BY <1>2 DEF A!ForwarderTakes
    <3> QED BY <2>2, <3>1, <3>2
  <2> QED BY <1>2, <2>1, <2>2 DEF A!ForwarderTakes
<1>3. ASSUME A!ForwarderSends(i)
      PROVE  /\ fwd' \in [Factories -> Forwarders] /\ \A j \in Factories : j # i => fwd'[j] = fwd[j]
             /\ f' = f /\ fwd[i].pc = "send" /\ fwd[i].item \in Nat
             /\ \/ merged' = Append(merged, <<i, fwd[i].item>>) /\ fwd'[i].pc = "recv"
                \/ A!FDone(i) /\ merged' = merged /\ fwd'[i].pc = "end"
  <2>1. f' = f /\ fwd[i].pc = "send"
    BY <1>3 DEF A!ForwarderSends, A!wRest
  <2>2. CASE merged' = Append(merged, <<i, fwd[i].item>>) /\ fwd' = [fwd EXCEPT ![i].pc = "recv"]
    <3>1. fwd' \in [Factories -> Forwarders] /\ fwd'[i].pc = "recv" /\ \A j \in Factories : j # i => fwd'[j] = fwd[j]
      BY <1>1, <2>2 DEF Forwarders
    <3> QED BY <1>1, <2>1, <2>2, <3>1
  <2>3. CASE A!FDone(i) /\ fwd' = [fwd EXCEPT ![i].pc = "end"] /\ UNCHANGED merged
    <3>1. fwd' \in [Factories -> Forwarders] /\ fwd'[i].pc = "end" /\ \A j \in Factories : j # i => fwd'[j] = fwd[j]
      BY <1>1, <2>3 DEF Forwarders
    <3> QED BY <1>1, <2>1, <2>3, <3>1
  <2> QED BY <1>3, <2>2, <2>3 DEF A!ForwarderSends
<1> QED BY <1>2, <1>3

LEMMA PairSeqs ==
  ASSUME NEW s \in Seq(Factories \X Nat), NEW x \in Factories \X Nat
  PROVE  /\ Append(s, x) \in Seq(Factories \X Nat) /\ Len(Append(s, x)) = Len(s) + 1 /\ Len(s) \in Nat
         /\ \A p \in 1..Len(s) : Append(s, x)[p] = s[p]
         /\ Append(s, x)[Len(s) + 1] = x
BY AppendProperties, LenProperties

LEMMA FlowTypeStep == AmbInv /\ FlowType /\ [A!Next]_ambVars => FlowType'
<1> SUFFICES ASSUME AmbInv, FlowType, [A!Next]_ambVars PROVE FlowType'
  OBVIOUS
<1> USE DEF FlowType
<1>1. ASSUME NEW i \in Factories, A!FactorySends(i) PROVE FlowType'
  BY <1>1 DEF A!FactorySends, A!fRest
<1>2. ASSUME NEW i \in Factories, A!FactoryEnds(i) PROVE FlowType'
  <2>1. inner' = inner \/ firstErr' = "err"
    BY <1>2 DEF A!FactoryEnds
  <2>2. inner' = inner => firstErr' = firstErr \/ firstErr' = "err"
    BY <1>2 DEF A!FactoryEnds
  <2> QED BY <1>2, <2>1, <2>2 DEF A!FactoryEnds, A!fRest
<1>3. ASSUME NEW i \in Factories, A!ForwarderTakes(i) PROVE FlowType'
  BY <1>3, ForwarderEffect DEF A!ForwarderTakes, A!wRest, Forwarders
<1>4. ASSUME NEW i \in Factories, A!ForwarderSends(i) PROVE FlowType'
  <2>1. fwd' \in [Factories -> Forwarders] /\ fwd[i].item \in Nat
    BY <1>4, ForwarderEffect
  <2>2. merged' \in Seq(Factories \X Nat)
    <3>1. <<i, fwd[i].item>> \in Factories \X Nat
      BY <2>1
    <3>2. merged' = Append(merged, <<i, fwd[i].item>>) \/ merged' = merged
      BY <1>4, ForwarderEffect
    <3>3. Append(merged, <<i, fwd[i].item>>) \in Seq(Factories \X Nat)
      BY <3>1, PairSeqs
    <3> QED BY <3>2, <3>3
  <2> QED BY <1>4, <2>1, <2>2 DEF A!ForwarderSends, A!wRest, Forwarders
<1>5. CASE A!Take
  <2>1. /\ merged # << >> /\ merged' = Tail(merged) /\ pc = "recv" /\ UNCHANGED <<fwd, sent, ret, inner, firstErr>>
        /\ winner' = IF winner = 0 THEN merged[1][1] ELSE winner
        /\ fctx' = fctx \cup (Factories \ {winner'})
        /\ IF merged[1][1] = winner' THEN item' = merged[1] /\ pc' = "yield" ELSE UNCHANGED <<item, pc>>
    BY <1>5 DEF A!Take, A!sRest
  <2>2. merged[1] \in Factories \X Nat /\ merged' \in Seq(Factories \X Nat)
    BY <2>1, TailFacts
  <2>3. winner' \in Factories /\ winner' # 0
    BY <2>1, <2>2, InnerAssumption DEF InnerAssumption
  <2>4. fctx' = Factories \ {winner'}
    BY <2>1, <2>3
  <2>5. \A p \in 1..Len(sent') : sent'[p][1] = winner'
    <3>1. \A p \in 1..Len(sent) : sent[p][1] = winner
      BY DEF FlowType
    <3>2. CASE winner = 0
      <4>1. sent' = << >> /\ 1..Len(sent') = {}
        BY <2>1, <3>2 DEF FlowType
      <4> QED BY <4>1
    <3>3. CASE winner # 0
      BY <2>1, <3>1, <3>3
    <3> QED BY <3>2, <3>3
  <2> QED BY <2>1, <2>2, <2>3, <2>4, <2>5
<1>6. CASE A!Yield
  <2>1. /\ pc = "yield" /\ UNCHANGED <<fwd, merged, fctx, winner, item, firstErr>>
        /\ \/ sent' = Append(sent, item) /\ pc' = "recv" /\ UNCHANGED <<inner, ret>>
           \/ inner' = TRUE /\ pc' = "done" /\ ret' = "nil" /\ sent' \in {sent, Append(sent, item)}
    BY <1>6 DEF A!Yield, A!sRest
  <2>2. Append(sent, item) \in Seq(Factories \X Nat) /\ \A p \in 1..Len(Append(sent, item)) : Append(sent, item)[p][1] = winner
    BY <2>1, PairSeqs
  <2>3. sent' \in {sent, Append(sent, item)} /\ winner # 0
    BY <2>1
  <2>4. sent' \in Seq(Factories \X Nat) /\ \A p \in 1..Len(sent') : sent'[p][1] = winner
    BY <2>2, <2>3
  <2>5. UNCHANGED <<fwd, merged, fctx, winner, item, firstErr>>
    BY <2>1
  <2>6. /\ pc' \in {"recv", "yield", "done"} /\ pc' # "yield"
        /\ (pc = "done" <=> ret # "run")' /\ (inner => firstErr = "err" \/ pc = "done")'
    BY <2>1
  <2> QED BY <2>3, <2>4, <2>5, <2>6
<1>7. CASE A!Return
  BY <1>7 DEF A!Return, A!sRest, AmbInv
<1>8. CASE A!Cancel \/ A!Leave \/ A!Halted \/ UNCHANGED ambVars
  BY <1>8 DEF A!Cancel, A!Leave, A!Halted, A!eRest, ambVars, A!vars
<1> QED
  BY <1>1, <1>2, <1>3, <1>4, <1>5, <1>6, <1>7, <1>8 DEF A!Next, A!Goroutine, A!Source

LEMMA PairParts ==
  ASSUME NEW s \in Seq(Factories \X Nat), NEW p \in 1..Len(s)
  PROVE  s[p] \in Factories \X Nat /\ s[p][1] \in Factories /\ s[p][2] \in Nat /\ s[p] = <<s[p][1], s[p][2]>>
<1>1. s[p] \in Factories \X Nat
  BY ElementOfSeq
<1> QED BY <1>1

Going == ~left /\ ~ctx /\ ~inner

LEMMA FlowNumbers ==
  ASSUME AmbInv, FlowType, NEW i \in Factories
  PROVE  /\ f[i].n \in Nat /\ Len(f[i].ch) \in Nat /\ f[i].ch \in Seq(Nat) /\ TakenOf(i) \in Nat /\ PutOf(i) \in Int
         /\ f[i].up \in BOOLEAN /\ NPerRun \in Nat /\ NPerRun > 0
<1>1. f[i] \in Goroutines /\ f[i].n \in Nat /\ f[i].ch \in Seq(Nat) /\ f[i].up \in BOOLEAN /\ Len(f[i].ch) \in Nat
  BY LenProperties DEF AmbInv, Goroutines
<1>2. Len(sent) \in Nat
  BY LenProperties DEF FlowType
<1> QED BY <1>1, <1>2, InnerAssumption DEF TakenOf, PutOf, InnerAssumption

\* A factory that takes no part in a step.
LEMMA FlowOther ==
  ASSUME NEW i \in Factories, FactoryFlow(i), f'[i] = f[i], fwd'[i] = fwd[i], UNCHANGED <<merged, winner, sent, pc, ends>>
  PROVE  FactoryFlow(i)'
<1>1. TakenOf(i)' = TakenOf(i) /\ PutOf(i)' = PutOf(i)
  BY DEF TakenOf, PutOf
<1> QED BY <1>1 DEF FactoryFlow

LEMMA FlowSends ==
  ASSUME AmbInv, FlowType, NEW i \in Factories, A!FactorySends(i), FactoryFlow(i)
  PROVE  FactoryFlow(i)'
<1>1. /\ f' = [f EXCEPT ![i].n = @ + 1, ![i].ch = Append(@, f[i].n + 1)] /\ f[i].up /\ f[i].n < NPerRun
      /\ UNCHANGED <<fwd, merged, winner, sent, pc, ends>>
  BY DEF A!FactorySends, A!fRest
<1>2. f[i].n \in Nat /\ f[i].ch \in Seq(Nat) /\ Len(f[i].ch) \in Nat /\ NPerRun \in Nat /\ f \in [Factories -> Goroutines]
  BY FlowNumbers DEF AmbInv
<1>a. f'[i].n = f[i].n + 1 /\ f'[i].up /\ f'[i].ch = Append(f[i].ch, f[i].n + 1)
  BY <1>1, <1>2 DEF Goroutines
<1>3. f'[i].n = f[i].n + 1 /\ f'[i].up /\ fwd'[i] = fwd[i]
  BY <1>1, <1>a
<1>4. /\ Len(f'[i].ch) = Len(f[i].ch) + 1 /\ f'[i].ch[Len(f[i].ch) + 1] = f[i].n + 1
      /\ \A p \in 1..Len(f[i].ch) : f'[i].ch[p] = f[i].ch[p]
  <2>1. f[i].n + 1 \in Nat
    BY <1>2
  <2> QED BY <1>2, <1>a, <2>1, AppendProperties
<1>b. f'[i].n - Len(f'[i].ch) = f[i].n - Len(f[i].ch)
  <2>1. PICK n \in Nat, l \in Nat : n = f[i].n /\ l = Len(f[i].ch)
    BY <1>2
  <2>2. f'[i].n = n + 1 /\ Len(f'[i].ch) = l + 1
    BY <1>3, <1>4, <2>1
  <2>3. (n + 1) - (l + 1) = n - l
    OBVIOUS
  <2> QED BY <2>1, <2>2, <2>3
<1>5. TakenOf(i)' = TakenOf(i) /\ PutOf(i)' = PutOf(i)
  BY <1>1, <1>3, <1>b DEF TakenOf, PutOf
<1>6. \A p \in 1..Len(f'[i].ch) : f'[i].ch[p] = f'[i].n - Len(f'[i].ch) + p
  <2>1. ASSUME NEW p \in 1..Len(f'[i].ch) PROVE f'[i].ch[p] = f'[i].n - Len(f'[i].ch) + p
    <3>1. CASE p = Len(f[i].ch) + 1
      <4>1. f'[i].ch[p] = f[i].n + 1
        BY <1>4, <3>1
      <4> QED BY <1>2, <1>b, <3>1, <4>1
    <3>2. CASE p # Len(f[i].ch) + 1
      <4>1. p \in 1..Len(f[i].ch)
        BY <1>2, <1>4, <3>2
      <4>2. f'[i].ch[p] = f[i].n - Len(f[i].ch) + p
        BY <1>4, <4>1 DEF FactoryFlow
      <4> QED BY <1>b, <4>2
    <3> QED BY <3>1, <3>2
  <2> QED BY <2>1
<1>7. fwd'[i].pc = "send" => fwd'[i].item = f'[i].n - Len(f'[i].ch)
  BY <1>3, <1>b DEF FactoryFlow
<1>8. f'[i].n <= NPerRun /\ fwd'[i].pc # "end"
  BY <1>1, <1>2, <1>3 DEF FactoryFlow
<1>9. UNCHANGED <<merged, ends>>
  BY <1>1
<1> QED BY <1>3, <1>5, <1>6, <1>7, <1>8, <1>9 DEF FactoryFlow

LEMMA FlowEnds ==
  ASSUME AmbInv, FlowType, NEW i \in Factories, A!FactoryEnds(i), FactoryFlow(i), Going', i \notin fctx
  PROVE  FactoryFlow(i)'
<1>1. /\ f' = [f EXCEPT ![i].up = FALSE] /\ UNCHANGED <<fwd, merged, winner, sent, pc, ends, left, ctx>>
  BY DEF A!FactoryEnds, A!fRest
<1>2. f[i].n = NPerRun /\ ends[i] = "ok"
  BY <1>1 DEF A!FactoryEnds, A!FDone, Going
<1>3. f'[i].n = f[i].n /\ ~f'[i].up /\ f'[i].ch = f[i].ch
  BY <1>1 DEF Goroutines, AmbInv
<1>4. TakenOf(i)' = TakenOf(i) /\ PutOf(i)' = PutOf(i)
  BY <1>1, <1>3 DEF TakenOf, PutOf
<1> QED BY <1>1, <1>2, <1>3, <1>4 DEF FactoryFlow

LEMMA FlowTakes ==
  ASSUME AmbInv, FlowType, NEW i \in Factories, A!ForwarderTakes(i), FactoryFlow(i)
  PROVE  FactoryFlow(i)'
<1>1. UNCHANGED <<merged, winner, sent, pc, ends>>
  BY DEF A!ForwarderTakes, A!wRest
<1>2. f[i].n \in Nat /\ f[i].ch \in Seq(Nat) /\ Len(f[i].ch) \in Nat /\ NPerRun \in Nat
  BY FlowNumbers
<1>3. fwd[i].pc = "recv" /\ f'[i].up = f[i].up /\ f'[i].n = f[i].n
  BY ForwarderEffect
<1>4. CASE f[i].ch # << >> /\ fwd'[i].pc = "send" /\ fwd'[i].item = f[i].ch[1] /\ f'[i].ch = Tail(f[i].ch)
  <2>1. /\ Len(f'[i].ch) = Len(f[i].ch) - 1 /\ Len(f[i].ch) > 0
        /\ \A p \in 1..Len(f'[i].ch) : f'[i].ch[p] = f[i].ch[p + 1]
    BY <1>2, <1>4, TailFacts
  <2>5. fwd'[i].pc = "send" /\ fwd'[i].item = f[i].ch[1] /\ fwd[i].pc # "send"
    BY <1>3, <1>4
  <2>6. f'[i].n - Len(f'[i].ch) = f[i].n - Len(f[i].ch) + 1
    BY <1>2, <1>3, <2>1
  <2>2. TakenOf(i)' = TakenOf(i) /\ PutOf(i)' = PutOf(i)
    <3>1. TakenOf(i)' = TakenOf(i)
      BY <1>1 DEF TakenOf
    <3>2. PutOf(i)' = f'[i].n - Len(f'[i].ch) - 1 /\ PutOf(i) = f[i].n - Len(f[i].ch) - 0
      BY <2>5 DEF PutOf
    <3> QED BY <1>2, <2>6, <3>1, <3>2
  <2>3. \A p \in 1..Len(f'[i].ch) : f'[i].ch[p] = f'[i].n - Len(f'[i].ch) + p
    <3>1. \A p \in 1..Len(f[i].ch) : f[i].ch[p] = f[i].n - Len(f[i].ch) + p
      BY DEF FactoryFlow
    <3>2. Len(f'[i].ch) \in Nat
      BY <1>2, <2>1
    <3>3. ASSUME NEW p \in 1..Len(f'[i].ch) PROVE f'[i].ch[p] = f'[i].n - Len(f'[i].ch) + p
      <4>0. p + 1 \in 1..Len(f[i].ch)
        <5>1. Len(f[i].ch) \in Nat /\ Len(f'[i].ch) = Len(f[i].ch) - 1
          BY <1>2, <2>1
        <5> QED BY <5>1
      <4>1. p + 1 \in 1..Len(f[i].ch) /\ f'[i].ch[p] = f[i].ch[p + 1]
        BY <2>1, <4>0
      <4>2. f'[i].ch[p] = f[i].n - Len(f[i].ch) + (p + 1)
        BY <3>1, <4>1
      <4>3. f'[i].n - Len(f'[i].ch) + p = f[i].n - Len(f[i].ch) + 1 + p
        BY <2>6
      <4>4. p \in Int /\ f[i].n \in Int /\ Len(f[i].ch) \in Int
        BY <1>2, <3>2
      <4>5. f[i].n - Len(f[i].ch) + (p + 1) = f[i].n - Len(f[i].ch) + 1 + p
        <5>1. ASSUME NEW a \in Int, NEW b \in Int, NEW c \in Int PROVE a - b + (c + 1) = a - b + 1 + c
          OBVIOUS
        <5> QED BY <4>4, <5>1
      <4> QED BY <4>2, <4>3, <4>5
    <3> QED BY <3>3
  <2>4. fwd'[i].item = f'[i].n - Len(f'[i].ch)
    <3>1. 1 \in 1..Len(f[i].ch)
      BY <1>2, <2>1
    <3>2. f[i].ch[1] = f[i].n - Len(f[i].ch) + 1
      BY <3>1 DEF FactoryFlow
    <3> QED BY <2>5, <2>6, <3>2
  <2> QED BY <1>1, <1>3, <2>5, <2>2, <2>3, <2>4 DEF FactoryFlow
<1>5. CASE f[i].ch = << >> /\ ~f[i].up /\ fwd'[i].pc = "end" /\ f'[i].ch = f[i].ch
  <2>1. TakenOf(i)' = TakenOf(i) /\ PutOf(i)' = PutOf(i)
    BY <1>1, <1>3, <1>5 DEF TakenOf, PutOf
  <2> QED BY <1>1, <1>3, <1>5, <2>1 DEF FactoryFlow
<1> QED BY <1>4, <1>5, ForwarderEffect

\* An item that is put on the merged channel follows those of its factory.
LEMMA FlowMerges ==
  ASSUME AmbInv, FlowType, NEW i \in Factories, A!ForwarderSends(i), NEW j \in Factories, FactoryFlow(j), Going, j \notin fctx
  PROVE  FactoryFlow(j)'
<1>1. UNCHANGED <<winner, sent, pc, ends>>
  BY DEF A!ForwarderSends, A!wRest
<1>2. f[j].n \in Nat /\ Len(f[j].ch) \in Nat /\ TakenOf(j) \in Nat /\ PutOf(j) \in Int
  BY FlowNumbers
<1>3. f' = f /\ fwd[i].pc = "send" /\ fwd[i].item \in Nat /\ \A l \in Factories : l # i => fwd'[l] = fwd[l]
  BY ForwarderEffect
<1>4. CASE merged' = Append(merged, <<i, fwd[i].item>>) /\ fwd'[i].pc = "recv"
  <2>1. /\ Len(merged') = Len(merged) + 1 /\ Len(merged) \in Nat /\ \A p \in 1..Len(merged) : merged'[p] = merged[p]
        /\ merged'[Len(merged) + 1] = <<i, fwd[i].item>>
    BY <1>3, <1>4, PairSeqs DEF FlowType
  <2>2. TakenOf(j)' = TakenOf(j)
    BY <1>1 DEF TakenOf
  <2>3. CASE j = i
    <3>1. PutOf(j)' = PutOf(j) + 1 /\ fwd[i].item = PutOf(j) + 1
      BY <1>2, <1>3, <1>4, <2>3 DEF PutOf, FactoryFlow
    <3>2. ASSUME NEW m \in Nat, TakenOf(j) < m, m <= PutOf(j)' PROVE \E p \in 1..Len(merged') : merged'[p] = <<j, m>>
      <4>1. CASE m = PutOf(j) + 1
        <5>1. Len(merged) + 1 \in 1..Len(merged') /\ merged'[Len(merged) + 1] = <<j, m>>
          BY <2>1, <2>3, <3>1, <4>1
        <5> QED BY <5>1
      <4>2. CASE m # PutOf(j) + 1
        <5>1. m <= PutOf(j)
          BY <1>2, <3>1, <3>2, <4>2
        <5>2. PICK p \in 1..Len(merged) : merged[p] = <<j, m>>
          BY <3>2, <5>1 DEF FactoryFlow
        <5>3. p \in 1..Len(merged') /\ merged'[p] = <<j, m>>
          BY <2>1, <5>2
        <5> QED BY <5>3
      <4> QED BY <4>1, <4>2
    <3>3. ASSUME NEW p \in 1..Len(merged'), merged'[p][1] = j PROVE TakenOf(j) < merged'[p][2] /\ merged'[p][2] <= PutOf(j)'
      <4>1. CASE p \in 1..Len(merged)
        <5>1. merged'[p] = merged[p] /\ merged[p][1] = j
          BY <2>1, <3>3, <4>1
        <5>2. TakenOf(j) < merged[p][2] /\ merged[p][2] <= PutOf(j) /\ merged[p][2] \in Nat
          BY <4>1, <5>1, PairParts DEF FactoryFlow, FlowType
        <5> QED BY <1>2, <3>1, <5>1, <5>2
      <4>2. CASE p = Len(merged) + 1
        BY <1>2, <2>1, <3>1, <4>2 DEF FactoryFlow
      <4> QED BY <2>1, <4>1, <4>2
    <3>4. ASSUME NEW p \in 1..Len(merged'), NEW q \in 1..Len(merged'), p < q, merged'[p][1] = j, merged'[q][1] = j
          PROVE  merged'[p][2] < merged'[q][2]
      <4>1. CASE q \in 1..Len(merged)
        <5>1. p \in 1..Len(merged) /\ merged'[p] = merged[p] /\ merged'[q] = merged[q]
          BY <2>1, <3>4, <4>1
        <5> QED BY <3>4, <4>1, <5>1 DEF FactoryFlow
      <4>2. CASE q = Len(merged) + 1
        <5>1. p \in 1..Len(merged) /\ merged'[p] = merged[p] /\ merged'[q][2] = PutOf(j) + 1
          BY <2>1, <3>1, <3>4, <4>2
        <5>2. merged[p][2] <= PutOf(j) /\ merged[p][2] \in Nat
          BY <3>4, <5>1, PairParts DEF FactoryFlow, FlowType
        <5> QED BY <1>2, <5>1, <5>2
      <4> QED BY <2>1, <4>1, <4>2
    <3>5. TakenOf(j)' <= PutOf(j)'
      BY <1>2, <2>2, <3>1 DEF FactoryFlow
    <3>6. UNCHANGED <<f, ends>> /\ fwd'[j].pc = "recv"
      BY <1>1, <1>3, <1>4, <2>3
    <3> QED BY <2>2, <3>2, <3>3, <3>4, <3>5, <3>6 DEF FactoryFlow
  <2>4. CASE j # i
    <3>1. PutOf(j)' = PutOf(j) /\ fwd'[j] = fwd[j]
      BY <1>3, <2>4 DEF PutOf
    <3>2. ASSUME NEW m \in Nat, TakenOf(j) < m, m <= PutOf(j) PROVE \E p \in 1..Len(merged') : merged'[p] = <<j, m>>
      <4>1. PICK p \in 1..Len(merged) : merged[p] = <<j, m>>
        BY <3>2 DEF FactoryFlow
      <4>2. p \in 1..Len(merged') /\ merged'[p] = <<j, m>>
        BY <2>1, <4>1
      <4> QED BY <4>2
    <3>3. ASSUME NEW p \in 1..Len(merged'), merged'[p][1] = j PROVE p \in 1..Len(merged) /\ merged'[p] = merged[p]
      BY <2>1, <2>4, <3>3
    <3> QED BY <1>1, <1>3, <2>2, <3>1, <3>2, <3>3 DEF FactoryFlow
  <2> QED BY <2>3, <2>4
<1>5. CASE A!FDone(i) /\ merged' = merged /\ fwd'[i].pc = "end"
  <2>1. j # i
    BY <1>5 DEF A!FDone, Going
  <2> QED BY <1>1, <1>3, <1>5, <2>1, FlowOther
<1> QED BY <1>4, <1>5, ForwarderEffect

\* The next item of a factory on the merged channel is the next one it has
\* for the source.
LEMMA NextTaken ==
  ASSUME AmbInv, FlowType, NEW i \in Factories, FactoryFlow(i), merged # << >>, merged[1][1] = i
  PROVE  merged[1] = <<i, TakenOf(i) + 1>>
<1>1. TakenOf(i) \in Nat /\ PutOf(i) \in Int
  BY FlowNumbers
<1>2. Len(merged) \in Nat /\ Len(merged) > 0 /\ 1 \in 1..Len(merged)
  BY TailFacts DEF FlowType
<1>3. merged[1][2] \in Nat /\ merged[1] = <<i, merged[1][2]>>
  BY <1>2, PairParts DEF FlowType
<1>4. TakenOf(i) < merged[1][2] /\ merged[1][2] <= PutOf(i)
  BY <1>2 DEF FactoryFlow
<1>5. TakenOf(i) + 1 \in Nat /\ TakenOf(i) < TakenOf(i) + 1 /\ TakenOf(i) + 1 <= PutOf(i)
  BY <1>1, <1>3, <1>4
<1>6. PICK p \in 1..Len(merged) : merged[p] = <<i, TakenOf(i) + 1>>
  BY <1>5 DEF FactoryFlow
<1>7. p = 1
  <2>1. SUFFICES ASSUME 1 < p PROVE FALSE
    BY <1>6
  <2>2. merged[p][1] = i /\ merged[p][2] = TakenOf(i) + 1
    BY <1>6
  <2>3. merged[1][2] < merged[p][2]
    BY <1>2, <2>1, <2>2 DEF FactoryFlow
  <2> QED BY <1>1, <1>3, <1>4, <2>2, <2>3
<1> QED BY <1>6, <1>7

\* The flow of a factory when the first item is taken from the merged channel:
\* the factory's own, or another's.
LEMMA FlowTaken ==
  ASSUME AmbInv, FlowType, NEW i \in Factories, FactoryFlow(i), merged # << >>, merged' = Tail(merged), UNCHANGED <<f, fwd, ends>>,
         IF merged[1][1] = i THEN TakenOf(i)' = TakenOf(i) + 1 ELSE TakenOf(i)' = TakenOf(i)
  PROVE  FactoryFlow(i)'
<1>1. TakenOf(i) \in Nat /\ PutOf(i) \in Int /\ PutOf(i)' = PutOf(i)
  BY FlowNumbers DEF PutOf
<1>2. /\ Len(merged) \in Nat /\ Len(merged) > 0 /\ Len(merged') = Len(merged) - 1
      /\ \A p \in 1..Len(merged') : merged'[p] = merged[p + 1] /\ p + 1 \in 1..Len(merged)
  <2>1. /\ Len(merged) \in Nat /\ Len(merged) > 0 /\ Len(merged') = Len(merged) - 1
        /\ \A p \in 1..Len(merged') : merged'[p] = merged[p + 1]
    BY TailFacts DEF FlowType
  <2> QED BY <2>1
<1>3. 1 \in 1..Len(merged)
  BY <1>2
<1>4. TakenOf(i)' <= PutOf(i) /\ TakenOf(i)' >= TakenOf(i) /\ TakenOf(i)' \in Nat
  <2>1. CASE merged[1][1] = i
    <3>1. merged[1][2] = TakenOf(i) + 1
      BY <2>1, NextTaken
    <3> QED BY <1>1, <1>3, <2>1, <3>1 DEF FactoryFlow
  <2>2. CASE merged[1][1] # i
    BY <1>1, <2>2 DEF FactoryFlow
  <2> QED BY <2>1, <2>2
<1>5. ASSUME NEW m \in Nat, TakenOf(i)' < m, m <= PutOf(i) PROVE \E p \in 1..Len(merged') : merged'[p] = <<i, m>>
  <2>1. PICK q \in 1..Len(merged) : merged[q] = <<i, m>>
    <3>1. TakenOf(i) < m
      BY <1>1, <1>4, <1>5
    <3> QED BY <1>5, <3>1 DEF FactoryFlow
  <2>2. q # 1
    <3>1. SUFFICES ASSUME q = 1 PROVE FALSE
      OBVIOUS
    <3>2. merged[1][1] = i /\ merged[1][2] = m
      BY <2>1, <3>1
    <3>3. merged[1][2] = TakenOf(i) + 1 /\ TakenOf(i)' = TakenOf(i) + 1
      BY <3>2, NextTaken
    <3> QED BY <1>1, <1>5, <3>2, <3>3
  <2>3. q - 1 \in 1..Len(merged') /\ merged'[q - 1] = merged[(q - 1) + 1] /\ (q - 1) + 1 = q
    BY <1>2, <2>1, <2>2
  <2> QED BY <2>1, <2>3
<1>6. ASSUME NEW p \in 1..Len(merged'), merged'[p][1] = i PROVE TakenOf(i)' < merged'[p][2] /\ merged'[p][2] <= PutOf(i)
  <2>1. p + 1 \in 1..Len(merged) /\ merged[p + 1] = merged'[p] /\ 1 < p + 1
    BY <1>2
  <2>2. TakenOf(i) < merged'[p][2] /\ merged'[p][2] <= PutOf(i) /\ merged'[p][2] \in Nat
    BY <1>6, <2>1, PairParts DEF FactoryFlow, FlowType
  <2>3. CASE merged[1][1] = i
    <3>1. merged[1][2] = TakenOf(i) + 1
      BY <2>3, NextTaken
    <3>2. merged[1][2] < merged[p + 1][2]
      BY <1>3, <1>6, <2>1, <2>3 DEF FactoryFlow
    <3> QED BY <1>1, <2>1, <2>2, <2>3, <3>1, <3>2
  <2>4. CASE merged[1][1] # i
    BY <2>2, <2>4
  <2> QED BY <2>3, <2>4
<1>7. ASSUME NEW p \in 1..Len(merged'), NEW q \in 1..Len(merged'), p < q, merged'[p][1] = i, merged'[q][1] = i
      PROVE  merged'[p][2] < merged'[q][2]
  <2>1. /\ p + 1 \in 1..Len(merged) /\ merged[p + 1] = merged'[p]
        /\ q + 1 \in 1..Len(merged) /\ merged[q + 1] = merged'[q] /\ p + 1 < q + 1
    BY <1>2, <1>7
  <2> QED BY <1>7, <2>1 DEF FactoryFlow
<1> QED BY <1>1, <1>4, <1>5, <1>6, <1>7 DEF FactoryFlow

SourceFlow ==
  /\ \A p \in 1..Len(sent) : sent[p] = <<winner, p>>
  /\ pc = "yield" => item = <<winner, Len(sent) + 1>>
WonInv == ret = "nil" /\ ~left /\ ~ctx => winner # 0 /\ ends[winner] = "ok" /\ Len(sent) = NPerRun

LEMMA AmbFlowParts == AmbFlow <=> FlowType /\ (Going => SourceFlow /\ \A i \in Factories \ fctx : FactoryFlow(i)) /\ WonInv
BY DEF AmbFlow, Going, SourceFlow, WonInv

LEMMA AmbFlowInit == A!Init => AmbFlow
<1> SUFFICES ASSUME A!Init PROVE AmbFlow
  OBVIOUS
<1>1. FlowType
  BY FlowTypeInit
<1>2. SourceFlow /\ WonInv
  BY DEF SourceFlow, WonInv, A!Init
<1>3. ASSUME NEW i \in Factories PROVE FactoryFlow(i)
  <2>1. f[i].n = 0 /\ f[i].up /\ f[i].ch = << >> /\ fwd[i].pc = "recv" /\ merged = << >> /\ winner = 0
    BY DEF A!Init
  <2>2. TakenOf(i) = 0 /\ PutOf(i) = 0
    <3>1. winner # i
      BY <2>1, InnerAssumption DEF InnerAssumption
    <3>2. Len(<< >>) = 0
      BY EmptySeq
    <3>3. PutOf(i) = f[i].n - Len(f[i].ch) - 0
      BY <2>1 DEF PutOf
    <3>4. TakenOf(i) = 0
      BY <2>1, <3>1 DEF TakenOf
    <3>5. Len(f[i].ch) = 0
      BY <2>1, <3>2
    <3>6. f[i].n = 0
      BY <2>1
    <3>7. PutOf(i) = 0 - 0 - 0
      BY <3>3, <3>5, <3>6
    <3> QED BY <3>4, <3>7
  <2> QED BY <2>1, <2>2, InnerAssumption DEF FactoryFlow, InnerAssumption
<1> QED BY <1>1, <1>2, <1>3, AmbFlowParts

\* The goroutines of the factories leave the source alone.
LEMMA GoroutineFlow ==
  ASSUME AmbInv, AmbFlow, NEW i \in Factories, A!Goroutine(i)
  PROVE  WonInv' /\ (Going' => SourceFlow' /\ \A j \in Factories \ fctx' : FactoryFlow(j)')
<1>1. UNCHANGED <<fctx, winner, pc, item, ret, ctx, left, sent, ends>> /\ (inner => inner')
  BY DEF A!Goroutine, A!FactorySends, A!FactoryEnds, A!ForwarderTakes, A!ForwarderSends, A!fRest, A!wRest
<1>2. FlowType /\ WonInv /\ (Going => SourceFlow /\ \A j \in Factories \ fctx : FactoryFlow(j))
  BY AmbFlowParts
<1>3. WonInv'
  BY <1>1, <1>2 DEF WonInv
<1>4. ASSUME Going' PROVE Going /\ SourceFlow'
  BY <1>1, <1>2, <1>4 DEF Going, SourceFlow
<1>5. ASSUME Going', NEW j \in Factories \ fctx' PROVE FactoryFlow(j)'
  <2>1. j \in Factories /\ j \notin fctx /\ FactoryFlow(j) /\ Going
    BY <1>1, <1>2, <1>4, <1>5
  <2>2. CASE A!FactorySends(i)
    <3>1. (j # i => f'[j] = f[j]) /\ fwd' = fwd /\ merged' = merged
      BY <2>1, <2>2 DEF A!FactorySends, A!fRest, AmbInv, Goroutines
    <3>2. CASE j = i
      BY <1>2, <2>1, <2>2, <3>2, FlowSends
    <3>3. CASE j # i
      BY <1>1, <2>1, <3>1, <3>3, FlowOther
    <3> QED BY <3>2, <3>3
  <2>3. CASE A!FactoryEnds(i)
    <3>1. (j # i => f'[j] = f[j]) /\ fwd' = fwd /\ merged' = merged
      BY <2>1, <2>3 DEF A!FactoryEnds, A!fRest, AmbInv, Goroutines
    <3> QED BY <1>1, <1>2, <1>5, <2>1, <2>3, <3>1, FlowEnds, FlowOther
  <2>4. CASE A!ForwarderTakes(i)
    <3>1. j # i => f'[j] = f[j] /\ fwd'[j] = fwd[j]
      BY <1>2, <2>1, <2>4, ForwarderEffect
    <3>2. merged' = merged
      BY <2>4 DEF A!ForwarderTakes
    <3> QED BY <1>1, <1>2, <2>1, <2>4, <3>1, <3>2, FlowTakes, FlowOther
  <2>5. CASE A!ForwarderSends(i)
    BY <1>2, <2>1, <2>5, FlowMerges
  <2> QED BY <2>2, <2>3, <2>4, <2>5 DEF A!Goroutine
<1> QED BY <1>3, <1>4, <1>5

LEMMA TakeFlow ==
  ASSUME AmbInv, AmbFlow, A!Take
  PROVE  WonInv' /\ (Going' => SourceFlow' /\ \A j \in Factories \ fctx' : FactoryFlow(j)')
<1>1. FlowType /\ WonInv /\ (Going => SourceFlow /\ \A j \in Factories \ fctx : FactoryFlow(j))
  BY AmbFlowParts
<1>2. /\ merged # << >> /\ merged' = Tail(merged) /\ pc = "recv" /\ UNCHANGED <<f, fwd, ends, sent, ret, inner, ctx, left>>
      /\ winner' = IF winner = 0 THEN merged[1][1] ELSE winner
      /\ fctx' = fctx \cup (Factories \ {winner'})
      /\ IF merged[1][1] = winner' THEN item' = merged[1] /\ pc' = "yield" ELSE UNCHANGED <<item, pc>>
  BY DEF A!Take, A!sRest
<1>3. WonInv'
  BY <1>1, <1>2 DEF WonInv, FlowType
<1>4. ASSUME Going' PROVE SourceFlow' /\ \A j \in Factories \ fctx' : FactoryFlow(j)'
  <2>1. Going /\ SourceFlow /\ \A j \in Factories \ fctx : FactoryFlow(j)
    BY <1>1, <1>2, <1>4 DEF Going
  <2>2. merged[1] \in Factories \X Nat
    BY <1>1, <1>2, TailFacts DEF FlowType
  <2>0. winner' \in Factories
    BY <1>1, <1>2, <2>2 DEF FlowType
  <2>a. PICK w \in Factories : winner' = w
    BY <2>0
  <2>3. w \notin fctx /\ (winner # 0 => w = winner) /\ (winner = 0 => sent = << >>)
    BY <1>1, <1>2, <2>a DEF FlowType
  <2>4. FactoryFlow(w)
    BY <2>1, <2>3
  <2>5. TakenOf(w) = Len(sent)
    <3>1. CASE winner = 0
      BY <2>3, <3>1, InnerAssumption DEF TakenOf, InnerAssumption
    <3>2. CASE winner # 0
      <4>1. Len(sent) \in Nat
        BY <1>1, LenProperties DEF FlowType
      <4> QED BY <1>2, <2>3, <3>2, <4>1 DEF TakenOf
    <3> QED BY <3>1, <3>2
  <2>6. CASE merged[1][1] = w
    <3>1. merged[1] = <<w, Len(sent) + 1>>
      BY <1>1, <1>2, <2>3, <2>4, <2>5, <2>6, NextTaken
    <3>2. SourceFlow'
      <4>1. item' = <<winner', Len(sent') + 1>>
        BY <1>2, <2>6, <2>a, <3>1
      <4>2. ASSUME NEW p \in 1..Len(sent') PROVE sent'[p] = <<winner', p>>
        <5>1. winner # 0
          BY <1>2, <2>3, <4>2, EmptySeq
        <5> QED BY <1>2, <2>1, <2>3, <2>a, <5>1 DEF SourceFlow
      <4> QED BY <4>1, <4>2 DEF SourceFlow
    <3>3. TakenOf(w)' = TakenOf(w) + 1
      <4>1. TakenOf(w)' = Len(sent') + 1
        BY <1>2, <2>a, <2>6 DEF TakenOf
      <4> QED BY <1>2, <2>5, <4>1
    <3>4. FactoryFlow(w)'
      BY <1>1, <1>2, <2>4, <2>6, <3>3, FlowTaken
    <3>5. \A j \in Factories \ fctx' : j = w
      BY <1>2, <2>a
    <3> QED BY <3>2, <3>4, <3>5
  <2>7. CASE merged[1][1] # w
    <3>1. winner # 0 /\ w = winner /\ pc' = pc /\ winner' = winner
      BY <1>2, <2>3, <2>7, <2>a
    <3>2. SourceFlow'
      BY <1>2, <2>1, <3>1 DEF SourceFlow
    <3>3. TakenOf(w)' = TakenOf(w)
      BY <1>2, <3>1 DEF TakenOf
    <3>4. FactoryFlow(w)'
      BY <1>1, <1>2, <2>3, <2>4, <2>7, <3>1, <3>3, FlowTaken
    <3>5. \A j \in Factories \ fctx' : j = w
      BY <1>2, <2>a
    <3> QED BY <3>2, <3>4, <3>5
  <2> QED BY <2>6, <2>7
<1> QED BY <1>3, <1>4

LEMMA YieldFlow ==
  ASSUME AmbInv, AmbFlow, A!Yield
  PROVE  WonInv' /\ (Going' => SourceFlow' /\ \A j \in Factories \ fctx' : FactoryFlow(j)')
<1>1. FlowType /\ WonInv /\ (Going => SourceFlow /\ \A j \in Factories \ fctx : FactoryFlow(j))
  BY AmbFlowParts
<1>2. /\ pc = "yield" /\ UNCHANGED <<ends, f, fwd, ctx, left, merged, fctx, winner, item>>
      /\ \/ sent' = Append(sent, item) /\ pc' = "recv" /\ UNCHANGED <<inner, ret>>
         \/ (left \/ ctx) /\ inner' = TRUE
  BY DEF A!Yield, A!sRest
<1>3. CASE (left \/ ctx) /\ inner' = TRUE
  BY <1>2, <1>3 DEF WonInv, Going
<1>4. CASE sent' = Append(sent, item) /\ pc' = "recv" /\ UNCHANGED <<inner, ret>>
  <2>1. WonInv'
    BY <1>1, <1>2, <1>4 DEF WonInv, FlowType
  <2>2. /\ Len(sent') = Len(sent) + 1 /\ Len(sent) \in Nat /\ sent'[Len(sent) + 1] = item
        /\ \A p \in 1..Len(sent) : sent'[p] = sent[p]
    BY <1>1, <1>2, <1>4, PairSeqs DEF FlowType
  <2>3. ASSUME Going' PROVE SourceFlow' /\ \A j \in Factories \ fctx' : FactoryFlow(j)'
    <3>1. SourceFlow /\ \A j \in Factories \ fctx : FactoryFlow(j)
      BY <1>1, <1>2, <1>4, <2>3 DEF Going
    <3>2. SourceFlow'
      <4>1. ASSUME NEW p \in 1..Len(sent') PROVE sent'[p] = <<winner, p>>
        BY <1>2, <2>2, <3>1 DEF SourceFlow
      <4> QED BY <1>2, <1>4, <4>1 DEF SourceFlow
    <3>3. ASSUME NEW j \in Factories \ fctx' PROVE FactoryFlow(j)'
      <4>1. j \in Factories \ fctx /\ winner = j
        BY <1>1, <1>2 DEF FlowType
      <4>2. TakenOf(j)' = TakenOf(j) /\ PutOf(j)' = PutOf(j)
        <5>1. TakenOf(j)' = Len(sent') + 0 /\ TakenOf(j) = Len(sent) + 1
          BY <1>2, <1>4, <4>1 DEF TakenOf
        <5> QED BY <1>2, <2>2, <5>1 DEF PutOf
      <4>3. FactoryFlow(j)
        BY <3>1, <4>1
      <4> QED BY <1>2, <4>2, <4>3 DEF FactoryFlow
    <3> QED BY <3>2, <3>3
  <2> QED BY <2>1, <2>3
<1> QED BY <1>2, <1>3, <1>4

\* When the merged channel is closed the winner has been sent to the end.
LEMMA ReturnWon == ASSUME AmbInv, AmbFlow, A!Return PROVE WonInv' /\ ~Going'
<1>1. FlowType /\ WonInv /\ (Going => SourceFlow /\ \A j \in Factories \ fctx : FactoryFlow(j))
  BY AmbFlowParts
<1>2. /\ pc = "recv" /\ merged = << >> /\ (\A i \in Factories : fwd[i].pc = "end" /\ ~f[i].up) /\ inner' = TRUE
      /\ ret' = firstErr /\ UNCHANGED <<winner, ends, sent, left, ctx>>
  BY DEF A!Return, A!Merged, A!sRest
<1>3. ASSUME ret' = "nil", ~left, ~ctx PROVE winner # 0 /\ ends[winner] = "ok" /\ Len(sent) = NPerRun
  <2>1. Going
    BY <1>1, <1>2, <1>3 DEF FlowType, Going, AmbInv
  <2>2. ASSUME NEW i \in Factories \ fctx
        PROVE  ends[i] = "ok" /\ TakenOf(i) = NPerRun
    <3>1. FactoryFlow(i) /\ i \in Factories /\ fwd[i].pc = "end" /\ f[i].ch = << >> /\ f[i].n = NPerRun /\ ends[i] = "ok"
      BY <1>1, <1>2, <2>1, <2>2 DEF FactoryFlow
    <3>2. PutOf(i) = NPerRun /\ NPerRun \in Nat /\ TakenOf(i) \in Nat
      <4>1. NPerRun \in Nat /\ TakenOf(i) \in Nat
        BY <1>1, <3>1, FlowNumbers
      <4>2. PutOf(i) = NPerRun - 0 - 0
        BY <3>1, EmptySeq DEF PutOf
      <4> QED BY <4>1, <4>2
    <3>3. TakenOf(i) <= NPerRun
      BY <3>1, <3>2 DEF FactoryFlow
    <3>4. ~(TakenOf(i) < NPerRun)
      <4>1. SUFFICES ASSUME TakenOf(i) < NPerRun PROVE FALSE
        OBVIOUS
      <4>2. \E p \in 1..Len(merged) : merged[p] = <<i, NPerRun>>
        BY <3>1, <3>2, <4>1 DEF FactoryFlow
      <4>3. Len(merged) = 0
        BY <1>2, EmptySeq
      <4> QED BY <4>2, <4>3
    <3> QED BY <3>1, <3>2, <3>3, <3>4
  <2>3. winner # 0
    <3>1. SUFFICES ASSUME winner = 0 PROVE FALSE
      OBVIOUS
    <3>2. PICK i \in Factories : TRUE
      BY InnerAssumption DEF InnerAssumption
    <3>3. TakenOf(i) = NPerRun
      BY <1>1, <2>2, <3>1, <3>2 DEF FlowType
    <3>4. TakenOf(i) = 0
      BY <3>1, <3>2, InnerAssumption DEF TakenOf, InnerAssumption
    <3> QED BY <3>3, <3>4, InnerAssumption DEF InnerAssumption
  <2>4. winner \in Factories \ fctx
    BY <1>1, <2>3 DEF FlowType
  <2>5. ends[winner] = "ok" /\ TakenOf(winner) = NPerRun
    BY <2>2, <2>4
  <2>6. TakenOf(winner) = Len(sent)
    <3>1. TakenOf(winner) = Len(sent) + 0
      BY <1>2 DEF TakenOf
    <3> QED BY <1>1, <3>1, LenProperties DEF FlowType
  <2> QED BY <2>3, <2>5, <2>6
<1> QED BY <1>2, <1>3 DEF WonInv, Going

LEMMA AmbFlowStep == AmbInv /\ AmbFlow /\ [A!Next]_ambVars => AmbFlow'
<1> SUFFICES ASSUME AmbInv, AmbFlow, [A!Next]_ambVars PROVE AmbFlow'
  OBVIOUS
<1>1. FlowType'
  BY FlowTypeStep, AmbFlowParts
<1>2. WonInv' /\ (Going' => SourceFlow' /\ \A j \in Factories \ fctx' : FactoryFlow(j)')
  <2>1. CASE A!Cancel \/ A!Leave \/ A!Halted \/ UNCHANGED ambVars
    <3>1. UNCHANGED <<ends, f, fwd, merged, fctx, inner, winner, pc, item, sent>> /\ (left => left') /\ (ctx => ctx')
          /\ ret' = ret
      BY <2>1 DEF A!Cancel, A!Leave, A!Halted, A!eRest, ambVars, A!vars
    <3>2. WonInv'
      BY <3>1, AmbFlowParts DEF WonInv
    <3>3. Going' => Going /\ SourceFlow'
      BY <3>1, AmbFlowParts DEF Going, SourceFlow
    <3>4. ASSUME Going', NEW j \in Factories \ fctx' PROVE FactoryFlow(j)'
      <4>1. j \in Factories /\ FactoryFlow(j)
        BY <3>1, <3>3, <3>4, AmbFlowParts
      <4> QED BY <3>1, <4>1, FlowOther
    <3> QED BY <3>2, <3>3, <3>4
  <2> QED BY <2>1, GoroutineFlow, TakeFlow, YieldFlow, ReturnWon DEF A!Next, A!Source
<1> QED BY <1>1, <1>2 DEF AmbFlow, Going, SourceFlow, WonInv

\* Amb sends the items of one factory, in order and, if all goes well, all.
LEMMA AmbOneWinner == AmbFlow => A!OneWinner
<1> SUFFICES ASSUME AmbFlow PROVE A!OneWinner
  OBVIOUS
<1>1. DOMAIN sent = 1..Len(sent)
  BY LenProperties DEF AmbFlow, FlowType
<1> QED BY <1>1 DEF AmbFlow, FlowType, A!OneWinner

-----------------------------------------------------------------------------
(* Nested pipelines: their items leave one after the other. *)

\* Two functions that are the same but for one more place at the end.
Longer(o, n, l, it) ==
  /\ DOMAIN n = DOMAIN o \cup {l} /\ l \notin DOMAIN o
  /\ \A p \in DOMAIN o : n[p] = o[p]
  /\ n[l] = it

LEMMA SentSame ==
  ASSUME UNCHANGED <<op, sent>>
  PROVE  Out' = Out
BY DEF Out, N!Values, N!Item, N!Is

\* An item that is sent comes after the others.
LEMMA SentMore ==
  ASSUME op' = op, sent \in Seq(Sendable), NEW it \in FlowItems,
         sent' = Append(sent, IF op.name = "materialize" THEN <<"next", it>> ELSE it)
  PROVE  /\ sent' \in Seq(Sendable) /\ Len(sent) \in Nat /\ Len(sent') = Len(sent) + 1
         /\ DOMAIN Out \subseteq 1..Len(sent) /\ Longer(Out, Out', Len(sent) + 1, it)
<1> DEFINE v == IF op.name = "materialize" THEN <<"next", it>> ELSE it
<1>1. v \in Sendable
  BY DEF Sendable
<1>2. /\ sent' \in Seq(Sendable) /\ Len(sent) \in Nat /\ Len(sent') = Len(sent) + 1
      /\ \A p \in 1..Len(sent) : sent'[p] = sent[p]
      /\ sent'[Len(sent) + 1] = v
  <2>1. sent' = Append(sent, v)
    OBVIOUS
  <2> HIDE DEF v
  <2>2. Len(sent) \in Nat
    BY LenProperties
  <2> QED BY <1>1, <2>1, <2>2, AppendFacts
<1>3. DOMAIN sent = 1..Len(sent) /\ DOMAIN sent' = 1..Len(sent')
  BY <1>2, LenProperties
<1>4. DOMAIN sent' = DOMAIN sent \cup {Len(sent) + 1}
  BY <1>2, <1>3
<1>5. op.name = "materialize" => v[1] = "next" /\ v[2] = it
  OBVIOUS
<1>6. op.name # "materialize" => v = it
  OBVIOUS
<1> HIDE DEF v
<1>7. N!Values \subseteq 1..Len(sent)
  BY <1>3 DEF N!Values
<1>8. ASSUME NEW p PROVE p \in N!Values' <=> p \in N!Values \/ p = Len(sent) + 1
  <2>1. CASE op.name = "materialize"
    <3>1. p \in N!Values <=> p \in DOMAIN sent /\ sent[p][1] = "next"
      BY <2>1 DEF N!Values, N!Is
    <3>2. p \in N!Values' <=> p \in DOMAIN sent' /\ sent'[p][1] = "next"
      BY <2>1 DEF N!Values, N!Is
    <3>3. CASE p = Len(sent) + 1
      BY <1>2, <1>4, <1>5, <2>1, <3>2, <3>3
    <3>4. CASE p # Len(sent) + 1
      BY <1>2, <1>3, <1>4, <3>1, <3>2, <3>4
    <3> QED BY <3>3, <3>4
  <2>2. CASE op.name # "materialize"
    BY <1>4, <2>2 DEF N!Values, N!Is
  <2> QED BY <2>1, <2>2
<1>9. DOMAIN Out = N!Values /\ DOMAIN Out' = N!Values'
  BY DEF Out
<1>10. ASSUME NEW p \in N!Values PROVE Out'[p] = Out[p]
  <2>1. p \in N!Values' /\ sent'[p] = sent[p]
    BY <1>2, <1>7, <1>8
  <2> QED BY <2>1 DEF Out, N!Item, N!Is
<1>11. Out'[Len(sent) + 1] = it
  <2>1. Out'[Len(sent) + 1] = IF op.name = "materialize" THEN sent'[Len(sent) + 1][2] ELSE sent'[Len(sent) + 1]
    BY <1>8 DEF Out, N!Item, N!Is
  <2> QED BY <1>2, <1>5, <1>6, <2>1
<1>12. Len(sent) + 1 \notin 1..Len(sent)
  BY <1>2
<1> QED BY <1>2, <1>7, <1>8, <1>9, <1>10, <1>11, <1>12 DEF Longer

\* The outcome is no item.
LEMMA SentLast ==
  ASSUME op' = op, op.name = "materialize", sent \in Seq(Sendable), NEW e \in {"nil", "err", "canceled", "ctx"},
         sent' = Append(sent, IF e = "nil" THEN <<"complete">> ELSE <<"error", e>>)
  PROVE  /\ sent' \in Seq(Sendable) /\ Len(sent) \in Nat /\ Len(sent') = Len(sent) + 1
         /\ DOMAIN Out \subseteq 1..Len(sent) /\ Out' = Out
         /\ sent'[Len(sent) + 1] = IF e = "nil" THEN <<"complete">> ELSE <<"error", e>>
<1> DEFINE v == IF e = "nil" THEN <<"complete">> ELSE <<"error", e>>
<1>1. v \in Sendable
  BY DEF Sendable
<1>2. /\ sent' \in Seq(Sendable) /\ Len(sent) \in Nat /\ Len(sent') = Len(sent) + 1
      /\ \A p \in 1..Len(sent) : sent'[p] = sent[p]
      /\ sent'[Len(sent) + 1] = v
  <2>1. sent' = Append(sent, v)
    OBVIOUS
  <2> HIDE DEF v
  <2>2. Len(sent) \in Nat
    BY LenProperties
  <2> QED BY <1>1, <2>1, <2>2, AppendFacts
<1>3. DOMAIN sent = 1..Len(sent) /\ DOMAIN sent' = 1..Len(sent')
  BY <1>2, LenProperties
<1>4. DOMAIN sent' = DOMAIN sent \cup {Len(sent) + 1} /\ Len(sent) + 1 \notin DOMAIN sent
  BY <1>2, <1>3
<1>5. v[1] # "next"
  OBVIOUS
<1>6. v = IF e = "nil" THEN <<"complete">> ELSE <<"error", e>>
  OBVIOUS
<1> HIDE DEF v
<1>7. N!Values \subseteq 1..Len(sent)
  BY <1>3 DEF N!Values
<1>8. ASSUME NEW p PROVE p \in N!Values' <=> p \in N!Values
  <2>1. p \in N!Values <=> p \in DOMAIN sent /\ sent[p][1] = "next"
    BY DEF N!Values, N!Is
  <2>2. p \in N!Values' <=> p \in DOMAIN sent' /\ sent'[p][1] = "next"
    BY DEF N!Values, N!Is
  <2>3. CASE p = Len(sent) + 1
    BY <1>2, <1>4, <1>5, <2>1, <2>2, <2>3
  <2>4. CASE p # Len(sent) + 1
    BY <1>2, <1>3, <1>4, <2>1, <2>2, <2>4
  <2> QED BY <2>3, <2>4
<1>9. N!Values' = N!Values
  BY <1>8
<1>10. ASSUME NEW p \in N!Values PROVE Out'[p] = Out[p]
  <2>1. p \in N!Values' /\ sent'[p] = sent[p]
    BY <1>2, <1>7, <1>9
  <2> QED BY <2>1 DEF Out, N!Item, N!Is
<1>11. Out' = Out
  BY <1>9, <1>10 DEF Out
<1>12. DOMAIN Out = N!Values
  BY DEF Out
<1> QED BY <1>2, <1>6, <1>7, <1>11, <1>12

\* What has been sent of a run, when one more item has been.
LEMMA UptoMore ==
  ASSUME NEW l, NEW i, NEW m \in Nat, Longer(Out, Out', l, <<i, m + 1>>)
  PROVE  /\ \A j, n : j # i /\ Upto(j, n) => Upto(j, n)'
         /\ Upto(i, m) => Upto(i, m + 1)'
<1> USE DEF Longer
<1>2. ASSUME NEW j, NEW n, j # i, Upto(j, n) PROVE Upto(j, n)'
  <2>1. ASSUME NEW x \in Nat PROVE (\E p \in DOMAIN Out' : Out'[p] = <<j, x>>) <=> (\E p \in DOMAIN Out : Out[p] = <<j, x>>)
    <3>1. <<j, x>> # <<i, m + 1>>
      BY <1>2
    <3> QED BY <3>1
  <2> QED BY <1>2, <2>1 DEF Upto
<1>3. ASSUME Upto(i, m) PROVE Upto(i, m + 1)'
  <2>1. ASSUME NEW x \in Nat, x # m + 1 PROVE (\E p \in DOMAIN Out' : Out'[p] = <<i, x>>) <=> (\E p \in DOMAIN Out : Out[p] = <<i, x>>)
    <3>1. <<i, x>> # <<i, m + 1>>
      BY <2>1
    <3> QED BY <3>1
  <2>2. \E p \in DOMAIN Out' : Out'[p] = <<i, m + 1>>
    OBVIOUS
  <2>3. ASSUME NEW x \in Nat PROVE (1 <= x /\ x <= m + 1) <=> (\E p \in DOMAIN Out' : Out'[p] = <<i, x>>)
    <3>1. CASE x = m + 1
      BY <2>2, <3>1
    <3>2. CASE x # m + 1
      <4>1. (1 <= x /\ x <= m + 1) <=> (1 <= x /\ x <= m)
        BY <3>2
      <4>2. (1 <= x /\ x <= m) <=> (\E p \in DOMAIN Out : Out[p] = <<i, x>>)
        BY <1>3 DEF Upto
      <4> QED BY <2>1, <3>2, <4>1, <4>2
    <3> QED BY <3>1, <3>2
  <2> QED BY <2>3 DEF Upto
<1> QED BY <1>2, <1>3

\* Steps that send nothing and end no run.
LEMMA SentKept ==
  ASSUME NestedInv, SentFlow, UNCHANGED <<op, nested, sent, ends>>,
         k' = k \/ (k' = k + 1 /\ k < Runs),
         pc' = "start" => k' = k + 1 \/ pc = "start",
         pc = "done" => pc' = "done",
         pc' = "done" /\ pc # "done" => op.name # "materialize",
         pc' = "last" => pc = "last" /\ nres' = nres,
         pc' # "run" => src' \in {"none", "end"} /\ each' = "end"
  PROVE  SentFlow'
<1>1. Out' = Out /\ Last' = Last
  BY SentSame DEF Last
<1>2. k \in Nat /\ k' \in Nat /\ k <= k'
  BY InnerAssumption DEF InnerAssumption, NestedInv, NestedType
<1>3. (\A p \in DOMAIN Out : Out[p] \in (1..k) \X Nat)'
  <2>1. (1..k) \X Nat \subseteq (1..k') \X Nat
    BY <1>2
  <2> QED BY <1>1, <2>1 DEF SentFlow
<1>4. (pc = "start" => \A p \in DOMAIN Out : Out[p][1] < k)'
  <2>1. ASSUME NEW p \in DOMAIN Out, pc' = "start" PROVE Out[p][1] < k'
    <3>1. Out[p][1] \in 1..k /\ (pc = "start" => Out[p][1] < k)
      BY DEF SentFlow
    <3> QED BY <1>2, <2>1, <3>1
  <2> QED BY <1>1, <2>1
<1>5. (\A p, q \in DOMAIN Out : p < q =>
       \/ Out[p][1] < Out[q][1]
       \/ Out[p][1] = Out[q][1] /\ Out[p][2] < Out[q][2])'
  BY <1>1 DEF SentFlow
<1>6. /\ (\A j \in 1..Runs : \E n \in 0..nested[j].n : Upto(j, n))'
      /\ (\A j \in 1..Len(ends) : ends[j] = "nil" /\ op.name # "ignore" => Upto(j, nested[j].n))'
  BY <1>1 DEF SentFlow, Upto
<1>7. /\ (sent \in Seq(Sendable))' /\ (op.name = "ignore" => sent = << >>)'
      /\ (\A p \in 1..Len(sent) : p \in DOMAIN Out \/ (p = Len(sent) /\ pc = "done" /\ sent[p] = Last))'
      /\ (pc = "last" => nres = ends[1])'
      /\ (op.name = "materialize" /\ pc = "done" => Len(sent) > 0 /\ Len(sent) \notin DOMAIN Out)'
  BY <1>1 DEF SentFlow, Sendable, FlowItems
<1> QED BY <1>3, <1>4, <1>5, <1>6, <1>7 DEF SentFlow

\* A run that ends has sent everything, if it ends well.
LEMMA SentOver ==
  ASSUME NestedInv, SentFlow, RunFlow, NEW o, N!Over(o), ~left, ~ctx,
         \/ pc' = "done" /\ k' = k /\ o # "materialize"
         \/ pc' = "start" /\ k' = k + 1 /\ k < Runs
         \/ pc' = "wait" /\ k' = k
         \/ pc' = "last" /\ k' = k /\ o = "materialize"
  PROVE  SentFlow'
<1>1. /\ op.name = o /\ pc = "run" /\ Len(ends) = k - 1 /\ N!RunOver
      /\ Len(ends') = k /\ ends'[k] = nres /\ \A j \in 1..(k - 1) : ends'[j] = ends[j]
      /\ UNCHANGED <<op, nested, nres, sent, src, each>>
  BY RunEnds DEF N!Over, N!oRest, N!outVars, N!nestedVars
<1>2. Out' = Out
  BY <1>1, SentSame
<1>3. k \in Nat /\ k' \in Nat /\ k <= k' /\ k \in 1..Runs /\ (op.name = "materialize" => k = 1)
  BY InnerAssumption DEF InnerAssumption, NestedInv, NestedType, PlaceInv, N!Multi
<1>4. nres = "nil" /\ op.name # "ignore" => Upto(k, nested[k].n)
  <2>1. ASSUME nres = "nil" PROVE Passed = nested[k].n
    <3>1. src = "end" /\ each = "end"
      BY <1>1 DEF N!RunOver
    <3>2. pos = nested[k].n /\ buf = << >> /\ pos \in Int
      BY <2>1, <3>1 DEF RunFlow
    <3>3. Len(buf) = 0
      BY <3>2
    <3>4. Passed = pos - Len(buf) - 0
      BY <3>1 DEF Passed
    <3> QED BY <3>2, <3>3, <3>4
  <2> QED BY <2>1 DEF RunFlow
<1>5. ASSUME NEW j \in 1..Len(ends'), ends'[j] = "nil", op.name # "ignore" PROVE Upto(j, nested[j].n)
  <2>1. CASE j = k
    BY <1>1, <1>4, <1>5, <2>1
  <2>2. CASE j # k
    <3>1. j \in 1..(k - 1) /\ j \in 1..Len(ends)
      BY <1>1, <1>3, <2>2
    <3> QED BY <1>1, <1>5, <3>1 DEF SentFlow
  <2> QED BY <2>1, <2>2
<1>6. (\A p \in DOMAIN Out : Out[p] \in (1..k) \X Nat)'
  <2>1. (1..k) \X Nat \subseteq (1..k') \X Nat
    BY <1>3
  <2> QED BY <1>2, <2>1 DEF SentFlow
<1>7. (pc = "start" => \A p \in DOMAIN Out : Out[p][1] < k)'
  <2>1. ASSUME NEW p \in DOMAIN Out, pc' = "start" PROVE Out[p][1] < k'
    <3>1. Out[p][1] \in 1..k /\ k' = k + 1
      BY <2>1 DEF SentFlow
    <3> QED BY <1>3, <3>1
  <2> QED BY <1>2, <2>1
<1>8. (\A p, q \in DOMAIN Out : p < q =>
       \/ Out[p][1] < Out[q][1]
       \/ Out[p][1] = Out[q][1] /\ Out[p][2] < Out[q][2])'
  BY <1>2 DEF SentFlow
<1>9. /\ (\A j \in 1..Runs : \E n \in 0..nested[j].n : Upto(j, n))'
      /\ (\A j \in 1..Len(ends) : ends[j] = "nil" /\ op.name # "ignore" => Upto(j, nested[j].n))'
  <2>1. ASSUME NEW j, NEW n, Upto(j, n) PROVE Upto(j, n)'
    BY <1>2, <2>1 DEF Upto
  <2>2. \A j \in 1..Runs : \E n \in 0..nested[j].n : Upto(j, n)
    BY DEF SentFlow
  <2>3. nested' = nested /\ op' = op
    BY <1>1
  <2>4. ASSUME NEW j \in 1..Runs PROVE \E n \in 0..nested'[j].n : Upto(j, n)'
    BY <2>1, <2>2, <2>3
  <2>5. ASSUME NEW j \in 1..Len(ends'), ends'[j] = "nil", op.name # "ignore" PROVE Upto(j, nested[j].n)'
    <3>1. PICK n : n = nested[j].n /\ n = nested'[j].n
      BY <2>3
    <3>2. Upto(j, n)
      BY <1>5, <2>5, <3>1
    <3>3. Upto(j, n)'
      BY <2>1, <3>2
    <3> QED BY <3>1, <3>3
  <2> QED BY <2>3, <2>4, <2>5
<1>10. pc' = "last" => nres' = ends'[1]
  BY <1>1, <1>3
<1>11. /\ (sent \in Seq(Sendable))' /\ (op.name = "ignore" => sent = << >>)'
       /\ (\A p \in 1..Len(sent) : p \in DOMAIN Out)'
       /\ (op.name = "materialize" => pc # "done")'
       /\ (src \in {"none", "end"} /\ each = "end")'
  BY <1>1, <1>2 DEF SentFlow, Sendable, FlowItems, N!RunOver
<1> QED BY <1>6, <1>7, <1>8, <1>9, <1>10, <1>11 DEF SentFlow

\* The run in progress, and what is known of its numbers.
LEMMA RunFlowNumbers ==
  ASSUME NestedInv, RunFlow
  PROVE  /\ k \in 1..Runs /\ k \in Nat /\ Runs \in Nat /\ nested[k].n \in Nat /\ pos \in Nat /\ Len(buf) \in Nat
         /\ Passed \in Nat /\ (each # "yield" => Passed = pos - Len(buf)) /\ (each = "yield" => Passed = pos - Len(buf) - 1)
<1>1. k \in 1..Runs /\ k \in Nat /\ Runs \in Nat /\ nested[k].n \in Nat
  BY InnerAssumption DEF InnerAssumption, NestedInv, NestedType
<1>2. pos \in Nat /\ Len(buf) \in Nat
  BY <1>1, LenProperties DEF RunFlow
<1>3. (each # "yield" => Passed = pos - Len(buf)) /\ (each = "yield" => Passed = pos - Len(buf) - 1)
  BY <1>2 DEF Passed
<1>4. Passed >= 0
  BY DEF RunFlow
<1> QED BY <1>1, <1>2, <1>3, <1>4

\* The nested source and ForEach's receive.
LEMMA RunMoves ==
  ASSUME NestedInv, SentFlow, RunFlow, pc = "run", ~left, ~ctx, N!Emit \/ N!SourceEnds \/ N!EachTakes \/ N!EachEnds
  PROVE  RunFlow'
<1>1. /\ UNCHANGED <<op, nested, k, pc, ret, calls, ends, sent>> /\ Out' = Out
  <2>1. UNCHANGED <<op, nested, k, pc, ret, calls, ends, sent>>
    BY DEF N!Emit, N!SourceEnds, N!EachTakes, N!EachEnds, N!nRest, N!outVars, N!opVars
  <2> QED BY <2>1, SentSame
<1>2. /\ k \in 1..Runs /\ k \in Nat /\ Runs \in Nat /\ nested[k].n \in Nat /\ pos \in Nat /\ Len(buf) \in Nat
      /\ Passed \in Nat /\ (each # "yield" => Passed = pos - Len(buf)) /\ (each = "yield" => Passed = pos - Len(buf) - 1)
  BY RunFlowNumbers
<1>3. ASSUME Passed' = Passed PROVE (Passed >= 0 /\ (op.name # "ignore" => Upto(k, Passed)))'
  <2>1. Passed >= 0 /\ (op.name # "ignore" => Upto(k, Passed))
    BY DEF RunFlow
  <2> QED BY <1>1, <1>3, <2>1 DEF Upto
<1>4. CASE N!Emit
  <2>1. /\ src = "run" /\ pos < nested[k].n /\ buf' = Append(buf, <<k, pos + 1>>) /\ pos' = pos + 1
        /\ UNCHANGED <<src, each, item, nctx, nres>>
    BY <1>4 DEF N!Emit
  <2>2. <<k, pos + 1>> \in FlowItems
    BY <1>2 DEF FlowItems
  <2>3. /\ buf' \in Seq(FlowItems) /\ Len(buf') = Len(buf) + 1
        /\ \A p \in 1..Len(buf) : buf'[p] = buf[p]
        /\ buf'[Len(buf) + 1] = <<k, pos + 1>>
    BY <2>1, <2>2, AppendFacts DEF RunFlow
  <2>4. pos' - Len(buf') = pos - Len(buf)
    BY <1>2, <2>1, <2>3
  <2>5. Passed' = Passed
    BY <2>1, <2>4 DEF Passed
  <2>6. ASSUME NEW p \in 1..Len(buf') PROVE buf'[p] = <<k, pos' - Len(buf') + p>>
    <3>1. CASE p = Len(buf) + 1
      <4>1. pos' - Len(buf') + p = pos + 1
        BY <1>2, <2>1, <2>3, <3>1
      <4> QED BY <2>3, <3>1, <4>1
    <3>2. CASE p # Len(buf) + 1
      <4>1. p \in 1..Len(buf)
        BY <1>2, <2>3, <3>2
      <4>2. buf'[p] = <<k, pos - Len(buf) + p>>
        BY <2>3, <4>1 DEF RunFlow
      <4> QED BY <2>4, <4>2
    <3> QED BY <3>1, <3>2
  <2>7. pos' \in 0..nested[k].n
    BY <1>2, <2>1
  <2>8. (/\ src \in {"run", "end"} /\ each \in {"take", "yield", "end"}
         /\ each = "yield" => item = <<k, pos - Len(buf)>>
         /\ src = "end" /\ nres = "nil" => pos = nested[k].n
         /\ each = "end" /\ nres = "nil" => buf = << >> /\ src = "end")'
    BY <1>1, <2>1, <2>4 DEF RunFlow
  <2> QED BY <1>1, <1>3, <2>3, <2>5, <2>6, <2>7, <2>8 DEF RunFlow, FlowItems
<1>5. CASE N!SourceEnds
  <2>1. /\ UNCHANGED <<pos, buf, each, item>> /\ src = "run" /\ src' = "end" /\ (nres' = "nil" => pos = nested[k].n)
        /\ nres' = "nil" => nres = "nil"
    BY <1>5 DEF N!SourceEnds, N!First
  <2>2. Passed' = Passed
    BY <2>1 DEF Passed
  <2> QED BY <1>1, <1>3, <2>1, <2>2 DEF RunFlow, FlowItems
<1>6. CASE N!EachTakes
  <2>1. /\ UNCHANGED <<pos, src, nctx, nres>> /\ each = "take" /\ each' = "yield" /\ buf # << >>
        /\ item' = Head(buf) /\ buf' = Tail(buf)
    BY <1>6 DEF N!EachTakes
  <2>2. /\ buf' \in Seq(FlowItems) /\ Len(buf') = Len(buf) - 1 /\ Len(buf) > 0 /\ item' = buf[1]
        /\ \A p \in 1..Len(buf') : buf'[p] = buf[p + 1]
    <3>1. buf \in Seq(FlowItems)
      BY DEF RunFlow
    <3>2. Len(buf) > 0 /\ Head(buf) = buf[1]
      BY <2>1, <3>1, EmptySeq, LenProperties
    <3>3. Tail(buf) \in Seq(FlowItems) /\ Len(Tail(buf)) = Len(buf) - 1 /\ \A p \in 1..Len(Tail(buf)) : Tail(buf)[p] = buf[p + 1]
      BY <2>1, <3>1, HeadTailProperties
    <3> QED BY <2>1, <3>2, <3>3
  <2>3. pos' - Len(buf') = pos - Len(buf) + 1 /\ Passed = pos - Len(buf)
    BY <1>2, <2>1, <2>2
  <2>4. Passed' = Passed
    <3>1. Passed' = pos' - Len(buf') - 1
      BY <2>1 DEF Passed
    <3> QED BY <1>2, <2>3, <3>1
  <2>5. item' = <<k, pos' - Len(buf')>>
    <3>1. 1 \in 1..Len(buf)
      BY <1>2, <2>2
    <3>2. buf[1] = <<k, pos - Len(buf) + 1>>
      BY <3>1 DEF RunFlow
    <3> QED BY <2>2, <2>3, <3>2
  <2>6. ASSUME NEW p \in 1..Len(buf') PROVE buf'[p] = <<k, pos' - Len(buf') + p>>
    <3>1. p + 1 \in 1..Len(buf)
      BY <1>2, <2>2
    <3>2. buf[p + 1] = <<k, pos - Len(buf) + (p + 1)>>
      BY <3>1 DEF RunFlow
    <3>3. pos - Len(buf) + (p + 1) = pos' - Len(buf') + p
      BY <1>2, <2>3
    <3> QED BY <2>2, <3>2, <3>3
  <2> QED BY <1>1, <1>3, <2>1, <2>2, <2>4, <2>5, <2>6 DEF RunFlow, FlowItems
<1>7. CASE N!EachEnds
  <2>1. UNCHANGED <<pos, buf, src, item>> /\ each = "take" /\ each' = "end"
    BY <1>7 DEF N!EachEnds
  <2>2. Passed' = Passed
    BY <2>1 DEF Passed
  <2>3. nres' = "nil" => buf = << >> /\ src = "end" /\ nres = "nil"
    <3>1. ~nctx /\ ~N!StageDone
      BY Unhindered DEF NestedInv, CauseInv
    <3> QED BY <1>7, <3>1 DEF N!EachEnds, N!First, N!NDone
  <2> QED BY <1>1, <1>3, <2>1, <2>2, <2>3 DEF RunFlow, FlowItems
<1> QED BY <1>4, <1>5, <1>6, <1>7

\* yield sends the next item of the run.
LEMMA RunYields ==
  ASSUME NestedInv, SentFlow, RunFlow, pc = "run", ~left, ~ctx, N!Yield
  PROVE  SentFlow' /\ RunFlow'
<1>1. /\ UNCHANGED <<op, nested, k, pc, ret, calls, ends, pos, buf, src, item>> /\ each = "yield"
  BY DEF N!Yield
<1>2. /\ k \in 1..Runs /\ k \in Nat /\ Runs \in Nat /\ nested[k].n \in Nat /\ pos \in Nat /\ Len(buf) \in Nat
      /\ Passed \in Nat /\ Passed = pos - Len(buf) - 1
  BY <1>1, RunFlowNumbers
<1>3. ~N!StageDone
  BY Unhindered
<1>4. each' = "take" /\ nres' = nres
  BY <1>3 DEF N!Yield, N!Answered, N!Is
<1>5. Passed' = Passed + 1 /\ Passed' = pos - Len(buf)
  <2>1. Passed' = pos - Len(buf) - 0
    BY <1>1, <1>4 DEF Passed
  <2> QED BY <1>2, <2>1
<1>r. PICK i \in 1..Runs, m \in Nat : i = k /\ m = Passed
  BY <1>2
<1>6. CASE op.name = "ignore"
  <2>1. sent' = sent
    BY <1>6 DEF N!Yield, N!Is, N!outVars
  <2>2. SentFlow'
    BY <1>1, <2>1, SentKept
  <2>3. Passed' >= 0
    BY <1>2, <1>5
  <2>4. RunFlow'
    BY <1>1, <1>4, <1>6, <2>3 DEF RunFlow, FlowItems
  <2> QED BY <2>2, <2>4
<1>7. CASE op.name # "ignore"
  <2>1. item = <<k, Passed + 1>> /\ item \in FlowItems
    <3>1. item = <<k, pos - Len(buf)>> /\ pos - Len(buf) = Passed + 1
      BY <1>1, <1>2 DEF RunFlow
    <3> QED BY <1>2, <3>1 DEF FlowItems
  <2>2. sent' = Append(sent, IF op.name = "materialize" THEN <<"next", item>> ELSE item)
    BY <1>3, <1>7 DEF N!Yield, N!Put, N!Value, N!Is
  <2>3. /\ sent' \in Seq(Sendable) /\ Len(sent) \in Nat /\ Len(sent') = Len(sent) + 1
        /\ DOMAIN Out \subseteq 1..Len(sent) /\ Longer(Out, Out', Len(sent) + 1, <<k, Passed + 1>>)
    BY <1>1, <2>1, <2>2, SentMore DEF SentFlow
  <2>4. /\ \A j, n : j # i /\ Upto(j, n) => Upto(j, n)'
        /\ Upto(i, m) => Upto(i, m + 1)'
    <3>1. Longer(Out, Out', Len(sent) + 1, <<i, m + 1>>)
      BY <1>r, <2>3
    <3>2. PICK l : l = Len(sent) + 1
      OBVIOUS
    <3> QED BY <3>1, <3>2, UptoMore
  <2>5. Upto(i, m)
    BY <1>7, <1>r DEF RunFlow
  <2>6. ASSUME NEW p \in DOMAIN Out'
        PROVE  \/ p \in DOMAIN Out /\ Out'[p] = Out[p] /\ p < Len(sent) + 1 /\ Out[p] \in (1..k) \X Nat
               \/ p = Len(sent) + 1 /\ Out'[p] = <<k, Passed + 1>>
    BY <2>3 DEF Longer, SentFlow
  <2>7. \A p \in DOMAIN Out' : Out'[p] \in (1..k) \X Nat
    BY <1>2, <2>6
  <2>8. ASSUME NEW p \in DOMAIN Out', NEW q \in DOMAIN Out', p < q
        PROVE  Out'[p][1] < Out'[q][1] \/ (Out'[p][1] = Out'[q][1] /\ Out'[p][2] < Out'[q][2])
    <3>1. CASE q \in DOMAIN Out
      <4>1. p \in DOMAIN Out /\ Out'[p] = Out[p] /\ Out'[q] = Out[q]
        BY <2>3, <2>6, <2>8, <3>1 DEF Longer
      <4> QED BY <2>8, <3>1, <4>1 DEF SentFlow
    <3>2. CASE q \notin DOMAIN Out
      <4>1. q = Len(sent) + 1 /\ Out'[q] = <<k, Passed + 1>> /\ Out'[q][1] = k /\ Out'[q][2] = Passed + 1
        BY <2>6, <3>2
      <4>2. p \in DOMAIN Out /\ Out'[p] = Out[p] /\ Out[p] \in (1..k) \X Nat
        BY <2>3, <2>6, <2>8, <4>1
      <4>3. PICK x \in 1..k, z \in Nat : Out[p] = <<x, z>>
        BY <4>2
      <4>4. CASE x = k
        <5>1. \E y \in DOMAIN Out : Out[y] = <<k, z>>
          BY <4>2, <4>3, <4>4
        <5>2. z <= Passed
          BY <1>r, <2>5, <5>1 DEF Upto
        <5> QED BY <1>2, <4>1, <4>2, <4>3, <4>4, <5>2
      <4>5. CASE x # k
        <5>1. x < k
          BY <1>2, <4>5
        <5> QED BY <4>1, <4>2, <4>3, <5>1
      <4> QED BY <4>4, <4>5
    <3> QED BY <3>1, <3>2
  <2>9. ASSUME NEW j \in 1..Runs PROVE \E n \in 0..nested[j].n : Upto(j, n)'
    <3>1. CASE j = k
      <4>1. m + 1 \in 0..nested[k].n
        <5>1. pos - Len(buf) <= pos /\ pos <= nested[k].n
          BY <1>2 DEF RunFlow
        <5> QED BY <1>2, <1>5, <1>r, <5>1
      <4> QED BY <1>r, <2>4, <2>5, <3>1, <4>1
    <3>2. CASE j # k
      BY <1>r, <2>4, <3>2 DEF SentFlow
    <3> QED BY <3>1, <3>2
  <2>10. ASSUME NEW j \in 1..Len(ends), ends[j] = "nil" PROVE Upto(j, nested[j].n)'
    <3>1. j # i
      BY <1>2, <1>r DEF NestedInv, PlaceInv
    <3>2. Upto(j, nested[j].n)
      BY <1>7, <2>10 DEF SentFlow
    <3>3. PICK n : n = nested[j].n
      OBVIOUS
    <3>4. Upto(j, n)'
      BY <2>4, <3>1, <3>2, <3>3
    <3> QED BY <1>1, <3>3, <3>4
  <2>11. ASSUME NEW p \in 1..Len(sent') PROVE p \in DOMAIN Out'
    <3>1. p \in 1..Len(sent) => p \in DOMAIN Out
      BY DEF SentFlow
    <3> QED BY <2>3, <3>1 DEF Longer
  <2>12. SentFlow'
    <3>1. (\A j \in 1..Runs : \E n \in 0..nested[j].n : Upto(j, n))'
      BY <1>1, <2>9
    <3>2. (\A j \in 1..Len(ends) : ends[j] = "nil" /\ op.name # "ignore" => Upto(j, nested[j].n))'
      BY <1>1, <2>10
    <3>3. (sent \in Seq(Sendable))'
      BY <2>3 DEF Sendable, FlowItems
    <3> QED BY <1>1, <1>7, <2>7, <2>8, <2>11, <3>1, <3>2, <3>3 DEF SentFlow
  <2>13. RunFlow'
    <3>1. Passed' >= 0 /\ Upto(k, Passed)'
      <4>1. Upto(i, m + 1)' /\ Passed' = m + 1 /\ k' = i
        BY <1>1, <1>5, <1>r, <2>4, <2>5
      <4> QED BY <1>r, <4>1 DEF Upto
    <3> QED BY <1>1, <1>4, <3>1 DEF RunFlow, FlowItems
  <2> QED BY <2>12, <2>13
<1> QED BY <1>6, <1>7

\* A nested run ends.
LEMMA OverFlow ==
  ASSUME NestedInv, NestedFlow, ~left, ~ctx, NEW o, N!Over(o),
         \/ N!AfterConcat \/ N!AfterAmb \/ N!AfterIgnore \/ N!AfterCatch \/ N!AfterRetry
         \/ N!AfterMaterialize \/ N!AfterUsing \/ N!AfterTapError \/ N!AfterFinally
  PROVE  SentFlow' /\ pc' # "run"
<1>1. pc = "run" /\ SentFlow /\ RunFlow /\ k \in 1..Runs
  BY DEF N!Over, NestedFlow, NestedInv, NestedType
<1>2. ~stopped /\ ~N!StageDone
  BY Unhindered
<1>3. \/ pc' = "done" /\ k' = k /\ o # "materialize"
      \/ pc' = "start" /\ k' = k + 1 /\ k < Runs
      \/ pc' = "wait" /\ k' = k
      \/ pc' = "last" /\ k' = k /\ o = "materialize"
  <2> USE <1>1, <1>2 DEF N!Over, N!Is, N!Returns, N!Again
  <2>1. CASE N!AfterConcat
    <3>1. CASE ~N!Clean /\ ~N!Canceled(nres)
      BY <2>1, <3>1 DEF N!AfterConcat
    <3>2. CASE N!Clean \/ N!Canceled(nres)
      <4>1. IF k < Runs THEN N!Again ELSE N!Returns("nil")
        BY <2>1, <3>2 DEF N!AfterConcat
      <4>2. o = "concat"
        BY <2>1 DEF N!AfterConcat
      <4> QED BY <4>1, <4>2
    <3> QED BY <3>1, <3>2
  <2>2. CASE N!AfterAmb \/ N!AfterIgnore \/ N!AfterUsing \/ N!AfterTapError \/ N!AfterFinally
    BY <2>2 DEF N!AfterAmb, N!AfterIgnore, N!AfterUsing, N!AfterTapError, N!AfterFinally
  <2>3. CASE N!AfterCatch
    <3>1. Runs >= 2 /\ Runs \in Nat
      BY InnerAssumption DEF InnerAssumption
    <3>2. o = "catch"
      BY <2>3 DEF N!AfterCatch
    <3>3. CASE k = 1 /\ ~N!Clean
      BY <2>3, <3>1, <3>3 DEF N!AfterCatch
    <3>4. CASE ~(k = 1 /\ ~N!Clean)
      BY <2>3, <3>2, <3>4 DEF N!AfterCatch
    <3> QED BY <3>3, <3>4
  <2>4. CASE N!AfterRetry
    BY <2>4 DEF N!AfterRetry
  <2>5. CASE N!AfterMaterialize
    BY <2>5 DEF N!AfterMaterialize
  <2> QED BY <2>1, <2>2, <2>3, <2>4, <2>5
<1>4. SentFlow'
  BY <1>1, <1>3, SentOver
<1> QED BY <1>3, <1>4

\* The steps of the operator in which no run ends.
LEMMA OperatorFlow ==
  ASSUME NestedInv, NestedFlow, ~left, ~ctx, N!StartRun \/ N!AcquireFails \/ N!Backoff \/ N!YieldOutcome
  PROVE  SentFlow' /\ (pc' = "run" => RunFlow')
<1>1. SentFlow /\ k \in 1..Runs /\ k \in Nat /\ Runs \in Nat /\ ~N!StageDone /\ UNCHANGED <<op, nested, ends>>
  BY Unhindered, InnerAssumption DEF InnerAssumption, NestedFlow, NestedInv, NestedType, N!StartRun, N!AcquireFails, N!Backoff, N!YieldOutcome, N!oRest
<1>2. CASE N!StartRun
  <2>1. /\ pc = "start" /\ pc' = "run" /\ src' = "run" /\ each' = "take" /\ pos' = 0 /\ buf' = << >> /\ k' = k
        /\ nres' = "nil" /\ sent' = sent
    BY <1>1, <1>2 DEF N!StartRun, N!outVars
  <2>2. SentFlow'
    BY <1>1, <2>1, SentKept
  <2>3. Out' = Out
    BY <1>1, <2>1, SentSame
  <2>4. Passed' = 0
    <3>1. Passed' = 0 - Len(buf') - 0
      BY <2>1 DEF Passed
    <3>2. Len(buf') = 0
      BY <2>1
    <3> QED BY <3>1, <3>2
  <2>5. ASSUME NEW m \in Nat PROVE (1 <= m /\ m <= 0) <=> (\E p \in DOMAIN Out' : Out'[p] = <<k, m>>)
    <3>1. ASSUME NEW p \in DOMAIN Out, Out[p] = <<k, m>> PROVE FALSE
      <4>1. Out[p][1] < k
        BY <2>1, <1>1 DEF SentFlow
      <4>2. Out[p][1] = k
        BY <3>1
      <4> QED BY <1>1, <4>1, <4>2
    <3> QED BY <2>3, <3>1
  <2>6. Upto(k, Passed)'
    BY <2>1, <2>4, <2>5 DEF Upto
  <2>7. nested[k].n \in Nat
    BY <1>1, InnerAssumption DEF InnerAssumption, NestedInv, NestedType
  <2>8. buf' \in Seq(FlowItems) /\ Len(buf') = 0
    BY <2>1
  <2>9. \A p \in 1..Len(buf') : buf'[p] = <<k', pos' - Len(buf') + p>>
    BY <2>8
  <2>10. Passed' >= 0 /\ pos' \in 0..nested'[k'].n
    BY <1>1, <2>1, <2>4, <2>7
  <2> QED BY <2>1, <2>2, <2>6, <2>8, <2>9, <2>10 DEF RunFlow, FlowItems
<1>3. CASE N!AcquireFails
  <2>1. pc = "start" /\ pc' = "done" /\ op.name = "using" /\ UNCHANGED <<k, src, each, nres, sent>>
    BY <1>3 DEF N!AcquireFails, N!Is, N!nestedVars, N!outVars
  <2>2. src \in {"none", "end"} /\ each = "end"
    BY <1>1, <2>1 DEF SentFlow
  <2>3. SentFlow'
    BY <1>1, <2>1, <2>2, SentKept
  <2> QED BY <2>1, <2>3
<1>4. CASE N!Backoff
  <2>1. /\ pc = "wait" /\ UNCHANGED <<src, each, nres, sent>> /\ pc' = "start" /\ k' = k + 1 /\ k < Runs
    <3>1. /\ pc = "wait" /\ UNCHANGED <<src, each, nres, sent>> /\ pc' = "start" /\ k' = k + 1
      BY <1>1, <1>4 DEF N!Backoff, N!Again, N!nestedVars, N!outVars
    <3>2. op.name = "retry" /\ op.max \in 0..Runs
      BY <3>1, InnerAssumption DEF InnerAssumption, NestedInv, NestedType, PlaceInv
    <3>3. (op.max > 0 => k < op.max) /\ (op.max = 0 => k < Runs)
      BY <3>1, <3>2 DEF NestedInv, PlaceInv
    <3> QED BY <1>1, <3>1, <3>2, <3>3
  <2>2. src \in {"none", "end"} /\ each = "end"
    BY <1>1, <2>1 DEF SentFlow
  <2>3. SentFlow'
    BY <1>1, <2>1, <2>2, SentKept
  <2> QED BY <2>1, <2>3
<1>5. CASE N!YieldOutcome
  <2>1. /\ pc = "last" /\ op.name = "materialize" /\ pc' = "done" /\ UNCHANGED <<k, src, each, nres>>
        /\ sent' = Append(sent, IF nres = "nil" THEN <<"complete">> ELSE <<"error", nres>>)
    BY <1>1, <1>5 DEF N!YieldOutcome, N!Put, N!Returns, N!nestedVars, NestedInv, PlaceInv
  <2>2. nres = ends[1] /\ nres \in {"nil", "err", "canceled", "ctx"} /\ sent \in Seq(Sendable)
    BY <1>1, <2>1 DEF SentFlow, NestedInv, NestedType, Results
  <2>3. /\ sent' \in Seq(Sendable) /\ Len(sent) \in Nat /\ Len(sent') = Len(sent) + 1
        /\ DOMAIN Out \subseteq 1..Len(sent) /\ Out' = Out
        /\ sent'[Len(sent) + 1] = IF nres = "nil" THEN <<"complete">> ELSE <<"error", nres>>
    BY <1>1, <2>1, <2>2, SentLast
  <2>4. Last' = IF nres = "nil" THEN <<"complete">> ELSE <<"error", nres>>
    BY <1>1, <2>2 DEF Last
  <2>5. ASSUME NEW p \in 1..Len(sent') PROVE p \in DOMAIN Out' \/ (p = Len(sent') /\ sent'[p] = Last')
    <3>1. CASE p = Len(sent) + 1
      BY <2>3, <2>4, <3>1
    <3>2. CASE p # Len(sent) + 1
      <4>1. p \in 1..Len(sent)
        BY <2>3, <3>2
      <4> QED BY <2>1, <2>3, <4>1 DEF SentFlow, NestedFlow
    <3> QED BY <3>1, <3>2
  <2>6. Len(sent') > 0 /\ Len(sent') \notin DOMAIN Out'
    BY <2>3
  <2>7. /\ (\A p \in DOMAIN Out : Out[p] \in (1..k) \X Nat)'
        /\ (\A p, q \in DOMAIN Out : p < q =>
             \/ Out[p][1] < Out[q][1]
             \/ Out[p][1] = Out[q][1] /\ Out[p][2] < Out[q][2])'
    BY <1>1, <2>1, <2>3 DEF SentFlow
  <2>8. /\ (\A j \in 1..Runs : \E n \in 0..nested[j].n : Upto(j, n))'
        /\ (\A j \in 1..Len(ends) : ends[j] = "nil" /\ op.name # "ignore" => Upto(j, nested[j].n))'
    BY <1>1, <2>3 DEF SentFlow, Upto
  <2>9. (sent \in Seq(Sendable))' /\ (src \in {"none", "end"} /\ each = "end")'
    BY <1>1, <2>1, <2>3 DEF SentFlow, Sendable, FlowItems
  <2> QED BY <1>1, <2>1, <2>5, <2>6, <2>7, <2>8, <2>9 DEF SentFlow
<1> QED BY <1>2, <1>3, <1>4, <1>5

LEMMA NestedFlowInit == N!Init => NestedFlow
<1> SUFFICES ASSUME N!Init PROVE SentFlow /\ pc # "run"
  BY DEF NestedFlow
<1>1. /\ sent = << >> /\ pc = "start" /\ ends = << >> /\ src = "none" /\ each = "end" /\ k = 1
      /\ nested \in [1..Runs -> Pipelines] /\ \A j \in 1..Runs : nested[j].n \in Nat
  BY InnerAssumption DEF N!Init, InnerAssumption
<1>2. /\ sent \in Seq(Sendable) /\ Len(sent) = 0 /\ DOMAIN sent = {} /\ Len(ends) = 0
  BY <1>1
<1>3. DOMAIN Out = {}
  BY <1>2 DEF Out, N!Values
<1>4. ASSUME NEW j \in 1..Runs PROVE Upto(j, 0)
  BY <1>3 DEF Upto
<1>5. \A j \in 1..Runs : \E n \in 0..nested[j].n : Upto(j, n)
  <2>1. \A j \in 1..Runs : 0 \in 0..nested[j].n
    BY <1>1
  <2> QED BY <1>4, <2>1
<1> QED BY <1>1, <1>2, <1>3, <1>5 DEF SentFlow

\* Every step keeps the order of what the runs send, as long as nobody leaves
\* or cancels.
LEMMA NestedFlowStep == NestedInv /\ NestedFlow /\ [N!Next]_nestedVars => NestedFlow'
<1> SUFFICES ASSUME NestedInv, NestedFlow, [N!Next]_nestedVars, ~left', ~ctx'
             PROVE  SentFlow' /\ (pc' = "run" => RunFlow')
  BY DEF NestedFlow
<1>1. CASE N!Consume \/ N!Leave \/ N!Watch \/ N!Cancel \/ N!Halted \/ UNCHANGED nestedVars
  <2>1. /\ UNCHANGED <<op, nested, k, pc, ret, calls, ends, nres, nctx, stopped, sent, pos, buf, src, each, item>>
        /\ ~left /\ ~ctx
    <3>1. CASE N!Consume \/ N!Leave \/ N!Watch \/ N!Cancel
      <4>1. UNCHANGED <<op, nested, k, pc, ret, calls, ends, nres, nctx, stopped, sent, pos, buf, src, each, item>>
        BY <3>1 DEF N!Consume, N!Leave, N!Watch, N!Cancel, N!eRest, N!opVars, N!nestedVars
      <4>2. ~left /\ ~ctx
        <5>1. CASE N!Consume
          BY <5>1 DEF N!Consume, N!envVars
        <5>2. CASE N!Leave
          <6>1. left' = TRUE
            BY <5>2 DEF N!Leave
          <6> QED BY <6>1
        <5>3. CASE N!Watch
          BY <5>3 DEF N!Watch
        <5>4. CASE N!Cancel
          <6>1. ctx' = TRUE
            BY <5>4 DEF N!Cancel
          <6> QED BY <6>1
        <5> QED BY <3>1, <5>1, <5>2, <5>3, <5>4
      <4> QED BY <4>1, <4>2
    <3>2. CASE N!Halted \/ UNCHANGED nestedVars
      BY <3>2 DEF N!Halted, N!envVars, N!opVars, N!nestedVars, N!outVars, nestedVars, N!vars
    <3> QED BY <1>1, <3>1, <3>2
  <2>2. Out' = Out
    BY <2>1, SentSame
  <2>3. SentFlow'
    BY <2>1, SentKept DEF NestedFlow, SentFlow
  <2>4. pc' = "run" => RunFlow'
    BY <2>1, <2>2 DEF NestedFlow, RunFlow, Passed, Upto, FlowItems
  <2> QED BY <2>3, <2>4
<1>2. CASE N!NestedStep
  <2>1. UNCHANGED <<op, nested, k, pc, ret, calls, ends, left, ctx>>
    BY <1>2, RunSteps
  <2>2. pc = "run" /\ SentFlow /\ RunFlow
    BY <1>2, <2>1 DEF N!NestedStep, N!Emit, N!SourceEnds, N!EachTakes, N!EachEnds, N!Yield, NestedFlow, SentFlow
  <2>3. CASE N!Yield
    BY <2>1, <2>2, <2>3, RunYields
  <2>4. CASE N!Emit \/ N!SourceEnds \/ N!EachTakes \/ N!EachEnds
    <3>1. sent' = sent
      BY <2>4 DEF N!Emit, N!SourceEnds, N!EachTakes, N!EachEnds, N!outVars
    <3> QED BY <2>1, <2>2, <2>4, <3>1, RunMoves, SentKept
  <2> QED BY <1>2, <2>3, <2>4 DEF N!NestedStep
<1>3. CASE N!StartRun \/ N!AcquireFails \/ N!Backoff \/ N!YieldOutcome
  <2>1. UNCHANGED <<left, ctx>>
    BY <1>3 DEF N!StartRun, N!AcquireFails, N!Backoff, N!YieldOutcome, N!oRest, N!envVars
  <2> QED BY <1>3, <2>1, OperatorFlow
<1>4. ASSUME NEW o, N!Over(o),
             \/ N!AfterConcat \/ N!AfterAmb \/ N!AfterIgnore \/ N!AfterCatch \/ N!AfterRetry
             \/ N!AfterMaterialize \/ N!AfterUsing \/ N!AfterTapError \/ N!AfterFinally
      PROVE  SentFlow' /\ (pc' = "run" => RunFlow')
  <2>1. UNCHANGED <<left, ctx>>
    BY <1>4, RunEnds
  <2> QED BY <1>4, <2>1, OverFlow
<1>5. ASSUME \/ N!AfterConcat \/ N!AfterAmb \/ N!AfterIgnore \/ N!AfterCatch \/ N!AfterRetry
             \/ N!AfterMaterialize \/ N!AfterUsing \/ N!AfterTapError \/ N!AfterFinally
      PROVE  \E o : N!Over(o)
  BY <1>5 DEF N!AfterConcat, N!AfterAmb, N!AfterIgnore, N!AfterCatch, N!AfterRetry, N!AfterMaterialize, N!AfterUsing, N!AfterTapError, N!AfterFinally
<1> QED BY <1>1, <1>2, <1>3, <1>4, <1>5 DEF N!Next, N!Operate

\* What comes out is the output of the nested runs, one after the other.
LEMMA NestedWhole == NestedInv /\ NestedFlow => N!Concatenated
<1> SUFFICES ASSUME NestedInv, SentFlow, ~left, ~ctx PROVE N!Concatenated
  BY DEF NestedFlow, N!Concatenated
<1>1. /\ DOMAIN Out = N!Values /\ \A p \in N!Values : Out[p] = N!Item(p)
  BY DEF Out
<1>2. DOMAIN sent = 1..Len(sent) /\ Len(sent) \in Nat /\ DOMAIN ends = 1..Len(ends)
  BY LenProperties DEF SentFlow, NestedInv, NestedType
<1>3. ASSUME NEW j, NEW n \in Nat, Upto(j, n) PROVE N!OfRun(j) = 1..n
  <2>1. N!OfRun(j) = {Out[p][2] : p \in {q \in DOMAIN Out : Out[q][1] = j}}
    BY <1>1 DEF N!OfRun
  <2>2. ASSUME NEW x PROVE x \in N!OfRun(j) <=> x \in 1..n
    <3>1. x \in N!OfRun(j) <=> \E p \in DOMAIN Out : Out[p][1] = j /\ Out[p][2] = x
      BY <2>1
    <3>2. \A p \in DOMAIN Out : Out[p] = <<Out[p][1], Out[p][2]>> /\ Out[p][2] \in Nat
      BY DEF SentFlow
    <3>3. x \in N!OfRun(j) <=> x \in Nat /\ \E p \in DOMAIN Out : Out[p] = <<j, x>>
      BY <3>1, <3>2
    <3>4. x \in Nat => ((1 <= x /\ x <= n) <=> (\E p \in DOMAIN Out : Out[p] = <<j, x>>))
      BY <1>3 DEF Upto
    <3>5. x \in 1..n <=> x \in Nat /\ 1 <= x /\ x <= n
      OBVIOUS
    <3> QED BY <3>3, <3>4, <3>5
  <2> QED BY <2>2
<1>4. \A j \in 1..Runs : nested[j].n \in Nat
  BY InnerAssumption DEF InnerAssumption, NestedInv, NestedType
<1>5. ASSUME NEW j \in 1..Runs PROVE \E n \in 0..nested[j].n : N!OfRun(j) = 1..n
  <2>1. PICK n \in 0..nested[j].n : Upto(j, n)
    BY DEF SentFlow
  <2>2. n \in Nat
    BY <1>4, <2>1
  <2> QED BY <1>3, <2>1, <2>2
<1>6. ASSUME NEW j \in DOMAIN ends, ends[j] = "nil", op.name # "ignore" PROVE N!OfRun(j) = 1..nested[j].n
  <2>1. j \in 1..Runs
    <3>1. Runs \in Nat /\ k \in 1..Runs /\ Len(ends) \in Nat
      BY InnerAssumption, LenProperties DEF InnerAssumption, NestedInv, NestedType
    <3>2. Len(ends) <= k
      BY <3>1 DEF NestedInv, PlaceInv, NestedType
    <3>3. j \in 1..Len(ends)
      BY <1>2
    <3> QED BY <3>1, <3>2, <3>3
  <2>2. Upto(j, nested[j].n)
    BY <1>2, <1>6 DEF SentFlow
  <2> QED BY <1>3, <1>4, <2>1, <2>2
<1>7. \A p, q \in N!Values : p < q =>
         \/ N!Item(p)[1] < N!Item(q)[1]
         \/ N!Item(p)[1] = N!Item(q)[1] /\ N!Item(p)[2] < N!Item(q)[2]
  BY <1>1 DEF SentFlow
<1>8. \A p \in DOMAIN sent \ N!Values : p = Len(sent) /\ sent[p] = IF ends[1] = "nil" THEN <<"complete">> ELSE <<"error", ends[1]>>
  BY <1>1, <1>2 DEF SentFlow, Last
<1>9. op.name = "materialize" /\ ret # "run" => N!Values # DOMAIN sent
  <2>1. ASSUME op.name = "materialize", ret # "run" PROVE Len(sent) \in DOMAIN sent /\ Len(sent) \notin N!Values
    <3>1. pc = "done"
      BY <2>1 DEF NestedInv, PlaceInv
    <3>2. Len(sent) > 0 /\ Len(sent) \notin DOMAIN Out
      BY <2>1, <3>1 DEF SentFlow
    <3> QED BY <1>1, <1>2, <3>2
  <2> QED BY <2>1
<1> QED BY <1>5, <1>6, <1>7, <1>8, <1>9 DEF N!Concatenated, N!Is, N!Whole

-----------------------------------------------------------------------------
(* FlatMap, SwitchMap and ExhaustMap: what of each item has been sent. *)

Working == {"call", "wait", "send"}

\* What a goroutine's step does to its item's record and to what has been sent.
Succeeds(i) ==
  /\ g[i].pc = "call" /\ g'[i].j = g[i].j /\ g'[i].n \in Nat /\ sent' = sent /\ UNCHANGED <<errs, inner, disp>>
  /\ IF kind = "ordered" \/ g'[i].n = 0 THEN g'[i].pc = "done" ELSE g'[i].pc = "send"
GoesOn(i) ==
  /\ g[i].pc \in {"call", "wait"} /\ g'[i].j = g[i].j /\ g'[i].n = g[i].n /\ sent' = sent /\ UNCHANGED <<errs, inner, disp>>
  /\ g'[i].pc \in {"call", "wait", "skip"}
Stops(i) ==
  /\ g[i].pc \in Working /\ g'[i].j = g[i].j /\ g'[i].n = g[i].n /\ sent' = sent
  /\ g'[i].pc \in {"user", "ctx"} /\ Reported(i, g'[i].pc)
SendsOne(i) ==
  /\ g[i].pc = "send" /\ g'[i].n = g[i].n /\ sent' = Append(sent, <<i, g[i].j + 1>>) /\ UNCHANGED <<errs, inner, disp>>
  /\ IF g[i].j + 1 = g[i].n THEN g'[i].pc = "done" /\ g'[i].j = g[i].j ELSE g'[i].pc = "send" /\ g'[i].j = g[i].j + 1

\* What is known of a record that a step changes in place.
LEMMA RecordFacts ==
  ASSUME SubType, NEW i \in 1..NItems
  PROVE  /\ g[i].n \in Nat /\ g[i].j \in Nat /\ g[i].tries \in Nat
         /\ \A p : g' = [g EXCEPT ![i].pc = p] => g'[i] = [g[i] EXCEPT !.pc = p] /\ \A l \in 1..NItems \ {i} : g'[l] = g[l]
         /\ \A p, t : g' = [g EXCEPT ![i].pc = p, ![i].tries = t] => g'[i].pc = p /\ g'[i].n = g[i].n /\ g'[i].j = g[i].j /\ \A l \in 1..NItems \ {i} : g'[l] = g[l]
         /\ \A p, n : g' = [g EXCEPT ![i].pc = p, ![i].n = n] => g'[i].pc = p /\ g'[i].n = n /\ g'[i].j = g[i].j /\ \A l \in 1..NItems \ {i} : g'[l] = g[l]
         /\ \A p, n, t : g' = [g EXCEPT ![i].pc = p, ![i].n = n, ![i].tries = t] => g'[i].pc = p /\ g'[i].n = n /\ g'[i].j = g[i].j /\ \A l \in 1..NItems \ {i} : g'[l] = g[l]
         /\ g' = [g EXCEPT ![i].j = @ + 1] => g'[i].pc = g[i].pc /\ g'[i].n = g[i].n /\ g'[i].j = g[i].j + 1 /\ \A l \in 1..NItems \ {i} : g'[l] = g[l]
<1>1. g \in [1..NItems -> Calls] /\ g[i] \in Calls /\ g[i].n \in Nat /\ g[i].j \in Nat /\ g[i].tries \in Nat
  BY DEF SubType, Calls
<1>2. ASSUME NEW p, g' = [g EXCEPT ![i].pc = p] PROVE g'[i] = [g[i] EXCEPT !.pc = p] /\ \A l \in 1..NItems \ {i} : g'[l] = g[l]
  BY <1>1, <1>2
<1>3. ASSUME NEW p, NEW t, g' = [g EXCEPT ![i].pc = p, ![i].tries = t]
      PROVE  g'[i].pc = p /\ g'[i].n = g[i].n /\ g'[i].j = g[i].j /\ \A l \in 1..NItems \ {i} : g'[l] = g[l]
  BY <1>1, <1>3 DEF Calls
<1>4. ASSUME NEW p, NEW n, g' = [g EXCEPT ![i].pc = p, ![i].n = n]
      PROVE  g'[i].pc = p /\ g'[i].n = n /\ g'[i].j = g[i].j /\ \A l \in 1..NItems \ {i} : g'[l] = g[l]
  BY <1>1, <1>4 DEF Calls
<1>5. ASSUME NEW p, NEW n, NEW t, g' = [g EXCEPT ![i].pc = p, ![i].n = n, ![i].tries = t]
      PROVE  g'[i].pc = p /\ g'[i].n = n /\ g'[i].j = g[i].j /\ \A l \in 1..NItems \ {i} : g'[l] = g[l]
  BY <1>1, <1>5 DEF Calls
<1>6. ASSUME g' = [g EXCEPT ![i].j = @ + 1]
      PROVE  g'[i].pc = g[i].pc /\ g'[i].n = g[i].n /\ g'[i].j = g[i].j + 1 /\ \A l \in 1..NItems \ {i} : g'[l] = g[l]
  BY <1>1, <1>6 DEF Calls
<1> QED BY <1>1, <1>2, <1>3, <1>4, <1>5, <1>6

\* A goroutine's step.
LEMMA WorkDetail ==
  ASSUME SubInv, NEW i \in S!Items, S!Work(i) \/ S!Fail(i)
  PROVE  /\ i \in 1..NItems /\ g[i].pc \in Working /\ \A l \in 1..NItems \ {i} : g'[l] = g[l]
         /\ UNCHANGED <<kind, next, batch, cur, over, line, dr, consumer, ctx, ret>>
         /\ Succeeds(i) \/ GoesOn(i) \/ Stops(i) \/ SendsOne(i)
<1>0. i \in 1..NItems /\ SubType
  BY DEF S!Items, SubInv
<1>1. UNCHANGED <<kind, next, batch, cur, over, line, dr, consumer, ctx, ret>>
  BY DEF S!Work, S!Fail, S!Succeed, S!Backoff, S!Send, S!workRest
<1>2. ASSUME NEW e \in {"nil", "user", "ctx"}, S!Finish(i, e)
      PROVE  /\ g'[i].pc = (IF e = "nil" THEN "done" ELSE e) /\ g'[i].n = g[i].n /\ g'[i].j = g[i].j
             /\ \A l \in 1..NItems \ {i} : g'[l] = g[l]
             /\ e = "nil" => UNCHANGED <<errs, inner, disp>>
             /\ e # "nil" => Reported(i, e)
  <2>1. PICK p : p = (IF e = "nil" THEN "done" ELSE e)
    OBVIOUS
  <2>2. g' = [g EXCEPT ![i].pc = p, ![i].tries = 0]
    BY <1>2, <2>1 DEF S!Finish
  <2>3. g'[i].pc = p /\ g'[i].n = g[i].n /\ g'[i].j = g[i].j /\ \A l \in 1..NItems \ {i} : g'[l] = g[l]
    BY <1>0, <2>2, RecordFacts
  <2>4. (e = "nil" => UNCHANGED <<errs, inner, disp>>) /\ (e # "nil" => Reported(i, e))
    BY <1>0, <1>2, FinishEffect
  <2> QED BY <2>1, <2>3, <2>4
<1>3. CASE S!Succeed(i)
  <2>1. g[i].pc = "call" /\ UNCHANGED <<errs, inner, disp, sent>>
    BY <1>3 DEF S!Succeed
  <2>2. PICK n \in Widths : IF kind = "ordered" \/ n = 0
                            THEN g' = [g EXCEPT ![i].pc = "done", ![i].n = n, ![i].tries = 0]
                            ELSE g' = [g EXCEPT ![i].pc = "send", ![i].n = n]
    BY <1>3 DEF S!Succeed, S!Is
  <2>3. n \in Nat
    BY InnerAssumption DEF InnerAssumption
  <2>4. CASE kind = "ordered" \/ n = 0
    <3>1. g'[i].pc = "done" /\ g'[i].n = n /\ g'[i].j = g[i].j /\ \A l \in 1..NItems \ {i} : g'[l] = g[l]
      <4>1. g' = [g EXCEPT ![i].pc = "done", ![i].n = n, ![i].tries = 0]
        BY <2>2, <2>4
      <4> QED BY <1>0, <4>1, RecordFacts
    <3> QED BY <1>0, <1>1, <2>1, <2>3, <2>4, <3>1 DEF Succeeds, Working
  <2>5. CASE ~(kind = "ordered" \/ n = 0)
    <3>1. g'[i].pc = "send" /\ g'[i].n = n /\ g'[i].j = g[i].j /\ \A l \in 1..NItems \ {i} : g'[l] = g[l]
      <4>1. g' = [g EXCEPT ![i].pc = "send", ![i].n = n]
        BY <2>2, <2>5
      <4> QED BY <1>0, <4>1, RecordFacts
    <3> QED BY <1>0, <1>1, <2>1, <2>3, <2>5, <3>1 DEF Succeeds, Working
  <2> QED BY <2>4, <2>5
<1>4. CASE S!Fail(i)
  <2>1. g[i].pc \in {"call", "send"} /\ sent' = sent
    BY <1>4 DEF S!Fail
  <2>2. CASE S!Finish(i, "user")
    <3>1. Stops(i)
      BY <1>2, <2>1, <2>2 DEF Stops, Working
    <3> QED BY <1>0, <1>1, <1>2, <2>1, <2>2, <3>1 DEF Working
  <2>3. CASE g[i].pc = "call" /\ UNCHANGED <<errs, inner, disp>> /\ g' = [g EXCEPT ![i].pc = "skip", ![i].tries = 0]
    <3>1. g'[i].pc = "skip" /\ g'[i].n = g[i].n /\ g'[i].j = g[i].j /\ \A l \in 1..NItems \ {i} : g'[l] = g[l]
      BY <1>0, <2>3, RecordFacts
    <3> QED BY <1>0, <1>1, <2>1, <2>3, <3>1 DEF GoesOn, Working
  <2>4. CASE g[i].pc = "call" /\ UNCHANGED <<errs, inner, disp>> /\ g' = [g EXCEPT ![i].pc = "wait", ![i].tries = @ + 1]
    <3>0. g' = [g EXCEPT ![i].pc = "wait", ![i].tries = g[i].tries + 1]
      BY <1>0, <2>4 DEF SubType
    <3>1. g'[i].pc = "wait" /\ g'[i].n = g[i].n /\ g'[i].j = g[i].j /\ \A l \in 1..NItems \ {i} : g'[l] = g[l]
      BY <1>0, <3>0, RecordFacts
    <3> QED BY <1>0, <1>1, <2>1, <2>4, <3>1 DEF GoesOn, Working
  <2>5. ~S!Is("fast") => g[i].pc = "call"
    BY <1>4 DEF S!Fail
  <2> QED BY <1>4, <2>2, <2>3, <2>4, <2>5 DEF S!Fail
<1>5. CASE S!Backoff(i)
  <2>1. g[i].pc = "wait" /\ sent' = sent
    BY <1>5 DEF S!Backoff
  <2>2. CASE S!Start(i) /\ UNCHANGED <<errs, inner, disp>>
    <3>1. g'[i] = [g[i] EXCEPT !.pc = "call"] /\ \A l \in 1..NItems \ {i} : g'[l] = g[l]
      BY <1>0, <2>2, RecordFacts DEF S!Start
    <3>2. g[i] \in Calls
      BY <1>0 DEF SubType
    <3>3. g'[i].pc = "call" /\ g'[i].n = g[i].n /\ g'[i].j = g[i].j
      BY <3>1, <3>2 DEF Calls
    <3> QED BY <1>0, <1>1, <2>1, <2>2, <3>1, <3>3 DEF GoesOn, Working
  <2>3. CASE S!Finish(i, "ctx")
    <3>1. Stops(i)
      BY <1>2, <2>1, <2>3 DEF Stops, Working
    <3> QED BY <1>0, <1>1, <1>2, <2>1, <2>3, <3>1 DEF Working
  <2> QED BY <1>5, <2>2, <2>3 DEF S!Backoff
<1>6. CASE S!Send(i)
  <2>1. g[i].pc = "send" /\ g[i].j \in Nat
    BY <1>0, <1>6, RecordFacts DEF S!Send
  <2>2. CASE g[i].j + 1 = g[i].n /\ S!Finish(i, "nil") /\ sent' = Append(sent, <<i, g[i].j + 1>>)
    <3>1. SendsOne(i)
      BY <1>2, <2>1, <2>2 DEF SendsOne
    <3> QED BY <1>0, <1>1, <1>2, <2>1, <2>2, <3>1 DEF Working
  <2>3. CASE g[i].j + 1 # g[i].n /\ g' = [g EXCEPT ![i].j = @ + 1] /\ UNCHANGED <<errs, inner, disp>> /\ sent' = Append(sent, <<i, g[i].j + 1>>)
    <3>1. g'[i].pc = g[i].pc /\ g'[i].n = g[i].n /\ g'[i].j = g[i].j + 1 /\ \A l \in 1..NItems \ {i} : g'[l] = g[l]
      BY <1>0, <2>3, RecordFacts
    <3>2. SendsOne(i)
      BY <2>1, <2>3, <3>1 DEF SendsOne
    <3> QED BY <1>0, <1>1, <2>1, <3>1, <3>2 DEF Working
  <2>4. CASE S!Finish(i, "ctx") /\ sent' = sent
    <3>1. Stops(i)
      BY <1>2, <2>1, <2>4 DEF Stops, Working
    <3> QED BY <1>0, <1>1, <1>2, <2>1, <2>4, <3>1 DEF Working
  <2> QED BY <1>6, <2>2, <2>3, <2>4 DEF S!Send
<1> QED BY <1>3, <1>4, <1>5, <1>6 DEF S!Work

\* The stage starts the goroutine, or the call, of the next item in line.
Begins(i) ==
  /\ g[i].pc = "none" /\ g'[i].pc = "call" /\ g'[i].n = g[i].n /\ g'[i].j = g[i].j
  /\ \A l \in 1..NItems \ {i} : g'[l] = g[l]
  /\ i = next - Len(batch) /\ next' - Len(batch') = i + 1
  /\ kind \in {"fast", "serial", "exhaust"} => \A l \in 1..NItems : g[l].pc \notin Working
  /\ IF kind = "ordered" THEN line' = Append(line, i) ELSE line' = line
Waits ==
  /\ UNCHANGED <<g, line>>
  /\ next' - Len(batch') = next - Len(batch) \/ (kind = "exhaust" /\ next' - Len(batch') = next - Len(batch) + 1)

\* A step of the receiving loop.
LEMMA LoopDetail ==
  ASSUME SubInv, SerialInv, S!Receive \/ S!Fill \/ S!TakeUp \/ S!Spawn
  PROVE  /\ UNCHANGED <<kind, sent, inner, errs, dr, consumer, ctx, ret>>
         /\ disp.pc # "wait" /\ disp'.pc # "wait" /\ disp.why = "none" /\ disp'.why = "none"
         /\ disp'.pc = "sem" => kind \in {"concurrent", "ordered"}
         /\ kind # "fast" => Len(batch') <= 1
         /\ Waits \/ \E i \in 1..NItems : Begins(i)
         /\ kind = "switch" => next' = next + 1 /\ cur' = next /\ over' = over \cup ({cur} \ {0})
<1>1. /\ SubType /\ next \in 1..(NItems + 1) /\ NItems \in Nat /\ batch \in Seq(1..NItems) /\ Len(batch) \in Nat
      /\ Len(batch) < next
      /\ \A p \in 1..Len(batch) : batch[p] = next - 1 - Len(batch) + p
      /\ \A i \in 1..NItems : i >= next - Len(batch) => g[i].pc = "none"
      /\ disp.pc = "sem" => batch # << >>
  BY InnerAssumption DEF InnerAssumption, SubInv, SubType, BatchInv
<1>2. UNCHANGED <<kind, sent, inner, errs, dr, consumer, ctx, ret>>
  BY DEF S!Receive, S!Fill, S!TakeUp, S!Spawn, S!dispRest
<1>3. disp.pc \in {"recv", "next", "sem"} /\ disp.why = "none"
  <2>1. disp.pc \in {"recv", "next", "sem"}
    BY DEF S!Receive, S!Fill, S!TakeUp, S!Spawn
  <2> QED BY <2>1 DEF SubInv, WhyInv
<1>4. ASSUME NEW p, S!Goes(p) PROVE disp'.pc = p /\ disp'.why = "none"
  BY <1>1, <1>3, <1>4 DEF S!Goes, SubType
<1>5. ASSUME NEW i \in 1..NItems, S!Start(i)
      PROVE  g'[i].pc = "call" /\ g'[i].n = g[i].n /\ g'[i].j = g[i].j /\ \A l \in 1..NItems \ {i} : g'[l] = g[l]
  <2>1. g'[i] = [g[i] EXCEPT !.pc = "call"] /\ \A l \in 1..NItems \ {i} : g'[l] = g[l]
    BY <1>1, <1>5, RecordFacts DEF S!Start
  <2>2. g[i] \in Calls
    BY <1>1 DEF SubType
  <2> QED BY <2>1, <2>2 DEF Calls
<1>6. S!Live = {} => \A l \in 1..NItems : g[l].pc \notin Working
  BY DEF S!Live, S!Items, Working
<1>7. CASE S!Receive
  <2>1. disp.pc = "recv" /\ next \in 1..NItems /\ batch = << >> /\ next' = next + 1 /\ line' = line /\ Len(batch) = 0
    BY <1>1, <1>7 DEF S!Receive
  <2>2. g[next].pc = "none"
    BY <1>1, <2>1
  <2>3. CASE S!SwitchRecv \/ S!ExhaustRecv
    <3>1. kind \in {"switch", "exhaust"} /\ batch' = << >> /\ disp' = disp /\ Len(batch') = 0
      BY <2>1, <2>3 DEF S!SwitchRecv, S!ExhaustRecv, S!Is
    <3>2. CASE S!Start(next) /\ (kind = "exhaust" => S!Live = {})
      <4>1. Begins(next)
        BY <1>1, <1>5, <1>6, <2>1, <2>2, <3>1, <3>2 DEF Begins
      <4>2. kind = "switch" => cur' = next /\ over' = over \cup ({cur} \ {0})
        BY <2>3 DEF S!SwitchRecv, S!ExhaustRecv, S!Is
      <4> QED BY <1>2, <1>3, <2>1, <3>1, <4>1, <4>2
    <3>3. CASE kind = "exhaust" /\ g' = g
      <4>1. Waits
        BY <1>1, <2>1, <3>1, <3>3 DEF Waits
      <4> QED BY <1>2, <1>3, <2>1, <3>1, <3>3, <4>1
    <3> QED BY <2>3, <3>2, <3>3 DEF S!SwitchRecv, S!ExhaustRecv, S!Is
  <2>4. CASE S!FlatRecv
    <3>1. batch' = <<next>> /\ g' = g /\ kind \notin {"switch", "exhaust"}
      BY <2>4 DEF S!FlatRecv
    <3>2. Len(batch') = 1
      BY <3>1
    <3>3. CASE S!Alone /\ S!Goes("next")
      <4>1. Waits /\ disp'.pc = "next" /\ disp'.why = "none"
        BY <1>1, <1>4, <2>1, <3>1, <3>2, <3>3 DEF Waits
      <4> QED BY <1>2, <1>3, <3>1, <3>2, <4>1
    <3>4. CASE ~S!Alone /\ S!Goes("sem")
      <4>1. kind \in {"concurrent", "ordered"}
        BY <3>1, <3>4, KindKnown DEF S!Alone
      <4>2. Waits /\ disp'.pc = "sem" /\ disp'.why = "none"
        BY <1>1, <1>4, <2>1, <3>1, <3>2, <3>4 DEF Waits
      <4> QED BY <1>2, <1>3, <3>1, <3>2, <4>1, <4>2
    <3> QED BY <2>4, <3>3, <3>4 DEF S!FlatRecv
  <2> QED BY <1>7, <2>3, <2>4 DEF S!Receive
<1>8. CASE S!Fill
  <2>1. kind = "fast" /\ disp' = disp /\ disp.pc = "next" /\ next \in 1..NItems /\ batch' = Append(batch, next) /\ next' = next + 1 /\ UNCHANGED <<g, line>>
    BY <1>1, <1>8 DEF S!Fill, S!Is
  <2>2. Len(batch') = Len(batch) + 1
    BY <1>1, <2>1, AppendFacts
  <2>3. Waits
    BY <1>1, <2>1, <2>2 DEF Waits
  <2> QED BY <1>2, <1>3, <2>1, <2>3
<1>9. CASE S!TakeUp
  <2>1. kind \in {"fast", "serial"} /\ disp.pc = "next" /\ S!Live = {} /\ next' = next /\ line' = line
    BY <1>9 DEF S!TakeUp, S!Alone
  <2>2. CASE batch = << >>
    <3>1. S!Goes("recv") /\ UNCHANGED <<g, batch>>
      BY <1>9, <2>2 DEF S!TakeUp
    <3>2. disp'.pc = "recv" /\ disp'.why = "none" /\ Waits
      BY <1>4, <2>1, <3>1 DEF Waits
    <3>3. kind # "fast" => Len(batch') <= 1
      BY <3>1 DEF SerialInv
    <3> QED BY <1>2, <1>3, <2>1, <3>2, <3>3
  <2>3. CASE batch # << >>
    <3>1. S!Start(batch[1]) /\ batch' = Tail(batch) /\ disp' = disp
      BY <1>9, <2>3 DEF S!TakeUp
    <3>2. Len(batch') = Len(batch) - 1 /\ Len(batch) > 0
      BY <1>1, <2>3, <3>1
    <3>3. batch[1] \in 1..NItems /\ batch[1] = next - Len(batch) /\ g[batch[1]].pc = "none"
      BY <1>1, <3>2
    <3>4. next' - Len(batch') = batch[1] + 1
      BY <1>1, <2>1, <3>2, <3>3
    <3>5. Begins(batch[1])
      BY <1>5, <1>6, <2>1, <3>1, <3>3, <3>4 DEF Begins
    <3>6. kind # "fast" => Len(batch') <= 1
      BY <1>1, <3>2 DEF SerialInv
    <3> QED BY <1>2, <1>3, <2>1, <3>1, <3>3, <3>5, <3>6
  <2> QED BY <2>2, <2>3
<1>10. CASE S!Spawn
  <2>1. /\ disp.pc = "sem" /\ S!Start(batch[1]) /\ batch' = << >> /\ S!Goes("recv") /\ next' = next
        /\ IF kind = "ordered" THEN line' = Append(line, batch[1]) ELSE line' = line
    BY <1>10 DEF S!Spawn, S!Is
  <2>2. kind \in {"concurrent", "ordered"} /\ Len(batch) = 1 /\ batch[1] \in 1..NItems /\ batch[1] = next - Len(batch) /\ g[batch[1]].pc = "none"
    <3>1. kind \in {"concurrent", "ordered"} /\ Len(batch) <= 1
      BY <2>1 DEF SerialInv
    <3>2. Len(batch) = 1
      <4>1. PICK c : c = Len(batch)
        OBVIOUS
      <4>2. c # 0
        BY <1>1, <2>1, <4>1, EmptySeq
      <4>3. c \in Nat /\ c <= 1
        BY <1>1, <3>1, <4>1
      <4>4. c = 1
        BY <4>2, <4>3
      <4> QED BY <4>1, <4>4
    <3> QED BY <1>1, <3>1, <3>2
  <2>3. Len(batch') = 0
    BY <2>1
  <2>4. next' - Len(batch') = batch[1] + 1
    BY <1>1, <2>1, <2>2, <2>3
  <2>5. Begins(batch[1])
    BY <1>5, <2>1, <2>2, <2>4 DEF Begins
  <2>6. disp'.pc = "recv" /\ disp'.why = "none"
    BY <1>4, <2>1
  <2> QED BY <1>2, <1>3, <2>2, <2>3, <2>5, <2>6
<1> QED BY <1>7, <1>8, <1>9, <1>10

LEMMA PairOf ==
  ASSUME NEW a, NEW b, NEW e \in a \X b
  PROVE  \E x \in a, y \in b : e = <<x, y>> /\ e[1] = x /\ e[2] = y
OBVIOUS

\* OutputInv, when nothing is sent.
LEMMA OutputSame ==
  ASSUME SubInv, SubInv', OutputInv, UNCHANGED <<kind, sent>>,
         \A l \in 1..NItems :
           \/ g'[l] = g[l]
           \/ /\ g[l].pc \in {"none", "call", "wait", "send"} /\ g'[l].j = g[l].j /\ g[l].j <= g'[l].n
              /\ g'[l].pc \in {"none", "call", "wait", "skip"} => g[l].pc # "send"
              /\ g'[l].pc = "send" => g[l].j < g'[l].n /\ kind # "ordered"
              /\ g'[l].pc = "done" => kind = "ordered" \/ g'[l].n = g[l].j
  PROVE  OutputInv'
<1>1. ASSUME NEW l \in 1..NItems PROVE SentBy(l)' = SentBy(l)
  BY DEF SentBy, OutputInv
<1>2. ASSUME NEW l \in 1..NItems PROVE SentOf(l, SentBy(l))'
  <2>1. PICK n : n = SentBy(l) /\ n = SentBy(l)'
    BY <1>1
  <2>2. SentOf(l, n)
    BY <2>1 DEF OutputInv
  <2>3. SentOf(l, n)'
    BY <2>2 DEF SentOf
  <2> QED BY <2>1, <2>3 DEF SentOf
<1>3. ASSUME NEW l \in 1..NItems
      PROVE  /\ g'[l].j <= g'[l].n
             /\ g'[l].pc \in {"none", "call", "wait", "skip"} => g'[l].j = 0
             /\ g'[l].pc = "send" => g'[l].j < g'[l].n /\ kind' # "ordered"
  BY DEF OutputInv
<1> QED BY <1>2, <1>3 DEF OutputInv

\* OutputInv, when the next output of an item is sent.
LEMMA OutputMore ==
  ASSUME SubInv, SubInv', OutputInv, kind' = kind,
         NEW i \in 1..NItems, NEW m \in Nat, m = SentBy(i), sent' = Append(sent, <<i, m + 1>>),
         \A l \in 1..NItems \ {i} : g'[l] = g[l],
         SentBy(i)' = m + 1, g'[i].j <= g'[i].n, g'[i].pc \in {"send", "done"},
         g'[i].pc = "send" => g'[i].j < g'[i].n /\ kind # "ordered",
         kind \notin {"concurrent", "switch"} => \A p \in 1..Len(sent) : sent[p][1] <= i
  PROVE  OutputInv'
<1>1. sent \in Seq((1..NItems) \X Nat) /\ <<i, m + 1>> \in (1..NItems) \X Nat /\ NItems \in Nat /\ Len(sent) \in Nat
  BY InnerAssumption, LenProperties DEF InnerAssumption, OutputInv
<1>2. /\ sent' \in Seq((1..NItems) \X Nat) /\ Len(sent') = Len(sent) + 1
      /\ \A p \in 1..Len(sent) : sent'[p] = sent[p]
      /\ sent'[Len(sent) + 1] = <<i, m + 1>>
  BY <1>1, AppendFacts
<1>3. ASSUME NEW p \in 1..Len(sent')
      PROVE  \/ p \in 1..Len(sent) /\ sent'[p] = sent[p]
             \/ p = Len(sent) + 1 /\ sent'[p] = <<i, m + 1>> /\ sent'[p][1] = i /\ sent'[p][2] = m + 1
  <2>1. PICK n \in Nat : n = Len(sent) /\ Len(sent') = n + 1
    BY <1>1, <1>2
  <2>2. p \in 1..n \/ p = n + 1
    BY <1>3, <2>1
  <2>3. p \in 1..n => p \in 1..Len(sent) /\ sent'[p] = sent[p]
    BY <1>2, <2>1, Zenon
  <2>4. p = n + 1 => p = Len(sent) + 1 /\ sent'[p] = <<i, m + 1>>
    BY <1>2, <2>1, Zenon
  <2>5. p = n + 1 => sent'[p][1] = i /\ sent'[p][2] = m + 1
    BY <2>4
  <2> QED BY <2>2, <2>3, <2>4, <2>5
<1>4. ASSUME NEW l \in 1..NItems, l # i PROVE SentOf(l, SentBy(l))'
  <2>1. PICK n : n = SentBy(l) /\ n = SentBy(l)'
    BY <1>4 DEF SentBy
  <2>2. SentOf(l, n)
    BY <2>1 DEF OutputInv
  <2>3. ASSUME NEW x \in Nat PROVE (\E p \in 1..Len(sent') : sent'[p] = <<l, x>>) <=> (\E p \in 1..Len(sent) : sent[p] = <<l, x>>)
    <3>1. <<l, x>> # <<i, m + 1>>
      BY <1>4
    <3>2. ASSUME NEW p \in 1..Len(sent'), sent'[p] = <<l, x>> PROVE p \in 1..Len(sent) /\ sent[p] = <<l, x>>
      BY <1>3, <3>1, <3>2
    <3>3. ASSUME NEW p \in 1..Len(sent), sent[p] = <<l, x>> PROVE p \in 1..Len(sent') /\ sent'[p] = <<l, x>>
      BY <1>1, <1>2, <3>3
    <3> QED BY <3>2, <3>3
  <2> QED BY <2>1, <2>2, <2>3 DEF SentOf
<1>5. SentOf(i, m)
  BY DEF OutputInv
<1>6. SentOf(i, SentBy(i))'
  <2>1. ASSUME NEW x \in Nat PROVE (1 <= x /\ x <= m + 1) <=> (\E p \in 1..Len(sent') : sent'[p] = <<i, x>>)
    <3>1. CASE x = m + 1
      <4>1. Len(sent) + 1 \in 1..Len(sent')
        BY <1>1, <1>2
      <4>2. \E p \in 1..Len(sent') : sent'[p] = <<i, x>>
        BY <1>2, <3>1, <4>1
      <4>3. 1 <= x /\ x <= m + 1
        BY <3>1
      <4> QED BY <4>2, <4>3
    <3>2. CASE x # m + 1
      <4>1. <<i, x>> # <<i, m + 1>>
        BY <3>2
      <4>2. ASSUME NEW p \in 1..Len(sent'), sent'[p] = <<i, x>> PROVE p \in 1..Len(sent) /\ sent[p] = <<i, x>>
        BY <1>3, <4>1, <4>2
      <4>3. ASSUME NEW p \in 1..Len(sent), sent[p] = <<i, x>> PROVE p \in 1..Len(sent') /\ sent'[p] = <<i, x>>
        BY <1>1, <1>2, <4>3
      <4>4. (1 <= x /\ x <= m) <=> (\E p \in 1..Len(sent) : sent[p] = <<i, x>>)
        BY <1>5 DEF SentOf
      <4>5. (1 <= x /\ x <= m + 1) <=> (1 <= x /\ x <= m)
        BY <3>2
      <4> QED BY <4>2, <4>3, <4>4, <4>5
    <3> QED BY <3>1, <3>2
  <2> QED BY <2>1 DEF SentOf
<1>7. ASSUME NEW l \in 1..NItems
      PROVE  /\ g'[l].j <= g'[l].n
             /\ g'[l].pc \in {"none", "call", "wait", "skip"} => g'[l].j = 0
             /\ g'[l].pc = "send" => g'[l].j < g'[l].n /\ kind' # "ordered"
  BY DEF OutputInv
<1>8. ASSUME NEW p \in 1..Len(sent'), NEW q \in 1..Len(sent'), p < q
      PROVE  /\ sent'[p][1] = sent'[q][1] => sent'[p][2] < sent'[q][2]
             /\ kind \notin {"concurrent", "switch"} => sent'[p][1] <= sent'[q][1]
  <2>1. CASE q \in 1..Len(sent)
    <3>1. p \in 1..Len(sent)
      BY <1>1, <1>8, <2>1
    <3>2. sent'[p] = sent[p] /\ sent'[q] = sent[q]
      BY <1>2, <2>1, <3>1
    <3> QED BY <1>8, <2>1, <3>1, <3>2 DEF OutputInv
  <2>2. CASE q \notin 1..Len(sent)
    <3>1. q = Len(sent) + 1 /\ sent'[q][1] = i /\ sent'[q][2] = m + 1
      BY <1>3, <2>2
    <3>2. p \in 1..Len(sent) /\ sent'[p] = sent[p]
      BY <1>1, <1>2, <1>8, <3>1
    <3>3. sent[p] \in (1..NItems) \X Nat
      BY <1>1, <3>2, ElementOfSeq
    <3>4. PICK l \in 1..NItems, x \in Nat : sent[p] = <<l, x>>
      BY <3>3, PairOf
    <3>5. ASSUME l = i PROVE x <= m
      <4>1. \E r \in 1..Len(sent) : sent[r] = <<i, x>>
        BY <3>2, <3>4, <3>5
      <4> QED BY <1>5, <4>1 DEF SentOf
    <3>6. sent'[p][1] = l /\ sent'[p][2] = x /\ sent[p][1] = l
      BY <3>2, <3>4
    <3>7. x <= m => x < m + 1
      BY <3>4
    <3> QED BY <3>1, <3>2, <3>5, <3>6, <3>7
  <2> QED BY <2>1, <2>2
<1>9. ASSUME NEW l \in 1..NItems PROVE SentOf(l, SentBy(l))'
  BY <1>4, <1>6, Zenon
<1>10. \A p, q \in 1..Len(sent') : p < q =>
       /\ sent'[p][1] = sent'[q][1] => sent'[p][2] < sent'[q][2]
       /\ kind \notin {"concurrent", "switch"} => sent'[p][1] <= sent'[q][1]
  BY <1>8, Zenon
<1>11. \A p, q \in 1..Len(sent') : p < q =>
       /\ sent'[p][1] = sent'[q][1] => sent'[p][2] < sent'[q][2]
       /\ kind' \notin {"concurrent", "switch"} => sent'[p][1] <= sent'[q][1]
  BY <1>10
<1>12. \A l \in 1..NItems :
       /\ SentOf(l, SentBy(l))' /\ g'[l].j <= g'[l].n
       /\ g'[l].pc \in {"none", "call", "wait", "skip"} => g'[l].j = 0
       /\ g'[l].pc = "send" => g'[l].j < g'[l].n /\ kind' # "ordered"
  BY <1>7, <1>9, Zenon
<1> QED BY <1>2, <1>11, <1>12, Zenon DEF OutputInv

\* Only what has been started has outputs.
LEMMA SentStarted ==
  ASSUME SubInv, OutputInv, NEW p \in 1..Len(sent)
  PROVE  /\ sent[p][1] \in 1..NItems /\ sent[p][1] < next - Len(batch)
         /\ g[sent[p][1]].pc # "none" /\ (kind = "ordered" => g[sent[p][1]].j # 0)
<1>1. sent[p] \in (1..NItems) \X Nat
  BY ElementOfSeq DEF OutputInv
<1>2. PICK l \in 1..NItems, x \in Nat : sent[p] = <<l, x>> /\ sent[p][1] = l
  BY <1>1, PairOf
<1>3. PICK n : n = SentBy(l)
  OBVIOUS
<1>4. SentOf(l, n)
  BY <1>3 DEF OutputInv
<1>5. 1 <= x /\ x <= n
  BY <1>2, <1>4 DEF SentOf
<1>6. g[l].pc # "none" /\ (kind = "ordered" => g[l].j # 0)
  <2>1. g[l].pc = "none" => n = 0
    BY <1>3 DEF OutputInv, SentBy
  <2>2. kind = "ordered" /\ g[l].j = 0 => n = 0
    BY <1>3 DEF SentBy
  <2>3. n # 0
    BY <1>5
  <2> QED BY <2>1, <2>2, <2>3
<1>7. l < next - Len(batch)
  BY <1>6 DEF SubInv, SubType, BatchInv
<1> QED BY <1>2, <1>6, <1>7

\* What every step needs to know about the numbers.
LEMMA SubNumbers ==
  ASSUME SubInv
  PROVE  /\ NItems \in Nat /\ next \in 1..(NItems + 1) /\ Len(batch) \in Nat /\ Len(batch) < next
         /\ Len(line) \in Nat /\ \A p \in 1..Len(line) : line[p] \in 1..NItems
         /\ dr.item \in 0..NItems
BY InnerAssumption, ElementOfSeq, LenProperties DEF InnerAssumption, SubInv, SubType, BatchInv

LEMMA FlowLoop ==
  ASSUME SubInv, SubInv', SubFlow, S!Receive \/ S!Fill \/ S!TakeUp \/ S!Spawn
  PROVE  SubFlow'
<1>1. /\ UNCHANGED <<kind, sent, inner, errs, dr, consumer, ctx, ret>>
      /\ disp.pc # "wait" /\ disp'.pc # "wait" /\ disp.why = "none" /\ disp'.why = "none"
      /\ disp'.pc = "sem" => kind \in {"concurrent", "ordered"}
      /\ kind # "fast" => Len(batch') <= 1
      /\ Waits \/ \E i \in 1..NItems : Begins(i)
      /\ kind = "switch" => next' = next + 1 /\ cur' = next /\ over' = over \cup ({cur} \ {0})
  BY LoopDetail DEF SubFlow
<1>2. /\ NItems \in Nat /\ next \in 1..(NItems + 1) /\ Len(batch) \in Nat /\ next' \in 1..(NItems + 1) /\ Len(batch') \in Nat
      /\ Len(line) \in Nat /\ dr.item \in 0..NItems /\ \A p \in 1..Len(line) : line[p] \in 1..NItems
  BY SubNumbers DEF SubInv, SubType, BatchInv
<1>3. PICK b : b = next - Len(batch)
  OBVIOUS
<1>4. PICK c : c = next' - Len(batch')
  OBVIOUS
<1>5. b \in Int /\ c \in Int /\ \A i \in 1..NItems : g[i].pc # "none" => i < b
  BY <1>2, <1>3, <1>4 DEF SubInv, BatchInv
<1>6. /\ \A l \in 1..NItems : g'[l] = g[l] \/ (g[l].pc = "none" /\ g'[l].pc = "call" /\ g'[l].n = g[l].n /\ g'[l].j = g[l].j)
      /\ b <= c
  BY <1>1, <1>2, <1>3, <1>4 DEF Waits, Begins
<1>7. OutputInv'
  <2>1. \A l \in 1..NItems : g[l].j <= g[l].n
    BY DEF SubFlow, OutputInv
  <2> QED BY <1>1, <1>6, <2>1, OutputSame DEF SubFlow
<1>8. SerialInv'
  <2>1. CASE Waits
    BY <1>1, <2>1 DEF SubFlow, SerialInv, Waits
  <2>2. ASSUME NEW i \in 1..NItems, Begins(i) PROVE SerialInv'
    <3>1. ASSUME NEW p \in 1..Len(sent) PROVE sent[p][1] <= i
      <4>1. sent[p][1] \in 1..NItems /\ sent[p][1] < b
        BY <1>3, SentStarted DEF SubFlow
      <4>2. i = b
        BY <1>3, <2>2 DEF Begins
      <4> QED BY <4>1, <4>2
    <3>2. kind \in {"fast", "serial", "exhaust"} => \A l \in 1..NItems : g'[l].pc \in {"call", "wait", "send"} => l = i
      BY <2>2 DEF Begins, Working
    <3> QED BY <1>1, <3>1, <3>2 DEF SerialInv
  <2> QED BY <1>1, <2>1, <2>2
<1>9. LineInv'
  <2> SUFFICES ASSUME kind = "ordered" PROVE LineInv'
    BY <1>1 DEF LineInv
  <2>1. /\ dr.item < b
        /\ \A p \in 1..Len(sent) : sent[p][1] <= dr.item
        /\ \A p \in 1..Len(line) : dr.item < line[p] /\ line[p] < b
        /\ \A p, q \in 1..Len(line) : p < q => line[p] < line[q]
        /\ dr.pc = "get" => g[dr.item].j = 0
        /\ dr.pc = "send" => g[dr.item].pc = "done" /\ g[dr.item].j < g[dr.item].n
        /\ \A l \in 1..NItems : g[l].pc = "done" => g[l].j = g[l].n \/ dr.err # "nil"
             \/ (dr.pc \in {"get", "send"} /\ dr.item = l) \/ (\E p \in 1..Len(line) : line[p] = l)
    BY <1>3 DEF SubFlow, LineInv
  <2>2. CASE Waits
    <3>1. c = b /\ g' = g /\ line' = line
      BY <1>3, <1>4, <2>2 DEF Waits
    <3> QED BY <1>1, <1>4, <2>1, <3>1 DEF LineInv
  <2>3. ASSUME NEW i \in 1..NItems, Begins(i) PROVE LineInv'
    <3>1. i = b /\ c = b + 1 /\ line' = Append(line, i) /\ g[i].pc = "none" /\ g'[i].pc = "call" /\ \A l \in 1..NItems \ {i} : g'[l] = g[l]
      BY <1>3, <1>4, <1>5, <2>3 DEF Begins
    <3>2. /\ Len(line') = Len(line) + 1 /\ \A p \in 1..Len(line) : line'[p] = line[p]
          /\ line'[Len(line) + 1] = i
      BY <3>1, AppendFacts DEF SubInv, SubType
    <3>3. ASSUME NEW p \in 1..Len(line')
          PROVE  (p \in 1..Len(line) /\ line'[p] = line[p]) \/ (p = Len(line) + 1 /\ line'[p] = i)
      <4>1. PICK n \in Nat : n = Len(line) /\ Len(line') = n + 1
        BY <1>2, <3>2
      <4>2. p \in 1..n \/ p = n + 1
        BY <3>3, <4>1
      <4>3. p \in 1..n => p \in 1..Len(line) /\ line'[p] = line[p]
        BY <3>2, <4>1, Zenon
      <4>4. p = n + 1 => p = Len(line) + 1 /\ line'[p] = i
        BY <3>2, <4>1, Zenon
      <4> QED BY <4>2, <4>3, <4>4
    <3>4. dr.item < c /\ dr.item # i
      BY <1>2, <1>5, <2>1, <3>1
    <3>5. ASSUME NEW p \in 1..Len(line') PROVE dr.item < line'[p] /\ line'[p] < c
      BY <1>2, <1>5, <2>1, <3>1, <3>3
    <3>6. ASSUME NEW p \in 1..Len(line'), NEW q \in 1..Len(line'), p < q PROVE line'[p] < line'[q]
      <4>1. p \in 1..Len(line) /\ line'[p] = line[p]
        BY <1>2, <3>2, <3>3, <3>6
      <4> QED BY <1>5, <2>1, <3>1, <3>3, <3>6, <4>1
    <3>7. /\ dr.pc = "get" => g'[dr.item].j = 0
          /\ dr.pc = "send" => g'[dr.item].pc = "done" /\ g'[dr.item].j < g'[dr.item].n
      BY <2>1, <3>1, <3>4 DEF SubInv, SubType
    <3>8. ASSUME NEW l \in 1..NItems, g'[l].pc = "done"
          PROVE  g'[l].j = g'[l].n \/ dr.err # "nil"
             \/ (dr.pc \in {"get", "send"} /\ dr.item = l) \/ (\E p \in 1..Len(line') : line'[p] = l)
      <4>1. g'[l] = g[l]
        BY <3>1, <3>8
      <4>2. ASSUME NEW p \in 1..Len(line), line[p] = l PROVE \E q \in 1..Len(line') : line'[q] = l
        <5>1. p \in 1..Len(line')
          <6>1. PICK n : n = Len(line) /\ Len(line') = n + 1 /\ n \in Nat
            BY <1>2, <3>2
          <6> QED BY <4>2, <6>1
        <5> QED BY <3>2, <4>2, <5>1
      <4> QED BY <2>1, <3>8, <4>1, <4>2
    <3> QED BY <1>1, <1>4, <2>1, <3>4, <3>5, <3>6, <3>7, <3>8 DEF LineInv
  <2> QED BY <1>1, <2>2, <2>3
<1>10. UndoneInv'
  <2>1. ASSUME kind # "exhaust", NEW l \in 1..NItems, g'[l].pc = "none" PROVE l >= c
    <3>1. g[l].pc = "none" => l >= b
      BY <1>3, <2>1 DEF SubFlow, UndoneInv
    <3>2. CASE Waits
      BY <1>3, <1>4, <2>1, <3>1, <3>2 DEF Waits
    <3>3. ASSUME NEW i \in 1..NItems, Begins(i) PROVE l >= c
      <4>1. i = b /\ c = b + 1 /\ l # i /\ g'[l] = g[l]
        BY <1>3, <1>4, <1>5, <2>1, <3>3 DEF Begins
      <4> QED BY <1>5, <2>1, <3>1, <4>1
    <3> QED BY <1>1, <3>2, <3>3
  <2>2. ASSUME NEW l \in 1..NItems, g'[l].pc \in {"user", "ctx"} PROVE g'[l] = g[l]
    BY <1>6, <2>2
  <2>3. ASSUME NEW l \in 1..NItems, g'[l].pc \in {"user", "ctx"}, ~ctx
        PROVE  /\ kind \notin {"fast", "serial"}
               /\ kind = "concurrent" => errs # "nil"
               /\ kind = "switch" => errs # "nil" \/ l \in over
               /\ kind = "exhaust" => errs # "nil"
    <3>1. g[l].pc \in {"user", "ctx"}
      BY <2>2, <2>3
    <3> QED BY <1>1, <2>3, <3>1 DEF SubFlow, UndoneInv
  <2>4. ASSUME kind = "switch"
        PROVE  cur' = next' - 1 /\ over' \subseteq 1..NItems /\ (\A i \in over' : i < cur') /\ over \subseteq over'
    <3>1. cur = next - 1 /\ over \subseteq 1..NItems /\ \A i \in over : i < cur
      BY <1>1, <2>4 DEF SubFlow, UndoneInv
    <3>2. cur \in 0..NItems
      BY <1>2, <3>1
    <3>3. ASSUME NEW i \in over' PROVE i \in 1..NItems /\ i < cur'
      <4>1. cur' = cur + 1
        BY <1>1, <1>2, <2>4, <3>1
      <4>2. CASE i \in over
        BY <3>1, <3>2, <4>1, <4>2
      <4>3. CASE i = cur /\ i # 0
        BY <3>2, <4>1, <4>3
      <4> QED BY <1>1, <2>4, <3>3, <4>2, <4>3
    <3>4. cur' = next' - 1
      BY <1>1, <1>2, <2>4
    <3> QED BY <1>1, <2>4, <3>3, <3>4
  <2> QED BY <1>1, <1>4, <2>1, <2>3, <2>4 DEF UndoneInv
<1>11. EndInv'
  <2>1. ret = "run"
    BY <1>1 DEF SubInv, KeptInv
  <2> QED BY <1>1, <2>1 DEF EndInv
<1> QED BY <1>7, <1>8, <1>9, <1>10, <1>11 DEF SubFlow

\* The consumer's steps, the caller's, and none.
LEMMA FlowQuiet ==
  ASSUME SubFlow, UNCHANGED <<kind, next, disp, batch, g, cur, over, inner, errs, line, dr, ret, sent>>,
         ctx \in BOOLEAN, ctx => ctx', consumer # "reading" => consumer' # "reading"
  PROVE  SubFlow'
<1>1. OutputInv'
  BY DEF SubFlow, OutputInv, SentOf, SentBy
<1>2. SerialInv' /\ LineInv'
  BY DEF SubFlow, SerialInv, LineInv
<1>3. UndoneInv'
  BY DEF SubFlow, UndoneInv
<1>4. EndInv'
  BY DEF SubFlow, EndInv, SentBy
<1> QED BY <1>1, <1>2, <1>3, <1>4 DEF SubFlow

LEMMA FlowStop ==
  ASSUME SubInv, SubInv', SubFlow, S!Stop
  PROVE  SubFlow'
<1>1. /\ disp.pc \in {"recv", "sem"} /\ UNCHANGED <<kind, ctx, consumer, sent, next, batch, g, cur, line, dr, ret>>
      /\ NItems \in Nat /\ next \in 1..(NItems + 1)
  BY SubNumbers DEF S!Stop, S!dispRest
<1>2. disp.why = "none" /\ ret = "run" /\ (errs = "nil" \/ errs = "user" \/ kind = "concurrent")
  BY <1>1 DEF SubInv, SubType, KeptInv, WhyInv
<1>3. PICK why : /\ disp' = [pc |-> "wait", why |-> why]
                 /\ \/ why = "closed" /\ batch = << >> /\ next > NItems /\ UNCHANGED <<inner, over, errs>>
                    \/ why \in {"ctx", "drain"} /\ errs' = errs /\ (kind = "switch" => over' = over \cup ({cur} \ {0}))
                    \/ why = "user" /\ kind \in {"switch", "exhaust"} /\ (kind = "switch" => over' = over \cup ({cur} \ {0}))
                    \/ why = "inner" /\ kind # "switch" /\ (inner \/ ctx) /\ UNCHANGED <<inner, over, errs>>
  <2>1. CASE S!Ends("closed") /\ batch = << >> /\ next > NItems /\ UNCHANGED <<inner, over, errs>>
    BY <2>1 DEF S!Ends
  <2>2. ASSUME NEW w \in {"ctx", "drain"}, S!Ends(w), errs' = errs, over' = IF S!Is("switch") THEN over \cup ({cur} \ {0}) ELSE over
        PROVE  disp' = [pc |-> "wait", why |-> w] /\ (kind = "switch" => over' = over \cup ({cur} \ {0}))
    BY <2>2 DEF S!Ends, S!Is
  <2>3. CASE kind \in {"switch", "exhaust"} /\ errs # "nil" /\ S!Ends(errs) /\ over' = IF S!Is("switch") THEN over \cup ({cur} \ {0}) ELSE over
    <3>1. errs = "user"
      BY <1>2, <2>3
    <3> QED BY <2>3, <3>1 DEF S!Ends, S!Is
  <2>4. CASE kind \in {"concurrent", "ordered"} /\ (inner \/ ctx) /\ S!Ends("inner") /\ UNCHANGED <<inner, over, errs>>
    BY <2>4 DEF S!Ends
  <2> QED BY <2>1, <2>2, <2>3, <2>4 DEF S!Stop
<1>4. disp'.pc = "wait" /\ disp'.why = why
  BY <1>3
<1>5. OutputInv'
  <2>1. \A l \in 1..NItems : g'[l] = g[l]
    BY <1>1
  <2> QED BY <1>1, <2>1, OutputSame DEF SubFlow
<1>6. SerialInv' /\ LineInv'
  BY <1>1, <1>4 DEF SubFlow, SerialInv, LineInv
<1>7. UndoneInv'
  <2>1. kind # "exhaust" => \A i \in 1..NItems : g[i].pc = "none" => i >= next - Len(batch)
    BY DEF SubFlow, UndoneInv
  <2>2. why = "closed" => next = NItems + 1 /\ batch = << >>
    BY <1>1, <1>3
  <2>3. why = "inner" => inner' \/ ctx
    BY <1>3
  <2>4. ASSUME NEW i \in 1..NItems, g[i].pc \in {"user", "ctx"}, ~ctx
        PROVE  /\ kind \notin {"fast", "serial"}
               /\ kind = "concurrent" => errs' # "nil"
               /\ kind = "switch" => errs' # "nil" \/ why = "user" \/ i \in over'
               /\ kind = "exhaust" => errs' # "nil" \/ why = "user"
    <3>1. /\ kind \notin {"fast", "serial"}
          /\ kind = "concurrent" => errs # "nil"
          /\ kind = "switch" => errs # "nil" \/ i \in over
          /\ kind = "exhaust" => errs # "nil"
      BY <1>2, <2>4 DEF SubFlow, UndoneInv
    <3> QED BY <1>3, <3>1
  <2>5. ASSUME kind = "switch"
        PROVE  cur = next - 1 /\ over' \subseteq 1..NItems /\ \A i \in over' : i < cur \/ why \in {"ctx", "drain", "user"}
    <3>1. cur = next - 1 /\ over \subseteq 1..NItems /\ \A i \in over : i < cur
      BY <1>2, <2>5 DEF SubFlow, UndoneInv
    <3>2. cur \in 0..NItems
      BY <1>1, <3>1
    <3>3. over' \subseteq 1..NItems
      <4>1. over' = over \/ over' = over \cup ({cur} \ {0})
        BY <1>3, <2>5
      <4>2. cur = 0 \/ cur \in 1..NItems
        BY <3>2
      <4> QED BY <3>1, <4>1, <4>2
    <3>4. why \in {"closed", "inner"} => over' = over
      BY <1>3
    <3>5. why \in {"closed", "inner", "ctx", "drain", "user"}
      BY <1>3
    <3> QED BY <3>1, <3>3, <3>4, <3>5
  <2> QED BY <1>1, <1>4, <2>1, <2>2, <2>3, <2>4, <2>5 DEF UndoneInv
<1>8. EndInv'
  BY <1>1, <1>2 DEF EndInv
<1> QED BY <1>5, <1>6, <1>7, <1>8 DEF SubFlow

\* What is left when a stage returns of its own accord.
LEMMA FlowReturn ==
  ASSUME SubInv, SubInv', SubFlow, S!Return
  PROVE  SubFlow'
<1>1. /\ disp.pc = "wait" /\ ret = "run" /\ dr.pc = "end" /\ NItems \in Nat /\ Len(batch) \in Nat
      /\ UNCHANGED <<kind, ctx, consumer, sent, next, disp, batch, g, cur, over, inner, errs, line, dr>>
  BY SubNumbers DEF S!Return, S!dispRest
<1>2. \A i \in 1..NItems : g[i].pc \notin {"call", "wait", "send"}
  BY DEF S!Return, S!Live, S!Items
<1>3. ret' = CASE kind = "switch" -> (IF disp.why = "user" THEN "user" ELSE errs)
               [] kind = "exhaust" -> (IF disp.why \in {"ctx", "user"} THEN disp.why
                                       ELSE IF disp.why = "closed" THEN errs ELSE "nil")
               [] kind = "concurrent" -> errs
               [] kind = "ordered" -> dr.err
               [] OTHER -> (IF disp.why \in {"ctx", "user"} THEN disp.why ELSE "nil")
  BY DEF S!Return, S!Is
<1>4. OutputInv'
  BY <1>1, OutputSame DEF SubFlow
<1>5. SerialInv' /\ LineInv' /\ UndoneInv'
  BY <1>1 DEF SubFlow, SerialInv, LineInv, UndoneInv
<1>6. EndInv'
  <2> SUFFICES ASSUME ret' = "nil", ~ctx, consumer = "reading", NEW i \in 1..NItems
               PROVE  \/ g[i].pc = "done" /\ SentBy(i) = g[i].n
                      \/ g[i].pc = "skip"
                      \/ kind = "switch" /\ i < NItems
                      \/ kind = "exhaust" /\ g[i].pc = "none"
    BY <1>1 DEF EndInv, SentBy
  <2>1. disp.why \in {"closed", "inner", "user"}
    BY <1>1 DEF SubInv, SubType, WhyInv
  <2>2. ~inner \/ kind \notin {"concurrent", "ordered"}
    <3>1. kind = "concurrent" => errs = "nil"
      BY <1>3
    <3>2. kind = "ordered" => dr.err = "nil"
      BY <1>3
    <3> QED BY <3>1, <3>2 DEF SubInv, WhyInv, DrainerInv
  <2>3. disp.why # "inner"
    BY <2>2 DEF SubInv, WhyInv, SubFlow, UndoneInv, Parallel
  <2>4. kind = "ordered" => dr.err = "nil" /\ line = << >> /\ \A l \in 1..NItems : g[l].pc \in {"none", "done", "skip"}
    <3> SUFFICES ASSUME kind = "ordered" PROVE dr.err = "nil" /\ line = << >> /\ \A l \in 1..NItems : g[l].pc \in {"none", "done", "skip"}
      OBVIOUS
    <3>1. dr.err = "nil"
      BY <1>3
    <3>2. line = << >> /\ Len(line) = 0
      BY <1>1, <3>1 DEF SubInv, DrainerInv
    <3> QED BY <1>1, <3>1, <3>2 DEF SubInv, DrainerInv
  <2>5. disp.why # "user"
    <3> SUFFICES ASSUME disp.why = "user" PROVE FALSE
      OBVIOUS
    <3>1. PICK l \in 1..NItems : g[l].pc = "user"
      BY DEF SubInv, WhyInv
    <3>2. kind = "concurrent"
      BY <1>3, <2>4, <3>1, KindKnown
    <3>3. errs = "nil"
      BY <1>3, <3>2
    <3> QED BY <3>1, <3>2, <3>3 DEF SubFlow, UndoneInv
  <2>6. disp.why = "closed"
    BY <2>1, <2>3, <2>5
  <2>7. next = NItems + 1 /\ batch = << >> /\ next - Len(batch) = NItems + 1
    BY <1>1, <2>6 DEF SubFlow, UndoneInv
  <2>8. kind # "exhaust" => g[i].pc # "none"
    BY <1>1, <2>7 DEF SubFlow, UndoneInv
  <2>9. kind \in {"concurrent", "switch", "exhaust"} => errs = "nil"
    BY <1>3, <2>6
  <2>10. g[i].pc \in {"user", "ctx"} => kind = "switch" /\ i < NItems
    <3> SUFFICES ASSUME g[i].pc \in {"user", "ctx"} PROVE kind = "switch" /\ i < NItems
      OBVIOUS
    <3>1. kind = "switch" /\ i \in over
      BY <2>4, <2>6, <2>9, KindKnown DEF SubFlow, UndoneInv
    <3>2. i < cur /\ cur = next - 1
      BY <2>6, <3>1 DEF SubFlow, UndoneInv
    <3> QED BY <1>1, <2>7, <3>1, <3>2
  <2>11. g[i].pc = "done" => SentBy(i) = g[i].n
    <3>1. CASE kind = "ordered"
      <4>1. dr.err = "nil" /\ dr.pc = "end" /\ Len(line) = 0
        BY <1>1, <2>4, <3>1
      <4>2. g[i].pc = "done" => g[i].j = g[i].n
        BY <3>1, <4>1 DEF SubFlow, LineInv
      <4> QED BY <3>1, <4>2 DEF SentBy
    <3>2. CASE kind # "ordered"
      BY <3>2 DEF SentBy
    <3> QED BY <3>1, <3>2
  <2>12. g[i].pc \in {"none", "done", "skip", "user", "ctx"}
    BY <1>2 DEF SubInv, SubType, Calls
  <2> QED BY <2>8, <2>10, <2>11, <2>12
<1> QED BY <1>4, <1>5, <1>6 DEF SubFlow

\* A goroutine's step.
LEMMA FlowWork ==
  ASSUME SubInv, SubInv', SubFlow, NEW i \in S!Items, S!Work(i) \/ S!Fail(i)
  PROVE  SubFlow'
<1>1. /\ i \in 1..NItems /\ g[i].pc \in {"call", "wait", "send"} /\ \A l \in 1..NItems \ {i} : g'[l] = g[l]
      /\ UNCHANGED <<kind, next, batch, cur, over, line, dr, consumer, ctx, ret>>
      /\ Succeeds(i) \/ GoesOn(i) \/ Stops(i) \/ SendsOne(i)
  BY WorkDetail DEF Working
<1>2. /\ ret = "run" /\ NItems \in Nat
      /\ kind = "ordered" => dr.err # "nil" \/ (dr.pc = "get" /\ dr.item = i) \/ (\E p \in 1..Len(line) : line[p] = i)
  BY <1>1, WorkingFacts, SubNumbers
<1>3. /\ g[i].j <= g[i].n /\ g[i].j \in Nat /\ g[i].n \in Nat
      /\ g[i].pc \in {"call", "wait"} => g[i].j = 0
      /\ g[i].pc = "send" => g[i].j < g[i].n /\ kind # "ordered"
  BY <1>1 DEF SubInv, SubType, Calls, SubFlow, OutputInv
<1>4. kind \in {"fast", "serial", "exhaust"} => \A p \in 1..Len(sent) : sent[p][1] <= i
  BY <1>1 DEF SubFlow, SerialInv
<1>5. OutputInv'
  <2>1. CASE Succeeds(i)
    <3>1. \A l \in 1..NItems : g'[l] = g[l] \/
           /\ g[l].pc \in {"none", "call", "wait", "send"} /\ g'[l].j = g[l].j /\ g[l].j <= g'[l].n
           /\ g'[l].pc \in {"none", "call", "wait", "skip"} => g[l].pc # "send"
           /\ g'[l].pc = "send" => g[l].j < g'[l].n /\ kind # "ordered"
           /\ g'[l].pc = "done" => kind = "ordered" \/ g'[l].n = g[l].j
      BY <1>1, <1>3, <2>1 DEF Succeeds
    <3> QED BY <1>1, <2>1, <3>1, OutputSame DEF SubFlow, Succeeds
  <2>2. CASE GoesOn(i)
    <3>1. \A l \in 1..NItems : g'[l] = g[l] \/
           /\ g[l].pc \in {"none", "call", "wait", "send"} /\ g'[l].j = g[l].j /\ g[l].j <= g'[l].n
           /\ g'[l].pc \in {"none", "call", "wait", "skip"} => g[l].pc # "send"
           /\ g'[l].pc = "send" => g[l].j < g'[l].n /\ kind # "ordered"
           /\ g'[l].pc = "done" => kind = "ordered" \/ g'[l].n = g[l].j
      BY <1>1, <1>3, <2>2 DEF GoesOn
    <3> QED BY <1>1, <2>2, <3>1, OutputSame DEF SubFlow, GoesOn
  <2>3. CASE Stops(i)
    <3>1. \A l \in 1..NItems : g'[l] = g[l] \/
           /\ g[l].pc \in {"none", "call", "wait", "send"} /\ g'[l].j = g[l].j /\ g[l].j <= g'[l].n
           /\ g'[l].pc \in {"none", "call", "wait", "skip"} => g[l].pc # "send"
           /\ g'[l].pc = "send" => g[l].j < g'[l].n /\ kind # "ordered"
           /\ g'[l].pc = "done" => kind = "ordered" \/ g'[l].n = g[l].j
      BY <1>1, <1>3, <2>3 DEF Stops
    <3> QED BY <1>1, <2>3, <3>1, OutputSame DEF SubFlow, Stops
  <2>4. CASE SendsOne(i)
    <3>1. PICK m \in Nat : m = g[i].j
      BY <1>3
    <3>2. m = SentBy(i) /\ kind # "ordered" /\ m < g[i].n
      BY <1>3, <2>4, <3>1 DEF SendsOne, SentBy
    <3>3. /\ sent' = Append(sent, <<i, m + 1>>) /\ g'[i].n = g[i].n
          /\ IF m + 1 = g[i].n THEN g'[i].pc = "done" /\ g'[i].j = m ELSE g'[i].pc = "send" /\ g'[i].j = m + 1
      BY <2>4, <3>1 DEF SendsOne
    <3>4. SentBy(i)' = m + 1
      BY <1>1, <3>2, <3>3 DEF SentBy
    <3>5. /\ g'[i].j <= g'[i].n /\ g'[i].pc \in {"send", "done"}
          /\ g'[i].pc = "send" => g'[i].j < g'[i].n /\ kind # "ordered"
      BY <1>3, <3>2, <3>3
    <3>6. kind \notin {"concurrent", "switch"} => \A p \in 1..Len(sent) : sent[p][1] <= i
      BY <1>4, <3>2, KindKnown
    <3> QED BY <1>1, <3>2, <3>3, <3>4, <3>5, <3>6, OutputMore DEF SubFlow
  <2> QED BY <1>1, <2>1, <2>2, <2>3, <2>4
<1>6. ASSUME NEW p \in 1..Len(sent')
      PROVE  (p \in 1..Len(sent) /\ sent'[p] = sent[p]) \/ (kind # "ordered" /\ sent'[p][1] = i)
  <2>1. CASE sent' = sent
    BY <1>6, <2>1
  <2>2. CASE SendsOne(i)
    <3>1. PICK m \in Nat : m = g[i].j
      BY <1>3
    <3>2. sent' = Append(sent, <<i, m + 1>>) /\ kind # "ordered"
      BY <1>3, <2>2, <3>1 DEF SendsOne
    <3>3. sent \in Seq((1..NItems) \X Nat) /\ <<i, m + 1>> \in (1..NItems) \X Nat
      BY <1>1, <3>1 DEF SubFlow, OutputInv
    <3>4. Len(sent') = Len(sent) + 1 /\ (\A q \in 1..Len(sent) : sent'[q] = sent[q]) /\ sent'[Len(sent) + 1] = <<i, m + 1>>
      BY <3>2, <3>3, AppendFacts
    <3>5. PICK n \in Nat : n = Len(sent) /\ Len(sent') = n + 1
      BY <3>3, <3>4, LenProperties
    <3>6. p \in 1..n \/ p = n + 1
      BY <1>6, <3>5
    <3>7. p \in 1..n => p \in 1..Len(sent) /\ sent'[p] = sent[p]
      BY <3>4, <3>5, Zenon
    <3>8. p = n + 1 => sent'[p] = <<i, m + 1>>
      BY <3>4, <3>5, Zenon
    <3>9. p = n + 1 => sent'[p][1] = i
      BY <3>8
    <3> QED BY <3>2, <3>6, <3>7, <3>9
  <2> QED BY <1>1, <2>1, <2>2 DEF Succeeds, GoesOn, Stops
<1>7. SerialInv'
  <2>1. (disp'.pc = "sem" => kind \in {"concurrent", "ordered"}) /\ (kind # "fast" => Len(batch') <= 1)
    <3>1. disp' = disp \/ disp'.pc = "wait"
      BY <1>1 DEF Succeeds, GoesOn, Stops, SendsOne, Reported
    <3> QED BY <1>1, <3>1 DEF SubFlow, SerialInv
  <2>2. ASSUME kind \in {"fast", "serial", "exhaust"}, NEW l \in 1..NItems, g'[l].pc \in {"call", "wait", "send"} PROVE l = i
    BY <1>1, <2>2 DEF SubFlow, SerialInv
  <2>3. ASSUME kind \in {"fast", "serial", "exhaust"}, NEW p \in 1..Len(sent') PROVE sent'[p][1] <= i
    <3>1. i <= i
      BY <1>1
    <3> QED BY <1>4, <1>6, <2>3, <3>1
  <2> QED BY <1>1, <2>1, <2>2, <2>3 DEF SerialInv
<1>8. LineInv'
  <2> SUFFICES ASSUME kind = "ordered" PROVE LineInv'
    BY <1>1 DEF LineInv
  <2>1. ~SendsOne(i) /\ sent' = sent /\ g'[i].j = g[i].j
    BY <1>1, <1>3 DEF Succeeds, GoesOn, Stops, SendsOne
  <2>2. /\ dr.item < next - Len(batch)
        /\ \A p \in 1..Len(sent) : sent[p][1] <= dr.item
        /\ \A p \in 1..Len(line) : dr.item < line[p] /\ line[p] < next - Len(batch)
        /\ \A p, q \in 1..Len(line) : p < q => line[p] < line[q]
        /\ dr.pc = "get" => g[dr.item].j = 0
        /\ dr.pc = "send" => g[dr.item].pc = "done" /\ g[dr.item].j < g[dr.item].n
        /\ \A l \in 1..NItems : g[l].pc = "done" => g[l].j = g[l].n \/ dr.err # "nil"
             \/ (dr.pc \in {"get", "send"} /\ dr.item = l) \/ (\E p \in 1..Len(line) : line[p] = l)
    BY DEF SubFlow, LineInv
  <2>3. dr.pc \in {"get", "send"} => dr.item \in 1..NItems
    BY DEF SubInv, SubType
  <2>4. dr.pc = "get" => g'[dr.item].j = 0
    BY <1>1, <2>1, <2>2, <2>3
  <2>5. dr.pc = "send" => g'[dr.item].pc = "done" /\ g'[dr.item].j < g'[dr.item].n
    BY <1>1, <2>2, <2>3
  <2>6. ASSUME NEW l \in 1..NItems, g'[l].pc = "done"
        PROVE  g'[l].j = g'[l].n \/ dr.err # "nil"
             \/ (dr.pc \in {"get", "send"} /\ dr.item = l) \/ (\E p \in 1..Len(line) : line[p] = l)
    BY <1>1, <1>2, <2>2, <2>6
  <2> QED BY <1>1, <2>1, <2>2, <2>4, <2>5, <2>6 DEF LineInv
<1>9. UndoneInv'
  <2>1. ASSUME kind # "exhaust", NEW l \in 1..NItems, g'[l].pc = "none" PROVE l >= next - Len(batch)
    <3>1. l # i
      BY <1>1, <2>1 DEF Succeeds, GoesOn, Stops, SendsOne
    <3> QED BY <1>1, <2>1, <3>1 DEF SubFlow, UndoneInv
  <2>2. (disp' = disp \/ (kind \in {"fast", "serial"} /\ disp'.why \in {"user", "ctx"})) /\ (inner => inner') /\ (errs # "nil" => errs' # "nil")
    BY <1>1 DEF Succeeds, GoesOn, Stops, SendsOne, Reported
  <2>3. ASSUME g'[i].pc \in {"user", "ctx"}, ~ctx
        PROVE  /\ kind \in {"fast", "serial"} => disp'.why \in {"user", "ctx"}
               /\ kind = "concurrent" => errs' # "nil"
               /\ kind = "switch" => errs' # "nil" \/ i \in over
               /\ kind = "exhaust" => errs' # "nil"
    <3>1. Reported(i, g'[i].pc)
      BY <1>1, <2>3 DEF Succeeds, GoesOn, Stops, SendsOne
    <3> QED BY <2>3, <3>1 DEF Reported, S!Done, S!Is
  <2>4. ASSUME NEW l \in 1..NItems, l # i, g'[l].pc \in {"user", "ctx"}, ~ctx
        PROVE  /\ kind \in {"fast", "serial"} => disp'.why \in {"user", "ctx"}
               /\ kind = "concurrent" => errs' # "nil"
               /\ kind = "switch" => errs' # "nil" \/ disp'.why = "user" \/ l \in over
               /\ kind = "exhaust" => errs' # "nil" \/ disp'.why = "user"
    <3>1. g[l].pc \in {"user", "ctx"}
      BY <1>1, <2>4
    <3> QED BY <2>2, <2>4, <3>1 DEF SubFlow, UndoneInv
  <2>5. disp'.why = "closed" => next = NItems + 1 /\ batch = << >>
    BY <2>2 DEF SubFlow, UndoneInv
  <2>6. disp'.why = "inner" => inner' \/ ctx
    BY <2>2 DEF SubFlow, UndoneInv
  <2>7. kind = "switch" => cur = next - 1 /\ over \subseteq 1..NItems /\ \A l \in over : l < cur \/ disp'.why \in {"ctx", "drain", "user"}
    BY <2>2 DEF SubFlow, UndoneInv
  <2> QED BY <1>1, <2>1, <2>3, <2>4, <2>5, <2>6, <2>7 DEF UndoneInv
<1>10. EndInv'
  BY <1>1, <1>2 DEF EndInv
<1> QED BY <1>5, <1>7, <1>8, <1>9, <1>10 DEF SubFlow

\* The drainer of an ordered stage.
LEMMA FlowDrainer ==
  ASSUME SubInv, SubInv', SubFlow, S!Drainer
  PROVE  SubFlow'
<1>1. /\ UNCHANGED <<kind, next, disp, batch, cur, over, errs, consumer, ctx, ret>> /\ dr.pc \in {"take", "get", "send"}
  BY DEF S!Drainer, S!DrainerTakes, S!DrainerGets, S!DrainerSends, S!drainRest
<1>2. /\ kind = "ordered" /\ dr.err = "nil" /\ ret = "run"
      /\ dr \in [pc : {"take", "get", "send", "end"}, item : 0..NItems, err : {"nil", "user", "ctx"}]
      /\ dr.pc \in {"get", "send"} => dr.item \in 1..NItems
  BY <1>1 DEF SubInv, SubType, DrainerInv, KeptInv
<1>3. /\ NItems \in Nat /\ next \in 1..(NItems + 1) /\ Len(batch) \in Nat /\ Len(line) \in Nat
      /\ \A p \in 1..Len(line) : line[p] \in 1..NItems
  BY SubNumbers
<1>4. /\ dr.item < next - Len(batch)
      /\ \A p \in 1..Len(sent) : sent[p][1] <= dr.item
      /\ \A p \in 1..Len(line) : dr.item < line[p] /\ line[p] < next - Len(batch)
      /\ \A p, q \in 1..Len(line) : p < q => line[p] < line[q]
      /\ dr.pc = "get" => g[dr.item].j = 0
      /\ dr.pc = "send" => g[dr.item].pc = "done" /\ g[dr.item].j < g[dr.item].n
      /\ \A i \in 1..NItems : g[i].pc = "done" => g[i].j = g[i].n
           \/ (dr.pc \in {"get", "send"} /\ dr.item = i) \/ (\E p \in 1..Len(line) : line[p] = i)
  BY <1>2 DEF SubFlow, LineInv
<1>5. EndInv'
  BY <1>1, <1>2 DEF EndInv
<1>6. ASSUME inner => inner', \A l \in 1..NItems : g'[l].pc = g[l].pc
      PROVE  UndoneInv'
  BY <1>1, <1>2, <1>6 DEF SubFlow, UndoneInv
<1>7. ASSUME UNCHANGED <<g, sent>>, inner => inner'
      PROVE  OutputInv' /\ SerialInv' /\ UndoneInv' /\ EndInv'
  <2>1. OutputInv'
    BY <1>1, <1>7, OutputSame DEF SubFlow
  <2>2. SerialInv'
    BY <1>1, <1>2, <1>7 DEF SubFlow, SerialInv
  <2> QED BY <1>5, <1>6, <1>7, <2>1, <2>2
<1>8. CASE S!DrainerTakes
  <2>1. UNCHANGED <<g, inner, sent>> /\ dr.pc = "take"
    BY <1>8 DEF S!DrainerTakes
  <2>2. CASE line # << >> /\ line' = Tail(line) /\ dr' = [dr EXCEPT !.pc = "get", !.item = Head(line)]
    <3>1. PICK i : i = line[1]
      OBVIOUS
    <3>2. /\ Len(line) > 0 /\ Len(line') = Len(line) - 1
          /\ \A p \in 1..Len(line') : line'[p] = line[p + 1]
      BY <2>2 DEF SubInv, SubType
    <3>3. i \in 1..NItems /\ dr.item < i /\ i < next - Len(batch)
      BY <1>3, <1>4, <3>1, <3>2
    <3>4. dr'.pc = "get" /\ dr'.item = i /\ dr'.err = "nil"
      BY <1>2, <2>2, <3>1
    <3>5. ASSUME NEW p \in 1..Len(sent) PROVE sent[p][1] < i
      <4>1. sent[p][1] \in 1..NItems /\ sent[p][1] <= dr.item
        BY <1>4, SentStarted DEF SubFlow
      <4> QED BY <1>2, <3>3, <4>1
    <3>6. g[i].j = 0
      <4>1. PICK n : n = g[i].j /\ n = SentBy(i)
        BY <1>2 DEF SentBy
      <4>2. SentOf(i, n)
        BY <3>3, <4>1 DEF SubFlow, OutputInv
      <4>3. n \in Nat
        <5>1. g[i] \in Calls
          BY <3>3 DEF SubInv, SubType
        <5>2. g[i].j \in Nat
          BY <5>1 DEF Calls
        <5> QED BY <4>1, <5>2
      <4>4. ASSUME n # 0 PROVE FALSE
        <5>1. 1 \in Nat /\ 1 <= 1 /\ 1 <= n
          BY <4>3, <4>4
        <5>2. PICK p \in 1..Len(sent) : sent[p] = <<i, 1>>
          BY <4>2, <5>1 DEF SentOf
        <5>3. sent[p][1] = i
          BY <5>2
        <5>4. i < i
          BY <3>5, <5>3
        <5> QED BY <3>3, <5>4
      <4> QED BY <4>1, <4>4
    <3>7. ASSUME NEW p \in 1..Len(line')
          PROVE  p + 1 \in 1..Len(line) /\ line'[p] = line[p + 1] /\ i < line'[p] /\ line'[p] < next - Len(batch)
      <4>1. p + 1 \in 1..Len(line) /\ 1 \in 1..Len(line) /\ 1 < p + 1
        BY <1>3, <3>2
      <4>2. line'[p] = line[p + 1]
        BY <3>2
      <4> QED BY <1>4, <3>1, <4>1, <4>2
    <3>8. ASSUME NEW p \in 1..Len(line'), NEW q \in 1..Len(line'), p < q PROVE line'[p] < line'[q]
      <4>1. p + 1 < q + 1
        BY <3>8
      <4> QED BY <1>4, <3>7, <4>1
    <3>9. ASSUME NEW l \in 1..NItems, g[l].pc = "done"
          PROVE  g[l].j = g[l].n \/ l = i \/ (\E p \in 1..Len(line') : line'[p] = l)
      <4>1. ASSUME NEW p \in 1..Len(line), line[p] = l, p # 1 PROVE \E q \in 1..Len(line') : line'[q] = l
        <5>1. p - 1 \in 1..Len(line') /\ (p - 1) + 1 = p
          BY <1>3, <3>2, <4>1
        <5>2. line'[p - 1] = l
          BY <3>2, <4>1, <5>1
        <5> QED BY <5>1, <5>2
      <4> QED BY <1>4, <2>1, <3>1, <3>9, <4>1
    <3>10. \A p \in 1..Len(sent) : sent[p][1] <= i
      <4>1. ASSUME NEW p \in 1..Len(sent) PROVE sent[p][1] <= i
        <5>1. sent[p][1] \in 1..NItems
          BY SentStarted DEF SubFlow
        <5> QED BY <3>3, <3>5, <5>1
      <4> QED BY <4>1
    <3>11. LineInv'
      BY <1>1, <2>1, <3>3, <3>4, <3>6, <3>7, <3>8, <3>9, <3>10 DEF LineInv
    <3> QED BY <1>7, <2>1, <3>11 DEF SubFlow
  <2>3. CASE line = << >> /\ dr' = [dr EXCEPT !.pc = "end"] /\ line' = line
    <3>1. dr'.pc = "end" /\ dr'.item = dr.item /\ dr'.err = "nil"
      BY <1>2, <2>3
    <3>2. LineInv'
      BY <1>1, <1>4, <2>1, <2>3, <3>1 DEF LineInv
    <3> QED BY <1>7, <2>1, <3>2 DEF SubFlow
  <2> QED BY <1>8, <2>2, <2>3 DEF S!DrainerTakes
<1>9. CASE S!DrainerGets
  <2>1. UNCHANGED <<g, line, sent>> /\ dr.pc = "get" /\ g[dr.item].j = 0 /\ dr.item \in 1..NItems
    BY <1>2, <1>4, <1>9 DEF S!DrainerGets
  <2>2. PICK r : r = g[dr.item]
    OBVIOUS
  <2>3. r.n \in Nat /\ r.j = 0
    BY <2>1, <2>2 DEF SubInv, SubType, Calls
  <2>4. CASE r.pc = "done" /\ r.n > 0 /\ dr' = [dr EXCEPT !.pc = "send"] /\ inner' = inner
    <3>1. dr'.pc = "send" /\ dr'.item = dr.item /\ dr'.err = "nil"
      BY <1>2, <2>4
    <3>2. g[dr.item].pc = "done" /\ g[dr.item].j < g[dr.item].n
      BY <2>2, <2>3, <2>4
    <3>3. LineInv'
      BY <1>1, <1>4, <2>1, <3>1, <3>2 DEF LineInv
    <3> QED BY <1>7, <2>1, <2>4, <3>3 DEF SubFlow
  <2>5. CASE ((r.pc = "done" /\ ~(r.n > 0)) \/ r.pc = "skip") /\ dr' = [dr EXCEPT !.pc = "take"] /\ inner' = inner
    <3>1. dr'.pc = "take" /\ dr'.item = dr.item /\ dr'.err = "nil"
      BY <1>2, <2>5
    <3>2. r.pc = "done" => r.j = r.n
      BY <2>3, <2>5
    <3>3. g[dr.item].pc = "done" => g[dr.item].j = g[dr.item].n
      BY <2>2, <3>2
    <3>4. LineInv'
      BY <1>1, <1>4, <2>1, <3>1, <3>3 DEF LineInv
    <3> QED BY <1>7, <2>1, <2>5, <3>4 DEF SubFlow
  <2>6. CASE r.pc \in {"user", "ctx"} /\ dr' = [dr EXCEPT !.pc = "end", !.err = r.pc] /\ inner' = TRUE
    <3>1. dr'.pc = "end" /\ dr'.item = dr.item /\ dr'.err # "nil"
      BY <1>2, <2>6
    <3>2. LineInv'
      BY <1>1, <1>4, <2>1, <3>1 DEF LineInv
    <3> QED BY <1>7, <2>1, <2>6, <3>2 DEF SubFlow
  <2>7. /\ r.pc \in {"done", "skip", "user", "ctx"}
        /\ r.pc = "done" => dr' = [dr EXCEPT !.pc = IF r.n > 0 THEN "send" ELSE "take"] /\ inner' = inner
        /\ r.pc = "skip" => dr' = [dr EXCEPT !.pc = "take"] /\ inner' = inner
        /\ r.pc \in {"user", "ctx"} => dr' = [dr EXCEPT !.pc = "end", !.err = r.pc] /\ inner' = TRUE
    BY <1>9, <2>2 DEF S!DrainerGets
  <2> QED BY <2>4, <2>5, <2>6, <2>7
<1>10. CASE S!DrainerSends
  <2>1. PICK i \in 1..NItems : i = dr.item
    BY <1>2, <1>10 DEF S!DrainerSends
  <2>2. /\ dr.pc = "send" /\ line' = line /\ g[i].pc = "done" /\ g[i].j < g[i].n /\ g[i].j \in Nat /\ g[i].n \in Nat /\ i < next - Len(batch)
    BY <1>4, <1>10, <2>1 DEF S!DrainerSends, SubInv, SubType, Calls
  <2>3. PICK m \in Nat : m = g[i].j
    BY <2>2
  <2>4. CASE /\ sent' = Append(sent, <<i, m + 1>>) /\ g' = [g EXCEPT ![i].j = @ + 1] /\ inner' = inner
             /\ dr' = [dr EXCEPT !.pc = IF m + 1 = g[i].n THEN "take" ELSE "send"]
    <3>1. g'[i].pc = "done" /\ g'[i].n = g[i].n /\ g'[i].j = m + 1 /\ \A l \in 1..NItems \ {i} : g'[l] = g[l]
      BY <2>2, <2>3, <2>4, RecordFacts DEF SubInv
    <3>2. m = SentBy(i) /\ SentBy(i)' = m + 1
      BY <1>1, <1>2, <2>3, <3>1 DEF SentBy
    <3>3. m + 1 <= g[i].n
      BY <2>2, <2>3
    <3>4. \A p \in 1..Len(sent) : sent[p][1] <= i
      BY <1>4, <2>1
    <3>5. OutputInv'
      BY <1>1, <2>4, <3>1, <3>2, <3>3, <3>4, OutputMore DEF SubFlow
    <3>6. SerialInv'
      BY <1>1, <1>2 DEF SubFlow, SerialInv
    <3>7. \A l \in 1..NItems : g'[l].pc = g[l].pc
      BY <2>2, <3>1
    <3>8. UndoneInv'
      BY <1>6, <2>4, <3>7
    <3>9. ASSUME NEW p \in 1..Len(sent') PROVE sent'[p][1] <= i
      <4>1. sent \in Seq((1..NItems) \X Nat) /\ <<i, m + 1>> \in (1..NItems) \X Nat
        BY DEF SubFlow, OutputInv
      <4>2. Len(sent') = Len(sent) + 1 /\ (\A q \in 1..Len(sent) : sent'[q] = sent[q]) /\ sent'[Len(sent) + 1] = <<i, m + 1>>
        BY <2>4, <4>1, AppendFacts
      <4>3. PICK n \in Nat : n = Len(sent) /\ Len(sent') = n + 1
        BY <4>1, <4>2, LenProperties
      <4>4. p \in 1..n \/ p = n + 1
        BY <3>9, <4>3
      <4>5. p \in 1..n => p \in 1..Len(sent) /\ sent'[p] = sent[p]
        BY <4>2, <4>3, Zenon
      <4>6. p = n + 1 => sent'[p] = <<i, m + 1>>
        BY <4>2, <4>3, Zenon
      <4>7. p = n + 1 => sent'[p][1] = i
        BY <4>6
      <4>8. i <= i
        OBVIOUS
      <4> QED BY <3>4, <4>4, <4>5, <4>7, <4>8
    <3>10. /\ dr'.item = i /\ dr'.err = "nil" /\ dr'.pc \in {"take", "send"}
           /\ dr'.pc = "take" => m + 1 = g[i].n
           /\ dr'.pc = "send" => m + 1 # g[i].n
      <4>1. PICK p \in {"take", "send"} : /\ dr' = [dr EXCEPT !.pc = p]
                                          /\ p = "take" => m + 1 = g[i].n
                                          /\ p = "send" => m + 1 # g[i].n
        BY <2>4
      <4> QED BY <1>2, <2>1, <4>1
    <3>11. dr'.pc = "send" => g'[i].j < g'[i].n
      <4>1. m + 1 # g[i].n => m + 1 < g[i].n
        BY <2>2, <3>3
      <4> QED BY <3>1, <3>10, <4>1
    <3>12. ASSUME NEW l \in 1..NItems, g'[l].pc = "done"
           PROVE  g'[l].j = g'[l].n \/ (dr'.pc = "send" /\ l = i) \/ (\E p \in 1..Len(line) : line[p] = l)
      <4>1. CASE l = i
        BY <3>1, <3>10, <4>1
      <4>2. CASE l # i
        <5>1. g'[l] = g[l]
          BY <3>1, <4>2
        <5> QED BY <1>4, <2>1, <3>12, <4>2, <5>1
      <4> QED BY <4>1, <4>2
    <3>13. LineInv'
      BY <1>1, <1>4, <2>1, <2>2, <3>1, <3>9, <3>10, <3>11, <3>12 DEF LineInv
    <3> QED BY <1>5, <3>5, <3>6, <3>8, <3>13 DEF SubFlow
  <2>5. CASE dr' = [dr EXCEPT !.pc = "end", !.err = "ctx"] /\ inner' = TRUE /\ UNCHANGED <<g, sent>>
    <3>1. dr'.pc = "end" /\ dr'.item = dr.item /\ dr'.err # "nil"
      BY <1>2, <2>5
    <3>2. LineInv'
      BY <1>1, <1>4, <2>2, <2>5, <3>1 DEF LineInv
    <3> QED BY <1>7, <2>5, <3>2 DEF SubFlow
  <2> QED BY <1>10, <2>1, <2>3, <2>4, <2>5 DEF S!DrainerSends
<1> QED BY <1>8, <1>9, <1>10 DEF S!Drainer

LEMMA SubFlowInit == S!Init => SubFlow
<1> SUFFICES ASSUME S!Init PROVE SubFlow
  OBVIOUS
<1>1. /\ next = 1 /\ disp = [pc |-> "recv", why |-> "none"] /\ batch = << >> /\ cur = 0 /\ over = {} /\ ret = "run"
      /\ sent = << >> /\ line = << >> /\ dr.item = 0 /\ dr.pc \in {"take", "end"} /\ NItems \in Nat
      /\ g = [i \in 1..NItems |-> [pc |-> "none", n |-> 0, j |-> 0, tries |-> 0]]
  BY InnerAssumption DEF S!Init, S!Items, InnerAssumption
<1>2. Len(batch) = 0 /\ Len(sent) = 0 /\ Len(line) = 0 /\ sent \in Seq((1..NItems) \X Nat) /\ 1..0 = {}
  BY <1>1
<1>3. \A i \in 1..NItems : g[i].pc = "none" /\ g[i].n = 0 /\ g[i].j = 0
  BY <1>1
<1>4. OutputInv
  <2>1. ASSUME NEW i \in 1..NItems PROVE SentOf(i, SentBy(i))
    <3>1. SentBy(i) = 0
      BY <1>3 DEF SentBy
    <3>2. SentOf(i, 0)
      BY <1>2 DEF SentOf
    <3> QED BY <3>1, <3>2
  <2> QED BY <1>2, <1>3, <2>1 DEF OutputInv
<1>5. SerialInv
  BY <1>1, <1>2, <1>3 DEF SerialInv
<1>6. LineInv
  BY <1>1, <1>2, <1>3 DEF LineInv
<1>7. UndoneInv
  BY <1>1, <1>2, <1>3 DEF UndoneInv
<1>8. EndInv
  BY <1>1 DEF EndInv
<1> QED BY <1>4, <1>5, <1>6, <1>7, <1>8 DEF SubFlow

LEMMA SubFlowStep == SubInv /\ SubFlow /\ [S!Next]_subVars => SubFlow'
<1> SUFFICES ASSUME SubInv, SubFlow, [S!Next]_subVars PROVE SubFlow'
  OBVIOUS
<1>1. SubInv'
  BY SubStep
<1>2. CASE S!Consume \/ S!Leave \/ S!Cancel \/ S!Halted \/ UNCHANGED subVars
  <2>1. UNCHANGED <<kind, next, disp, batch, g, cur, over, inner, errs, line, dr, ret, sent>>
    BY <1>2 DEF S!Consume, S!Leave, S!Cancel, S!Halted, S!envRest, S!stageVars, subVars, S!vars
  <2>2. ctx \in BOOLEAN /\ (ctx => ctx') /\ (consumer # "reading" => consumer' # "reading")
    BY <1>2 DEF S!Consume, S!Leave, S!Cancel, S!Halted, subVars, S!vars, SubInv, SubType
  <2> QED BY <2>1, <2>2, FlowQuiet
<1> QED BY <1>1, <1>2, FlowLoop, FlowStop, FlowReturn, FlowDrainer, FlowWork DEF S!Next, S!Dispatch

\* What has been sent is what SubStreams promises.
LEMMA SubWhole == SubInv /\ SubFlow => S!SubStreamsWhole
<1> SUFFICES ASSUME SubInv, SubFlow PROVE S!SubStreamsWhole
  OBVIOUS
<1>1. sent \in Seq((1..NItems) \X Nat) /\ DOMAIN sent = 1..Len(sent)
  BY LenProperties DEF SubFlow, OutputInv
<1>2. ASSUME NEW p \in DOMAIN sent, NEW q \in DOMAIN sent, p < q
      PROVE  /\ sent[p][1] = sent[q][1] => sent[p][2] < sent[q][2]
             /\ kind \notin {"concurrent", "switch"} => sent[p][1] <= sent[q][1]
  BY <1>1, <1>2 DEF SubFlow, OutputInv
<1>3. ASSUME NEW i \in 1..NItems
      PROVE  /\ SentBy(i) \in 0..g[i].n /\ S!Outputs(i) = 1..SentBy(i)
             /\ g[i].pc = "skip" => SentBy(i) = 0
  <2>1. PICK n : n = SentBy(i)
    OBVIOUS
  <2>2. n \in Nat /\ n <= g[i].n /\ g[i].n \in Nat /\ (g[i].pc = "skip" => n = 0) /\ SentOf(i, n)
    BY <2>1 DEF SentBy, SubFlow, OutputInv, SubInv, SubType, Calls
  <2>3. ASSUME NEW x \in S!Outputs(i) PROVE x \in 1..n
    <3>1. PICK p \in DOMAIN sent : sent[p][1] = i /\ x = sent[p][2]
      BY <2>3 DEF S!Outputs
    <3>2. sent[p] \in (1..NItems) \X Nat
      BY <1>1, ElementOfSeq
    <3>3. x \in Nat /\ sent[p] = <<i, x>>
      BY <3>1, <3>2
    <3>4. 1 <= x /\ x <= n
      BY <1>1, <2>2, <3>3 DEF SentOf
    <3> QED BY <2>2, <3>3, <3>4
  <2>4. ASSUME NEW x \in 1..n PROVE x \in S!Outputs(i)
    <3>1. x \in Nat /\ 1 <= x /\ x <= n
      BY <2>2
    <3>2. PICK p \in 1..Len(sent) : sent[p] = <<i, x>>
      BY <2>2, <3>1 DEF SentOf
    <3>3. p \in DOMAIN sent /\ sent[p][1] = i /\ sent[p][2] = x
      BY <1>1, <3>2
    <3> QED BY <3>3 DEF S!Outputs
  <2>5. n \in 0..g[i].n
    BY <2>2
  <2>6. S!Outputs(i) = 1..n
    BY <2>3, <2>4
  <2> QED BY <2>1, <2>2, <2>5, <2>6
<1>4. \A i \in 1..NItems : \E n \in 0..g[i].n : S!Outputs(i) = 1..n
  BY <1>3
<1>5. ASSUME S!Whole, NEW i \in 1..NItems
      PROVE  \/ g[i].pc = "done" /\ S!Outputs(i) = 1..g[i].n
             \/ g[i].pc = "skip" /\ S!Outputs(i) = {}
             \/ kind = "switch" /\ i < NItems
             \/ kind = "exhaust" /\ g[i].pc = "none"
  <2>1. 1..0 = {}
    OBVIOUS
  <2>2. \/ g[i].pc = "done" /\ SentBy(i) = g[i].n
        \/ g[i].pc = "skip"
        \/ kind = "switch" /\ i < NItems
        \/ kind = "exhaust" /\ g[i].pc = "none"
    BY <1>5 DEF S!Whole, S!Left, SubFlow, EndInv
  <2> QED BY <1>3, <2>1, <2>2
<1> QED BY <1>2, <1>4, <1>5 DEF S!SubStreamsWhole, S!Items, S!Is

-----------------------------------------------------------------------------
WholeInv ==
  /\ which = "sub" => SubFlow
  /\ which = "nested" => NestedFlow
  /\ which = "amb" => AmbFlow

\* What comes out of a stage is the streams it ran: every output of an item of
\* FlatMap, SwitchMap or ExhaustMap goes out once and in order, a stage that
\* ends by itself has sent them all, Concat, Retry and their kin send one
\* pipeline's items after the other's, and Amb those of one factory.
THEOREM OutputsStayWhole == Spec => []OutputsWhole
<1>1. Init => InnerInv /\ WholeInv /\ which \in {"sub", "nested", "amb"}
  BY SubInit, NestedInit, AmbInit, SubFlowInit, NestedFlowInit, AmbFlowInit DEF Init, InnerInv, WholeInv
<1>2. InnerInv /\ WholeInv /\ which \in {"sub", "nested", "amb"} /\ [Next]_vars
      => WholeInv' /\ (which \in {"sub", "nested", "amb"})'
  <2> SUFFICES ASSUME InnerInv, WholeInv, which \in {"sub", "nested", "amb"}, [Next]_vars
               PROVE  WholeInv' /\ which' \in {"sub", "nested", "amb"}
    OBVIOUS
  <2>1. which' = which
    BY DEF Next, vars
  <2>2. CASE which = "sub"
    <3>1. [S!Next]_subVars
      BY <2>2 DEF Next, vars, subVars, S!vars, S!stageVars, onlySub
    <3> QED BY <2>1, <2>2, <3>1, SubFlowStep DEF InnerInv, WholeInv
  <2>3. CASE which = "nested"
    <3>1. [N!Next]_nestedVars
      BY <2>3 DEF Next, vars, nestedVars, N!vars, N!nestedVars, N!outVars, N!opVars, N!envVars, onlyNested
    <3> QED BY <2>1, <2>3, <3>1, NestedFlowStep DEF InnerInv, WholeInv
  <2>4. CASE which = "amb"
    <3>1. [A!Next]_ambVars
      BY <2>4 DEF Next, vars, ambVars, A!vars, onlyAmb
    <3> QED BY <2>1, <2>4, <3>1, AmbFlowStep DEF InnerInv, WholeInv
  <2> QED BY <2>2, <2>3, <2>4
<1>3. InnerInv /\ WholeInv /\ which \in {"sub", "nested", "amb"} => OutputsWhole
  BY SubWhole, NestedWhole, AmbOneWinner DEF InnerInv, WholeInv, OutputsWhole
<1> QED BY <1>1, <1>2, <1>3, InnerInvHolds, PTL DEF Spec
=============================================================================
