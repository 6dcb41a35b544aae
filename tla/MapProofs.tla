------------------------------ MODULE MapProofs -----------------------------
(***************************************************************************)
(* Proofs about ParallelMap for every number of items, every concurrency   *)
(* and every buffer: the semaphores bound the functions that run, and both *)
(* stage functions implement MapSpec.                                      *)
(***************************************************************************)
EXTENDS ParallelMap, FiniteSetTheorems, TLAPS

Asked == ctxDone \/ drained
Settled == Abstract!Settled

-----------------------------------------------------------------------------
(* The unordered stage. *)

\* Items are handed to goroutines in input order, and the dispatcher stops
\* handing them over only at the end of the input or when told to stop.
UHandInv ==
  /\ \A i \in Items : i >= next => w[i] = "none"
  /\ dpc \in {"recv", "sem", "wait", "end"}
  /\ dpc = "recv" => \A i \in Items : i < next => w[i] # "none"
  /\ dpc = "sem" => /\ item \in Items /\ next = item + 1 /\ w[item] = "none"
                    /\ \A i \in Items : i < item => w[i] # "none"
  /\ dpc \in {"wait", "end"} =>
       Asked \/ errCh # "none" \/ \A i \in Items : w[i] # "none"
  /\ dpc = "end" => Unordered!Busy = {}
  /\ dpc = "end" <=> ret # "running"

\* What is settled, and why an item was left unsettled: an error precedes
\* every cancellation, and the first error names its cause.
UErrInv ==
  /\ \A i \in Settled : w[i] = "end"
  /\ \A i \in Items : w[i] = "end" => i \in Settled \/ errCh # "none"
  /\ \A i \in Items : w[i] = "cancel" => errCh # "none"
  /\ inner => drained \/ errCh # "none" \/ dpc = "end"
  /\ errCh = "ctx" => Asked
  /\ errCh = "user" => \E i \in CanFail : i \notin Settled /\ w[i] \in {"cancel", "end"}

UInv == Unordered!TypeOK /\ UHandInv /\ UErrInv

-----------------------------------------------------------------------------
(* The ordered stage. *)

\* The slots hold the items after cur, in input order and without a gap.
SlotInv ==
  /\ dpc \in {"recv", "sem", "slot", "wait", "ret", "end"}
  /\ dpc = "recv" => \A i \in Items : res[i] # "none" <=> i < next
  /\ dpc \in {"sem", "slot"} =>
       /\ item \in Items /\ next = item + 1
       /\ \A i \in Items : res[i] # "none" <=> i < item
  /\ epc # "end" => /\ \A k \in 1..Len(slots) : slots[k] = cur + k
                    /\ \A i \in Items : res[i] # "none" <=> i <= cur + Len(slots)
                    /\ cur + Len(slots) <= NItems
  /\ epc \in {"result", "send"} => cur \in Items
  /\ epc = "send" => res[cur] = "ok"
  /\ slotsClosed <=> dpc \in {"ret", "end"}

\* The drainer has settled the items before the one it holds, and nothing
\* else; what it reports has a cause.
DrainerInv ==
  /\ epc = "slot" => Settled = 1..cur
  /\ epc \in {"result", "send"} => Settled = 1..(cur - 1)
  /\ epc = "end" <=> drainErrs # "none"
  /\ dpc = "end" => drainErrs # "none"
  /\ junk # InOrder!JunkOff => epc = "end"
  /\ dpc = "end" <=> ret # "running"
  /\ drainErrs = "user" => cur \in CanFail /\ Settled = 1..(cur - 1)
  /\ drainErrs = "ctx" => Asked
  /\ drainErrs = "nil" => Asked \/ Settled = Items
  /\ \A i \in Items : res[i] = "user" => i \in CanFail
  /\ epc # "end" => /\ inner => drained
                    /\ \A i \in Items : res[i] = "ctx" => Asked
                    /\ dpc \in {"wait", "ret"} => Asked \/ \A i \in Items : res[i] # "none"

OInv == InOrder!TypeOK /\ SlotInv /\ DrainerInv

-----------------------------------------------------------------------------
\* The tokens of either semaphore.
TokenInv ==
  /\ ~ordered => Cardinality(Unordered!Busy) <= Concurrency
  /\ ordered => Cardinality(InOrder!Running) + (IF dpc = "slot" THEN 1 ELSE 0)
                  <= Concurrency

Inv == ordered \in BOOLEAN /\ (~ordered => UInv) /\ (ordered => OInv) /\ TokenInv

-----------------------------------------------------------------------------
(* Facts both stages use. *)

\* What one more item sent adds to what is settled.
LEMMA SentSettles ==
  ASSUME NEW i \in Items, sent \in Seq(Items), sent' = Append(sent, i),
         skipped' = skipped
  PROVE  Settled' = Settled \cup {i} /\ sent' \in Seq(Items)
<1>1. Len(sent') = Len(sent) + 1 /\ Len(sent) \in Nat
  OBVIOUS
<1>2. \A n \in 1..Len(sent) : sent'[n] = sent[n]
  OBVIOUS
<1>3. sent'[Len(sent) + 1] = i
  OBVIOUS
<1>4. 1..Len(sent') = 1..Len(sent) \cup {Len(sent) + 1}
  BY <1>1
<1>5. {sent'[n] : n \in 1..Len(sent')} = {sent[n] : n \in 1..Len(sent)} \cup {i}
  BY <1>2, <1>3, <1>4
<1> QED BY <1>5 DEF Settled, Abstract!Settled

\* What one more item skipped adds to what is settled.
LEMMA SkipSettles ==
  ASSUME NEW i \in Items, skipped' = skipped \cup {i}, sent' = sent
  PROVE  Settled' = Settled \cup {i}
BY DEF Settled, Abstract!Settled

\* Otherwise nothing is settled.
LEMMA NothingSettled ==
  ASSUME skipped' = skipped, sent' = sent
  PROVE  Settled' = Settled
BY DEF Settled, Abstract!Settled

\* Only items are settled.
LEMMA SettledItems ==
  ASSUME sent \in Seq(Items), skipped \subseteq Items
  PROVE  Settled \subseteq Items
BY DEF Settled, Abstract!Settled

-----------------------------------------------------------------------------
(* The unordered stage keeps its invariant. *)

LEMMA UnorderedStep ==
  ASSUME UInv, Unordered!Next
  PROVE  UInv'
<1> USE MapAssumption DEF Items, Unordered!Items, Unordered!envVars, Unordered!histVars
<1>0. Settled \subseteq Items
  BY SettledItems DEF UInv, Unordered!TypeOK, Unordered!EnvType
<1>1. ASSUME Unordered!DRecv PROVE UInv'
  <2>1. Settled' = Settled
    BY <1>1, NothingSettled DEF Unordered!DRecv, UInv, Unordered!TypeOK, Unordered!EnvType
  <2>2. Unordered!TypeOK'
    BY <1>1 DEF Unordered!DRecv, UInv, Unordered!TypeOK, Unordered!EnvType, UHandInv
  <2>3. UHandInv'
    BY <1>1, <2>1 DEF Unordered!DRecv, UInv, Unordered!TypeOK, Unordered!EnvType, UHandInv, UErrInv, Unordered!Busy, Asked
  <2>4. UErrInv'
    BY <1>0, <1>1, <2>1 DEF Unordered!DRecv, UInv, Unordered!TypeOK, Unordered!EnvType, UHandInv, UErrInv, Unordered!Busy, Asked
  <2> QED BY <2>2, <2>3, <2>4 DEF UInv
<1>2. ASSUME Unordered!DClosed PROVE UInv'
  <2>1. Settled' = Settled
    BY <1>2, NothingSettled DEF Unordered!DClosed, UInv, Unordered!TypeOK, Unordered!EnvType
  <2>2. Unordered!TypeOK'
    BY <1>2 DEF Unordered!DClosed, UInv, Unordered!TypeOK, Unordered!EnvType, UHandInv
  <2>3. UHandInv'
    BY <1>2, <2>1 DEF Unordered!DClosed, UInv, Unordered!TypeOK, Unordered!EnvType, UHandInv, UErrInv, Unordered!Busy, Asked
  <2>4. UErrInv'
    BY <1>0, <1>2, <2>1 DEF Unordered!DClosed, UInv, Unordered!TypeOK, Unordered!EnvType, UHandInv, UErrInv, Unordered!Busy, Asked
  <2> QED BY <2>2, <2>3, <2>4 DEF UInv
<1>3. ASSUME Unordered!DDrained PROVE UInv'
  <2>1. Settled' = Settled
    BY <1>3, NothingSettled DEF Unordered!DDrained, UInv, Unordered!TypeOK, Unordered!EnvType
  <2>2. Unordered!TypeOK'
    BY <1>3 DEF Unordered!DDrained, UInv, Unordered!TypeOK, Unordered!EnvType, UHandInv
  <2>3. UHandInv'
    BY <1>3, <2>1 DEF Unordered!DDrained, UInv, Unordered!TypeOK, Unordered!EnvType, UHandInv, UErrInv, Unordered!Busy, Asked
  <2>4. UErrInv'
    BY <1>0, <1>3, <2>1 DEF Unordered!DDrained, UInv, Unordered!TypeOK, Unordered!EnvType, UHandInv, UErrInv, Unordered!Busy, Asked
  <2> QED BY <2>2, <2>3, <2>4 DEF UInv
<1>4. ASSUME Unordered!DInnerDone PROVE UInv'
  <2>1. Settled' = Settled
    BY <1>4, NothingSettled DEF Unordered!DInnerDone, Unordered!InnerDone, UInv, Unordered!TypeOK, Unordered!EnvType
  <2>2. Unordered!TypeOK'
    BY <1>4 DEF Unordered!DInnerDone, Unordered!InnerDone, UInv, Unordered!TypeOK, Unordered!EnvType, UHandInv
  <2>3. UHandInv'
    BY <1>4, <2>1 DEF Unordered!DInnerDone, Unordered!InnerDone, UInv, Unordered!TypeOK, Unordered!EnvType, UHandInv, UErrInv, Unordered!Busy, Asked
  <2>4. UErrInv'
    BY <1>0, <1>4, <2>1 DEF Unordered!DInnerDone, Unordered!InnerDone, UInv, Unordered!TypeOK, Unordered!EnvType, UHandInv, UErrInv, Unordered!Busy, Asked
  <2> QED BY <2>2, <2>3, <2>4 DEF UInv
<1>5. ASSUME Unordered!DSpawn PROVE UInv'
  <2>1. Settled' = Settled
    BY <1>5, NothingSettled DEF Unordered!DSpawn, UInv, Unordered!TypeOK, Unordered!EnvType
  <2>2. Unordered!TypeOK'
    BY <1>5 DEF Unordered!DSpawn, UInv, Unordered!TypeOK, Unordered!EnvType, UHandInv
  <2>3. UHandInv'
    BY <1>5, <2>1 DEF Unordered!DSpawn, UInv, Unordered!TypeOK, Unordered!EnvType, UHandInv, UErrInv, Unordered!Busy, Asked
  <2>4. UErrInv'
    BY <1>0, <1>5, <2>1 DEF Unordered!DSpawn, UInv, Unordered!TypeOK, Unordered!EnvType, UHandInv, UErrInv, Unordered!Busy, Asked
  <2> QED BY <2>2, <2>3, <2>4 DEF UInv
<1>6. ASSUME Unordered!DReturn PROVE UInv'
  <2>1. Settled' = Settled
    BY <1>6, NothingSettled DEF Unordered!DReturn, UInv, Unordered!TypeOK, Unordered!EnvType
  <2>2. Unordered!TypeOK'
    BY <1>6 DEF Unordered!DReturn, UInv, Unordered!TypeOK, Unordered!EnvType, UHandInv
  <2>3. UHandInv'
    BY <1>6, <2>1 DEF Unordered!DReturn, UInv, Unordered!TypeOK, Unordered!EnvType, UHandInv, UErrInv, Unordered!Busy, Asked
  <2>4. UErrInv'
    BY <1>0, <1>6, <2>1 DEF Unordered!DReturn, UInv, Unordered!TypeOK, Unordered!EnvType, UHandInv, UErrInv, Unordered!Busy, Asked
  <2> QED BY <2>2, <2>3, <2>4 DEF UInv
<1>7. ASSUME NEW i \in Items, Unordered!WorkFail(i) PROVE UInv'
  <2>1. Settled' = Settled
    BY <1>7, NothingSettled DEF Unordered!WorkFail, Unordered!ReportErr, Unordered!InnerDone, UInv, Unordered!TypeOK, Unordered!EnvType
  <2>2. Unordered!TypeOK'
    BY <1>7 DEF Unordered!WorkFail, Unordered!ReportErr, Unordered!InnerDone, UInv, Unordered!TypeOK, Unordered!EnvType, UHandInv
  <2>3. UHandInv'
    BY <1>7, <2>1 DEF Unordered!WorkFail, Unordered!ReportErr, Unordered!InnerDone, UInv, Unordered!TypeOK, Unordered!EnvType, UHandInv, UErrInv, Unordered!Busy, Asked
  <2>4. UErrInv'
    BY <1>0, <1>7, <2>1 DEF Unordered!WorkFail, Unordered!ReportErr, Unordered!InnerDone, UInv, Unordered!TypeOK, Unordered!EnvType, UHandInv, UErrInv, Unordered!Busy, Asked
  <2> QED BY <2>2, <2>3, <2>4 DEF UInv
<1>8. ASSUME NEW i \in Items, Unordered!WorkSkip(i) PROVE UInv'
  <2>1. Settled' = Settled \cup {i}
    BY <1>8, SkipSettles DEF Unordered!WorkSkip, UInv, Unordered!TypeOK, Unordered!EnvType
  <2>2. Unordered!TypeOK'
    BY <1>8 DEF Unordered!WorkSkip, UInv, Unordered!TypeOK, Unordered!EnvType, UHandInv
  <2>3. UHandInv'
    BY <1>8, <2>1 DEF Unordered!WorkSkip, UInv, Unordered!TypeOK, Unordered!EnvType, UHandInv, UErrInv, Unordered!Busy, Asked
  <2>4. UErrInv'
    BY <1>0, <1>8, <2>1 DEF Unordered!WorkSkip, UInv, Unordered!TypeOK, Unordered!EnvType, UHandInv, UErrInv, Unordered!Busy, Asked
  <2> QED BY <2>2, <2>3, <2>4 DEF UInv
<1>9. ASSUME NEW i \in Items, Unordered!WorkOk(i) PROVE UInv'
  <2>1. Settled' = Settled
    BY <1>9, NothingSettled DEF Unordered!WorkOk, UInv, Unordered!TypeOK, Unordered!EnvType
  <2>2. Unordered!TypeOK'
    BY <1>9 DEF Unordered!WorkOk, UInv, Unordered!TypeOK, Unordered!EnvType, UHandInv
  <2>3. UHandInv'
    BY <1>9, <2>1 DEF Unordered!WorkOk, UInv, Unordered!TypeOK, Unordered!EnvType, UHandInv, UErrInv, Unordered!Busy, Asked
  <2>4. UErrInv'
    BY <1>0, <1>9, <2>1 DEF Unordered!WorkOk, UInv, Unordered!TypeOK, Unordered!EnvType, UHandInv, UErrInv, Unordered!Busy, Asked
  <2> QED BY <2>2, <2>3, <2>4 DEF UInv
<1>10. ASSUME NEW i \in Items, Unordered!SendOk(i) PROVE UInv'
  <2>1. Settled' = Settled \cup {i}
    BY <1>10, SentSettles DEF Unordered!SendOk, Unordered!Put, UInv, Unordered!TypeOK, Unordered!EnvType
  <2>2. Unordered!TypeOK'
    BY <1>10, SentSettles DEF Unordered!SendOk, Unordered!Put, UInv, Unordered!TypeOK, Unordered!EnvType, UHandInv
  <2>3. UHandInv'
    BY <1>10, <2>1 DEF Unordered!SendOk, Unordered!Put, UInv, Unordered!TypeOK, Unordered!EnvType, UHandInv, UErrInv, Unordered!Busy, Asked
  <2>4. UErrInv'
    BY <1>0, <1>10, <2>1 DEF Unordered!SendOk, Unordered!Put, UInv, Unordered!TypeOK, Unordered!EnvType, UHandInv, UErrInv, Unordered!Busy, Asked
  <2> QED BY <2>2, <2>3, <2>4 DEF UInv
<1>11. ASSUME NEW i \in Items, Unordered!SendCtxDone(i) PROVE UInv'
  <2>1. Settled' = Settled
    BY <1>11, NothingSettled DEF Unordered!SendCtxDone, Unordered!ReportErr, Unordered!InnerDone, UInv, Unordered!TypeOK, Unordered!EnvType
  <2>2. Unordered!TypeOK'
    BY <1>11 DEF Unordered!SendCtxDone, Unordered!ReportErr, Unordered!InnerDone, UInv, Unordered!TypeOK, Unordered!EnvType, UHandInv
  <2>3. UHandInv'
    BY <1>11, <2>1 DEF Unordered!SendCtxDone, Unordered!ReportErr, Unordered!InnerDone, UInv, Unordered!TypeOK, Unordered!EnvType, UHandInv, UErrInv, Unordered!Busy, Asked
  <2>4. UErrInv'
    BY <1>0, <1>11, <2>1 DEF Unordered!SendCtxDone, Unordered!ReportErr, Unordered!InnerDone, UInv, Unordered!TypeOK, Unordered!EnvType, UHandInv, UErrInv, Unordered!Busy, Asked
  <2> QED BY <2>2, <2>3, <2>4 DEF UInv
<1>12. ASSUME NEW i \in Items, Unordered!CancelInner(i) PROVE UInv'
  <2>1. Settled' = Settled
    BY <1>12, NothingSettled DEF Unordered!CancelInner, UInv, Unordered!TypeOK, Unordered!EnvType
  <2>2. Unordered!TypeOK'
    BY <1>12 DEF Unordered!CancelInner, UInv, Unordered!TypeOK, Unordered!EnvType, UHandInv
  <2>3. UHandInv'
    BY <1>12, <2>1 DEF Unordered!CancelInner, UInv, Unordered!TypeOK, Unordered!EnvType, UHandInv, UErrInv, Unordered!Busy, Asked
  <2>4. UErrInv'
    BY <1>0, <1>12, <2>1 DEF Unordered!CancelInner, UInv, Unordered!TypeOK, Unordered!EnvType, UHandInv, UErrInv, Unordered!Busy, Asked
  <2> QED BY <2>2, <2>3, <2>4 DEF UInv
<1>13. ASSUME Unordered!Consume, UNCHANGED <<w, errCh>> PROVE UInv'
  <2>1. Settled' = Settled
    BY <1>13, NothingSettled DEF Unordered!Consume, UInv, Unordered!TypeOK, Unordered!EnvType
  <2>2. Unordered!TypeOK'
    BY <1>13 DEF Unordered!Consume, UInv, Unordered!TypeOK, Unordered!EnvType, UHandInv
  <2>3. UHandInv'
    BY <1>13, <2>1 DEF Unordered!Consume, UInv, Unordered!TypeOK, Unordered!EnvType, UHandInv, UErrInv, Unordered!Busy, Asked
  <2>4. UErrInv'
    BY <1>0, <1>13, <2>1 DEF Unordered!Consume, UInv, Unordered!TypeOK, Unordered!EnvType, UHandInv, UErrInv, Unordered!Busy, Asked
  <2> QED BY <2>2, <2>3, <2>4 DEF UInv
<1>14. ASSUME Unordered!Leave, UNCHANGED <<w, errCh>> PROVE UInv'
  <2>1. Settled' = Settled
    BY <1>14, NothingSettled DEF Unordered!Leave, UInv, Unordered!TypeOK, Unordered!EnvType
  <2>2. Unordered!TypeOK'
    BY <1>14 DEF Unordered!Leave, UInv, Unordered!TypeOK, Unordered!EnvType, UHandInv
  <2>3. UHandInv'
    BY <1>14, <2>1 DEF Unordered!Leave, UInv, Unordered!TypeOK, Unordered!EnvType, UHandInv, UErrInv, Unordered!Busy, Asked
  <2>4. UErrInv'
    BY <1>0, <1>14, <2>1 DEF Unordered!Leave, UInv, Unordered!TypeOK, Unordered!EnvType, UHandInv, UErrInv, Unordered!Busy, Asked
  <2> QED BY <2>2, <2>3, <2>4 DEF UInv
<1>15. ASSUME Unordered!Cancel, UNCHANGED <<w, errCh>> PROVE UInv'
  <2>1. Settled' = Settled
    BY <1>15, NothingSettled DEF Unordered!Cancel, UInv, Unordered!TypeOK, Unordered!EnvType
  <2>2. Unordered!TypeOK'
    BY <1>15 DEF Unordered!Cancel, UInv, Unordered!TypeOK, Unordered!EnvType, UHandInv
  <2>3. UHandInv'
    BY <1>15, <2>1 DEF Unordered!Cancel, UInv, Unordered!TypeOK, Unordered!EnvType, UHandInv, UErrInv, Unordered!Busy, Asked
  <2>4. UErrInv'
    BY <1>0, <1>15, <2>1 DEF Unordered!Cancel, UInv, Unordered!TypeOK, Unordered!EnvType, UHandInv, UErrInv, Unordered!Busy, Asked
  <2> QED BY <2>2, <2>3, <2>4 DEF UInv
<1>16. CASE Unordered!Idle
  <2>1. Settled' = Settled
    BY <1>16, NothingSettled DEF Unordered!Idle, Unordered!vars
  <2> QED
    BY <1>16, <2>1 DEF Unordered!Idle, Unordered!vars, UInv, Unordered!TypeOK, Unordered!EnvType,
                    UHandInv, UErrInv, Unordered!Busy, Asked
<1> QED
  BY <1>1, <1>2, <1>3, <1>4, <1>5, <1>6, <1>7, <1>8, <1>9, <1>10, <1>11, <1>12, <1>13, <1>14, <1>15, <1>16 DEF Unordered!Next, Unordered!Dispatcher, Unordered!Worker, Unordered!Environment

-----------------------------------------------------------------------------
(* The ordered stage keeps its invariant. *)

LEMMA OrderedStep ==
  ASSUME OInv, InOrder!Next
  PROVE  OInv'
<1> USE MapAssumption DEF Items, InOrder!Items, InOrder!envVars, InOrder!histVars,
        InOrder!slotVars, InOrder!drainerVars, InOrder!Results
<1>0. Settled \subseteq Items
  BY SettledItems DEF OInv, InOrder!TypeOK, InOrder!EnvType
<1>1. ASSUME InOrder!DRecv PROVE OInv'
  <2>1. Settled' = Settled
    BY <1>1, NothingSettled DEF InOrder!DRecv, OInv, InOrder!TypeOK, InOrder!EnvType, SlotInv
  <2>2. InOrder!TypeOK'
    BY <1>1 DEF InOrder!DRecv, OInv, InOrder!TypeOK, InOrder!EnvType, SlotInv
  <2>3. SlotInv'
    BY <1>1 DEF InOrder!DRecv, OInv, InOrder!TypeOK, InOrder!EnvType, SlotInv, DrainerInv
  <2>4. DrainerInv'
    BY <1>0, <1>1, <2>1 DEF InOrder!DRecv, OInv, InOrder!TypeOK, InOrder!EnvType, SlotInv, DrainerInv, Asked
  <2> QED BY <2>2, <2>3, <2>4 DEF OInv
<1>2. ASSUME InOrder!DClosed PROVE OInv'
  <2>1. Settled' = Settled
    BY <1>2, NothingSettled DEF InOrder!DClosed, OInv, InOrder!TypeOK, InOrder!EnvType, SlotInv
  <2>2. InOrder!TypeOK'
    BY <1>2 DEF InOrder!DClosed, OInv, InOrder!TypeOK, InOrder!EnvType, SlotInv
  <2>3. SlotInv'
    BY <1>2 DEF InOrder!DClosed, OInv, InOrder!TypeOK, InOrder!EnvType, SlotInv, DrainerInv
  <2>4. DrainerInv'
    BY <1>0, <1>2, <2>1 DEF InOrder!DClosed, OInv, InOrder!TypeOK, InOrder!EnvType, SlotInv, DrainerInv, Asked
  <2> QED BY <2>2, <2>3, <2>4 DEF OInv
<1>3. ASSUME InOrder!DDrained PROVE OInv'
  <2>1. Settled' = Settled
    BY <1>3, NothingSettled DEF InOrder!DDrained, OInv, InOrder!TypeOK, InOrder!EnvType, SlotInv
  <2>2. InOrder!TypeOK'
    BY <1>3 DEF InOrder!DDrained, OInv, InOrder!TypeOK, InOrder!EnvType, SlotInv
  <2>3. SlotInv'
    BY <1>3 DEF InOrder!DDrained, OInv, InOrder!TypeOK, InOrder!EnvType, SlotInv, DrainerInv
  <2>4. DrainerInv'
    BY <1>0, <1>3, <2>1 DEF InOrder!DDrained, OInv, InOrder!TypeOK, InOrder!EnvType, SlotInv, DrainerInv, Asked
  <2> QED BY <2>2, <2>3, <2>4 DEF OInv
<1>4. ASSUME InOrder!DInnerDone PROVE OInv'
  <2>1. Settled' = Settled
    BY <1>4, NothingSettled DEF InOrder!DInnerDone, InOrder!InnerDone, OInv, InOrder!TypeOK, InOrder!EnvType, SlotInv
  <2>2. InOrder!TypeOK'
    BY <1>4 DEF InOrder!DInnerDone, InOrder!InnerDone, OInv, InOrder!TypeOK, InOrder!EnvType, SlotInv
  <2>3. SlotInv'
    BY <1>4 DEF InOrder!DInnerDone, InOrder!InnerDone, OInv, InOrder!TypeOK, InOrder!EnvType, SlotInv, DrainerInv
  <2>4. DrainerInv'
    BY <1>0, <1>4, <2>1 DEF InOrder!DInnerDone, InOrder!InnerDone, OInv, InOrder!TypeOK, InOrder!EnvType, SlotInv, DrainerInv, Asked
  <2> QED BY <2>2, <2>3, <2>4 DEF OInv
<1>5. ASSUME InOrder!DToken PROVE OInv'
  <2>1. Settled' = Settled
    BY <1>5, NothingSettled DEF InOrder!DToken, OInv, InOrder!TypeOK, InOrder!EnvType, SlotInv
  <2>2. InOrder!TypeOK'
    BY <1>5 DEF InOrder!DToken, OInv, InOrder!TypeOK, InOrder!EnvType, SlotInv
  <2>3. SlotInv'
    BY <1>5 DEF InOrder!DToken, OInv, InOrder!TypeOK, InOrder!EnvType, SlotInv, DrainerInv
  <2>4. DrainerInv'
    BY <1>0, <1>5, <2>1 DEF InOrder!DToken, OInv, InOrder!TypeOK, InOrder!EnvType, SlotInv, DrainerInv, Asked
  <2> QED BY <2>2, <2>3, <2>4 DEF OInv
<1>6. ASSUME InOrder!DSpawn PROVE OInv'
  <2>1. Settled' = Settled
    BY <1>6, NothingSettled DEF InOrder!DSpawn
  <2>2. InOrder!TypeOK'
    BY <1>6 DEF InOrder!DSpawn, OInv, InOrder!TypeOK, InOrder!EnvType, SlotInv
  <2>3. Len(slots') = Len(slots) + 1 /\ slots'[Len(slots) + 1] = item
        /\ \A k \in 1..Len(slots) : slots'[k] = slots[k]
    BY <1>6 DEF InOrder!DSpawn, OInv, InOrder!TypeOK, InOrder!EnvType, SlotInv
  <2>4. epc # "end" => item = cur + Len(slots) + 1
    <3> SUFFICES ASSUME epc # "end" PROVE item = cur + Len(slots) + 1
      OBVIOUS
    <3>1. \A i \in Items : i < item <=> i <= cur + Len(slots)
      BY <1>6 DEF InOrder!DSpawn, OInv, SlotInv
    <3>2. cur + Len(slots) \in Nat /\ item \in Items
      BY <1>6 DEF InOrder!DSpawn, OInv, InOrder!TypeOK, InOrder!EnvType, SlotInv
    <3>3. ~(item <= cur + Len(slots))
      BY <3>1, <3>2
    <3>4. item - 1 \in Items => item - 1 <= cur + Len(slots)
      BY <3>1, <3>2
    <3> QED BY <3>2, <3>3, <3>4
  <2>5. SlotInv'
    <3>1. /\ dpc' = "recv" /\ next' = next /\ next = item + 1 /\ item \in Items
          /\ UNCHANGED <<cur, epc, slotsClosed>> /\ ~slotsClosed
          /\ \A i \in Items : res[i] # "none" <=> i < item
      BY <1>6 DEF InOrder!DSpawn, OInv, SlotInv
    <3>2. \A i \in Items : res'[i] # "none" <=> i < item \/ i = item
      BY <1>6, <3>1 DEF InOrder!DSpawn, OInv, InOrder!TypeOK
    <3>3. \A i \in Items : res'[i] # "none" <=> i < next'
      BY <3>1, <3>2
    <3>4. epc # "end" => /\ \A k \in 1..Len(slots') : slots'[k] = cur' + k
                         /\ \A i \in Items : res'[i] # "none" <=> i <= cur' + Len(slots')
                         /\ cur' + Len(slots') <= NItems
      <4> SUFFICES ASSUME epc # "end"
                   PROVE  /\ \A k \in 1..Len(slots') : slots'[k] = cur' + k
                          /\ \A i \in Items : res'[i] # "none" <=> i <= cur' + Len(slots')
                          /\ cur' + Len(slots') <= NItems
        OBVIOUS
      <4>1. Len(slots) \in Nat /\ cur \in Nat
        BY DEF OInv, InOrder!TypeOK
      <4>2. cur' + Len(slots') = item
        BY <2>3, <2>4, <3>1, <4>1
      <4>3. \A k \in 1..Len(slots) : slots[k] = cur + k
        BY DEF OInv, SlotInv
      <4>4. 1..Len(slots') = 1..Len(slots) \cup {Len(slots) + 1}
        BY <2>3, <4>1
      <4>5. \A k \in 1..Len(slots') : slots'[k] = cur' + k
        <5> SUFFICES ASSUME NEW k \in 1..Len(slots') PROVE slots'[k] = cur' + k
          OBVIOUS
        <5>1. CASE k \in 1..Len(slots)
          BY <2>3, <3>1, <4>3, <5>1
        <5>2. CASE k = Len(slots) + 1
          BY <2>3, <2>4, <3>1, <4>1, <5>2
        <5> QED BY <4>4, <5>1, <5>2
      <4> QED BY <3>1, <3>3, <4>2, <4>5
    <3>5. epc' = "send" => res'[cur'] = "ok"
      <4> SUFFICES ASSUME epc = "send" PROVE res'[cur] = "ok"
        BY <3>1
      <4>1. res[cur] = "ok" /\ cur \in Items /\ cur # item
        BY <3>1 DEF OInv, SlotInv
      <4> QED BY <1>6, <4>1 DEF InOrder!DSpawn, OInv, InOrder!TypeOK
    <3> QED BY <3>1, <3>3, <3>4, <3>5 DEF OInv, SlotInv
  <2>6. DrainerInv'
    BY <1>6, <2>1 DEF InOrder!DSpawn, OInv, InOrder!TypeOK, InOrder!EnvType, SlotInv, DrainerInv, Asked
  <2> QED BY <2>2, <2>5, <2>6 DEF OInv
<1>7. ASSUME InOrder!DClose PROVE OInv'
  <2>1. Settled' = Settled
    BY <1>7, NothingSettled DEF InOrder!DClose, OInv, InOrder!TypeOK, InOrder!EnvType, SlotInv
  <2>2. InOrder!TypeOK'
    BY <1>7 DEF InOrder!DClose, OInv, InOrder!TypeOK, InOrder!EnvType, SlotInv
  <2>3. SlotInv'
    BY <1>7 DEF InOrder!DClose, OInv, InOrder!TypeOK, InOrder!EnvType, SlotInv, DrainerInv
  <2>4. DrainerInv'
    BY <1>0, <1>7, <2>1 DEF InOrder!DClose, OInv, InOrder!TypeOK, InOrder!EnvType, SlotInv, DrainerInv, Asked
  <2> QED BY <2>2, <2>3, <2>4 DEF OInv
<1>8. ASSUME InOrder!DReturn PROVE OInv'
  <2>1. Settled' = Settled
    BY <1>8, NothingSettled DEF InOrder!DReturn, OInv, InOrder!TypeOK, InOrder!EnvType, SlotInv
  <2>2. InOrder!TypeOK'
    BY <1>8 DEF InOrder!DReturn, OInv, InOrder!TypeOK, InOrder!EnvType, SlotInv
  <2>3. SlotInv'
    BY <1>8 DEF InOrder!DReturn, OInv, InOrder!TypeOK, InOrder!EnvType, SlotInv, DrainerInv
  <2>4. DrainerInv'
    BY <1>0, <1>8, <2>1 DEF InOrder!DReturn, OInv, InOrder!TypeOK, InOrder!EnvType, SlotInv, DrainerInv, Asked
  <2> QED BY <2>2, <2>3, <2>4 DEF OInv
<1>9. ASSUME NEW i \in Items, InOrder!Work(i) PROVE OInv'
  <2>1. Settled' = Settled
    BY <1>9, NothingSettled DEF InOrder!Work, InOrder!InnerDone, OInv, InOrder!TypeOK, InOrder!EnvType, SlotInv
  <2>2. InOrder!TypeOK'
    BY <1>9 DEF InOrder!Work, InOrder!InnerDone, OInv, InOrder!TypeOK, InOrder!EnvType, SlotInv
  <2>3. SlotInv'
    BY <1>9 DEF InOrder!Work, InOrder!InnerDone, OInv, InOrder!TypeOK, InOrder!EnvType, SlotInv, DrainerInv
  <2>4. DrainerInv'
    BY <1>0, <1>9, <2>1 DEF InOrder!Work, InOrder!InnerDone, OInv, InOrder!TypeOK, InOrder!EnvType, SlotInv, DrainerInv, Asked
  <2> QED BY <2>2, <2>3, <2>4 DEF OInv
<1>10. ASSUME InOrder!ESlot PROVE OInv'
  <2>1. Settled' = Settled
    BY <1>10, NothingSettled DEF InOrder!ESlot
  <2>2. slots \in Seq(Items) /\ slots # << >> /\ cur \in Nat
    BY <1>10 DEF InOrder!ESlot, OInv, InOrder!TypeOK, InOrder!EnvType
  <2>3. cur' = slots[1] /\ Len(slots') = Len(slots) - 1 /\ Len(slots) \in Nat \ {0}
        /\ \A k \in 1..Len(slots') : slots'[k] = slots[k + 1]
    BY <1>10, <2>2 DEF InOrder!ESlot
  <2>4. \A k \in 1..Len(slots) : slots[k] = cur + k
    BY <1>10 DEF InOrder!ESlot, OInv, SlotInv
  <2>5. cur' = cur + 1
    BY <2>3, <2>4
  <2>6. \A k \in 1..Len(slots') : slots'[k] = cur' + k
    <3> SUFFICES ASSUME NEW k \in 1..Len(slots') PROVE slots'[k] = cur' + k
      OBVIOUS
    <3>1. k + 1 \in 1..Len(slots) /\ k \in Nat
      BY <2>3
    <3> QED BY <2>2, <2>3, <2>4, <2>5, <3>1
  <2>7. cur' + Len(slots') = cur + Len(slots)
    BY <2>2, <2>3, <2>5
  <2>8. InOrder!TypeOK'
    BY SMTT(30), <1>10 DEF InOrder!ESlot, OInv, InOrder!TypeOK, InOrder!EnvType, SlotInv
  <2>9. cur' \in Items
    BY <2>2, <2>3
  <2>10. SlotInv'
    BY <1>10, <2>6, <2>7, <2>9 DEF InOrder!ESlot, OInv, SlotInv
  <2>11. DrainerInv'
    BY <1>10, <2>1, <2>2, <2>5 DEF InOrder!ESlot, OInv, DrainerInv, Asked
  <2> QED BY <2>8, <2>10, <2>11 DEF OInv
<1>11. ASSUME InOrder!EEnd PROVE OInv'
  <2>1. Settled' = Settled
    BY <1>11, NothingSettled DEF InOrder!EEnd, OInv, InOrder!TypeOK, InOrder!EnvType, SlotInv
  <2>2. InOrder!TypeOK'
    BY <1>11 DEF InOrder!EEnd, OInv, InOrder!TypeOK, InOrder!EnvType, SlotInv
  <2>3. SlotInv'
    BY <1>11 DEF InOrder!EEnd, OInv, InOrder!TypeOK, InOrder!EnvType, SlotInv, DrainerInv
  <2>4. DrainerInv'
    BY <1>0, <1>11, <2>1 DEF InOrder!EEnd, OInv, InOrder!TypeOK, InOrder!EnvType, SlotInv, DrainerInv, Asked
  <2> QED BY <2>2, <2>3, <2>4 DEF OInv
<1>12. ASSUME InOrder!EResult PROVE OInv'
  <2>1. CASE res[cur] = "skip"
    <3>1. Settled' = Settled \cup {cur}
      BY <1>12, <2>1, SkipSettles DEF InOrder!EResult, InOrder!EFail, OInv, InOrder!TypeOK, InOrder!EnvType, SlotInv
    <3>2. InOrder!TypeOK'
      <4>1. epc' = "slot" /\ skipped' \subseteq Items
            /\ UNCHANGED <<inner, junk, drainErrs, envVars, dpc, item, ret, sent, slots, slotsClosed, res, cur>>
        BY <1>12, <2>1 DEF InOrder!EResult, InOrder!EFail, OInv, InOrder!TypeOK, InOrder!EnvType, SlotInv, envVars
      <4> QED BY <4>1 DEF OInv, InOrder!TypeOK, InOrder!EnvType, envVars
    <3>3. SlotInv'
      BY <1>12, <2>1 DEF InOrder!EResult, InOrder!EFail, OInv, InOrder!TypeOK, InOrder!EnvType, SlotInv
    <3>4. DrainerInv'
      BY <1>12, <2>1, <3>1 DEF InOrder!EResult, InOrder!EFail, OInv, InOrder!TypeOK, InOrder!EnvType, SlotInv, DrainerInv, Asked
    <3> QED BY <3>2, <3>3, <3>4 DEF OInv
  <2>2. CASE res[cur] # "skip"
    <3>1. Settled' = Settled
      BY <1>12, <2>2, NothingSettled DEF InOrder!EResult, InOrder!EFail
    <3>2. InOrder!TypeOK'
      <4>1. CASE res[cur] = "ok"
        <5>1. epc' = "send"
              /\ UNCHANGED <<inner, junk, drainErrs, envVars, dpc, item, ret, sent, skipped, slots, slotsClosed, res, cur>>
          BY <1>12, <4>1 DEF InOrder!EResult, InOrder!EFail, envVars
        <5> QED BY <5>1 DEF OInv, InOrder!TypeOK, InOrder!EnvType, envVars
      <4>2. CASE res[cur] # "ok"
        <5>1. epc' = "end" /\ inner' = TRUE /\ junk' = 0 /\ drainErrs' \in {"user", "ctx"}
              /\ UNCHANGED <<envVars, dpc, item, ret, sent, skipped, slots, slotsClosed, res, cur>>
          BY <1>12, <2>2, <4>2 DEF InOrder!EResult, InOrder!EFail, envVars, InOrder!JunkIdle
        <5> QED BY <5>1 DEF OInv, InOrder!TypeOK, InOrder!EnvType, envVars, InOrder!JunkIdle
      <4> QED BY <4>1, <4>2
    <3>3. SlotInv'
      BY <1>12, <2>2 DEF InOrder!EResult, InOrder!EFail, OInv, InOrder!TypeOK, InOrder!EnvType, SlotInv
    <3>4. DrainerInv'
      BY <1>12, <2>2, <3>1 DEF InOrder!EResult, InOrder!EFail, OInv, InOrder!TypeOK, InOrder!EnvType, SlotInv, DrainerInv, Asked
    <3> QED BY <3>2, <3>3, <3>4 DEF OInv
  <2> QED BY <2>1, <2>2
<1>13. ASSUME InOrder!ESend PROVE OInv'
  <2>1. Settled' = Settled \cup {cur}
    BY <1>13, SentSettles DEF InOrder!ESend, InOrder!Put, OInv, InOrder!TypeOK, InOrder!EnvType, SlotInv
  <2>2. InOrder!TypeOK'
    BY <1>13, SentSettles DEF InOrder!ESend, InOrder!Put, OInv, InOrder!TypeOK, InOrder!EnvType, SlotInv
  <2>3. SlotInv'
    BY <1>13 DEF InOrder!ESend, InOrder!Put, OInv, InOrder!TypeOK, InOrder!EnvType, SlotInv, DrainerInv
  <2>4. DrainerInv'
    BY <1>0, <1>13, <2>1 DEF InOrder!ESend, InOrder!Put, OInv, InOrder!TypeOK, InOrder!EnvType, SlotInv, DrainerInv, Asked
  <2> QED BY <2>2, <2>3, <2>4 DEF OInv
<1>14. ASSUME InOrder!ESendCtxDone PROVE OInv'
  <2>1. Settled' = Settled
    BY <1>14, NothingSettled DEF InOrder!ESendCtxDone, InOrder!InnerDone, InOrder!EFail, OInv, InOrder!TypeOK, InOrder!EnvType, SlotInv
  <2>2. InOrder!TypeOK'
    BY <1>14 DEF InOrder!ESendCtxDone, InOrder!InnerDone, InOrder!EFail, OInv, InOrder!TypeOK, InOrder!EnvType, SlotInv, InOrder!JunkIdle, InOrder!JunkOff
  <2>3. SlotInv'
    BY <1>14 DEF InOrder!ESendCtxDone, InOrder!InnerDone, InOrder!EFail, OInv, InOrder!TypeOK, InOrder!EnvType, SlotInv, DrainerInv
  <2>4. DrainerInv'
    BY <1>0, <1>14, <2>1 DEF InOrder!ESendCtxDone, InOrder!InnerDone, InOrder!EFail, OInv, InOrder!TypeOK, InOrder!EnvType, SlotInv, DrainerInv, Asked
  <2> QED BY <2>2, <2>3, <2>4 DEF OInv
<1>15. ASSUME InOrder!Junk PROVE OInv'
  <2>1. Settled' = Settled
    BY <1>15, NothingSettled DEF InOrder!Junk
  <2>2. junk # InOrder!JunkOff
    BY <1>15 DEF InOrder!Junk, InOrder!JunkIdle, InOrder!JunkOff
  <2>3. epc = "end"
    BY <2>2 DEF OInv, DrainerInv
  <2>4. junk' \in {InOrder!JunkOff, InOrder!JunkIdle} \cup Items
        /\ slots' \in Seq(Items) /\ Len(slots') <= 2 * Concurrency
    <3>1. slots # << >> => Head(slots) \in Items /\ Tail(slots) \in Seq(Items)
                           /\ Len(Tail(slots)) <= Len(slots) /\ Len(Tail(slots)) \in Nat
      BY DEF OInv, InOrder!TypeOK
    <3>2. Len(slots) \in Nat /\ Len(slots) <= 2 * Concurrency /\ slots \in Seq(Items)
      BY DEF OInv, InOrder!TypeOK
    <3>3. junk' \in {InOrder!JunkOff, InOrder!JunkIdle} \cup Items
      BY <1>15, <3>1 DEF InOrder!Junk
    <3>4. slots' = slots \/ (slots # << >> /\ slots' = Tail(slots))
      BY <1>15 DEF InOrder!Junk
    <3>5. 2 * Concurrency \in Nat
      OBVIOUS
    <3> HIDE DEF Items
    <3> QED BY <3>1, <3>2, <3>3, <3>4, <3>5
  <2>5. UNCHANGED <<envVars, inner, dpc, item, ret, histVars, slotsClosed, res, epc, cur, drainErrs>>
    BY <1>15 DEF InOrder!Junk, envVars, histVars
  <2>6. InOrder!TypeOK'
    BY <2>4, <2>5 DEF OInv, InOrder!TypeOK, InOrder!EnvType, envVars, histVars
  <2>7. SlotInv'
    BY <2>3, <2>5 DEF OInv, SlotInv, envVars
  <2>8. DrainerInv'
    BY <2>1, <2>3, <2>5 DEF OInv, DrainerInv, Asked, envVars
  <2> QED BY <2>6, <2>7, <2>8 DEF OInv
<1>16. ASSUME InOrder!Consume, UNCHANGED <<slots, slotsClosed, res, junk, epc, cur, drainErrs>> PROVE OInv'
  <2>1. Settled' = Settled
    BY <1>16, NothingSettled DEF InOrder!Consume, OInv, InOrder!TypeOK, InOrder!EnvType, SlotInv
  <2>2. InOrder!TypeOK'
    BY <1>16 DEF InOrder!Consume, OInv, InOrder!TypeOK, InOrder!EnvType, SlotInv
  <2>3. SlotInv'
    BY <1>16 DEF InOrder!Consume, OInv, InOrder!TypeOK, InOrder!EnvType, SlotInv, DrainerInv
  <2>4. DrainerInv'
    BY <1>0, <1>16, <2>1 DEF InOrder!Consume, OInv, InOrder!TypeOK, InOrder!EnvType, SlotInv, DrainerInv, Asked
  <2> QED BY <2>2, <2>3, <2>4 DEF OInv
<1>17. ASSUME InOrder!Leave, UNCHANGED <<slots, slotsClosed, res, junk, epc, cur, drainErrs>> PROVE OInv'
  <2>1. Settled' = Settled
    BY <1>17, NothingSettled DEF InOrder!Leave, OInv, InOrder!TypeOK, InOrder!EnvType, SlotInv
  <2>2. InOrder!TypeOK'
    BY <1>17 DEF InOrder!Leave, OInv, InOrder!TypeOK, InOrder!EnvType, SlotInv
  <2>3. SlotInv'
    BY <1>17 DEF InOrder!Leave, OInv, InOrder!TypeOK, InOrder!EnvType, SlotInv, DrainerInv
  <2>4. DrainerInv'
    BY <1>0, <1>17, <2>1 DEF InOrder!Leave, OInv, InOrder!TypeOK, InOrder!EnvType, SlotInv, DrainerInv, Asked
  <2> QED BY <2>2, <2>3, <2>4 DEF OInv
<1>18. ASSUME InOrder!Cancel, UNCHANGED <<slots, slotsClosed, res, junk, epc, cur, drainErrs>> PROVE OInv'
  <2>1. Settled' = Settled
    BY <1>18, NothingSettled DEF InOrder!Cancel, OInv, InOrder!TypeOK, InOrder!EnvType, SlotInv
  <2>2. InOrder!TypeOK'
    BY <1>18 DEF InOrder!Cancel, OInv, InOrder!TypeOK, InOrder!EnvType, SlotInv
  <2>3. SlotInv'
    BY <1>18 DEF InOrder!Cancel, OInv, InOrder!TypeOK, InOrder!EnvType, SlotInv, DrainerInv
  <2>4. DrainerInv'
    BY <1>0, <1>18, <2>1 DEF InOrder!Cancel, OInv, InOrder!TypeOK, InOrder!EnvType, SlotInv, DrainerInv, Asked
  <2> QED BY <2>2, <2>3, <2>4 DEF OInv
<1>19. CASE InOrder!Idle
  <2>1. Settled' = Settled
    BY <1>19, NothingSettled DEF InOrder!Idle, InOrder!vars
  <2> QED
    BY <1>19, <2>1 DEF InOrder!Idle, InOrder!vars, OInv, InOrder!TypeOK, InOrder!EnvType, SlotInv, DrainerInv, Asked
<1> QED
  BY <1>1, <1>2, <1>3, <1>4, <1>5, <1>6, <1>7, <1>8, <1>9, <1>10, <1>11, <1>12, <1>13, <1>14, <1>15, <1>16, <1>17, <1>18, <1>19 DEF InOrder!Next, InOrder!Dispatcher, InOrder!Drainer, InOrder!Environment

-----------------------------------------------------------------------------
(* The semaphores. *)

\* Parts of the set of items are finite, and a part of a part is no larger.
LEMMA ItemSets ==
  ASSUME NEW S \in SUBSET Items, NEW T \in SUBSET S
  PROVE  /\ IsFiniteSet(S) /\ Cardinality(S) \in Nat
         /\ Cardinality(T) \in Nat /\ Cardinality(T) <= Cardinality(S)
<1>1. IsFiniteSet(Items)
  BY FS_Interval, MapAssumption DEF Items
<1>2. IsFiniteSet(S) /\ IsFiniteSet(T)
  BY <1>1, FS_Subset
<1> QED BY <1>2, FS_Subset, FS_CardinalityType

\* The two stages count with the same cardinality.
LEMMA SameCount ==
  ASSUME NEW S
  PROVE  Unordered!Cardinality(S) = Cardinality(S) /\ InOrder!Cardinality(S) = Cardinality(S)
BY DEF Unordered!Cardinality, InOrder!Cardinality, Cardinality

\* No step of either stage starts a function beyond the tokens.
LEMMA TokenStep ==
  ASSUME Inv, [Next]_vars
  PROVE  TokenInv'
<1> USE MapAssumption
<1>1. CASE UNCHANGED vars
  BY <1>1 DEF vars, shared, unorderedVars, orderedVars, Inv, TokenInv, Unordered!Busy, InOrder!Running
<1>2. CASE IfUnordered(Unordered!Next)
  <2> USE DEF Unordered!Items, Items
  <2>1. ~ordered /\ ordered' = ordered /\ UInv /\ Unordered!Next
    BY <1>2 DEF IfUnordered, Inv
  <2>2. Unordered!Busy \subseteq Items
    BY DEF Unordered!Busy
  <2>3. CASE Unordered!DSpawn
    <3>1. item \in Items /\ item \notin Unordered!Busy
      BY <2>1, <2>3 DEF UInv, UHandInv, Unordered!DSpawn, Unordered!Busy
    <3>2. Unordered!Busy' = Unordered!Busy \cup {item}
      BY <2>1, <2>3, <3>1 DEF Unordered!DSpawn, Unordered!Busy, UInv, Unordered!TypeOK
    <3>3. Cardinality(Unordered!Busy) < Concurrency
      BY <2>3, SameCount DEF Unordered!DSpawn
    <3>4. Cardinality(Unordered!Busy \cup {item}) = Cardinality(Unordered!Busy) + 1
      BY <2>2, <3>1, ItemSets, FS_AddElement
    <3>5. Cardinality(Unordered!Busy) \in Nat
      BY <2>2, ItemSets
    <3> QED BY <2>1, <3>2, <3>3, <3>4, <3>5 DEF TokenInv
  <2>4. CASE ~Unordered!DSpawn
    <3>1. Unordered!Busy' \subseteq Unordered!Busy
      <4> USE <2>1 DEF Unordered!Busy, UInv, Unordered!TypeOK
      <4>1. ASSUME NEW i \in Items, Unordered!Worker(i) PROVE Unordered!Busy' \subseteq Unordered!Busy
        BY <4>1 DEF Unordered!Worker, Unordered!WorkFail, Unordered!WorkSkip, Unordered!WorkOk,
             Unordered!SendOk, Unordered!SendCtxDone, Unordered!CancelInner
      <4>2. CASE Unordered!Dispatcher
        BY <2>4, <4>2 DEF Unordered!Dispatcher, Unordered!DRecv, Unordered!DClosed,
             Unordered!DDrained, Unordered!DInnerDone, Unordered!DReturn
      <4>3. CASE Unordered!Environment \/ Unordered!Idle
        BY <4>3 DEF Unordered!Environment, Unordered!Idle, Unordered!vars
      <4> QED BY <4>1, <4>2, <4>3 DEF Unordered!Next
    <3>2. Cardinality(Unordered!Busy) <= Concurrency
      BY <2>1 DEF Inv, TokenInv
    <3>3. /\ Cardinality(Unordered!Busy') <= Cardinality(Unordered!Busy)
          /\ Cardinality(Unordered!Busy') \in Nat /\ Cardinality(Unordered!Busy) \in Nat
      BY <2>2, <3>1, ItemSets
    <3> QED BY <2>1, <3>2, <3>3 DEF TokenInv
  <2> QED BY <2>3, <2>4
<1>3. CASE IfOrdered(InOrder!Next)
  <2> USE DEF InOrder!Items, Items
  <2>1. ordered /\ ordered' = ordered /\ OInv /\ InOrder!Next
    BY <1>3 DEF IfOrdered, Inv
  <2>2. InOrder!Running \subseteq Items
    BY DEF InOrder!Running
  <2>3. Cardinality(InOrder!Running) \in Nat
    BY <2>2, ItemSets
  <2>4. Cardinality(InOrder!Running) + (IF dpc = "slot" THEN 1 ELSE 0) <= Concurrency
    BY <2>1 DEF Inv, TokenInv
  <2>5. CASE InOrder!DSpawn
    <3>1. item \in Items /\ item \notin InOrder!Running /\ dpc = "slot" /\ dpc' = "recv"
      BY <2>1, <2>5 DEF OInv, SlotInv, InOrder!DSpawn, InOrder!Running
    <3>2. InOrder!Running' = InOrder!Running \cup {item}
      BY <2>1, <2>5, <3>1 DEF InOrder!DSpawn, InOrder!Running, OInv, InOrder!TypeOK
    <3>3. Cardinality(InOrder!Running \cup {item}) = Cardinality(InOrder!Running) + 1
      BY <2>2, <3>1, ItemSets, FS_AddElement
    <3> QED BY <2>1, <2>3, <2>4, <3>1, <3>2, <3>3 DEF TokenInv
  <2>6. CASE InOrder!DToken
    <3>1. InOrder!Running' = InOrder!Running
      BY <2>6 DEF InOrder!DToken, InOrder!slotVars, InOrder!Running
    <3>2. Cardinality(InOrder!Running) < Concurrency /\ dpc' = "slot"
      BY <2>3, <2>6, SameCount DEF InOrder!DToken, InOrder!Tokens
    <3> QED BY <2>1, <2>3, <3>1, <3>2 DEF TokenInv
  <2>7. CASE ~InOrder!DSpawn /\ ~InOrder!DToken
    <3>1. InOrder!Running' \subseteq InOrder!Running /\ (dpc' = "slot" => dpc = "slot")
      <4> USE <2>1 DEF InOrder!Running, OInv, InOrder!TypeOK, InOrder!slotVars
      <4>1. ASSUME NEW i \in Items, InOrder!Work(i)
            PROVE  InOrder!Running' \subseteq InOrder!Running /\ (dpc' = "slot" => dpc = "slot")
        BY <4>1 DEF InOrder!Work
      <4>2. CASE InOrder!Dispatcher
        BY <2>7, <4>2 DEF InOrder!Dispatcher, InOrder!DRecv, InOrder!DClosed, InOrder!DDrained,
             InOrder!DInnerDone, InOrder!DClose, InOrder!DReturn
      <4>3. CASE InOrder!Drainer
        BY <4>3 DEF InOrder!Drainer, InOrder!ESlot, InOrder!EEnd, InOrder!EResult,
             InOrder!ESend, InOrder!ESendCtxDone
      <4>4. CASE InOrder!Junk
        BY <4>4 DEF InOrder!Junk
      <4>5. CASE InOrder!Environment \/ InOrder!Idle
        BY <4>5 DEF InOrder!Environment, InOrder!Consume, InOrder!Leave, InOrder!Cancel,
             InOrder!Idle, InOrder!vars
      <4> QED BY <2>1, <4>1, <4>2, <4>3, <4>4, <4>5 DEF InOrder!Next
    <3>2. /\ Cardinality(InOrder!Running') <= Cardinality(InOrder!Running)
          /\ Cardinality(InOrder!Running') \in Nat
      BY <2>2, <3>1, ItemSets
    <3> QED BY <2>1, <2>3, <2>4, <3>1, <3>2 DEF TokenInv
  <2> QED BY <2>5, <2>6, <2>7
<1> QED BY <1>1, <1>2, <1>3 DEF Next

-----------------------------------------------------------------------------
(* Every step is a step of the abstract map, or settles nothing. *)

LEMMA UnorderedSimulates ==
  ASSUME UInv, ~ordered, ordered' = ordered, Unordered!Next
  PROVE  [Abstract!Next]_(Abstract!vars)
<1> USE MapAssumption DEF Items, Unordered!Items, Abstract!Items, Unordered!envVars, Unordered!histVars,
        Settled
<1>1. ASSUME NEW i \in Items, Unordered!WorkSkip(i) PROVE Abstract!Skip(i)
  BY <1>1 DEF Unordered!WorkSkip, Abstract!Skip, Abstract!Due, UInv, UHandInv, UErrInv, Unordered!Busy
<1>2. ASSUME NEW i \in Items, Unordered!SendOk(i) PROVE Abstract!Emit(i)
  BY <1>2 DEF Unordered!SendOk, Unordered!Put, Abstract!Emit, Abstract!Due, UInv, UHandInv, UErrInv,
              Unordered!Busy
<1>3. ASSUME NEW i \in Items, \/ Unordered!WorkFail(i) \/ Unordered!WorkOk(i)
                              \/ Unordered!SendCtxDone(i) \/ Unordered!CancelInner(i)
      PROVE  UNCHANGED Abstract!vars
  BY <1>3 DEF Unordered!WorkFail, Unordered!WorkOk, Unordered!SendCtxDone, Unordered!CancelInner,
              Abstract!vars
<1>4. CASE Unordered!DReturn
  <2>1. ret = "running" /\ UNCHANGED <<ordered, sent, skipped, ctxDone, drained>>
    BY <1>4 DEF Unordered!DReturn, UInv, UHandInv
  <2>2. CASE errCh = "none"
    <3>1. Asked \/ \A i \in Items : w[i] = "end"
      BY <1>4, <2>2 DEF Unordered!DReturn, UInv, UHandInv, Unordered!Busy, Unordered!TypeOK
    <3>2. Asked \/ Items \subseteq Settled
      BY <2>2, <3>1 DEF UInv, UErrInv
    <3>3. Settled \subseteq Items
      BY SettledItems DEF UInv, Unordered!TypeOK, Unordered!EnvType
    <3>4. Asked \/ Settled = Items
      BY <3>2, <3>3
    <3>5. Abstract!Succeed
      BY <1>4, <2>1, <2>2, <3>4 DEF Unordered!DReturn, Abstract!Succeed, Asked
    <3> QED BY <3>5 DEF Abstract!Next
  <2>3. CASE errCh = "user"
    <3>1. Abstract!Fail
      BY <1>4, <2>1, <2>3 DEF Unordered!DReturn, Abstract!Fail, Abstract!Due, UInv, UErrInv
    <3> QED BY <3>1 DEF Abstract!Next
  <2>4. CASE errCh = "ctx"
    <3>1. Abstract!GiveUp
      BY <1>4, <2>1, <2>4 DEF Unordered!DReturn, Abstract!GiveUp, UInv, UErrInv, Asked
    <3> QED BY <3>1 DEF Abstract!Next
  <2> QED BY <2>2, <2>3, <2>4 DEF UInv, Unordered!TypeOK
<1>5. CASE Unordered!DRecv \/ Unordered!DClosed \/ Unordered!DDrained \/ Unordered!DInnerDone
           \/ Unordered!DSpawn \/ Unordered!Consume \/ Unordered!Idle
  BY <1>5 DEF Unordered!DRecv, Unordered!DClosed, Unordered!DDrained, Unordered!DInnerDone,
              Unordered!DSpawn, Unordered!Consume, Unordered!Idle, Unordered!vars, Abstract!vars
<1>6. CASE Unordered!Leave \/ Unordered!Cancel
  <2>1. UNCHANGED <<ordered, sent, skipped, ret>> /\ (ctxDone' \/ drained') = TRUE
    BY <1>6 DEF Unordered!Leave, Unordered!Cancel, UInv, Unordered!TypeOK, Unordered!EnvType
  <2>2. CASE Asked
    BY <2>1, <2>2 DEF Abstract!vars, Asked
  <2>3. CASE ~Asked
    BY <2>1, <2>3 DEF Abstract!Ask, Abstract!Next, Asked
  <2> QED BY <2>2, <2>3
<1> QED
  BY <1>1, <1>2, <1>3, <1>4, <1>5, <1>6
  DEF Unordered!Next, Unordered!Dispatcher, Unordered!Worker, Unordered!Environment, Abstract!Next

LEMMA OrderedSimulates ==
  ASSUME OInv, ordered, ordered' = ordered, InOrder!Next
  PROVE  [Abstract!Next]_(Abstract!vars)
<1> USE MapAssumption DEF Items, InOrder!Items, Abstract!Items, InOrder!envVars, InOrder!histVars,
        InOrder!slotVars, InOrder!drainerVars, Settled
<1>1. CASE InOrder!EResult
  <2>1. CASE res[cur] = "skip"
    <3>1. Abstract!Skip(cur) /\ cur \in Items
      BY <1>1, <2>1 DEF InOrder!EResult, Abstract!Skip, Abstract!Due, OInv, SlotInv, DrainerInv,
                        InOrder!TypeOK
    <3> QED BY <3>1 DEF Abstract!Next
  <2>2. CASE res[cur] # "skip"
    BY <1>1, <2>2 DEF InOrder!EResult, Abstract!vars
  <2> QED BY <2>1, <2>2
<1>2. CASE InOrder!ESend
  <2>1. Abstract!Emit(cur) /\ cur \in Items
    BY <1>2 DEF InOrder!ESend, InOrder!Put, Abstract!Emit, Abstract!Due, OInv, SlotInv, DrainerInv,
                InOrder!TypeOK
  <2> QED BY <2>1 DEF Abstract!Next
<1>3. CASE InOrder!DReturn
  <2>1. ret = "running" /\ UNCHANGED <<ordered, sent, skipped, ctxDone, drained>> /\ ret' = drainErrs
    BY <1>3 DEF InOrder!DReturn, OInv, DrainerInv
  <2>2. CASE drainErrs = "nil"
    <3>1. Abstract!Succeed
      BY <2>1, <2>2 DEF Abstract!Succeed, OInv, DrainerInv, Asked
    <3> QED BY <3>1 DEF Abstract!Next
  <2>3. CASE drainErrs = "user"
    <3>1. cur \in CanFail /\ Settled = 1..(cur - 1) /\ cur \in Nat
      BY <2>3 DEF OInv, DrainerInv, InOrder!TypeOK
    <3>2. Abstract!Due(cur)
      BY <3>1 DEF Abstract!Due
    <3>3. Abstract!Fail
      BY <2>1, <2>3, <3>1, <3>2 DEF Abstract!Fail
    <3> QED BY <3>3 DEF Abstract!Next
  <2>4. CASE drainErrs = "ctx"
    <3>1. Abstract!GiveUp
      BY <2>1, <2>4 DEF Abstract!GiveUp, OInv, DrainerInv, Asked
    <3> QED BY <3>1 DEF Abstract!Next
  <2> QED BY <1>3, <2>2, <2>3, <2>4 DEF OInv, InOrder!TypeOK, InOrder!DReturn
<1>4. CASE InOrder!DRecv \/ InOrder!DClosed \/ InOrder!DDrained \/ InOrder!DInnerDone
           \/ InOrder!DToken \/ InOrder!DSpawn \/ InOrder!DClose
  BY <1>4 DEF InOrder!DRecv, InOrder!DClosed, InOrder!DDrained, InOrder!DInnerDone,
              InOrder!DToken, InOrder!DSpawn, InOrder!DClose, Abstract!vars
<1>5. ASSUME NEW i \in Items, InOrder!Work(i) PROVE UNCHANGED Abstract!vars
  BY <1>5 DEF InOrder!Work, Abstract!vars
<1>6. CASE InOrder!ESlot \/ InOrder!EEnd \/ InOrder!ESendCtxDone \/ InOrder!Junk
           \/ InOrder!Consume \/ InOrder!Idle
  BY <1>6 DEF InOrder!ESlot, InOrder!EEnd, InOrder!ESendCtxDone, InOrder!Junk, InOrder!Consume,
              InOrder!Idle, InOrder!vars, Abstract!vars
<1>7. CASE InOrder!Leave \/ InOrder!Cancel
  <2>1. UNCHANGED <<ordered, sent, skipped, ret>> /\ (ctxDone' \/ drained') = TRUE
    BY <1>7 DEF InOrder!Leave, InOrder!Cancel, OInv, InOrder!TypeOK, InOrder!EnvType
  <2>2. CASE Asked
    BY <2>1, <2>2 DEF Abstract!vars, Asked
  <2>3. CASE ~Asked
    BY <2>1, <2>3 DEF Abstract!Ask, Abstract!Next, Asked
  <2> QED BY <2>2, <2>3
<1> QED
  BY <1>1, <1>2, <1>3, <1>4, <1>5, <1>6, <1>7
  DEF InOrder!Next, InOrder!Dispatcher, InOrder!Drainer, InOrder!Environment

-----------------------------------------------------------------------------
\* The first state satisfies the invariant.
LEMMA InitInv == Init => Inv
<1> SUFFICES ASSUME Init PROVE Inv
  OBVIOUS
<1> USE MapAssumption DEF Items, Unordered!Items, InOrder!Items
<1>0. << >> \in Seq(Items) /\ Len(<< >>) = 0
  OBVIOUS
<1>1. ordered \in BOOLEAN /\ Unordered!EnvInit /\ InOrder!EnvInit
  BY DEF Init, Unordered!Init, InOrder!Init
<1>2. Settled = {}
  BY <1>1 DEF Settled, Abstract!Settled, Unordered!EnvInit
<1>3. UInv
  <2>1. Unordered!TypeOK
    <3>1. Unordered!EnvType
      <4>1. next \in 1..(NItems + 1) /\ item \in 0..NItems
        BY <1>1 DEF Unordered!EnvInit
      <4>2. out \in Seq(Items) /\ sent \in Seq(Items) /\ Len(out) = 0
        BY <1>1, <1>0 DEF Unordered!EnvInit
      <4>3. Len(out) <= Cap
        BY <4>2
      <4> QED BY <1>1, <4>1, <4>2, <4>3 DEF Unordered!EnvInit, Unordered!EnvType
    <3> QED BY <3>1 DEF Init, Unordered!Init, Unordered!TypeOK
  <2>2. UHandInv
    BY DEF Init, Unordered!Init, Unordered!EnvInit, UHandInv
  <2>3. UErrInv
    BY <1>2 DEF Init, Unordered!Init, Unordered!EnvInit, UErrInv
  <2> QED BY <2>1, <2>2, <2>3 DEF UInv
<1>4. OInv
  <2>1. InOrder!TypeOK
    <3>1. InOrder!EnvType
      <4>1. next \in 1..(NItems + 1) /\ item \in 0..NItems
        BY <1>1 DEF InOrder!EnvInit
      <4>2. out \in Seq(Items) /\ sent \in Seq(Items) /\ Len(out) = 0
        BY <1>1, <1>0 DEF InOrder!EnvInit
      <4>3. Len(out) <= Cap
        BY <4>2
      <4> QED BY <1>1, <4>1, <4>2, <4>3 DEF InOrder!EnvInit, InOrder!EnvType
    <3>2. 0 <= 2 * Concurrency
      OBVIOUS
    <3>3. slots \in Seq(Items) /\ Len(slots) <= 2 * Concurrency
      BY <1>0, <3>2 DEF Init, InOrder!Init
    <3>4. cur \in 0..NItems
      BY DEF Init, InOrder!Init
    <3> QED BY <3>1, <3>3, <3>4 DEF Init, InOrder!Init, InOrder!TypeOK
  <2>2. SlotInv
    BY DEF Init, InOrder!Init, InOrder!EnvInit, SlotInv
  <2>3. DrainerInv
    BY <1>2 DEF Init, InOrder!Init, InOrder!EnvInit, DrainerInv
  <2> QED BY <2>1, <2>2, <2>3 DEF OInv
<1>5. Unordered!Busy = {} /\ InOrder!Running = {} /\ dpc # "slot"
  BY DEF Init, Unordered!Init, InOrder!Init, InOrder!EnvInit, Unordered!Busy, InOrder!Running
<1>6. TokenInv
  BY <1>5, FS_EmptySet DEF TokenInv
<1> QED BY <1>1, <1>3, <1>4, <1>6 DEF Inv

\* Every step keeps the invariant.
LEMMA StepInv == Inv /\ [Next]_vars => Inv'
<1> SUFFICES ASSUME Inv, [Next]_vars PROVE Inv'
  OBVIOUS
<1>1. TokenInv'
  BY TokenStep
<1>2. CASE IfUnordered(Unordered!Next)
  BY <1>1, <1>2, UnorderedStep DEF IfUnordered, Inv
<1>3. CASE IfOrdered(InOrder!Next)
  BY <1>1, <1>3, OrderedStep DEF IfOrdered, Inv
<1>4. CASE UNCHANGED vars
  <2>1. Settled' = Settled /\ Unordered!Busy' = Unordered!Busy
    BY <1>4 DEF vars, shared, histVars, unorderedVars, Settled, Abstract!Settled, Unordered!Busy
  <2>2. UInv => UInv'
    BY <1>4, <2>1 DEF vars, shared, envVars, histVars, unorderedVars, UInv, Unordered!TypeOK,
              Unordered!EnvType, UHandInv, UErrInv, Asked
  <2>3. OInv => OInv'
    BY <1>4, <2>1 DEF vars, shared, envVars, histVars, orderedVars, OInv, InOrder!TypeOK,
              InOrder!EnvType, SlotInv, DrainerInv, Asked
  <2> QED BY <1>1, <1>4, <2>2, <2>3 DEF Inv, vars
<1> QED BY <1>2, <1>3, <1>4 DEF Next

\* At most Concurrency functions run at once, in either stage function, for
\* any concurrency and any number of items (the semaphores of mapConcurrent
\* and mapOrdered).
THEOREM ConcurrencyBounded == Spec => []WithinConcurrency
<1>1. Inv => WithinConcurrency
  <2> SUFFICES ASSUME Inv PROVE WithinConcurrency
    OBVIOUS
  <2>1. Cardinality(InOrder!Running) \in Nat
    BY ItemSets DEF InOrder!Running, InOrder!Items, Items
  <2> QED BY <2>1, MapAssumption DEF Inv, TokenInv, WithinConcurrency
<1> QED BY InitInv, StepInv, <1>1, PTL DEF Spec

\* Both stage functions implement the abstract parallel map, for any number
\* of items: an item is settled at most once and, with Ordered(), in input
\* order; nothing is sent after the return; success means that every item is
\* settled unless the stage was asked to stop, and failure that an item that
\* was due can fail (mapConcurrent, mapOrdered).
THEOREM ImplementsMap == Spec => Refines
<1>1. Init => Abstract!Init
  BY DEF Init, Unordered!Init, Unordered!EnvInit, Abstract!Init
<1>2. Inv /\ [Next]_vars => [Abstract!Next]_(Abstract!vars)
  <2> SUFFICES ASSUME Inv, [Next]_vars PROVE [Abstract!Next]_(Abstract!vars)
    OBVIOUS
  <2>1. CASE IfUnordered(Unordered!Next)
    BY <2>1, UnorderedSimulates DEF IfUnordered, Inv
  <2>2. CASE IfOrdered(InOrder!Next)
    BY <2>2, OrderedSimulates DEF IfOrdered, Inv
  <2>3. CASE UNCHANGED vars
    BY <2>3 DEF vars, shared, envVars, histVars, Abstract!vars
  <2> QED BY <2>1, <2>2, <2>3 DEF Next
<1> QED BY InitInv, StepInv, <1>1, <1>2, PTL DEF Spec, Refines, Abstract!Spec
=============================================================================
