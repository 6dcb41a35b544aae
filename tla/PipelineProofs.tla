--------------------------- MODULE PipelineProofs ---------------------------
(***************************************************************************)
(* Proofs about Pipeline for every chain of stages, every buffer size and  *)
(* every number of items: type correctness, the safety of the cooperative  *)
(* drain protocol, the attribution of context errors, the order of the     *)
(* items in flight, and that none is lost on the way.                      *)
(***************************************************************************)
EXTENDS Pipeline, FiniteSetTheorems, TLAPS

\* Channel s-1 exists for every stage that receives, and channel s for every
\* stage that sends; kinds determine the position.
LEMMA Positions ==
  ASSUME NEW s \in Stages
  PROVE  /\ Kind[s] \notin Sources => s - 1 \in Chans /\ (s - 1) + 1 = s /\ s # 1
         /\ Kind[s] \notin Terminals => s \in Chans /\ s # N
         /\ s \in Nat /\ N \in Nat
         /\ Kind[s] \in Kinds
         /\ 1 \in Stages /\ 1 \in Chans
         /\ Kind[1] \in Sources
BY PipelineAssumption DEF Stages, Chans

\* Which selects the kinds have, as far as the proofs need it.
LEMMA KindFacts ==
  /\ Sources \cap Terminals = {}
  /\ Batching \cap Sources = {}
  /\ SignalsDone \cap Sources = {}
  /\ "fused" \in Terminals /\ "generate" \in Sources /\ "take" \notin Terminals
  /\ SendDrain \cap Terminals = {} /\ RecvDrain \cap Terminals = {}
  /\ PollDrain \cap Terminals = {}
BY DEF Sources, Terminals, Batching, SignalsDone, SendDrain, RecvDrain, PollDrain

\* Taking the head off a sequence of items.
LEMMA HeadTail ==
  ASSUME NEW q \in Seq(Nat), q # << >>
  PROVE  Head(q) \in Nat /\ Tail(q) \in Seq(Nat)
OBVIOUS

\* Where a stage goes when its body returns; only a source goes straight to
\* the close of its channel.
LEMMA DeferFacts ==
  ASSUME NEW s \in Stages
  PROVE  /\ FirstDefer(s) \in {"close", "sigdone", "signal"}
         /\ FirstDefer(s) = "close" <=> Kind[s] \in Sources
BY DEF FirstDefer

\* Where a stage goes after an item.
LEMMA ResumeFacts ==
  ASSUME NEW s \in Stages, NEW q
  PROVE  /\ Resume(s, q) \in {"send", "work", "turn", "recv"}
         /\ Resume(s, q) \in {"work", "recv"} => Kind[s] \notin Sources
         /\ Resume(s, q) = "send" => Kind[s] \in Sources /\ q # << >>
BY DEF Resume

LEMMA TypeStep == TypeOK /\ Shape /\ DrainInv /\ [Next]_vars => TypeOK' /\ Shape'
<1> SUFFICES ASSUME TypeOK, Shape, DrainInv, [Next]_vars
             PROVE  TypeOK' /\ Shape'
  OBVIOUS
<1> USE DEF netVars, drainVars, stageVars, runVars, histVars
<1>1. ASSUME NEW s \in Stages, Recv(s) PROVE TypeOK' /\ Shape'
  <2>1. TypeOK'
    <3>1. s - 1 \in Chans /\ ch[s-1] \in Seq(Nat) /\ hand[s] \in Seq(Nat)
      BY <1>1, Positions DEF Recv, TypeOK, Shape
    <3>2. Head(ch[s-1]) \in Nat /\ Tail(ch[s-1]) \in Seq(Nat)
      BY <1>1, <3>1, HeadTail DEF Recv
    <3>3. ch' \in [Chans -> Seq(Nat)]
      BY <1>1, <3>1, <3>2 DEF Recv, TypeOK
    <3>4. hand' \in [Stages -> Seq(Nat)]
      BY <1>1, <3>1, <3>2 DEF Recv, TypeOK
    <3>5. pc' \in [Stages -> Pcs]
      BY <1>1 DEF Recv, TypeOK, Goto, Pcs
    <3> QED
      BY <1>1, <3>3, <3>4, <3>5 DEF Recv, TypeOK
  <2>2. Shape'
    BY <1>1, Positions, DeferFacts, ResumeFacts, KindFacts
    DEF Recv, TypeOK, Shape, Leave, Goto, Pcs
  <2> QED BY <2>1, <2>2
<1>2. ASSUME NEW s \in Stages, RecvClosed(s) PROVE TypeOK' /\ Shape'
  <2>1. TypeOK'
    BY <1>2, Positions, DeferFacts, ResumeFacts, KindFacts, HeadTail
    DEF RecvClosed, TypeOK, Shape, Leave, Goto, Pcs, Errs
  <2>2. Shape'
    BY <1>2, Positions, DeferFacts, ResumeFacts, KindFacts
    DEF RecvClosed, TypeOK, Shape, Leave, Goto, Pcs
  <2> QED BY <2>1, <2>2
<1>3. ASSUME NEW s \in Stages, TakeExit(s) PROVE TypeOK' /\ Shape'
  <2>1. TypeOK'
    BY SMTT(30), <1>3, Positions, DeferFacts, ResumeFacts, KindFacts, HeadTail
    DEF TakeExit, TypeOK, Shape, Leave, Goto, Pcs, Errs
  <2>2. Shape'
    BY <1>3, Positions, DeferFacts, ResumeFacts, KindFacts
    DEF TakeExit, TypeOK, Shape, Leave, Goto, Pcs
  <2> QED BY <2>1, <2>2
<1>4. ASSUME NEW s \in Stages, RecvCtxDone(s) PROVE TypeOK' /\ Shape'
  <2>1. TypeOK'
    BY <1>4, Positions, DeferFacts, ResumeFacts, KindFacts, HeadTail
    DEF RecvCtxDone, TypeOK, Shape, Leave, Goto, Pcs, Errs
  <2>2. Shape'
    BY <1>4, Positions, DeferFacts, ResumeFacts, KindFacts
    DEF RecvCtxDone, TypeOK, Shape, Leave, Goto, Pcs
  <2> QED BY <2>1, <2>2
<1>5. ASSUME NEW s \in Stages, RecvDrained(s) PROVE TypeOK' /\ Shape'
  <2>1. TypeOK'
    BY SMTT(40), <1>5, Positions, DeferFacts, ResumeFacts, KindFacts, HeadTail
    DEF RecvDrained, TypeOK, Shape, LeaveDrained, Leave, Goto, Pcs, Errs
  <2>2. Shape'
    BY <1>5, Positions, DeferFacts, ResumeFacts, KindFacts
    DEF RecvDrained, TypeOK, Shape, LeaveDrained, Leave, Goto, Pcs
  <2> QED BY <2>1, <2>2
<1>6. ASSUME NEW s \in Stages, Fill(s) PROVE TypeOK' /\ Shape'
  <2>1. TypeOK'
    <3>1. s - 1 \in Chans /\ ch[s-1] \in Seq(Nat) /\ hand[s] \in Seq(Nat)
      BY <1>6, Positions DEF Fill, TypeOK, Shape
    <3>2. Head(ch[s-1]) \in Nat /\ Tail(ch[s-1]) \in Seq(Nat)
      BY <1>6, <3>1, HeadTail DEF Fill
    <3>3. ch' \in [Chans -> Seq(Nat)]
      BY <1>6, <3>1, <3>2 DEF Fill, TypeOK
    <3>4. hand' \in [Stages -> Seq(Nat)]
      BY <1>6, <3>1, <3>2 DEF Fill, TypeOK
    <3>5. pc' \in [Stages -> Pcs]
      BY <1>6 DEF Fill, TypeOK, Goto, Pcs
    <3> QED
      BY <1>6, <3>3, <3>4, <3>5 DEF Fill, TypeOK
  <2>2. Shape'
    BY <1>6, Positions, DeferFacts, ResumeFacts, KindFacts
    DEF Fill, TypeOK, Shape, Leave, Goto, Pcs
  <2> QED BY <2>1, <2>2
<1>7. ASSUME NEW s \in Stages, FillEnd(s) PROVE TypeOK' /\ Shape'
  <2>1. TypeOK'
    BY <1>7, Positions, DeferFacts, ResumeFacts, KindFacts, HeadTail
    DEF FillEnd, TypeOK, Shape, Leave, Goto, Pcs, Errs
  <2>2. Shape'
    BY <1>7, Positions, DeferFacts, ResumeFacts, KindFacts
    DEF FillEnd, TypeOK, Shape, Leave, Goto, Pcs
  <2> QED BY <2>1, <2>2
<1>8. ASSUME NEW s \in Stages, WorkOk(s) PROVE TypeOK' /\ Shape'
  <2>1. Head(hand[s]) \in Nat /\ Tail(hand[s]) \in Seq(Nat)
    BY <1>8, HeadTail DEF WorkOk, TypeOK
  <2>2. CASE Kind[s] \in Terminals
    <3>1. delivered' \in Seq(Nat) /\ hand' \in [Stages -> Seq(Nat)]
      <4>1. delivered' = Append(delivered, Head(hand[s])) /\ delivered \in Seq(Nat)
        BY <1>8, <2>2 DEF WorkOk, TypeOK
      <4>2. hand' = [hand EXCEPT ![s] = Tail(hand[s])]
        BY <1>8, <2>2 DEF WorkOk
      <4> QED BY <2>1, <4>1, <4>2 DEF TypeOK
    <3>2. pc' = [pc EXCEPT ![s] = Resume(s, Tail(hand[s]))] /\ ret' = ret
      BY <1>8, <2>2 DEF WorkOk, Goto
    <3>3. TypeOK'
      BY <1>8, <3>1, <3>2, ResumeFacts DEF WorkOk, TypeOK, Pcs
    <3>4. Kind[s] \notin Sources
      BY <2>2, KindFacts
    <3>5. \A t \in Stages : t # s => hand'[t] = hand[t] /\ pc'[t] = pc[t]
      BY <1>8, <2>2, <3>2 DEF WorkOk, TypeOK
    <3>6. pc'[s] = Resume(s, Tail(hand[s]))
      BY <3>2 DEF TypeOK
    <3>7. Shape'
      BY <3>4, <3>5, <3>6, <2>2, ResumeFacts DEF Shape
    <3> QED BY <3>3, <3>7
  <2>3. CASE Kind[s] \notin Terminals /\ Kind[s] \in CheckCtx /\ ctxDone
    BY ZenonT(40), <1>8, <2>3, DeferFacts, KindFacts
    DEF WorkOk, TypeOK, Shape, Leave, Goto, Pcs, Errs
  <2>4. CASE Kind[s] \notin Terminals /\ ~(Kind[s] \in CheckCtx /\ ctxDone)
    BY <1>8, <2>4 DEF WorkOk, TypeOK, Shape, Goto, Pcs
  <2> QED BY <2>2, <2>3, <2>4
<1>9. ASSUME NEW s \in Stages, WorkSkip(s) PROVE TypeOK' /\ Shape'
  <2>1. Head(hand[s]) \in Nat /\ Tail(hand[s]) \in Seq(Nat)
    BY <1>9, HeadTail DEF WorkSkip, TypeOK
  <2>2. hand' \in [Stages -> Seq(Nat)] /\ skipped' \in SUBSET (Stages \X Nat)
    BY <1>9, <2>1 DEF WorkSkip, TypeOK
  <2>3. pc' \in [Stages -> Pcs]
    BY <1>9, ResumeFacts DEF WorkSkip, TypeOK, Goto, Pcs
  <2>4. TypeOK'
    BY <1>9, <2>2, <2>3 DEF WorkSkip, TypeOK
  <2>5. Shape'
    BY <1>9, Positions, ResumeFacts, KindFacts DEF WorkSkip, TypeOK, Shape, Goto
  <2> QED BY <2>4, <2>5
<1>10. ASSUME NEW s \in Stages, WorkFail(s) PROVE TypeOK' /\ Shape'
  <2>1. PICK e \in Errs : Leave(s, e)
    BY <1>10 DEF WorkFail, Errs
  <2>2. TypeOK'
    BY <1>10, <2>1, DeferFacts DEF WorkFail, TypeOK, Leave, Goto, Pcs
  <2>3. Shape'
    BY <1>10, <2>1, DeferFacts DEF WorkFail, TypeOK, Shape, Leave, Goto
  <2> QED BY <2>2, <2>3
<1>11. ASSUME NEW s \in Stages, Send(s) PROVE TypeOK' /\ Shape'
  <2>1. s \in Chans /\ Kind[s] \notin Terminals /\ hand[s] \in Seq(Nat) /\ hand[s] # << >>
    BY <1>11, Positions DEF Send, TypeOK, Shape
  <2>2. Head(hand[s]) \in Nat /\ Tail(hand[s]) \in Seq(Nat)
    BY <2>1, HeadTail
  <2>3. ch' \in [Chans -> Seq(Nat)]
    BY <1>11, <2>1, <2>2 DEF Send, TypeOK
  <2>4. hand' = [hand EXCEPT ![s] = Tail(hand[s])] /\ hand' \in [Stages -> Seq(Nat)]
    BY <1>11, <2>2 DEF Send, TypeOK
  <2>5. taken' \in [Stages -> Nat]
    BY <1>11 DEF Send, TypeOK
  <2>6. PICK l \in {"send", "work", "turn", "recv", "close"} :
          /\ pc' = [pc EXCEPT ![s] = l] /\ ret' \in [Stages -> Errs]
          /\ l \in {"work", "recv"} => Kind[s] \notin Sources
          /\ l = "send" => Tail(hand[s]) # << >>
    <3>1. CASE Kind[s] = "generate" /\ StageCtxDone
      BY ZenonT(40), <1>11, <3>1, DeferFacts, KindFacts DEF Send, Leave, Goto, TypeOK, Errs
    <3>2. CASE ~(Kind[s] = "generate" /\ StageCtxDone)
      BY <1>11, <3>2, ResumeFacts DEF Send, Goto, TypeOK
    <3> QED BY <3>1, <3>2
  <2>7. TypeOK'
    BY <1>11, <2>3, <2>4, <2>5, <2>6 DEF Send, TypeOK, Pcs
  <2>8. Shape'
    BY <2>1, <2>4, <2>6 DEF Shape, TypeOK
  <2> QED BY <2>7, <2>8
<1>12. ASSUME NEW s \in Stages, SendCtxDone(s) PROVE TypeOK' /\ Shape'
  <2>1. TypeOK'
    BY <1>12, Positions, DeferFacts, ResumeFacts, KindFacts, HeadTail
    DEF SendCtxDone, TypeOK, Shape, Leave, Goto, Pcs, Errs
  <2>2. Shape'
    BY <1>12, Positions, DeferFacts, ResumeFacts, KindFacts
    DEF SendCtxDone, TypeOK, Shape, Leave, Goto, Pcs
  <2> QED BY <2>1, <2>2
<1>13. ASSUME NEW s \in Stages, SendDrained(s) PROVE TypeOK' /\ Shape'
  <2>1. TypeOK'
    BY SMTT(40), <1>13, Positions, DeferFacts, ResumeFacts, KindFacts, HeadTail
    DEF SendDrained, TypeOK, Shape, LeaveDrained, Leave, Goto, Pcs, Errs
  <2>2. Shape'
    BY <1>13, Positions, DeferFacts, ResumeFacts, KindFacts
    DEF SendDrained, TypeOK, Shape, LeaveDrained, Leave, Goto, Pcs
  <2> QED BY <2>1, <2>2
<1>14. ASSUME NEW s \in Stages, SendStopped(s) PROVE TypeOK' /\ Shape'
  <2>1. TypeOK'
    BY <1>14, Positions, DeferFacts, ResumeFacts, KindFacts, HeadTail
    DEF SendStopped, TypeOK, Shape, Leave, Goto, Pcs, Errs
  <2>2. Shape'
    BY <1>14, Positions, DeferFacts, ResumeFacts, KindFacts
    DEF SendStopped, TypeOK, Shape, Leave, Goto, Pcs
  <2> QED BY <2>1, <2>2
<1>15. ASSUME NEW s \in Stages, SourceEnd(s) PROVE TypeOK' /\ Shape'
  <2>1. CASE Leave(s, "nil")
    BY <1>15, <2>1, DeferFacts, KindFacts
    DEF SourceEnd, TypeOK, Shape, Leave, Goto, Pcs, Errs
  <2>2. CASE Leave(s, "user")
    BY <1>15, <2>2, DeferFacts, KindFacts
    DEF SourceEnd, TypeOK, Shape, Leave, Goto, Pcs, Errs
  <2>3. CASE Goto(s, "park") /\ UNCHANGED ret
    BY <1>15, <2>3 DEF SourceEnd, TypeOK, Shape, Goto, Pcs
  <2> QED BY <1>15, <2>1, <2>2, <2>3 DEF SourceEnd
<1>16. ASSUME NEW s \in Stages, Unpark(s) PROVE TypeOK' /\ Shape'
  <2>1. TypeOK'
    BY <1>16, Positions, DeferFacts, ResumeFacts, KindFacts, HeadTail
    DEF Unpark, TypeOK, Shape, Leave, Goto, Pcs, Errs
  <2>2. Shape'
    BY <1>16, Positions, DeferFacts, ResumeFacts, KindFacts
    DEF Unpark, TypeOK, Shape, Leave, Goto, Pcs
  <2> QED BY <2>1, <2>2
<1>17. ASSUME NEW s \in Stages, BatchEnd(s) PROVE TypeOK' /\ Shape'
  <2>1. Kind[s] \notin Sources
    BY <1>17, KindFacts DEF BatchEnd
  <2>2. PICK l \in {"recv", "sigdone", "signal"} : pc' = [pc EXCEPT ![s] = l]
    BY <1>17, <2>1, DeferFacts DEF BatchEnd, LeaveDrained, Leave, Goto
  <2>3. ret' \in [Stages -> Errs] /\ coop' \in [Stages -> BOOLEAN]
    BY <1>17 DEF BatchEnd, LeaveDrained, Leave, TypeOK, Errs
  <2>4. TypeOK'
    BY <1>17, <2>2, <2>3 DEF BatchEnd, TypeOK, Pcs
  <2>5. Shape'
    BY <1>17, <2>1, <2>2 DEF BatchEnd, TypeOK, Shape
  <2> QED BY <2>4, <2>5
<1>18. ASSUME NEW s \in Stages, DeferSignalDone(s) PROVE TypeOK' /\ Shape'
  <2>1. TypeOK'
    BY <1>18, Positions, DeferFacts, ResumeFacts, KindFacts, HeadTail
    DEF DeferSignalDone, TypeOK, Shape, Leave, Goto, Pcs, Errs
  <2>2. Shape'
    BY <1>18, Positions, DeferFacts, ResumeFacts, KindFacts
    DEF DeferSignalDone, TypeOK, Shape, Leave, Goto, Pcs
  <2> QED BY <2>1, <2>2
<1>19. ASSUME NEW s \in Stages, DeferSignalDrain(s) PROVE TypeOK' /\ Shape'
  <2>1. s - 1 \in Chans /\ (s - 1) + 1 = s /\ pc[s] = "signal"
    BY <1>19, Positions DEF DeferSignalDrain, Shape
  <2>2. InitialRefs(Consumers[s-1]) \in Nat /\ InitialRefs(Consumers[s-1]) >= 1
    BY <2>1, PipelineAssumption DEF InitialRefs
  <2>3. refs[s-1] \in Nat /\ refs[s-1] >= 1
    BY <2>1, <2>2 DEF DrainInv, HasSignalled, Signalled
  <2>4. refs' \in [Chans -> Nat] /\ drained' \in [Chans -> BOOLEAN]
    <3>1. CASE Kind[s] = "fused"
      BY <1>19, <3>1 DEF DeferSignalDrain, TypeOK
    <3>2. CASE Kind[s] # "fused"
      <4>1. SignalDrain(s-1)
        BY <1>19, <3>2 DEF DeferSignalDrain
      <4>2. refs' \in [Chans -> Nat]
        BY <4>1, <2>1, <2>3 DEF SignalDrain, TypeOK
      <4>3. drained' \in [Chans -> BOOLEAN]
        BY <4>1, <2>1, <2>3 DEF SignalDrain, TypeOK
      <4> QED BY <4>2, <4>3
    <3> QED BY <3>1, <3>2
  <2>5. drainer' \in [Chans -> {"none", "running", "ended"}]
    BY <1>19, <2>1 DEF DeferSignalDrain, TypeOK
  <2>6. PICK l \in {"return", "close"} :
          pc' = [pc EXCEPT ![s] = l] /\ (l = "close" => s # N)
    BY <1>19 DEF DeferSignalDrain, Goto
  <2>7. TypeOK'
    BY <1>19, <2>4, <2>5, <2>6 DEF DeferSignalDrain, TypeOK, Pcs
  <2>8. Shape'
    BY <1>19, <2>6, PipelineAssumption DEF DeferSignalDrain, TypeOK, Shape
  <2> QED BY <2>7, <2>8
<1>20. ASSUME NEW s \in Stages, DeferClose(s) PROVE TypeOK' /\ Shape'
  <2>1. TypeOK'
    BY <1>20, Positions, DeferFacts, ResumeFacts, KindFacts, HeadTail
    DEF DeferClose, TypeOK, Shape, Leave, Goto, Pcs, Errs
  <2>2. Shape'
    BY <1>20, Positions, DeferFacts, ResumeFacts, KindFacts
    DEF DeferClose, TypeOK, Shape, Leave, Goto, Pcs
  <2> QED BY <2>1, <2>2
<1>21. ASSUME NEW s \in Stages, GroupReturn(s) PROVE TypeOK' /\ Shape'
  <2>1. TypeOK'
    BY ZenonT(40), <1>21, Positions, DeferFacts, ResumeFacts, KindFacts, HeadTail
    DEF GroupReturn, TypeOK, Shape, Leave, Goto, Pcs, Errs
  <2>2. Shape'
    BY <1>21, Positions, DeferFacts, ResumeFacts, KindFacts
    DEF GroupReturn, TypeOK, Shape, Leave, Goto, Pcs
  <2> QED BY <2>1, <2>2
<1>22. ASSUME NEW c \in Chans, DrainStep(c) PROVE TypeOK' /\ Shape'
  <2>1. ch[c] # << >> => Tail(ch[c]) \in Seq(Nat)
    BY HeadTail DEF TypeOK
  <2>2. ch' \in [Chans -> Seq(Nat)]
    BY <1>22, <2>1 DEF DrainStep, TypeOK
  <2> QED
    BY <1>22, <2>2 DEF DrainStep, TypeOK, Shape
<1>23. ASSUME Watch PROVE TypeOK' /\ Shape'
  BY <1>23, HeadTail DEF Watch, TypeOK, Shape, Errs
<1>24. ASSUME Cancel PROVE TypeOK' /\ Shape'
  BY <1>24, HeadTail DEF Cancel, TypeOK, Shape, Errs
<1>25. ASSUME DrainPhase PROVE TypeOK' /\ Shape'
  BY <1>25, HeadTail DEF DrainPhase, TypeOK, Shape, Errs
<1>26. ASSUME HardStop PROVE TypeOK' /\ Shape'
  BY <1>26, HeadTail DEF HardStop, TypeOK, Shape, Errs
<1>27. ASSUME RunReturn PROVE TypeOK' /\ Shape'
  BY <1>27, HeadTail DEF RunReturn, TypeOK, Shape, Errs
<1>28. CASE UNCHANGED vars
  BY <1>28 DEF vars, TypeOK, Shape
<1> QED
  BY <1>1, <1>2, <1>3, <1>4, <1>5, <1>6, <1>7, <1>8, <1>9, <1>10, <1>11, <1>12, <1>13, <1>14, <1>15, <1>16, <1>17, <1>18, <1>19, <1>20, <1>21, <1>22, <1>23, <1>24, <1>25, <1>26, <1>27, <1>28
  DEF Next, StageStep, Receive, Work, SendOut, Turn, Defers, Idle

-----------------------------------------------------------------------------
\* A step of a stage that neither signals nor comes to have signalled keeps
\* the drain invariant, whatever becomes of its cooperativeDrain flag.
LEMMA QuietStep ==
  ASSUME DrainInv, TypeOK, NEW s \in Stages, NEW l,
         pc' = [pc EXCEPT ![s] = l],
         (pc[s] \in Signalled <=> l \in Signalled) \/ Kind[s] \in Sources,
         refs' = refs, drained' = drained,
         \A t \in Stages : coop'[t] => coop[t] \/ Kind[t] # "fused"
  PROVE  DrainInv'
<1>1. ASSUME NEW c \in Chans PROVE HasSignalled(c+1)' <=> HasSignalled(c+1)
  <2>1. c + 1 \in Stages /\ Kind[c+1] \notin Sources
    BY PipelineAssumption DEF Chans, Stages
  <2> QED BY <2>1 DEF HasSignalled, TypeOK
<1> QED BY <1>1 DEF DrainInv

\* The reference counts stay exact.
LEMMA DrainStepInv == TypeOK /\ Shape /\ DrainInv /\ [Next]_vars => DrainInv'
<1> SUFFICES ASSUME TypeOK, Shape, DrainInv, [Next]_vars
             PROVE  DrainInv'
  OBVIOUS
<1> USE DEF netVars, drainVars, stageVars, runVars, histVars
<1>1. ASSUME NEW s \in Stages, Recv(s) PROVE DrainInv'
  <2> DEFINE l == IF Kind[s] \in Batching THEN "fill" ELSE "work"
  <2>1. pc' = [pc EXCEPT ![s] = l] /\ pc[s] \notin Signalled /\ l \notin Signalled
    BY <1>1 DEF Recv, Goto, Signalled
  <2>2. \A t \in Stages : coop'[t] => coop[t] \/ Kind[t] # "fused"
    BY <1>1 DEF Recv
  <2> HIDE DEF l
  <2> QED BY <1>1, <2>1, <2>2, QuietStep DEF Recv
<1>2. ASSUME NEW s \in Stages, RecvClosed(s) PROVE DrainInv'
  <2>1. PICK l : /\ pc' = [pc EXCEPT ![s] = l]
                 /\ (pc[s] \in Signalled <=> l \in Signalled) \/ Kind[s] \in Sources
    BY <1>2, DeferFacts, ResumeFacts DEF RecvClosed, Leave, Goto, Signalled
  <2>2. \A t \in Stages : coop'[t] => coop[t] \/ Kind[t] # "fused"
    BY <1>2, KindFacts DEF RecvClosed, Leave, Goto, TypeOK
  <2> QED BY <1>2, <2>1, <2>2, QuietStep DEF RecvClosed
<1>3. ASSUME NEW s \in Stages, TakeExit(s) PROVE DrainInv'
  <2>1. PICK l : /\ pc' = [pc EXCEPT ![s] = l]
                 /\ (pc[s] \in Signalled <=> l \in Signalled) \/ Kind[s] \in Sources
    BY <1>3, DeferFacts, ResumeFacts DEF TakeExit, Leave, Goto, Signalled
  <2>2. \A t \in Stages : coop'[t] => coop[t] \/ Kind[t] # "fused"
    BY <1>3, KindFacts DEF TakeExit, Leave, Goto, TypeOK
  <2> QED BY <1>3, <2>1, <2>2, QuietStep DEF TakeExit
<1>4. ASSUME NEW s \in Stages, RecvCtxDone(s) PROVE DrainInv'
  <2>1. PICK l : /\ pc' = [pc EXCEPT ![s] = l]
                 /\ (pc[s] \in Signalled <=> l \in Signalled) \/ Kind[s] \in Sources
    BY <1>4, DeferFacts, ResumeFacts DEF RecvCtxDone, Leave, Goto, Signalled
  <2>2. \A t \in Stages : coop'[t] => coop[t] \/ Kind[t] # "fused"
    BY <1>4, KindFacts DEF RecvCtxDone, Leave, Goto, TypeOK
  <2> QED BY <1>4, <2>1, <2>2, QuietStep DEF RecvCtxDone
<1>5. ASSUME NEW s \in Stages, RecvDrained(s) PROVE DrainInv'
  <2>1. PICK l : /\ pc' = [pc EXCEPT ![s] = l]
                 /\ (pc[s] \in Signalled <=> l \in Signalled) \/ Kind[s] \in Sources
    BY <1>5, DeferFacts, ResumeFacts DEF RecvDrained, LeaveDrained, Leave, Goto, Signalled
  <2>2. \A t \in Stages : coop'[t] => coop[t] \/ Kind[t] # "fused"
    BY <1>5, KindFacts DEF RecvDrained, LeaveDrained, Leave, Goto, TypeOK
  <2> QED BY <1>5, <2>1, <2>2, QuietStep DEF RecvDrained, LeaveDrained
<1>6. ASSUME NEW s \in Stages, Fill(s) PROVE DrainInv'
  BY <1>6 DEF Fill, DrainInv, HasSignalled
<1>7. ASSUME NEW s \in Stages, FillEnd(s) PROVE DrainInv'
  <2> DEFINE l == "work"
  <2>1. pc' = [pc EXCEPT ![s] = l] /\ pc[s] \notin Signalled /\ l \notin Signalled
    BY <1>7 DEF FillEnd, Goto, Signalled
  <2>2. \A t \in Stages : coop'[t] => coop[t] \/ Kind[t] # "fused"
    BY <1>7 DEF FillEnd
  <2> HIDE DEF l
  <2> QED BY <1>7, <2>1, <2>2, QuietStep DEF FillEnd
<1>8. ASSUME NEW s \in Stages, WorkOk(s) PROVE DrainInv'
  <2>1. PICK l : /\ pc' = [pc EXCEPT ![s] = l]
                 /\ (pc[s] \in Signalled <=> l \in Signalled) \/ Kind[s] \in Sources
    BY <1>8, DeferFacts, ResumeFacts DEF WorkOk, Leave, Goto, Signalled
  <2>2. \A t \in Stages : coop'[t] => coop[t] \/ Kind[t] # "fused"
    BY <1>8, KindFacts DEF WorkOk, Leave, Goto, TypeOK
  <2> QED BY <1>8, <2>1, <2>2, QuietStep DEF WorkOk
<1>9. ASSUME NEW s \in Stages, WorkSkip(s) PROVE DrainInv'
  <2>1. PICK l : /\ pc' = [pc EXCEPT ![s] = l]
                 /\ (pc[s] \in Signalled <=> l \in Signalled) \/ Kind[s] \in Sources
    BY <1>9, DeferFacts, ResumeFacts DEF WorkSkip, Leave, Goto, Signalled
  <2>2. \A t \in Stages : coop'[t] => coop[t] \/ Kind[t] # "fused"
    BY <1>9, KindFacts DEF WorkSkip, Leave, Goto, TypeOK
  <2> QED BY <1>9, <2>1, <2>2, QuietStep DEF WorkSkip
<1>10. ASSUME NEW s \in Stages, WorkFail(s) PROVE DrainInv'
  <2>1. PICK l : /\ pc' = [pc EXCEPT ![s] = l]
                 /\ (pc[s] \in Signalled <=> l \in Signalled) \/ Kind[s] \in Sources
    BY <1>10, DeferFacts, ResumeFacts DEF WorkFail, Leave, Goto, Signalled
  <2>2. \A t \in Stages : coop'[t] => coop[t] \/ Kind[t] # "fused"
    BY <1>10, KindFacts DEF WorkFail, Leave, Goto, TypeOK
  <2> QED BY <1>10, <2>1, <2>2, QuietStep DEF WorkFail
<1>11. ASSUME NEW s \in Stages, Send(s) PROVE DrainInv'
  <2>1. PICK l : /\ pc' = [pc EXCEPT ![s] = l]
                 /\ (pc[s] \in Signalled <=> l \in Signalled) \/ Kind[s] \in Sources
    BY <1>11, DeferFacts, ResumeFacts DEF Send, Leave, Goto, Signalled
  <2>2. \A t \in Stages : coop'[t] => coop[t] \/ Kind[t] # "fused"
    BY <1>11, KindFacts DEF Send, Leave, Goto, TypeOK
  <2> QED BY <1>11, <2>1, <2>2, QuietStep DEF Send
<1>12. ASSUME NEW s \in Stages, SendCtxDone(s) PROVE DrainInv'
  <2>1. PICK l : /\ pc' = [pc EXCEPT ![s] = l]
                 /\ (pc[s] \in Signalled <=> l \in Signalled) \/ Kind[s] \in Sources
    BY <1>12, DeferFacts, ResumeFacts DEF SendCtxDone, Leave, Goto, Signalled
  <2>2. \A t \in Stages : coop'[t] => coop[t] \/ Kind[t] # "fused"
    BY <1>12, KindFacts DEF SendCtxDone, Leave, Goto, TypeOK
  <2> QED BY <1>12, <2>1, <2>2, QuietStep DEF SendCtxDone
<1>13. ASSUME NEW s \in Stages, SendDrained(s) PROVE DrainInv'
  <2>1. PICK l : /\ pc' = [pc EXCEPT ![s] = l]
                 /\ (pc[s] \in Signalled <=> l \in Signalled) \/ Kind[s] \in Sources
    BY <1>13, DeferFacts, ResumeFacts DEF SendDrained, LeaveDrained, Leave, Goto, Signalled
  <2>2. \A t \in Stages : coop'[t] => coop[t] \/ Kind[t] # "fused"
    BY <1>13, KindFacts DEF SendDrained, LeaveDrained, Leave, Goto, TypeOK
  <2> QED BY <1>13, <2>1, <2>2, QuietStep DEF SendDrained, LeaveDrained
<1>14. ASSUME NEW s \in Stages, SendStopped(s) PROVE DrainInv'
  <2>1. PICK l : /\ pc' = [pc EXCEPT ![s] = l]
                 /\ (pc[s] \in Signalled <=> l \in Signalled) \/ Kind[s] \in Sources
    BY <1>14, DeferFacts, ResumeFacts DEF SendStopped, Leave, Goto, Signalled
  <2>2. \A t \in Stages : coop'[t] => coop[t] \/ Kind[t] # "fused"
    BY <1>14, KindFacts DEF SendStopped, Leave, Goto, TypeOK
  <2> QED BY <1>14, <2>1, <2>2, QuietStep DEF SendStopped
<1>15. ASSUME NEW s \in Stages, SourceEnd(s) PROVE DrainInv'
  <2>1. PICK l : /\ pc' = [pc EXCEPT ![s] = l]
                 /\ (pc[s] \in Signalled <=> l \in Signalled) \/ Kind[s] \in Sources
    BY <1>15, DeferFacts, ResumeFacts DEF SourceEnd, Leave, Goto, Signalled
  <2>2. \A t \in Stages : coop'[t] => coop[t] \/ Kind[t] # "fused"
    BY <1>15, KindFacts DEF SourceEnd, Leave, Goto, TypeOK
  <2> QED BY <1>15, <2>1, <2>2, QuietStep DEF SourceEnd
<1>16. ASSUME NEW s \in Stages, Unpark(s) PROVE DrainInv'
  <2>1. PICK l : /\ pc' = [pc EXCEPT ![s] = l]
                 /\ (pc[s] \in Signalled <=> l \in Signalled) \/ Kind[s] \in Sources
    BY <1>16, DeferFacts, ResumeFacts DEF Unpark, Leave, Goto, Signalled
  <2>2. \A t \in Stages : coop'[t] => coop[t] \/ Kind[t] # "fused"
    BY <1>16, KindFacts DEF Unpark, Leave, Goto, TypeOK
  <2> QED BY <1>16, <2>1, <2>2, QuietStep DEF Unpark
<1>17. ASSUME NEW s \in Stages, BatchEnd(s) PROVE DrainInv'
  <2>1. PICK l : /\ pc' = [pc EXCEPT ![s] = l]
                 /\ (pc[s] \in Signalled <=> l \in Signalled) \/ Kind[s] \in Sources
    BY <1>17, DeferFacts, ResumeFacts DEF BatchEnd, LeaveDrained, Leave, Goto, Signalled
  <2>2. \A t \in Stages : coop'[t] => coop[t] \/ Kind[t] # "fused"
    BY ZenonT(40), <1>17, KindFacts DEF BatchEnd, LeaveDrained, Leave, Goto, TypeOK
  <2> QED BY <1>17, <2>1, <2>2, QuietStep DEF BatchEnd, LeaveDrained
<1>18. ASSUME NEW s \in Stages, DeferSignalDone(s) PROVE DrainInv'
  <2> DEFINE l == "signal"
  <2>1. pc' = [pc EXCEPT ![s] = l] /\ pc[s] \notin Signalled /\ l \notin Signalled
    BY <1>18 DEF DeferSignalDone, Goto, Signalled
  <2>2. \A t \in Stages : coop'[t] => coop[t] \/ Kind[t] # "fused"
    BY <1>18 DEF DeferSignalDone
  <2> HIDE DEF l
  <2> QED BY <1>18, <2>1, <2>2, QuietStep DEF DeferSignalDone
<1>19. ASSUME NEW s \in Stages, DeferSignalDrain(s) PROVE DrainInv'
  <2>1. s - 1 \in Chans /\ (s - 1) + 1 = s /\ pc[s] = "signal"
    BY <1>19, Positions DEF DeferSignalDrain, Shape
  <2>2. pc'[s] \in Signalled /\ \A t \in Stages : t # s => pc'[t] = pc[t]
    BY <1>19 DEF DeferSignalDrain, Goto, TypeOK, Signalled
  <2>3. ~HasSignalled(s) /\ (HasSignalled(s)' <=> Kind[s] # "fused")
    BY <2>1, <2>2 DEF HasSignalled, Signalled
  <2>4. ASSUME NEW c \in Chans, c # s - 1
        PROVE  HasSignalled(c+1)' <=> HasSignalled(c+1)
    <3>1. c + 1 \in Stages /\ c + 1 # s
      BY <2>4, PipelineAssumption DEF Chans, Stages
    <3> QED BY <2>2, <3>1 DEF HasSignalled
  <2>5. \A t \in Stages : coop'[t] = coop[t]
    BY <1>19 DEF DeferSignalDrain
  <2>6. CASE Kind[s] = "fused"
    BY <1>19, <2>1, <2>3, <2>4, <2>5, <2>6 DEF DeferSignalDrain, DrainInv
  <2>7. CASE Kind[s] # "fused"
    <3>1. SignalDrain(s-1)
      BY <1>19, <2>7 DEF DeferSignalDrain
    <3>2. InitialRefs(Consumers[s-1]) \in Nat /\ InitialRefs(Consumers[s-1]) >= 1
      BY <2>1, PipelineAssumption DEF InitialRefs
    <3>3. refs[s-1] = InitialRefs(Consumers[s-1]) /\ ~drained[s-1]
      BY <2>1, <2>3, <3>2 DEF DrainInv, TypeOK
    <3>4. /\ refs'[s-1] = InitialRefs(Consumers[s-1]) - 1
          /\ drained'[s-1] <=> refs'[s-1] = 0
      BY <2>1, <3>1, <3>3 DEF SignalDrain, TypeOK
    <3>5. \A c \in Chans : c # s-1 => refs'[c] = refs[c] /\ drained'[c] = drained[c]
      BY <3>1 DEF SignalDrain, TypeOK
    <3>6. ASSUME NEW c \in Chans
          PROVE  /\ refs'[c] = InitialRefs(Consumers[c])
                                 - (IF HasSignalled(c+1)' THEN 1 ELSE 0)
                 /\ drained'[c] <=> refs'[c] = 0
      <4>1. CASE c = s - 1
        BY <2>1, <2>3, <2>7, <3>4, <4>1
      <4>2. CASE c # s - 1
        BY <2>4, <3>5, <4>2 DEF DrainInv
      <4> QED BY <4>1, <4>2
    <3> QED
      BY <2>5, <3>6 DEF DrainInv
  <2> QED BY <2>6, <2>7
<1>20. ASSUME NEW s \in Stages, DeferClose(s) PROVE DrainInv'
  <2>1. PICK l : /\ pc' = [pc EXCEPT ![s] = l]
                 /\ (pc[s] \in Signalled <=> l \in Signalled) \/ Kind[s] \in Sources
    BY <1>20, DeferFacts, ResumeFacts DEF DeferClose, Leave, Goto, Signalled
  <2>2. \A t \in Stages : coop'[t] => coop[t] \/ Kind[t] # "fused"
    BY <1>20, KindFacts DEF DeferClose, Leave, Goto, TypeOK
  <2> QED BY <1>20, <2>1, <2>2, QuietStep DEF DeferClose
<1>21. ASSUME NEW s \in Stages, GroupReturn(s) PROVE DrainInv'
  <2>1. PICK l : /\ pc' = [pc EXCEPT ![s] = l]
                 /\ (pc[s] \in Signalled <=> l \in Signalled) \/ Kind[s] \in Sources
    BY <1>21, DeferFacts, ResumeFacts DEF GroupReturn, Leave, Goto, Signalled
  <2>2. \A t \in Stages : coop'[t] => coop[t] \/ Kind[t] # "fused"
    BY <1>21, KindFacts DEF GroupReturn, Leave, Goto, TypeOK
  <2> QED BY <1>21, <2>1, <2>2, QuietStep DEF GroupReturn
<1>22. ASSUME NEW c \in Chans, DrainStep(c) PROVE DrainInv'
  BY <1>22 DEF DrainStep, DrainInv, HasSignalled
<1>23. ASSUME Watch PROVE DrainInv'
  BY <1>23 DEF Watch, DrainInv, HasSignalled
<1>24. ASSUME Cancel PROVE DrainInv'
  BY <1>24 DEF Cancel, DrainInv, HasSignalled
<1>25. ASSUME DrainPhase PROVE DrainInv'
  BY <1>25 DEF DrainPhase, DrainInv, HasSignalled
<1>26. ASSUME HardStop PROVE DrainInv'
  BY <1>26 DEF HardStop, DrainInv, HasSignalled
<1>27. ASSUME RunReturn PROVE DrainInv'
  BY <1>27 DEF RunReturn, DrainInv, HasSignalled
<1>28. CASE UNCHANGED vars
  BY <1>28 DEF vars, DrainInv, HasSignalled
<1> QED
  BY <1>1, <1>2, <1>3, <1>4, <1>5, <1>6, <1>7, <1>8, <1>9, <1>10, <1>11, <1>12, <1>13, <1>14, <1>15, <1>16, <1>17, <1>18, <1>19, <1>20, <1>21, <1>22, <1>23, <1>24, <1>25, <1>26, <1>27, <1>28
  DEF Next, StageStep, Receive, Work, SendOut, Turn, Defers, Idle

-----------------------------------------------------------------------------
\* A stage step that leaves the run's own state alone keeps the error
\* invariant if it returns a context error only under a cancelled context.
LEMMA CalmStep ==
  ASSUME ErrorInv, TypeOK, NEW s \in Stages, NEW e \in Errs,
         ret' = ret \/ ret' = [ret EXCEPT ![s] = e],
         e = "ctx" => ctxDone,
         UNCHANGED <<ctxDone, parentDone, runErr, watcher, result>>
  PROVE  ErrorInv'
BY DEF ErrorInv, ErrorAttribution, TypeOK

\* Context errors stay attributed.
LEMMA ErrorStepInv == TypeOK /\ ErrorInv /\ [Next]_vars => ErrorInv'
<1> SUFFICES ASSUME TypeOK, ErrorInv, [Next]_vars
             PROVE  ErrorInv'
  OBVIOUS
<1> USE DEF netVars, drainVars, stageVars, runVars, histVars
<1>1. ASSUME NEW s \in Stages, Recv(s) PROVE ErrorInv'
  <2>1. PICK e \in Errs : /\ ret' = ret \/ ret' = [ret EXCEPT ![s] = e]
                          /\ e = "ctx" => ctxDone
    BY <1>1 DEF Recv, Leave, Errs
  <2> QED BY <1>1, <2>1, CalmStep DEF Recv
<1>2. ASSUME NEW s \in Stages, RecvClosed(s) PROVE ErrorInv'
  <2>1. PICK e \in Errs : /\ ret' = ret \/ ret' = [ret EXCEPT ![s] = e]
                          /\ e = "ctx" => ctxDone
    BY <1>2 DEF RecvClosed, Leave, Errs
  <2> QED BY <1>2, <2>1, CalmStep DEF RecvClosed
<1>3. ASSUME NEW s \in Stages, TakeExit(s) PROVE ErrorInv'
  <2>1. PICK e \in Errs : /\ ret' = ret \/ ret' = [ret EXCEPT ![s] = e]
                          /\ e = "ctx" => ctxDone
    BY <1>3 DEF TakeExit, Leave, Errs
  <2> QED BY <1>3, <2>1, CalmStep DEF TakeExit
<1>4. ASSUME NEW s \in Stages, RecvCtxDone(s) PROVE ErrorInv'
  <2>1. PICK e \in Errs : /\ ret' = ret \/ ret' = [ret EXCEPT ![s] = e]
                          /\ e = "ctx" => ctxDone
    BY <1>4 DEF RecvCtxDone, Leave, Errs
  <2> QED BY <1>4, <2>1, CalmStep DEF RecvCtxDone
<1>5. ASSUME NEW s \in Stages, RecvDrained(s) PROVE ErrorInv'
  <2>1. PICK e \in Errs : /\ ret' = ret \/ ret' = [ret EXCEPT ![s] = e]
                          /\ e = "ctx" => ctxDone
    BY <1>5 DEF RecvDrained, LeaveDrained, Leave, Errs
  <2> QED BY <1>5, <2>1, CalmStep DEF RecvDrained
<1>6. ASSUME NEW s \in Stages, Fill(s) PROVE ErrorInv'
  <2>1. PICK e \in Errs : /\ ret' = ret \/ ret' = [ret EXCEPT ![s] = e]
                          /\ e = "ctx" => ctxDone
    BY <1>6 DEF Fill, Leave, Errs
  <2> QED BY <1>6, <2>1, CalmStep DEF Fill
<1>7. ASSUME NEW s \in Stages, FillEnd(s) PROVE ErrorInv'
  <2>1. PICK e \in Errs : /\ ret' = ret \/ ret' = [ret EXCEPT ![s] = e]
                          /\ e = "ctx" => ctxDone
    BY <1>7 DEF FillEnd, Leave, Errs
  <2> QED BY <1>7, <2>1, CalmStep DEF FillEnd
<1>8. ASSUME NEW s \in Stages, WorkOk(s) PROVE ErrorInv'
  <2>1. PICK e \in Errs : /\ ret' = ret \/ ret' = [ret EXCEPT ![s] = e]
                          /\ e = "ctx" => ctxDone
    BY <1>8 DEF WorkOk, Leave, Errs
  <2> QED BY <1>8, <2>1, CalmStep DEF WorkOk
<1>9. ASSUME NEW s \in Stages, WorkSkip(s) PROVE ErrorInv'
  <2>1. PICK e \in Errs : /\ ret' = ret \/ ret' = [ret EXCEPT ![s] = e]
                          /\ e = "ctx" => ctxDone
    BY <1>9 DEF WorkSkip, Leave, Errs
  <2> QED BY <1>9, <2>1, CalmStep DEF WorkSkip
<1>10. ASSUME NEW s \in Stages, WorkFail(s) PROVE ErrorInv'
  <2>1. PICK e \in Errs : /\ ret' = ret \/ ret' = [ret EXCEPT ![s] = e]
                          /\ e = "ctx" => ctxDone
    BY <1>10 DEF WorkFail, Leave, Errs
  <2> QED BY <1>10, <2>1, CalmStep DEF WorkFail
<1>11. ASSUME NEW s \in Stages, Send(s) PROVE ErrorInv'
  <2>1. PICK e \in Errs : /\ ret' = ret \/ ret' = [ret EXCEPT ![s] = e]
                          /\ e = "ctx" => ctxDone
    BY <1>11 DEF Send, Leave, Errs
  <2> QED BY <1>11, <2>1, CalmStep DEF Send
<1>12. ASSUME NEW s \in Stages, SendCtxDone(s) PROVE ErrorInv'
  <2>1. PICK e \in Errs : /\ ret' = ret \/ ret' = [ret EXCEPT ![s] = e]
                          /\ e = "ctx" => ctxDone
    BY <1>12 DEF SendCtxDone, Leave, Errs
  <2> QED BY <1>12, <2>1, CalmStep DEF SendCtxDone
<1>13. ASSUME NEW s \in Stages, SendDrained(s) PROVE ErrorInv'
  <2>1. PICK e \in Errs : /\ ret' = ret \/ ret' = [ret EXCEPT ![s] = e]
                          /\ e = "ctx" => ctxDone
    BY <1>13 DEF SendDrained, LeaveDrained, Leave, Errs
  <2> QED BY <1>13, <2>1, CalmStep DEF SendDrained
<1>14. ASSUME NEW s \in Stages, SendStopped(s) PROVE ErrorInv'
  <2>1. PICK e \in Errs : /\ ret' = ret \/ ret' = [ret EXCEPT ![s] = e]
                          /\ e = "ctx" => ctxDone
    BY <1>14 DEF SendStopped, Leave, Errs
  <2> QED BY <1>14, <2>1, CalmStep DEF SendStopped
<1>15. ASSUME NEW s \in Stages, SourceEnd(s) PROVE ErrorInv'
  <2>1. PICK e \in Errs : /\ ret' = ret \/ ret' = [ret EXCEPT ![s] = e]
                          /\ e = "ctx" => ctxDone
    BY <1>15 DEF SourceEnd, Leave, Errs
  <2> QED BY <1>15, <2>1, CalmStep DEF SourceEnd
<1>16. ASSUME NEW s \in Stages, Unpark(s) PROVE ErrorInv'
  <2>1. PICK e \in Errs : /\ ret' = ret \/ ret' = [ret EXCEPT ![s] = e]
                          /\ e = "ctx" => ctxDone
    BY <1>16 DEF Unpark, Leave, Errs
  <2> QED BY <1>16, <2>1, CalmStep DEF Unpark
<1>17. ASSUME NEW s \in Stages, BatchEnd(s) PROVE ErrorInv'
  <2>1. PICK e \in Errs : /\ ret' = ret \/ ret' = [ret EXCEPT ![s] = e]
                          /\ e = "ctx" => ctxDone
    BY <1>17 DEF BatchEnd, LeaveDrained, Leave, Errs
  <2> QED BY <1>17, <2>1, CalmStep DEF BatchEnd
<1>18. ASSUME NEW s \in Stages, DeferSignalDone(s) PROVE ErrorInv'
  <2>1. PICK e \in Errs : /\ ret' = ret \/ ret' = [ret EXCEPT ![s] = e]
                          /\ e = "ctx" => ctxDone
    BY <1>18 DEF DeferSignalDone, Leave, Errs
  <2> QED BY <1>18, <2>1, CalmStep DEF DeferSignalDone
<1>19. ASSUME NEW s \in Stages, DeferSignalDrain(s) PROVE ErrorInv'
  <2>1. PICK e \in Errs : /\ ret' = ret \/ ret' = [ret EXCEPT ![s] = e]
                          /\ e = "ctx" => ctxDone
    BY <1>19 DEF DeferSignalDrain, Leave, Errs
  <2> QED BY <1>19, <2>1, CalmStep DEF DeferSignalDrain
<1>20. ASSUME NEW s \in Stages, DeferClose(s) PROVE ErrorInv'
  <2>1. PICK e \in Errs : /\ ret' = ret \/ ret' = [ret EXCEPT ![s] = e]
                          /\ e = "ctx" => ctxDone
    BY <1>20 DEF DeferClose, Leave, Errs
  <2> QED BY <1>20, <2>1, CalmStep DEF DeferClose
<1>21. ASSUME NEW s \in Stages, GroupReturn(s) PROVE ErrorInv'
  <2>1. CASE ret[s] # "nil" /\ runErr = "nil"
    BY <1>21, <2>1 DEF GroupReturn, ErrorInv, ErrorAttribution, TypeOK, Errs
  <2>2. CASE ~(ret[s] # "nil" /\ runErr = "nil")
    BY <1>21, <2>2 DEF GroupReturn, ErrorInv, ErrorAttribution
  <2> QED BY <2>1, <2>2
<1>22. ASSUME NEW c \in Chans, DrainStep(c) PROVE ErrorInv'
  BY <1>22, PipelineAssumption DEF DrainStep, ErrorInv, ErrorAttribution, TypeOK
<1>23. ASSUME Watch PROVE ErrorInv'
  BY <1>23, PipelineAssumption DEF Watch, ErrorInv, ErrorAttribution, TypeOK
<1>24. ASSUME Cancel PROVE ErrorInv'
  BY <1>24, PipelineAssumption DEF Cancel, ErrorInv, ErrorAttribution, TypeOK
<1>25. ASSUME DrainPhase PROVE ErrorInv'
  BY <1>25, PipelineAssumption DEF DrainPhase, ErrorInv, ErrorAttribution, TypeOK
<1>26. ASSUME HardStop PROVE ErrorInv'
  BY <1>26, PipelineAssumption DEF HardStop, ErrorInv, ErrorAttribution, TypeOK
<1>27. ASSUME RunReturn PROVE ErrorInv'
  BY <1>27, PipelineAssumption DEF RunReturn, ErrorInv, ErrorAttribution, TypeOK
<1>28. CASE UNCHANGED vars
  BY <1>28 DEF vars, ErrorInv, ErrorAttribution
<1> QED
  BY <1>1, <1>2, <1>3, <1>4, <1>5, <1>6, <1>7, <1>8, <1>9, <1>10, <1>11, <1>12, <1>13, <1>14, <1>15, <1>16, <1>17, <1>18, <1>19, <1>20, <1>21, <1>22, <1>23, <1>24, <1>25, <1>26, <1>27, <1>28
  DEF Next, StageStep, Receive, Work, SendOut, Turn, Defers, Idle

-----------------------------------------------------------------------------
\* The first state satisfies all parts of the inductive invariant.
LEMMA InitInv == Init => TypeOK /\ Shape /\ DrainInv /\ ErrorInv
<1> SUFFICES ASSUME Init PROVE TypeOK /\ Shape /\ DrainInv /\ ErrorInv
  OBVIOUS
<1>1. \A c \in Chans : /\ InitialRefs(Consumers[c]) \in Nat
                       /\ InitialRefs(Consumers[c]) >= 1
  BY PipelineAssumption DEF InitialRefs
<1>2. hand \in [Stages -> Seq(Nat)]
  <2>1. [i \in 1..NItems |-> i] \in Seq(Nat)
    BY PipelineAssumption
  <2>2. << >> \in Seq(Nat)
    OBVIOUS
  <2>3. \A s \in Stages :
          (IF s = 1 THEN [i \in 1..NItems |-> i] ELSE << >>) \in Seq(Nat)
    BY <2>1, <2>2
  <2> QED BY <2>3 DEF Init
<1>3. NItems > 0 => [i \in 1..NItems |-> i] # << >>
  BY PipelineAssumption
<1>4. TypeOK
  <2>1. ch \in [Chans -> Seq(Nat)] /\ delivered \in Seq(Nat)
    BY DEF Init
  <2>2. pc \in [Stages -> Pcs]
    BY DEF Init, Pcs
  <2>3. refs \in [Chans -> Nat]
    BY <1>1 DEF Init
  <2> QED BY <1>2, <2>1, <2>2, <2>3 DEF Init, TypeOK, Errs
<1>5. Shape
  <2>1. \A s \in Stages : pc[s] = "send" => s = 1 /\ NItems > 0
    BY DEF Init
  <2>2. \A s \in Stages : pc[s] = "recv" => s # 1
    BY PipelineAssumption DEF Init, Stages
  <2>3. 1 \in Stages /\ 1 # N
    BY PipelineAssumption DEF Stages
  <2>4. hand[1] = [i \in 1..NItems |-> i]
    BY <2>3 DEF Init
  <2>5. \A s \in Stages : pc[s] \in {"send", "turn", "recv"}
    BY DEF Init
  <2> QED BY <1>3, <2>1, <2>2, <2>3, <2>4, <2>5, PipelineAssumption DEF Shape
<1>6. DrainInv
  <2>1. \A c \in Chans : c + 1 \in Stages
    BY PipelineAssumption DEF Chans, Stages
  <2>2. \A s \in Stages : ~HasSignalled(s)
    BY DEF Init, HasSignalled, Signalled
  <2> QED BY <1>1, <2>1, <2>2 DEF Init, DrainInv
<1>7. ErrorInv
  BY DEF Init, ErrorInv, ErrorAttribution
<1> QED BY <1>4, <1>5, <1>6, <1>7

\* The inductive invariant holds in every reachable state.
LEMMA Inductive == Spec => [](TypeOK /\ Shape /\ DrainInv /\ ErrorInv)
<1>1. /\ TypeOK /\ Shape /\ DrainInv /\ ErrorInv
      /\ [Next]_vars
      => (TypeOK /\ Shape /\ DrainInv /\ ErrorInv)'
  BY TypeStep, DrainStepInv, ErrorStepInv
<1> QED BY InitInv, <1>1, PTL DEF Spec

\* Every variable keeps its type in every run of every chain: in particular
\* no reference count of a drain entry goes below zero (drainEntry.refs).
THEOREM TypeCorrect == Spec => []TypeOK
BY Inductive, PTL

\* No producer is told to stop while its consumer still reads (signalDrain).
THEOREM DrainSafe == Spec => []DrainSafety
<1>1. TypeOK /\ DrainInv => DrainSafety
  <2> SUFFICES ASSUME TypeOK, DrainInv, NEW c \in Chans, drained[c]
               PROVE  pc[c+1] \in Signalled
    BY DEF DrainSafety
  <2>1. InitialRefs(Consumers[c]) >= 1 /\ InitialRefs(Consumers[c]) \in Nat
    BY PipelineAssumption DEF InitialRefs
  <2> QED BY <2>1 DEF DrainInv, HasSignalled
<1> QED BY Inductive, <1>1, PTL

\* Run reports a context error only if its caller cancelled the context.
THEOREM ErrorsAttributed == Spec => []ErrorAttribution
<1>1. ErrorInv => ErrorAttribution
  BY DEF ErrorInv
<1> QED BY Inductive, <1>1, PTL

\* Where every pipeline has one consumer, a stage that left cooperatively
\* has told its producer to stop.
THEOREM NobodyStranded ==
  ASSUME \A c \in Chans : Consumers[c] <= 1
  PROVE  Spec => []NoStranding
<1>1. TypeOK /\ DrainInv => NoStranding
  <2> SUFFICES ASSUME TypeOK, DrainInv, NEW s \in Stages \ {1},
                      coop[s], pc[s] \in Signalled
               PROVE  drained[s-1]
    BY DEF NoStranding
  <2>1. s - 1 \in Chans /\ (s - 1) + 1 = s
    BY PipelineAssumption DEF Stages, Chans
  <2>2. InitialRefs(Consumers[s-1]) = 1
    BY <2>1, PipelineAssumption DEF InitialRefs
  <2>3. HasSignalled(s)
    BY DEF DrainInv, HasSignalled
  <2>4. refs[s-1] = 0
    BY <2>1, <2>2, <2>3 DEF DrainInv
  <2> QED BY <2>1, <2>4 DEF DrainInv
<1> QED BY Inductive, <1>1, PTL

-----------------------------------------------------------------------------
(* The items in flight: every channel and every hand is in input order,    *)
(* what is further downstream comes first, and an item that is nowhere any *)
(* more was lost behind a stage that had already left.                     *)

Elems(q) == {q[i] : i \in 1..Len(q)}
Rising(q) == \A i, j \in 1..Len(q) : i < j => q[i] < q[j]

\* All of S precedes all of T in the stream.
Before(S, T) == \A x \in S, y \in T : x < y

\* The items stage s holds, and those in channel c.
H(s) == Elems(hand[s])
C(c) == Elems(ch[c])
D == Elems(delivered)

RisingInv ==
  /\ \A s \in Stages : Rising(hand[s]) /\ H(s) \subseteq 1..NItems
  /\ \A c \in Chans : Rising(ch[c]) /\ C(c) \subseteq 1..NItems
  /\ Rising(delivered) /\ D \subseteq 1..NItems

PlaceInv ==
  /\ \A s, t \in Stages : t < s => Before(H(s), H(t))
  /\ \A c, d \in Chans : d < c => Before(C(c), C(d))
  /\ \A s \in Stages, c \in Chans : c < s => Before(H(s), C(c))
  /\ \A s \in Stages, c \in Chans : c >= s => Before(C(c), H(s))
  /\ \A s \in Stages : Before(D, H(s))
  /\ \A c \in Chans : Before(D, C(c))

\* Everything that has passed stage s precedes y.
Passed(s, y) ==
  /\ \A x \in D : x < y
  /\ \A t \in Stages : t > s => \A x \in H(t) : x < y
  /\ \A c \in Chans : c >= s => \A x \in C(c) : x < y

LostBehind(y) == \E s \in Stages : pc[s] \in Signalled /\ Passed(s, y)
Present(y) == \/ y \in D \cup Skipped
              \/ \E s \in Stages : y \in H(s)
              \/ \E c \in Chans : y \in C(c)

LossInv == \A y \in 1..NItems : Present(y) \/ LostBehind(y)

\* A stage that is about to receive holds nothing; DrainChan runs only for a
\* stage that has left.
IdleInv ==
  /\ \A s \in Stages : pc[s] \in {"recv", "turn", "park"} => hand[s] = << >>
  /\ \A c \in Chans : drainer[c] = "running" => pc[c+1] \in Signalled

NoGap == \A x \in D : 1..x \subseteq D \cup Skipped

FlowInv == RisingInv /\ PlaceInv /\ LossInv /\ IdleInv /\ NoGap

\* An item appended.
LEMMA AppendElems ==
  ASSUME NEW q \in Seq(Nat), NEW x \in Nat
  PROVE  /\ Append(q, x) \in Seq(Nat)
         /\ Elems(Append(q, x)) = Elems(q) \cup {x}
         /\ Rising(q) /\ (\A y \in Elems(q) : y < x) => Rising(Append(q, x))
<1> DEFINE r == Append(q, x)
<1>1. /\ r \in Seq(Nat) /\ Len(r) = Len(q) + 1 /\ Len(q) \in Nat
      /\ \A i \in 1..Len(q) : r[i] = q[i]
      /\ r[Len(q) + 1] = x
  OBVIOUS
<1> HIDE DEF r
<1>2. 1..Len(r) = 1..Len(q) \cup {Len(q) + 1}
  BY <1>1
<1>3. Elems(r) = Elems(q) \cup {x}
  BY SMTT(30), <1>1, <1>2 DEF Elems
<1>4. ASSUME Rising(q), \A y \in Elems(q) : y < x PROVE Rising(r)
  <2> SUFFICES ASSUME NEW i \in 1..Len(r), NEW j \in 1..Len(r), i < j PROVE r[i] < r[j]
    BY DEF Rising
  <2>1. i \in 1..Len(q) /\ r[i] = q[i] /\ q[i] \in Elems(q)
    BY SMTT(30), <1>1 DEF Elems
  <2>2. CASE j \in 1..Len(q)
    BY <1>1, <1>4, <2>1, <2>2 DEF Rising
  <2>3. CASE j = Len(q) + 1
    BY <1>1, <1>4, <2>1, <2>3
  <2> QED BY <1>2, <2>2, <2>3
<1> QED BY <1>1, <1>3, <1>4 DEF r

\* The head taken off.
LEMMA TailElems ==
  ASSUME NEW q \in Seq(Nat), q # << >>, Rising(q)
  PROVE  /\ Tail(q) \in Seq(Nat) /\ Head(q) \in Nat
         /\ Elems(q) = Elems(Tail(q)) \cup {Head(q)}
         /\ Rising(Tail(q))
         /\ \A y \in Elems(Tail(q)) : Head(q) < y
<1> DEFINE r == Tail(q)
<1>1. /\ r \in Seq(Nat) /\ Len(r) = Len(q) - 1 /\ Len(q) \in Nat \ {0} /\ Len(r) \in Nat
      /\ \A i \in 1..Len(r) : r[i] = q[i + 1]
      /\ Head(q) = q[1] /\ q[1] \in Nat
  OBVIOUS
<1> HIDE DEF r
<1>2. Elems(q) = Elems(r) \cup {q[1]}
  <2>1. ASSUME NEW y \in Elems(q) PROVE y \in Elems(r) \cup {q[1]}
    <3>1. PICK i \in 1..Len(q) : y = q[i]
      BY DEF Elems
    <3>2. CASE i = 1
      BY <3>1, <3>2
    <3>3. CASE i # 1
      <4>1. i - 1 \in 1..Len(r) /\ (i - 1) + 1 = i
        BY <1>1, <3>3
      <4>2. r[i - 1] = q[i]
        BY <1>1, <4>1
      <4> QED BY <3>1, <4>1, <4>2 DEF Elems
    <3> QED BY <3>2, <3>3
  <2>2. \A i \in 1..Len(r) : i + 1 \in 1..Len(q)
    BY <1>1
  <2>3. ASSUME NEW y \in Elems(r) PROVE y \in Elems(q)
    <3>1. PICK i \in 1..Len(r) : y = r[i]
      BY DEF Elems
    <3>2. i + 1 \in 1..Len(q) /\ y = q[i + 1]
      BY <1>1, <2>2, <3>1
    <3> QED BY <3>2 DEF Elems
  <2>4. q[1] \in Elems(q)
    BY <1>1 DEF Elems
  <2> QED BY <2>1, <2>3, <2>4
<1>3. Rising(r)
  <2> SUFFICES ASSUME NEW i \in 1..Len(r), NEW j \in 1..Len(r), i < j PROVE r[i] < r[j]
    BY DEF Rising
  <2>1. i + 1 \in 1..Len(q) /\ j + 1 \in 1..Len(q) /\ i + 1 < j + 1
    BY <1>1
  <2> QED BY <1>1, <2>1 DEF Rising
<1>4. ASSUME NEW y \in Elems(r) PROVE q[1] < y
  <2>1. PICK i \in 1..Len(r) : y = r[i]
    BY DEF Elems
  <2>2. i + 1 \in 1..Len(q) /\ 1 \in 1..Len(q) /\ 1 < i + 1
    BY <1>1
  <2> QED BY <1>1, <2>1, <2>2 DEF Rising
<1> QED BY <1>1, <1>2, <1>3, <1>4 DEF r

-----------------------------------------------------------------------------
(* What moves an item, as a step of the sets of items in flight. *)

\* Nobody who has left comes back.
StayGone == \A s \in Stages : pc[s] \in Signalled => pc'[s] \in Signalled

\* Nothing moves.
StillMove ==
  /\ \A t \in Stages : \A y : y \in H(t)' <=> y \in H(t)
  /\ \A d \in Chans : \A y : y \in C(d)' <=> y \in C(d)
  /\ UNCHANGED <<delivered, skipped, taken>>

\* Stage s receives x, the first item of its channel.
RecvMove(s, x) ==
  /\ s - 1 \in Chans
  /\ \A t \in Stages : \A y : y \in H(t)' <=> y \in H(t) \/ (t = s /\ y = x)
  /\ \A d \in Chans : \A y : y \in C(d) <=> y \in C(d)' \/ (d = s - 1 /\ y = x)
  /\ \A y \in C(s-1)' : x < y
  /\ UNCHANGED <<delivered, skipped, taken>>

\* Stage s, which has not left, sends x, the first item it holds.
SendMove(s, x) ==
  /\ s \in Chans /\ pc[s] = "send"
  /\ \A t \in Stages : \A y : y \in H(t) <=> y \in H(t)' \/ (t = s /\ y = x)
  /\ \A d \in Chans : \A y : y \in C(d)' <=> y \in C(d) \/ (d = s /\ y = x)
  /\ \A y \in H(s)' : x < y
  /\ taken' = [taken EXCEPT ![s] = IF Kind[s] = "take" THEN @ + 1 ELSE @]
  /\ UNCHANGED <<delivered, skipped>>

\* The terminal, which has not left, accepts x, the first item it holds.
EndMove(x) ==
  /\ pc[N] = "work"
  /\ \A t \in Stages : \A y : y \in H(t) <=> y \in H(t)' \/ (t = N /\ y = x)
  /\ \A y \in H(N)' : x < y
  /\ \A d \in Chans : \A y : y \in C(d)' <=> y \in C(d)
  /\ \A y : y \in D' <=> y \in D \/ y = x
  /\ UNCHANGED <<skipped, taken>>

\* Stage s drops x, the first item it holds, by its own rule.
SkipMove(s, x) ==
  /\ \A t \in Stages : \A y : y \in H(t) <=> y \in H(t)' \/ (t = s /\ y = x)
  /\ \A y \in H(s)' : x < y
  /\ \A d \in Chans : \A y : y \in C(d)' <=> y \in C(d)
  /\ skipped' = skipped \cup {<<s, x>>}
  /\ UNCHANGED <<delivered, taken>>

\* The DrainChan goroutine of channel c, whose reader has left, discards x.
DrainMove(c, x) ==
  /\ pc[c+1] \in Signalled
  /\ \A t \in Stages : \A y : y \in H(t)' <=> y \in H(t)
  /\ \A d \in Chans : \A y : y \in C(d) <=> y \in C(d)' \/ (d = c /\ y = x)
  /\ UNCHANGED <<delivered, skipped, taken>>

Move ==
  \/ StillMove
  \/ \E s \in Stages, x \in 1..NItems : RecvMove(s, x) \/ SendMove(s, x) \/ SkipMove(s, x)
  \/ \E x \in 1..NItems : EndMove(x)
  \/ \E c \in Chans, x \in 1..NItems : DrainMove(c, x)

\* The parts of the invariant that speak of the sets only.
SetInv == PlaceInv /\ LossInv /\ NoGap

\* Nothing moves.
LEMMA NoMove ==
  ASSUME SetInv, StayGone,
         \A t \in Stages : \A y : y \in H(t)' <=> y \in H(t),
         \A d \in Chans : \A y : y \in C(d)' <=> y \in C(d),
         D' = D, Skipped' = Skipped
  PROVE  SetInv'
<1>0. /\ \A t \in Stages : t \in Int /\ 1 <= t /\ t <= N
      /\ \A d \in Chans : d \in Int /\ d < N /\ d + 1 \in Stages
      /\ N \in Stages
  BY PipelineAssumption DEF Stages, Chans
<1>1. PlaceInv'
  <2> USE DEF SetInv, PlaceInv, Before
  <2>1. ASSUME NEW t \in Stages, NEW u \in Stages, u < t, NEW y \in H(t)', NEW z \in H(u)'
        PROVE  y < z
    BY <1>0, <2>1
  <2>2. ASSUME NEW d \in Chans, NEW e \in Chans, e < d, NEW y \in C(d)', NEW z \in C(e)'
        PROVE  y < z
    BY <1>0, <2>2
  <2>3. ASSUME NEW t \in Stages, NEW d \in Chans, d < t, NEW y \in H(t)', NEW z \in C(d)'
        PROVE  y < z
    BY <1>0, <2>3
  <2>4. ASSUME NEW t \in Stages, NEW d \in Chans, d >= t, NEW y \in C(d)', NEW z \in H(t)'
        PROVE  y < z
    BY <1>0, <2>4
  <2>5. ASSUME NEW t \in Stages, NEW y \in D', NEW z \in H(t)'
        PROVE  y < z
    BY <1>0, <2>5
  <2>6. ASSUME NEW d \in Chans, NEW y \in D', NEW z \in C(d)'
        PROVE  y < z
    BY <1>0, <2>6
  <2> QED BY <2>1, <2>2, <2>3, <2>4, <2>5, <2>6
<1>2. LossInv'
  <2> SUFFICES ASSUME NEW y \in 1..NItems, ~Present(y)' PROVE LostBehind(y)'
    BY DEF LossInv
  <2>1. ~Present(y)
    BY <1>0 DEF Present
  <2>2. PICK r \in Stages : pc[r] \in Signalled /\ Passed(r, y)
    BY <2>1 DEF SetInv, LossInv, LostBehind
  <2>3. Passed(r, y)'
    <3>1. ASSUME NEW z \in D' PROVE z < y
      BY <1>0, <2>2, <3>1 DEF Passed
    <3>2. ASSUME NEW t \in Stages, t > r, NEW z \in H(t)' PROVE z < y
      BY <1>0, <2>2, <3>2 DEF Passed
    <3>3. ASSUME NEW d \in Chans, d >= r, NEW z \in C(d)' PROVE z < y
      BY <1>0, <2>2, <3>3 DEF Passed
    <3> QED BY <3>1, <3>2, <3>3 DEF Passed
  <2> QED BY <2>2, <2>3 DEF LostBehind, StayGone
<1>3. NoGap'
  BY DEF SetInv, NoGap
<1> QED BY <1>1, <1>2, <1>3 DEF SetInv

\* Stage s receives x, the first item of its channel.
LEMMA MoveIn ==
  ASSUME SetInv, StayGone,
         NEW s \in Stages, s - 1 \in Chans, NEW x \in 1..NItems,
         \A t \in Stages : \A y : y \in H(t)' <=> y \in H(t) \/ (t = s /\ y = x),
         \A d \in Chans : \A y : y \in C(d) <=> y \in C(d)' \/ (d = s - 1 /\ y = x),
         \A y \in C(s-1)' : x < y,
         D' = D, Skipped' = Skipped
  PROVE  SetInv'
<1>0. /\ \A t \in Stages : t \in Int /\ 1 <= t /\ t <= N
      /\ \A d \in Chans : d \in Int /\ d < N /\ d + 1 \in Stages
      /\ N \in Stages
  BY PipelineAssumption DEF Stages, Chans
<1>1. PlaceInv'
  <2> USE DEF SetInv, PlaceInv, Before
  <2>1. ASSUME NEW t \in Stages, NEW u \in Stages, u < t, NEW y \in H(t)', NEW z \in H(u)'
        PROVE  y < z
    BY <1>0, <2>1
  <2>2. ASSUME NEW d \in Chans, NEW e \in Chans, e < d, NEW y \in C(d)', NEW z \in C(e)'
        PROVE  y < z
    BY <1>0, <2>2
  <2>3. ASSUME NEW t \in Stages, NEW d \in Chans, d < t, NEW y \in H(t)', NEW z \in C(d)'
        PROVE  y < z
    BY <1>0, <2>3
  <2>4. ASSUME NEW t \in Stages, NEW d \in Chans, d >= t, NEW y \in C(d)', NEW z \in H(t)'
        PROVE  y < z
    BY <1>0, <2>4
  <2>5. ASSUME NEW t \in Stages, NEW y \in D', NEW z \in H(t)'
        PROVE  y < z
    BY <1>0, <2>5
  <2>6. ASSUME NEW d \in Chans, NEW y \in D', NEW z \in C(d)'
        PROVE  y < z
    BY <1>0, <2>6
  <2> QED BY <2>1, <2>2, <2>3, <2>4, <2>5, <2>6
<1>2. LossInv'
  <2> SUFFICES ASSUME NEW y \in 1..NItems, ~Present(y)' PROVE LostBehind(y)'
    BY DEF LossInv
  <2>1. ~Present(y)
    BY <1>0 DEF Present
  <2>2. PICK r \in Stages : pc[r] \in Signalled /\ Passed(r, y)
    BY <2>1 DEF SetInv, LossInv, LostBehind
  <2>3. Passed(r, y)'
    <3>1. ASSUME NEW z \in D' PROVE z < y
      BY <1>0, <2>2, <3>1 DEF Passed
    <3>2. ASSUME NEW t \in Stages, t > r, NEW z \in H(t)' PROVE z < y
      BY <1>0, <2>2, <3>2 DEF Passed
    <3>3. ASSUME NEW d \in Chans, d >= r, NEW z \in C(d)' PROVE z < y
      BY <1>0, <2>2, <3>3 DEF Passed
    <3> QED BY <3>1, <3>2, <3>3 DEF Passed
  <2> QED BY <2>2, <2>3 DEF LostBehind, StayGone
<1>3. NoGap'
  BY DEF SetInv, NoGap
<1> QED BY <1>1, <1>2, <1>3 DEF SetInv

\* Stage s, which has not left, sends x, the first item it holds.
LEMMA MoveOut ==
  ASSUME SetInv, StayGone,
         NEW s \in Stages, s \in Chans, NEW x \in 1..NItems, pc[s] \notin Signalled,
         \A t \in Stages : \A y : y \in H(t) <=> y \in H(t)' \/ (t = s /\ y = x),
         \A d \in Chans : \A y : y \in C(d)' <=> y \in C(d) \/ (d = s /\ y = x),
         \A y \in H(s)' : x < y,
         D' = D, Skipped' = Skipped
  PROVE  SetInv'
<1>0. /\ \A t \in Stages : t \in Int /\ 1 <= t /\ t <= N
      /\ \A d \in Chans : d \in Int /\ d < N /\ d + 1 \in Stages
      /\ N \in Stages
  BY PipelineAssumption DEF Stages, Chans
<1>1. PlaceInv'
  <2> USE DEF SetInv, PlaceInv, Before
  <2>1. ASSUME NEW t \in Stages, NEW u \in Stages, u < t, NEW y \in H(t)', NEW z \in H(u)'
        PROVE  y < z
    BY <1>0, <2>1
  <2>2. ASSUME NEW d \in Chans, NEW e \in Chans, e < d, NEW y \in C(d)', NEW z \in C(e)'
        PROVE  y < z
    BY <1>0, <2>2
  <2>3. ASSUME NEW t \in Stages, NEW d \in Chans, d < t, NEW y \in H(t)', NEW z \in C(d)'
        PROVE  y < z
    BY <1>0, <2>3
  <2>4. ASSUME NEW t \in Stages, NEW d \in Chans, d >= t, NEW y \in C(d)', NEW z \in H(t)'
        PROVE  y < z
    BY <1>0, <2>4
  <2>5. ASSUME NEW t \in Stages, NEW y \in D', NEW z \in H(t)'
        PROVE  y < z
    BY <1>0, <2>5
  <2>6. ASSUME NEW d \in Chans, NEW y \in D', NEW z \in C(d)'
        PROVE  y < z
    BY <1>0, <2>6
  <2> QED BY <2>1, <2>2, <2>3, <2>4, <2>5, <2>6
<1>2. LossInv'
  <2> SUFFICES ASSUME NEW y \in 1..NItems, ~Present(y)' PROVE LostBehind(y)'
    BY DEF LossInv
  <2>1. ~Present(y)
    BY <1>0 DEF Present
  <2>2. PICK r \in Stages : pc[r] \in Signalled /\ Passed(r, y)
    BY <2>1 DEF SetInv, LossInv, LostBehind
  <2>3. Passed(r, y)'
    <3>1. ASSUME NEW z \in D' PROVE z < y
      BY <1>0, <2>2, <3>1 DEF Passed
    <3>2. ASSUME NEW t \in Stages, t > r, NEW z \in H(t)' PROVE z < y
      BY <1>0, <2>2, <3>2 DEF Passed
    <3>3. ASSUME NEW d \in Chans, d >= r, NEW z \in C(d)' PROVE z < y
      BY <1>0, <2>2, <3>3 DEF Passed
    <3> QED BY <3>1, <3>2, <3>3 DEF Passed
  <2> QED BY <2>2, <2>3 DEF LostBehind, StayGone
<1>3. NoGap'
  BY DEF SetInv, NoGap
<1> QED BY <1>1, <1>2, <1>3 DEF SetInv

\* The terminal, which has not left, accepts x, the first item it holds.
LEMMA MoveEnd ==
  ASSUME SetInv, StayGone,
         NEW x \in 1..NItems, pc[N] \notin Signalled,
         \A t \in Stages : \A y : y \in H(t) <=> y \in H(t)' \/ (t = N /\ y = x),
         \A y \in H(N)' : x < y,
         \A d \in Chans : \A y : y \in C(d)' <=> y \in C(d),
         \A y : y \in D' <=> y \in D \/ y = x,
         Skipped' = Skipped
  PROVE  SetInv'
<1>0. /\ \A t \in Stages : t \in Int /\ 1 <= t /\ t <= N
      /\ \A d \in Chans : d \in Int /\ d < N /\ d + 1 \in Stages
      /\ N \in Stages
  BY PipelineAssumption DEF Stages, Chans
<1>1. PlaceInv'
  <2> USE DEF SetInv, PlaceInv, Before
  <2>1. ASSUME NEW t \in Stages, NEW u \in Stages, u < t, NEW y \in H(t)', NEW z \in H(u)'
        PROVE  y < z
    BY <1>0, <2>1
  <2>2. ASSUME NEW d \in Chans, NEW e \in Chans, e < d, NEW y \in C(d)', NEW z \in C(e)'
        PROVE  y < z
    BY <1>0, <2>2
  <2>3. ASSUME NEW t \in Stages, NEW d \in Chans, d < t, NEW y \in H(t)', NEW z \in C(d)'
        PROVE  y < z
    BY <1>0, <2>3
  <2>4. ASSUME NEW t \in Stages, NEW d \in Chans, d >= t, NEW y \in C(d)', NEW z \in H(t)'
        PROVE  y < z
    BY <1>0, <2>4
  <2>5. ASSUME NEW t \in Stages, NEW y \in D', NEW z \in H(t)'
        PROVE  y < z
    BY <1>0, <2>5
  <2>6. ASSUME NEW d \in Chans, NEW y \in D', NEW z \in C(d)'
        PROVE  y < z
    BY <1>0, <2>6
  <2> QED BY <2>1, <2>2, <2>3, <2>4, <2>5, <2>6
<1>2. LossInv'
  <2> SUFFICES ASSUME NEW y \in 1..NItems, ~Present(y)' PROVE LostBehind(y)'
    BY DEF LossInv
  <2>1. ~Present(y)
    BY <1>0 DEF Present
  <2>2. PICK r \in Stages : pc[r] \in Signalled /\ Passed(r, y)
    BY <2>1 DEF SetInv, LossInv, LostBehind
  <2>3. Passed(r, y)'
    <3>1. ASSUME NEW z \in D' PROVE z < y
      BY <1>0, <2>2, <3>1 DEF Passed
    <3>2. ASSUME NEW t \in Stages, t > r, NEW z \in H(t)' PROVE z < y
      BY <1>0, <2>2, <3>2 DEF Passed
    <3>3. ASSUME NEW d \in Chans, d >= r, NEW z \in C(d)' PROVE z < y
      BY <1>0, <2>2, <3>3 DEF Passed
    <3> QED BY <3>1, <3>2, <3>3 DEF Passed
  <2> QED BY <2>2, <2>3 DEF LostBehind, StayGone
<1>3. ASSUME NEW y \in 1..NItems, y < x PROVE y \in D \cup Skipped
  <2>1. x \in H(N) /\ N \in Stages
    BY <1>0
  <2>2. ~LostBehind(y)
    <3> SUFFICES ASSUME NEW r \in Stages, pc[r] \in Signalled, Passed(r, y) PROVE FALSE
      BY DEF LostBehind
    <3>1. N > r
      BY <1>0
    <3>2. x < y
      BY <2>1, <3>1 DEF Passed
    <3> QED BY <1>3, <3>2
  <2>3. Present(y)
    BY <2>2 DEF SetInv, LossInv
  <2>4. ASSUME NEW t \in Stages PROVE y \notin H(t)
    <3>1. CASE t = N
      BY <1>3, <3>1
    <3>2. CASE t < N
      BY <1>0, <1>3, <2>1, <3>2 DEF SetInv, PlaceInv, Before
    <3> QED BY <1>0, <3>1, <3>2
  <2>5. ASSUME NEW c \in Chans PROVE y \notin C(c)
    BY <1>0, <1>3, <2>1 DEF SetInv, PlaceInv, Before
  <2> QED BY <2>3, <2>4, <2>5 DEF Present
<1>4. NoGap'
  <2> SUFFICES ASSUME NEW z \in D', NEW y \in 1..z PROVE y \in D' \cup Skipped'
    BY DEF NoGap
  <2>1. CASE z \in D
    BY <2>1 DEF SetInv, NoGap
  <2>2. CASE z = x
    <3>1. y = x \/ (y \in 1..NItems /\ y < x)
      BY <2>2, PipelineAssumption
    <3> QED BY <1>3, <3>1
  <2> QED BY <2>1, <2>2
<1> QED BY <1>1, <1>2, <1>4 DEF SetInv

\* Stage s drops x, the first item it holds, by its own rule.
LEMMA MoveSkip ==
  ASSUME SetInv, StayGone,
         NEW s \in Stages, NEW x \in 1..NItems,
         \A t \in Stages : \A y : y \in H(t) <=> y \in H(t)' \/ (t = s /\ y = x),
         \A d \in Chans : \A y : y \in C(d)' <=> y \in C(d),
         D' = D, \A y : y \in Skipped' <=> y \in Skipped \/ y = x
  PROVE  SetInv'
<1>0. /\ \A t \in Stages : t \in Int /\ 1 <= t /\ t <= N
      /\ \A d \in Chans : d \in Int /\ d < N /\ d + 1 \in Stages
      /\ N \in Stages
  BY PipelineAssumption DEF Stages, Chans
<1>1. PlaceInv'
  <2> USE DEF SetInv, PlaceInv, Before
  <2>1. ASSUME NEW t \in Stages, NEW u \in Stages, u < t, NEW y \in H(t)', NEW z \in H(u)'
        PROVE  y < z
    BY <1>0, <2>1
  <2>2. ASSUME NEW d \in Chans, NEW e \in Chans, e < d, NEW y \in C(d)', NEW z \in C(e)'
        PROVE  y < z
    BY <1>0, <2>2
  <2>3. ASSUME NEW t \in Stages, NEW d \in Chans, d < t, NEW y \in H(t)', NEW z \in C(d)'
        PROVE  y < z
    BY <1>0, <2>3
  <2>4. ASSUME NEW t \in Stages, NEW d \in Chans, d >= t, NEW y \in C(d)', NEW z \in H(t)'
        PROVE  y < z
    BY <1>0, <2>4
  <2>5. ASSUME NEW t \in Stages, NEW y \in D', NEW z \in H(t)'
        PROVE  y < z
    BY <1>0, <2>5
  <2>6. ASSUME NEW d \in Chans, NEW y \in D', NEW z \in C(d)'
        PROVE  y < z
    BY <1>0, <2>6
  <2> QED BY <2>1, <2>2, <2>3, <2>4, <2>5, <2>6
<1>2. LossInv'
  <2> SUFFICES ASSUME NEW y \in 1..NItems, ~Present(y)' PROVE LostBehind(y)'
    BY DEF LossInv
  <2>1. ~Present(y)
    BY <1>0 DEF Present
  <2>2. PICK r \in Stages : pc[r] \in Signalled /\ Passed(r, y)
    BY <2>1 DEF SetInv, LossInv, LostBehind
  <2>3. Passed(r, y)'
    <3>1. ASSUME NEW z \in D' PROVE z < y
      BY <1>0, <2>2, <3>1 DEF Passed
    <3>2. ASSUME NEW t \in Stages, t > r, NEW z \in H(t)' PROVE z < y
      BY <1>0, <2>2, <3>2 DEF Passed
    <3>3. ASSUME NEW d \in Chans, d >= r, NEW z \in C(d)' PROVE z < y
      BY <1>0, <2>2, <3>3 DEF Passed
    <3> QED BY <3>1, <3>2, <3>3 DEF Passed
  <2> QED BY <2>2, <2>3 DEF LostBehind, StayGone
<1>3. NoGap'
  BY DEF SetInv, NoGap
<1> QED BY <1>1, <1>2, <1>3 DEF SetInv

\* DrainChan discards x, the first item of a channel whose reader has left.
LEMMA MoveDrain ==
  ASSUME SetInv, StayGone,
         NEW c \in Chans, NEW x \in 1..NItems, pc[c+1] \in Signalled,
         \A t \in Stages : \A y : y \in H(t)' <=> y \in H(t),
         \A d \in Chans : \A y : y \in C(d) <=> y \in C(d)' \/ (d = c /\ y = x),
         D' = D, Skipped' = Skipped
  PROVE  SetInv'
<1>0. /\ \A t \in Stages : t \in Int /\ 1 <= t /\ t <= N
      /\ \A d \in Chans : d \in Int /\ d < N /\ d + 1 \in Stages
      /\ N \in Stages
  BY PipelineAssumption DEF Stages, Chans
<1>1. PlaceInv'
  <2> USE DEF SetInv, PlaceInv, Before
  <2>1. ASSUME NEW t \in Stages, NEW u \in Stages, u < t, NEW y \in H(t)', NEW z \in H(u)'
        PROVE  y < z
    BY <1>0, <2>1
  <2>2. ASSUME NEW d \in Chans, NEW e \in Chans, e < d, NEW y \in C(d)', NEW z \in C(e)'
        PROVE  y < z
    BY <1>0, <2>2
  <2>3. ASSUME NEW t \in Stages, NEW d \in Chans, d < t, NEW y \in H(t)', NEW z \in C(d)'
        PROVE  y < z
    BY <1>0, <2>3
  <2>4. ASSUME NEW t \in Stages, NEW d \in Chans, d >= t, NEW y \in C(d)', NEW z \in H(t)'
        PROVE  y < z
    BY <1>0, <2>4
  <2>5. ASSUME NEW t \in Stages, NEW y \in D', NEW z \in H(t)'
        PROVE  y < z
    BY <1>0, <2>5
  <2>6. ASSUME NEW d \in Chans, NEW y \in D', NEW z \in C(d)'
        PROVE  y < z
    BY <1>0, <2>6
  <2> QED BY <2>1, <2>2, <2>3, <2>4, <2>5, <2>6
<1>2. LossInv'
  <2> SUFFICES ASSUME NEW y \in 1..NItems, ~Present(y)' PROVE LostBehind(y)'
    BY DEF LossInv
  <2>1. CASE y = x
    <3>1. c + 1 \in Stages /\ x \in C(c)
      BY <1>0
    <3>2. Passed(c + 1, x)'
      <4> USE DEF SetInv, PlaceInv, Before
      <4>1. ASSUME NEW z \in D' PROVE z < x
        BY <3>1, <4>1
      <4>2. ASSUME NEW t \in Stages, t > c + 1, NEW z \in H(t)' PROVE z < x
        BY <1>0, <3>1, <4>2
      <4>3. ASSUME NEW d \in Chans, d >= c + 1, NEW z \in C(d)' PROVE z < x
        <5>1. d > c /\ z \in C(d)
          BY <1>0, <4>3
        <5> QED BY <3>1, <5>1
      <4> QED BY <4>1, <4>2, <4>3 DEF Passed
    <3> QED BY <2>1, <3>1, <3>2 DEF LostBehind, StayGone
  <2>2. CASE y # x
    <3>1. ~Present(y)
      BY <1>0, <2>2 DEF Present
    <3>2. PICK r \in Stages : pc[r] \in Signalled /\ Passed(r, y)
      BY <3>1 DEF SetInv, LossInv, LostBehind
    <3>3. Passed(r, y)'
      <4>1. ASSUME NEW z \in D' PROVE z < y
        BY <1>0, <3>2, <4>1 DEF Passed
      <4>2. ASSUME NEW t \in Stages, t > r, NEW z \in H(t)' PROVE z < y
        BY <1>0, <3>2, <4>2 DEF Passed
      <4>3. ASSUME NEW d \in Chans, d >= r, NEW z \in C(d)' PROVE z < y
        BY <1>0, <3>2, <4>3 DEF Passed
      <4> QED BY <4>1, <4>2, <4>3 DEF Passed
    <3> QED BY <3>2, <3>3 DEF LostBehind, StayGone
  <2> QED BY <2>1, <2>2
<1>3. NoGap'
  BY DEF SetInv, NoGap
<1> QED BY <1>1, <1>2, <1>3 DEF SetInv

-----------------------------------------------------------------------------
\* A step moves items in one of these ways, keeps them in order, and nobody
\* comes back.
Goes == Move /\ StayGone /\ RisingInv' /\ IdleInv'

\* The control of the stages: where a step of stage s leads.
Leads(s, l) ==
  /\ pc' = [pc EXCEPT ![s] = l]
  /\ pc[s] \in Signalled => l \in Signalled

\* Then nobody comes back.
LEMMA LeadsOn ==
  ASSUME TypeOK, NEW s \in Stages, NEW l, Leads(s, l)
  PROVE  StayGone
BY DEF Leads, StayGone, TypeOK

\* A step of stage s that moves no item.
LEMMA QuietFlow ==
  ASSUME TypeOK, FlowInv, NEW s \in Stages, NEW l, Leads(s, l),
         l \in {"recv", "turn", "park"} => hand[s] = << >>,
         UNCHANGED <<hand, ch, delivered, skipped, taken>>,
         \/ drainer' = drainer
         \/ /\ s - 1 \in Chans /\ l \in Signalled
            /\ drainer' = [drainer EXCEPT ![s-1] = "running"]
  PROVE  Goes
<1>1. Move /\ StayGone
  BY LeadsOn DEF Move, StillMove, H, C
<1>2. RisingInv'
  BY DEF FlowInv, RisingInv, H, C, D
<1>3. \A t \in Stages : pc'[t] \in {"recv", "turn", "park"} => hand'[t] = << >>
  BY DEF Leads, FlowInv, IdleInv, TypeOK
<1>4. ASSUME NEW c \in Chans, drainer'[c] = "running" PROVE pc'[c+1] \in Signalled
  <2>1. c + 1 \in Stages /\ c \in Int /\ s \in Int
    BY PipelineAssumption DEF Chans, Stages
  <2>2. CASE drainer[c] = "running"
    BY <2>1, <2>2, LeadsOn DEF StayGone, FlowInv, IdleInv
  <2>3. CASE drainer[c] # "running"
    <3>1. c = s - 1 /\ l \in Signalled
      BY <1>4, <2>3 DEF TypeOK
    <3>2. c + 1 = s
      BY <2>1, <3>1
    <3> QED BY <3>1, <3>2 DEF Leads, TypeOK
  <2> QED BY <2>2, <2>3
<1> QED BY <1>1, <1>2, <1>3, <1>4 DEF Goes, IdleInv

\* A step outside the stages that moves no item.
LEMMA StillFlow ==
  ASSUME FlowInv, UNCHANGED <<pc, drainer, hand, ch, delivered, skipped, taken>>
  PROVE  Goes
<1>1. Move /\ StayGone
  BY DEF Move, StillMove, H, C, StayGone
<1>2. RisingInv' /\ IdleInv'
  BY DEF FlowInv, RisingInv, IdleInv, H, C, D
<1> QED BY <1>1, <1>2 DEF Goes

\* A step of stage s that moves items keeps the rest of the invariant.
LEMMA BusyFlow ==
  ASSUME TypeOK, FlowInv, NEW s \in Stages, NEW l, Leads(s, l),
         l \in {"recv", "turn", "park"} => hand'[s] = << >>,
         \A t \in Stages : t # s => hand'[t] = hand[t],
         drainer' = drainer
  PROVE  IdleInv'
<1>1. \A c \in Chans : c + 1 \in Stages
  BY PipelineAssumption DEF Chans, Stages
<1> QED BY <1>1, LeadsOn DEF Leads, FlowInv, IdleInv, TypeOK, StayGone

\* No step puts an item out of order or takes one out of the middle.
LEMMA GoesStep == TypeOK /\ Shape /\ FlowInv /\ [Next]_vars => Goes
<1> SUFFICES ASSUME TypeOK, Shape, FlowInv, [Next]_vars
             PROVE  Goes
  OBVIOUS
<1> USE DEF netVars, drainVars, stageVars, runVars, histVars
<1>1. ASSUME NEW s \in Stages, Recv(s) PROVE Goes
  <2>1. s - 1 \in Chans /\ ch[s-1] \in Seq(Nat) /\ ch[s-1] # << >> /\ Rising(ch[s-1]) /\ hand[s] \in Seq(Nat)
    BY <1>1, Positions DEF Recv, TypeOK, Shape, FlowInv, RisingInv
  <2> DEFINE x == Head(ch[s-1])
  <2>2. /\ x \in Nat /\ Tail(ch[s-1]) \in Seq(Nat) /\ Rising(Tail(ch[s-1]))
        /\ C(s-1) = Elems(Tail(ch[s-1])) \cup {x}
        /\ \A y \in Elems(Tail(ch[s-1])) : x < y
    BY <2>1, TailElems DEF C
  <2>3. x \in 1..NItems
    BY <2>1, <2>2 DEF FlowInv, RisingInv
  <2>4. ch'[s-1] = Tail(ch[s-1]) /\ \A d \in Chans : d # s - 1 => ch'[d] = ch[d]
    BY <1>1, <2>1 DEF Recv, TypeOK
  <2>5. \A d \in Chans : Rising(ch'[d])
    BY <2>2, <2>4 DEF FlowInv, RisingInv
  <2>6. \A d \in Chans : \A y : y \in C(d) <=> y \in C(d)' \/ (d = s - 1 /\ y = x)
    BY <2>2, <2>4 DEF C
  <2>7. \A y \in C(s-1)' : x < y
    BY <2>2, <2>4 DEF C
  <2> HIDE DEF x
  <2>8. hand'[s] = <<x>>
    BY <1>1 DEF Recv, TypeOK, x
  <2>9. \A t \in Stages : t # s => hand'[t] = hand[t]
    BY <1>1 DEF Recv, TypeOK
  <2>10. Elems(<<x>>) = {x} /\ Rising(<<x>>) /\ Rising(hand'[s])
    BY <2>2, <2>8 DEF Elems, Rising
  <2>11. \A t \in Stages : \A y : y \in H(t)' <=> y \in H(t) \/ (t = s /\ y = x)
    <3>1. hand[s] = << >> /\ H(s) = {}
      BY <1>1 DEF Recv, FlowInv, IdleInv, H, Elems
    <3> QED BY <2>8, <2>9, <2>10, <3>1 DEF H
  <2>12. PICK l : Leads(s, l) /\ (l \in {"recv", "turn", "park"} => hand'[s] = << >>)
    <3>1. Leads(s, IF Kind[s] \in Batching THEN "fill" ELSE "work")
      BY <1>1 DEF Recv, Leads, Goto, Signalled
    <3> QED BY <3>1
  <2>13. Move /\ StayGone
    <3>1. RecvMove(s, x)
      BY <2>1, <2>6, <2>7, <2>11, <1>1 DEF Recv, RecvMove
    <3> QED BY <2>3, <2>12, <3>1, LeadsOn DEF Move
  <2>14. IdleInv'
    BY <2>9, <2>12, BusyFlow, <1>1 DEF Recv
  <2>15. RisingInv'
    <3>1. \A t \in Stages : Rising(hand'[t])
      BY <2>9, <2>10 DEF FlowInv, RisingInv
    <3>2. \A t \in Stages : H(t)' \subseteq 1..NItems
      BY <2>3, <2>11 DEF FlowInv, RisingInv
    <3>3. \A d \in Chans : C(d)' \subseteq 1..NItems
      BY <2>6 DEF FlowInv, RisingInv
    <3>4. delivered' = delivered
      BY <1>1 DEF Recv
    <3> QED BY <2>5, <3>1, <3>2, <3>3, <3>4 DEF FlowInv, RisingInv, D
  <2> QED BY <2>13, <2>14, <2>15 DEF Goes
<1>2. ASSUME NEW s \in Stages, RecvClosed(s) PROVE Goes
  <2>1. PICK l : Leads(s, l) /\ (l \in {"recv", "turn", "park"} => hand[s] = << >>)
    BY <1>2, DeferFacts DEF RecvClosed, Leads, Leave, Goto, Signalled, FlowInv, IdleInv
  <2> QED BY <1>2, <2>1, QuietFlow DEF RecvClosed
<1>3. ASSUME NEW s \in Stages, TakeExit(s) PROVE Goes
  <2>1. PICK l : Leads(s, l) /\ (l \in {"recv", "turn", "park"} => hand[s] = << >>)
    BY <1>3, DeferFacts DEF TakeExit, Leads, Leave, Goto, Signalled, FlowInv, IdleInv
  <2> QED BY <1>3, <2>1, QuietFlow DEF TakeExit
<1>4. ASSUME NEW s \in Stages, RecvCtxDone(s) PROVE Goes
  <2>1. PICK l : Leads(s, l) /\ (l \in {"recv", "turn", "park"} => hand[s] = << >>)
    BY <1>4, DeferFacts DEF RecvCtxDone, Leads, Leave, Goto, Signalled, FlowInv, IdleInv
  <2> QED BY <1>4, <2>1, QuietFlow DEF RecvCtxDone
<1>5. ASSUME NEW s \in Stages, RecvDrained(s) PROVE Goes
  <2>1. PICK l : Leads(s, l) /\ (l \in {"recv", "turn", "park"} => hand[s] = << >>)
    BY <1>5, DeferFacts DEF RecvDrained, Leads, Leave, LeaveDrained, Goto, Signalled, FlowInv, IdleInv
  <2> QED BY <1>5, <2>1, QuietFlow DEF RecvDrained
<1>6. ASSUME NEW s \in Stages, Fill(s) PROVE Goes
  <2>1. s - 1 \in Chans /\ ch[s-1] \in Seq(Nat) /\ ch[s-1] # << >> /\ Rising(ch[s-1]) /\ hand[s] \in Seq(Nat)
    BY <1>6, Positions DEF Fill, TypeOK, Shape, FlowInv, RisingInv
  <2> DEFINE x == Head(ch[s-1])
  <2>2. /\ x \in Nat /\ Tail(ch[s-1]) \in Seq(Nat) /\ Rising(Tail(ch[s-1]))
        /\ C(s-1) = Elems(Tail(ch[s-1])) \cup {x}
        /\ \A y \in Elems(Tail(ch[s-1])) : x < y
    BY <2>1, TailElems DEF C
  <2>3. x \in 1..NItems
    BY <2>1, <2>2 DEF FlowInv, RisingInv
  <2>4. ch'[s-1] = Tail(ch[s-1]) /\ \A d \in Chans : d # s - 1 => ch'[d] = ch[d]
    BY <1>6, <2>1 DEF Fill, TypeOK
  <2>5. \A d \in Chans : Rising(ch'[d])
    BY <2>2, <2>4 DEF FlowInv, RisingInv
  <2>6. \A d \in Chans : \A y : y \in C(d) <=> y \in C(d)' \/ (d = s - 1 /\ y = x)
    BY <2>2, <2>4 DEF C
  <2>7. \A y \in C(s-1)' : x < y
    BY <2>2, <2>4 DEF C
  <2>8. hand'[s] = Append(hand[s], x)
    BY <1>6 DEF Fill, TypeOK
  <2> HIDE DEF x
  <2>9. \A t \in Stages : t # s => hand'[t] = hand[t]
    BY <1>6 DEF Fill, TypeOK
  <2>10. Elems(hand'[s]) = H(s) \cup {x} /\ Rising(hand'[s])
    <3>1. \A y \in H(s) : y < x
      <4>1. s - 1 < s
        BY DEF Stages
      <4>2. x \in C(s-1)
        BY <2>2
      <4> QED BY <2>1, <4>1, <4>2 DEF FlowInv, PlaceInv, Before
    <3> QED BY <2>1, <2>2, <2>8, <3>1, AppendElems DEF H, FlowInv, RisingInv
  <2>11. \A t \in Stages : \A y : y \in H(t)' <=> y \in H(t) \/ (t = s /\ y = x)
    BY <2>9, <2>10 DEF H
  <2>12. PICK l : Leads(s, l) /\ (l \in {"recv", "turn", "park"} => hand'[s] = << >>)
    <3>1. Leads(s, pc[s]) /\ pc[s] = "fill"
      BY <1>6 DEF Fill, Leads, TypeOK
    <3> QED BY <3>1
  <2>13. Move /\ StayGone
    <3>1. RecvMove(s, x)
      BY <2>1, <2>6, <2>7, <2>11, <1>6 DEF Fill, RecvMove
    <3> QED BY <2>3, <2>12, <3>1, LeadsOn DEF Move
  <2>14. IdleInv'
    BY <2>9, <2>12, BusyFlow, <1>6 DEF Fill
  <2>15. RisingInv'
    <3>1. \A t \in Stages : Rising(hand'[t])
      BY <2>9, <2>10 DEF FlowInv, RisingInv
    <3>2. \A t \in Stages : H(t)' \subseteq 1..NItems
      BY <2>3, <2>11 DEF FlowInv, RisingInv
    <3>3. \A d \in Chans : C(d)' \subseteq 1..NItems
      BY <2>6 DEF FlowInv, RisingInv
    <3>4. delivered' = delivered
      BY <1>6 DEF Fill
    <3> QED BY <2>5, <3>1, <3>2, <3>3, <3>4 DEF FlowInv, RisingInv, D
  <2> QED BY <2>13, <2>14, <2>15 DEF Goes
<1>7. ASSUME NEW s \in Stages, FillEnd(s) PROVE Goes
  <2>1. Leads(s, "work")
    BY <1>7 DEF FillEnd, Leads, Goto, Signalled
  <2> QED BY <1>7, <2>1, QuietFlow DEF FillEnd
<1>8. ASSUME NEW s \in Stages, WorkOk(s) PROVE Goes
  <2>1. CASE Kind[s] \notin Terminals
    <3>1. PICK l : Leads(s, l) /\ l \notin {"recv", "turn", "park"}
      BY <1>8, <2>1, DeferFacts DEF WorkOk, Leads, Leave, Goto, Signalled
    <3> QED BY <1>8, <2>1, <3>1, QuietFlow DEF WorkOk
  <2>2. CASE Kind[s] \in Terminals
    <3>1. hand[s] \in Seq(Nat) /\ hand[s] # << >> /\ Rising(hand[s])
      BY <1>8 DEF WorkOk, TypeOK, Shape, FlowInv, RisingInv
    <3> DEFINE x == Head(hand[s])
    <3>2. /\ x \in Nat /\ Tail(hand[s]) \in Seq(Nat) /\ Rising(Tail(hand[s]))
          /\ H(s) = Elems(Tail(hand[s])) \cup {x}
          /\ \A y \in Elems(Tail(hand[s])) : x < y
      BY <3>1, TailElems DEF H
    <3>3. x \in 1..NItems
      BY <3>2 DEF FlowInv, RisingInv
    <3>4. hand'[s] = Tail(hand[s]) /\ \A t \in Stages : t # s => hand'[t] = hand[t]
      BY <1>8, <2>2 DEF WorkOk, TypeOK
    <3>5. \A t \in Stages : Rising(hand'[t])
      BY <3>2, <3>4 DEF FlowInv, RisingInv
    <3>6. \A t \in Stages : \A y : y \in H(t) <=> y \in H(t)' \/ (t = s /\ y = x)
      BY <3>2, <3>4 DEF H
    <3>7. \A y \in H(s)' : x < y
      BY <3>2, <3>4 DEF H
    <3>8. \A t \in Stages : H(t)' \subseteq 1..NItems
      BY <3>6 DEF FlowInv, RisingInv
    <3>9. delivered' = Append(delivered, x) /\ UNCHANGED <<ch, skipped, drainer>>
      BY <1>8, <2>2 DEF WorkOk
    <3> HIDE DEF x
    <3>10. s = N
      BY <2>2, PipelineAssumption
    <3>11. \A y \in D : y < x
      BY <3>2, <3>10 DEF FlowInv, PlaceInv, Before
    <3>12. delivered \in Seq(Nat) /\ Rising(delivered)
      BY DEF TypeOK, FlowInv, RisingInv
    <3>13. D' = D \cup {x} /\ Rising(delivered')
      BY <3>2, <3>9, <3>11, <3>12, AppendElems DEF D
    <3>14. PICK l : Leads(s, l) /\ (l \in {"recv", "turn", "park"} => hand'[s] = << >>)
      <4>1. Leads(s, Resume(s, Tail(hand[s])))
        BY <1>8, <2>2 DEF WorkOk, Leads, Goto, Signalled
      <4>2. Resume(s, Tail(hand[s])) \in {"recv", "turn", "park"} => Tail(hand[s]) = << >>
        BY DEF Resume
      <4> QED BY <3>4, <4>1, <4>2
    <3>15. Move /\ StayGone
      <4>1. EndMove(x)
        BY <1>8, <3>6, <3>7, <3>9, <3>10, <3>13 DEF WorkOk, EndMove, C
      <4> QED BY <3>3, <3>14, <4>1, LeadsOn DEF Move
    <3>16. IdleInv'
      BY <3>4, <3>9, <3>14, BusyFlow
    <3>17. RisingInv'
      BY <3>3, <3>5, <3>8, <3>9, <3>13 DEF FlowInv, RisingInv, C
    <3> QED BY <3>15, <3>16, <3>17 DEF Goes
  <2> QED BY <2>1, <2>2
<1>9. ASSUME NEW s \in Stages, WorkSkip(s) PROVE Goes
  <2>1. hand[s] \in Seq(Nat) /\ hand[s] # << >> /\ Rising(hand[s])
    BY <1>9 DEF WorkSkip, TypeOK, Shape, FlowInv, RisingInv
  <2> DEFINE x == Head(hand[s])
  <2>2. /\ x \in Nat /\ Tail(hand[s]) \in Seq(Nat) /\ Rising(Tail(hand[s]))
        /\ H(s) = Elems(Tail(hand[s])) \cup {x}
        /\ \A y \in Elems(Tail(hand[s])) : x < y
    BY <2>1, TailElems DEF H
  <2>3. x \in 1..NItems
    BY <2>2 DEF FlowInv, RisingInv
  <2>4. hand'[s] = Tail(hand[s]) /\ \A t \in Stages : t # s => hand'[t] = hand[t]
    BY <1>9 DEF WorkSkip, TypeOK
  <2>5. \A t \in Stages : Rising(hand'[t])
    BY <2>2, <2>4 DEF FlowInv, RisingInv
  <2>6. \A t \in Stages : \A y : y \in H(t) <=> y \in H(t)' \/ (t = s /\ y = x)
    BY <2>2, <2>4 DEF H
  <2>7. \A y \in H(s)' : x < y
    BY <2>2, <2>4 DEF H
  <2>8. \A t \in Stages : H(t)' \subseteq 1..NItems
    BY <2>6 DEF FlowInv, RisingInv
  <2>9. skipped' = skipped \cup {<<s, x>>} /\ UNCHANGED <<ch, delivered, taken, drainer>>
    BY <1>9 DEF WorkSkip
  <2> HIDE DEF x
  <2>10. PICK l : Leads(s, l) /\ (l \in {"recv", "turn", "park"} => hand'[s] = << >>)
    <3>1. Leads(s, Resume(s, Tail(hand[s])))
      BY <1>9 DEF WorkSkip, Leads, Goto, Signalled
    <3>2. Resume(s, Tail(hand[s])) \in {"recv", "turn", "park"} => Tail(hand[s]) = << >>
      BY DEF Resume
    <3> QED BY <2>4, <3>1, <3>2
  <2>11. Move /\ StayGone
    <3>1. SkipMove(s, x)
      BY <2>6, <2>7, <2>9 DEF SkipMove, C
    <3> QED BY <2>3, <2>10, <3>1, LeadsOn DEF Move
  <2>12. IdleInv'
    BY <2>4, <2>9, <2>10, BusyFlow
  <2>13. RisingInv'
    BY <2>5, <2>8, <2>9 DEF FlowInv, RisingInv, C, D
  <2> QED BY <2>11, <2>12, <2>13 DEF Goes
<1>10. ASSUME NEW s \in Stages, WorkFail(s) PROVE Goes
  <2>1. PICK l : Leads(s, l) /\ (l \in {"recv", "turn", "park"} => hand[s] = << >>)
    BY <1>10, DeferFacts DEF WorkFail, Leads, Leave, Goto, Signalled, FlowInv, IdleInv
  <2> QED BY <1>10, <2>1, QuietFlow DEF WorkFail
<1>11. ASSUME NEW s \in Stages, Send(s) PROVE Goes
  <2>1. hand[s] \in Seq(Nat) /\ hand[s] # << >> /\ Rising(hand[s])
    BY <1>11 DEF Send, TypeOK, Shape, FlowInv, RisingInv
  <2> DEFINE x == Head(hand[s])
  <2>2. /\ x \in Nat /\ Tail(hand[s]) \in Seq(Nat) /\ Rising(Tail(hand[s]))
        /\ H(s) = Elems(Tail(hand[s])) \cup {x}
        /\ \A y \in Elems(Tail(hand[s])) : x < y
    BY <2>1, TailElems DEF H
  <2>3. x \in 1..NItems
    BY <2>2 DEF FlowInv, RisingInv
  <2>4. hand'[s] = Tail(hand[s]) /\ \A t \in Stages : t # s => hand'[t] = hand[t]
    BY <1>11 DEF Send, TypeOK
  <2>5. \A t \in Stages : Rising(hand'[t])
    BY <2>2, <2>4 DEF FlowInv, RisingInv
  <2>6. \A t \in Stages : \A y : y \in H(t) <=> y \in H(t)' \/ (t = s /\ y = x)
    BY <2>2, <2>4 DEF H
  <2>7. \A y \in H(s)' : x < y
    BY <2>2, <2>4 DEF H
  <2>8. \A t \in Stages : H(t)' \subseteq 1..NItems
    BY <2>6 DEF FlowInv, RisingInv
  <2>9. s \in Chans /\ ch[s] \in Seq(Nat) /\ Rising(ch[s])
    BY <1>11, Positions DEF Send, TypeOK, Shape, FlowInv, RisingInv
  <2>10. ch'[s] = Append(ch[s], x) /\ \A d \in Chans : d # s => ch'[d] = ch[d]
    BY <1>11, <2>9 DEF Send, TypeOK
  <2>11. UNCHANGED <<delivered, skipped, drainer>>
    BY <1>11 DEF Send
  <2> HIDE DEF x
  <2>12. \A y \in C(s) : y < x
    <3>1. x \in H(s) /\ s >= s
      BY <2>2 DEF Stages
    <3> QED BY <2>9, <3>1 DEF FlowInv, PlaceInv, Before
  <2>13. C(s)' = C(s) \cup {x} /\ Rising(ch'[s])
    BY <2>2, <2>9, <2>10, <2>12, AppendElems DEF C
  <2>14. \A d \in Chans : \A y : y \in C(d)' <=> y \in C(d) \/ (d = s /\ y = x)
    BY <2>10, <2>13 DEF C
  <2>15. PICK l : Leads(s, l) /\ (l \in {"recv", "turn", "park"} => hand'[s] = << >>)
    <3>1. CASE Kind[s] = "generate" /\ StageCtxDone
      <4>1. Leads(s, FirstDefer(s))
        BY <1>11, <3>1 DEF Send, Leads, Leave, Goto, Signalled
      <4>2. FirstDefer(s) \notin {"recv", "turn", "park"}
        BY DeferFacts
      <4> QED BY <4>1, <4>2
    <3>2. CASE ~(Kind[s] = "generate" /\ StageCtxDone)
      <4>1. Leads(s, Resume(s, Tail(hand[s])))
        BY <1>11, <3>2 DEF Send, Leads, Goto, Signalled
      <4>2. Resume(s, Tail(hand[s])) \in {"recv", "turn", "park"} => Tail(hand[s]) = << >>
        BY DEF Resume
      <4> QED BY <2>4, <4>1, <4>2
    <3> QED BY <3>1, <3>2
  <2>16. Move /\ StayGone
    <3>1. SendMove(s, x)
      BY <1>11, <2>6, <2>7, <2>9, <2>11, <2>14 DEF Send, SendMove
    <3> QED BY <2>3, <2>15, <3>1, LeadsOn DEF Move
  <2>17. IdleInv'
    BY <2>4, <2>11, <2>15, BusyFlow
  <2>18. RisingInv'
    <3>1. \A d \in Chans : Rising(ch'[d])
      BY <2>10, <2>13 DEF FlowInv, RisingInv
    <3>2. \A d \in Chans : C(d)' \subseteq 1..NItems
      BY <2>3, <2>14 DEF FlowInv, RisingInv
    <3> QED BY <2>5, <2>8, <2>11, <3>1, <3>2 DEF FlowInv, RisingInv, D
  <2> QED BY <2>16, <2>17, <2>18 DEF Goes
<1>12. ASSUME NEW s \in Stages, SendCtxDone(s) PROVE Goes
  <2>1. PICK l : Leads(s, l) /\ (l \in {"recv", "turn", "park"} => hand[s] = << >>)
    BY <1>12, DeferFacts DEF SendCtxDone, Leads, Leave, Goto, Signalled, FlowInv, IdleInv
  <2> QED BY <1>12, <2>1, QuietFlow DEF SendCtxDone
<1>13. ASSUME NEW s \in Stages, SendDrained(s) PROVE Goes
  <2>1. PICK l : Leads(s, l) /\ (l \in {"recv", "turn", "park"} => hand[s] = << >>)
    BY <1>13, DeferFacts DEF SendDrained, Leads, Leave, LeaveDrained, Goto, Signalled, FlowInv, IdleInv
  <2> QED BY <1>13, <2>1, QuietFlow DEF SendDrained
<1>14. ASSUME NEW s \in Stages, SendStopped(s) PROVE Goes
  <2>1. PICK l : Leads(s, l) /\ (l \in {"recv", "turn", "park"} => hand[s] = << >>)
    BY <1>14, DeferFacts DEF SendStopped, Leads, Leave, Goto, Signalled, FlowInv, IdleInv
  <2> QED BY <1>14, <2>1, QuietFlow DEF SendStopped
<1>15. ASSUME NEW s \in Stages, SourceEnd(s) PROVE Goes
  <2>1. PICK l : Leads(s, l) /\ (l \in {"recv", "turn", "park"} => hand[s] = << >>)
    BY <1>15, DeferFacts DEF SourceEnd, Leads, Leave, Goto, Signalled, FlowInv, IdleInv
  <2> QED BY <1>15, <2>1, QuietFlow DEF SourceEnd
<1>16. ASSUME NEW s \in Stages, Unpark(s) PROVE Goes
  <2>1. PICK l : Leads(s, l) /\ (l \in {"recv", "turn", "park"} => hand[s] = << >>)
    BY <1>16, DeferFacts DEF Unpark, Leads, Leave, Goto, Signalled, FlowInv, IdleInv
  <2> QED BY <1>16, <2>1, QuietFlow DEF Unpark
<1>17. ASSUME NEW s \in Stages, BatchEnd(s) PROVE Goes
  <2>1. PICK l : Leads(s, l) /\ (l \in {"recv", "turn", "park"} => hand[s] = << >>)
    BY <1>17, DeferFacts DEF BatchEnd, Leads, Leave, LeaveDrained, Goto, Signalled, FlowInv, IdleInv
  <2> QED BY <1>17, <2>1, QuietFlow DEF BatchEnd
<1>18. ASSUME NEW s \in Stages, DeferSignalDone(s) PROVE Goes
  <2>1. PICK l : Leads(s, l) /\ (l \in {"recv", "turn", "park"} => hand[s] = << >>)
    BY <1>18, DeferFacts DEF DeferSignalDone, Leads, Leave, Goto, Signalled, FlowInv, IdleInv
  <2> QED BY <1>18, <2>1, QuietFlow DEF DeferSignalDone
<1>19. ASSUME NEW s \in Stages, DeferSignalDrain(s) PROVE Goes
  <2>1. PICK l : Leads(s, l) /\ l \in Signalled
    BY <1>19 DEF DeferSignalDrain, Leads, Goto, Signalled
  <2>2. s - 1 \in Chans
    BY <1>19, Positions DEF DeferSignalDrain, Shape
  <2>3. l \notin {"recv", "turn", "park"}
    BY <2>1 DEF Signalled
  <2>4. drainer' = drainer \/ drainer' = [drainer EXCEPT ![s-1] = "running"]
    BY <1>19 DEF DeferSignalDrain
  <2> QED BY <1>19, <2>1, <2>2, <2>3, <2>4, QuietFlow DEF DeferSignalDrain
<1>20. ASSUME NEW s \in Stages, DeferClose(s) PROVE Goes
  <2>1. Leads(s, "return")
    BY <1>20 DEF DeferClose, Leads, Goto, Signalled
  <2> QED BY <1>20, <2>1, QuietFlow DEF DeferClose
<1>21. ASSUME NEW s \in Stages, GroupReturn(s) PROVE Goes
  <2>1. PICK l : Leads(s, l) /\ (l \in {"recv", "turn", "park"} => hand[s] = << >>)
    BY <1>21, DeferFacts DEF GroupReturn, Leads, Leave, Goto, Signalled, FlowInv, IdleInv
  <2> QED BY <1>21, <2>1, QuietFlow DEF GroupReturn
<1>22. ASSUME NEW c \in Chans, DrainStep(c) PROVE Goes
  <2>0. c + 1 \in Stages /\ StayGone /\ UNCHANGED <<pc, hand, delivered, skipped, taken>>
    BY <1>22, PipelineAssumption DEF DrainStep, Chans, Stages, StayGone
  <2>1. CASE ch[c] # << >> /\ ch' = [ch EXCEPT ![c] = Tail(@)] /\ drainer' = drainer
    <3>1. ch[c] \in Seq(Nat) /\ Rising(ch[c]) /\ pc[c+1] \in Signalled
      BY <1>22 DEF DrainStep, TypeOK, FlowInv, RisingInv, IdleInv
    <3> DEFINE x == Head(ch[c])
    <3>2. /\ x \in Nat /\ Tail(ch[c]) \in Seq(Nat) /\ Rising(Tail(ch[c]))
          /\ C(c) = Elems(Tail(ch[c])) \cup {x}
      BY <2>1, <3>1, TailElems DEF C
    <3>3. x \in 1..NItems
      BY <3>2 DEF FlowInv, RisingInv
    <3> HIDE DEF x
    <3>4. ch'[c] = Tail(ch[c]) /\ \A d \in Chans : d # c => ch'[d] = ch[d]
      BY <2>1 DEF TypeOK
    <3>5. \A d \in Chans : \A y : y \in C(d) <=> y \in C(d)' \/ (d = c /\ y = x)
      BY <3>2, <3>4 DEF C
    <3>6. Move
      <4>1. DrainMove(c, x)
        BY <2>0, <3>1, <3>5 DEF DrainMove, H
      <4> QED BY <3>3, <4>1 DEF Move
    <3>7. RisingInv'
      <4>1. \A d \in Chans : Rising(ch'[d]) /\ C(d)' \subseteq 1..NItems
        BY <3>2, <3>4, <3>5 DEF FlowInv, RisingInv
      <4> QED BY <2>0, <4>1 DEF FlowInv, RisingInv, H, D
    <3>8. IdleInv'
      BY <2>0, <2>1 DEF FlowInv, IdleInv
    <3> QED BY <2>0, <3>6, <3>7, <3>8 DEF Goes
  <2>2. CASE ch' = ch /\ drainer' = [drainer EXCEPT ![c] = "ended"]
    <3>1. Move /\ RisingInv'
      BY <2>0, <2>2 DEF FlowInv, RisingInv, Move, StillMove, H, C, D
    <3>2. IdleInv'
      BY <2>0, <2>2 DEF FlowInv, IdleInv, TypeOK
    <3> QED BY <2>0, <3>1, <3>2 DEF Goes
  <2> QED BY <1>22, <2>1, <2>2 DEF DrainStep
<1>23. CASE Watch
  BY <1>23, StillFlow DEF Watch
<1>24. CASE Cancel
  BY <1>24, StillFlow DEF Cancel
<1>25. CASE DrainPhase
  BY <1>25, StillFlow DEF DrainPhase
<1>26. CASE HardStop
  BY <1>26, StillFlow DEF HardStop
<1>27. CASE RunReturn
  BY <1>27, StillFlow DEF RunReturn
<1>28. CASE UNCHANGED vars
  BY <1>28, StillFlow DEF vars
<1> QED
  BY <1>1, <1>2, <1>3, <1>4, <1>5, <1>6, <1>7, <1>8, <1>9, <1>10, <1>11, <1>12, <1>13, <1>14, <1>15, <1>16, <1>17, <1>18, <1>19, <1>20, <1>21, <1>22, <1>23, <1>24, <1>25, <1>26, <1>27, <1>28
  DEF Next, StageStep, Receive, Work, SendOut, Turn, Defers, Idle

LEMMA FlowStep == TypeOK /\ Shape /\ FlowInv /\ [Next]_vars => FlowInv'
<1> SUFFICES ASSUME TypeOK, Shape, FlowInv, [Next]_vars
             PROVE  FlowInv'
  OBVIOUS
<1>1. Goes
  BY GoesStep
<1>2. N \in Stages /\ \A c \in Chans : c \in Stages
  BY PipelineAssumption DEF Stages, Chans
<1> USE DEF Goes, FlowInv, SetInv, Signalled
<1>3. CASE StillMove
  BY <1>1, <1>3, NoMove DEF StillMove, D, Skipped
<1>4. ASSUME NEW s \in Stages, NEW x \in 1..NItems, RecvMove(s, x) PROVE SetInv'
  BY <1>1, <1>4, MoveIn DEF RecvMove, D, Skipped
<1>5. ASSUME NEW s \in Stages, NEW x \in 1..NItems, SendMove(s, x) PROVE SetInv'
  BY <1>1, <1>5, MoveOut DEF SendMove, D, Skipped
<1>6. ASSUME NEW s \in Stages, NEW x \in 1..NItems, SkipMove(s, x) PROVE SetInv'
  <2>1. \A y : y \in Skipped' <=> y \in Skipped \/ y = x
    <3>1. <<s, x>>[2] = x
      OBVIOUS
    <3> QED BY <1>6, <3>1 DEF SkipMove, Skipped
  <2> QED BY <1>1, <1>6, <2>1, MoveSkip DEF SkipMove, D
<1>7. ASSUME NEW x \in 1..NItems, EndMove(x) PROVE SetInv'
  BY <1>1, <1>2, <1>7, MoveEnd DEF EndMove, Skipped
<1>8. ASSUME NEW c \in Chans, NEW x \in 1..NItems, DrainMove(c, x) PROVE SetInv'
  BY <1>1, <1>8, MoveDrain DEF DrainMove, D, Skipped
<1>9. SetInv'
  BY <1>1, <1>3, <1>4, <1>5, <1>6, <1>7, <1>8 DEF Move
<1> QED BY <1>1, <1>9

\* At the start the source holds all items.
LEMMA FlowInit == Init => FlowInv
<1> SUFFICES ASSUME Init PROVE FlowInv
  OBVIOUS
<1> USE PipelineAssumption
<1> DEFINE all == [i \in 1..NItems |-> i]
<1>1. /\ all \in Seq(Nat) /\ Len(all) = NItems /\ \A i \in 1..NItems : all[i] = i
  OBVIOUS
<1>2. 1 \in Stages /\ hand[1] = all /\ \A s \in Stages : s # 1 => hand[s] = << >>
  BY DEF Init, Stages
<1>3. Elems(<< >>) = {} /\ Rising(<< >>)
  BY DEF Elems, Rising
<1> HIDE DEF all
<1>4. H(1) = 1..NItems /\ Rising(hand[1])
  BY <1>1, <1>2 DEF H, Elems, Rising
<1>5. /\ \A s \in Stages : s # 1 => H(s) = {}
      /\ \A c \in Chans : C(c) = {}
      /\ D = {}
  BY <1>2, <1>3 DEF H, C, D, Init
<1>6. RisingInv
  BY <1>2, <1>3, <1>4, <1>5 DEF RisingInv, Init
<1>7. PlaceInv
  BY <1>4, <1>5 DEF PlaceInv, Before, Stages
<1>8. LossInv
  BY <1>2, <1>4 DEF LossInv, Present
<1>9. NoGap
  BY <1>5 DEF NoGap
<1>10. IdleInv
  <2>1. \A c \in Chans : drainer[c] # "running"
    BY DEF Init
  <2>2. pc[1] = "turn" => hand[1] = << >>
    <3> SUFFICES ASSUME NItems = 0 PROVE hand[1] = << >>
      BY <1>2 DEF Init
    <3> QED BY <1>1, <1>2
  <2>3. pc[1] \in {"send", "turn"}
    BY <1>2 DEF Init
  <2> QED BY <1>2, <2>1, <2>2, <2>3 DEF IdleInv
<1> QED BY <1>6, <1>7, <1>8, <1>9, <1>10 DEF FlowInv

\* The terminal sees the source's items in order, each at most once, and with
\* no gap but what a stage dropped by its own rule, for every chain: neither
\* teardown nor DrainChan takes an item out of the middle of the stream.
THEOREM DeliveredWithoutGap == Spec => []InOrderNoGap
<1>1. FlowInv => InOrderNoGap
  BY DEF FlowInv, RisingInv, Rising, NoGap, InOrderNoGap, Delivered, D, Elems
<1>2. Spec => []FlowInv
  BY FlowInit, FlowStep, Inductive, PTL DEF Spec
<1> QED BY <1>1, <1>2, PTL

-----------------------------------------------------------------------------
(* Nothing is lost on the way through a chain: when Run returns and nothing *)
(* cancelled the stages, what the source sent has reached the terminal,    *)
(* was dropped by a stage's own rule, or was left behind by a Take that had *)
(* let all its items through.  For every chain, with any number of Takes.  *)

\* A stage that has left its loop, and a run in which nothing has failed or
\* been cancelled.
Leaving == Signalled \cup {"sigdone", "signal"}
Calm == ~ctxDone /\ \A s \in Stages : ret[s] = "nil"

\* Only a stage that has left closes its channel or has something to return,
\* and an error that has been returned has cancelled the context.
ExitInv ==
  /\ \A s \in Stages : pc[s] = "park" => s = 1
  /\ \A c \in Chans : closed[c] => pc[c] \in {"return", "end"}
  /\ \A s \in Stages \ {1} : sawClose[s] => closed[s-1] /\ ch[s-1] = << >>
  /\ \A s \in Stages : ret[s] # "nil" => pc[s] \in Leaving
  /\ \A s \in Stages : pc[s] = "end" /\ ret[s] # "nil" => runErr # "nil"
  /\ runErr # "nil" => ctxDone
  /\ result # "running" => \A s \in Stages : pc[s] = "end"

-----------------------------------------------------------------------------
(* What a step does to the control of the run. *)

SameRun == UNCHANGED <<done, stageCtx, ctxDone, parentDone, runErr, result>>

\* Only stage s moves; it fills no channel but its own.
Only(s) ==
  /\ \A t \in Stages : t # s => pc'[t] = pc[t] /\ ret'[t] = ret[t] /\ hand'[t] = hand[t]
  /\ \A c \in Chans : c # s /\ ch[c] = << >> => ch'[c] = << >>

\* Stage s goes on in its loop; it notes the end of its input when it sees it.
LoopStep(s) ==
  /\ Only(s) /\ SameRun /\ UNCHANGED <<closed, ret>>
  /\ pc[s] \notin Leaving /\ pc'[s] \notin Leaving /\ (pc'[s] = "park" => s = 1)
  /\ \A t \in Stages : t # s => sawClose'[t] = sawClose[t]
  /\ s # 1 /\ sawClose'[s] => sawClose[s] \/ (closed[s-1] /\ ch[s-1] = << >>)

\* Why a stage leaves its loop.
AtEnd(s) == s # 1 /\ hand'[s] = << >> /\ closed[s-1] /\ ch[s-1] = << >>
SourceStops(s) == s = 1 /\ (hand'[1] = << >> \/ done \/ StageCtxDone)
ExitStep(s) ==
  /\ Only(s) /\ SameRun /\ UNCHANGED <<closed, sawClose>>
  /\ pc[s] \notin Leaving /\ pc'[s] \in {"sigdone", "signal", "close"}
  /\ ret'[s] # "nil" \/ AtEnd(s) \/ TakeDone(s) \/ (s \in Chans /\ drained[s]) \/ SourceStops(s)

\* Its deferred calls.
DeferStep(s) ==
  /\ Only(s) /\ UNCHANGED <<ch, hand, ret, sawClose>>
  /\ \/ /\ pc[s] = "sigdone" /\ pc'[s] = "signal"
        /\ UNCHANGED <<closed, stageCtx, ctxDone, parentDone, runErr, result>>
     \/ pc[s] = "signal" /\ pc'[s] \in {"close", "return"} /\ SameRun /\ UNCHANGED closed
     \/ /\ pc[s] = "close" /\ pc'[s] = "return" /\ SameRun
        /\ s \in Chans /\ closed' = [closed EXCEPT ![s] = TRUE]
     \/ /\ pc[s] = "return" /\ pc'[s] = "end"
        /\ UNCHANGED <<closed, done, stageCtx, parentDone, result>>
        /\ IF ret[s] # "nil" /\ runErr = "nil" THEN runErr' # "nil" /\ ctxDone'
                                               ELSE UNCHANGED <<runErr, ctxDone>>

\* A step outside the stages.
OutsideStep ==
  /\ UNCHANGED <<pc, ret, hand, closed, sawClose, runErr>>
  /\ \A c \in Chans : ch[c] = << >> => ch'[c] = << >>
  /\ ctxDone => ctxDone'
  /\ parentDone => parentDone'
  /\ done' => done \/ parentDone
  /\ stageCtx' => stageCtx \/ done \/ drained[1]
  /\ result' # result => \A s \in Stages : pc[s] = "end"

Control == (\E s \in Stages : LoopStep(s) \/ ExitStep(s) \/ DeferStep(s)) \/ OutsideStep

\* Sources are where a chain begins.
LEMMA SourceFacts ==
  ASSUME NEW s \in Stages
  PROVE  /\ s = 1 <=> Kind[s] \in Sources
         /\ s = N <=> Kind[s] \in Terminals
BY PipelineAssumption

\* Every step is one of these.
LEMMA Controlled == TypeOK /\ Shape /\ IdleInv /\ ExitInv /\ [Next]_vars => Control
<1> SUFFICES ASSUME TypeOK, Shape, IdleInv, ExitInv, [Next]_vars PROVE Control
  OBVIOUS
<1> USE DEF netVars, drainVars, stageVars, runVars, histVars
<1>1. ASSUME NEW s \in Stages, Recv(s) PROVE Control
  <2>1. LoopStep(s)
    BY <1>1, Positions, ResumeFacts, KindFacts, HeadTail
    DEF Recv, LoopStep, Only, SameRun, TypeOK, Shape, Goto, Leaving, Signalled
  <2> QED BY <2>1 DEF Control
<1>2. ASSUME NEW s \in Stages, RecvClosed(s) PROVE Control
  <2>1. ExitStep(s)
    BY <1>2, Positions, DeferFacts, KindFacts, SourceFacts
    DEF RecvClosed, ExitInv, SendDone, ExitStep, Only, SameRun, AtEnd, SourceStops, TypeOK, Shape, IdleInv, Leave, Goto, Leaving, Signalled
  <2> QED BY <2>1 DEF Control
<1>3. ASSUME NEW s \in Stages, TakeExit(s) PROVE Control
  <2>1. ExitStep(s)
    BY <1>3, Positions, DeferFacts, KindFacts, SourceFacts
    DEF TakeExit, ExitInv, SendDone, ExitStep, Only, SameRun, AtEnd, SourceStops, TypeOK, Shape, IdleInv, Leave, Goto, Leaving, Signalled
  <2> QED BY <2>1 DEF Control
<1>4. ASSUME NEW s \in Stages, RecvCtxDone(s) PROVE Control
  <2>1. ExitStep(s)
    BY <1>4, Positions, DeferFacts, KindFacts, SourceFacts
    DEF RecvCtxDone, ExitInv, SendDone, ExitStep, Only, SameRun, AtEnd, SourceStops, TypeOK, Shape, IdleInv, Leave, Goto, Leaving, Signalled
  <2> QED BY <2>1 DEF Control
<1>5. ASSUME NEW s \in Stages, RecvDrained(s) PROVE Control
  <2>1. ExitStep(s)
    BY <1>5, Positions, DeferFacts, KindFacts, SourceFacts
    DEF RecvDrained, LeaveDrained, ExitInv, SendDone, ExitStep, Only, SameRun, AtEnd, SourceStops, TypeOK, Shape, IdleInv, Leave, Goto, Leaving, Signalled
  <2> QED BY <2>1 DEF Control
<1>6. ASSUME NEW s \in Stages, Fill(s) PROVE Control
  <2>1. LoopStep(s)
    BY <1>6, Positions, ResumeFacts, KindFacts, HeadTail
    DEF Fill, LoopStep, Only, SameRun, TypeOK, Shape, Goto, Leaving, Signalled
  <2> QED BY <2>1 DEF Control
<1>7. ASSUME NEW s \in Stages, FillEnd(s) PROVE Control
  <2>1. LoopStep(s)
    BY <1>7, Positions, ResumeFacts, KindFacts, HeadTail
    DEF FillEnd, LoopStep, Only, SameRun, TypeOK, Shape, Goto, Leaving, Signalled
  <2> QED BY <2>1 DEF Control
<1>8. ASSUME NEW s \in Stages, WorkOk(s) PROVE Control
  <2>1. CASE Kind[s] \notin Terminals /\ Kind[s] \in CheckCtx /\ ctxDone
    <3>1. ExitStep(s)
      BY SMTT(40), <1>8, <2>1, Positions, DeferFacts, KindFacts, SourceFacts
      DEF WorkOk, ExitStep, Only, SameRun, AtEnd, SourceStops, TypeOK, Shape, IdleInv, ExitInv, Leave, LeaveDrained, Goto, Leaving, Signalled
    <3> QED BY <3>1 DEF Control
  <2>2. CASE ~(Kind[s] \notin Terminals /\ Kind[s] \in CheckCtx /\ ctxDone)
    <3>1. PICK l : /\ pc' = [pc EXCEPT ![s] = l] /\ ret' = ret /\ l \notin Leaving
                   /\ l = "park" => s = 1
      <4>1. CASE Kind[s] \in Terminals
        BY <1>8, <4>1, ResumeFacts DEF WorkOk, Goto, Leaving, Signalled
      <4>2. CASE Kind[s] \notin Terminals
        BY <1>8, <2>2, <4>2 DEF WorkOk, Goto, Leaving, Signalled
      <4> QED BY <4>1, <4>2
    <3>2. pc[s] \notin Leaving /\ SameRun /\ UNCHANGED <<closed, sawClose>>
      BY <1>8 DEF WorkOk, SameRun, Leaving, Signalled
    <3>3. \A t \in Stages : t # s => hand'[t] = hand[t]
      BY <1>8 DEF WorkOk, TypeOK
    <3>4. \A c \in Chans : c # s => ch'[c] = ch[c]
      BY <1>8 DEF WorkOk, TypeOK
    <3>5. LoopStep(s)
      BY <3>1, <3>2, <3>3, <3>4 DEF LoopStep, Only, TypeOK
    <3> QED BY <3>5 DEF Control
  <2> QED BY <2>1, <2>2
<1>9. ASSUME NEW s \in Stages, WorkSkip(s) PROVE Control
  <2>1. LoopStep(s)
    BY <1>9, Positions, ResumeFacts, KindFacts, HeadTail
    DEF WorkSkip, LoopStep, Only, SameRun, TypeOK, Shape, Goto, Leaving, Signalled
  <2> QED BY <2>1 DEF Control
<1>10. ASSUME NEW s \in Stages, WorkFail(s) PROVE Control
  <2>1. PICK l, e : /\ pc' = [pc EXCEPT ![s] = l] /\ l \in {"sigdone", "signal", "close"}
                    /\ ret' = [ret EXCEPT ![s] = e] /\ e # "nil"
    BY <1>10, DeferFacts DEF WorkFail, Leave, Goto
  <2>2. ExitStep(s)
    BY <1>10, <2>1 DEF WorkFail, ExitStep, Only, SameRun, TypeOK, Leaving, Signalled
  <2> QED BY <2>2 DEF Control
<1>11. ASSUME NEW s \in Stages, Send(s) PROVE Control
  <2>1. CASE Kind[s] = "generate" /\ StageCtxDone
    <3>1. ExitStep(s)
      BY SMTT(40), <1>11, <2>1, Positions, DeferFacts, KindFacts, SourceFacts
      DEF Send, ExitStep, Only, SameRun, AtEnd, SourceStops, TypeOK, Shape, IdleInv, ExitInv, Leave, LeaveDrained, Goto, Leaving, Signalled
    <3> QED BY <3>1 DEF Control
  <2>2. CASE ~(Kind[s] = "generate" /\ StageCtxDone)
    <3>1. PICK l : /\ pc' = [pc EXCEPT ![s] = l] /\ ret' = ret /\ l \notin Leaving
                   /\ l = "park" => s = 1
      BY <1>11, <2>2, SourceFacts, DeferFacts, ResumeFacts DEF Send, Leave, Goto, Leaving, Signalled
    <3>2. pc[s] \notin Leaving /\ SameRun /\ UNCHANGED <<closed, sawClose>>
      BY <1>11 DEF Send, SameRun, Leaving, Signalled
    <3>3. \A t \in Stages : t # s => hand'[t] = hand[t]
      BY <1>11 DEF Send, TypeOK
    <3>4. \A c \in Chans : c # s => ch'[c] = ch[c]
      BY <1>11 DEF Send, TypeOK
    <3>5. LoopStep(s)
      BY <3>1, <3>2, <3>3, <3>4 DEF LoopStep, Only, TypeOK
    <3> QED BY <3>5 DEF Control
  <2> QED BY <2>1, <2>2
<1>12. ASSUME NEW s \in Stages, SendCtxDone(s) PROVE Control
  <2>1. ExitStep(s)
    BY <1>12, Positions, DeferFacts, KindFacts, SourceFacts
    DEF SendCtxDone, ExitInv, SendDone, ExitStep, Only, SameRun, AtEnd, SourceStops, TypeOK, Shape, IdleInv, Leave, Goto, Leaving, Signalled
  <2> QED BY <2>1 DEF Control
<1>13. ASSUME NEW s \in Stages, SendDrained(s) PROVE Control
  <2>1. ExitStep(s)
    BY <1>13, Positions, DeferFacts, KindFacts, SourceFacts
    DEF SendDrained, LeaveDrained, ExitInv, SendDone, ExitStep, Only, SameRun, AtEnd, SourceStops, TypeOK, Shape, IdleInv, Leave, Goto, Leaving, Signalled
  <2> QED BY <2>1 DEF Control
<1>14. ASSUME NEW s \in Stages, SendStopped(s) PROVE Control
  <2>1. ExitStep(s)
    BY <1>14, Positions, DeferFacts, KindFacts, SourceFacts
    DEF SendStopped, ExitInv, SendDone, ExitStep, Only, SameRun, AtEnd, SourceStops, TypeOK, Shape, IdleInv, Leave, Goto, Leaving, Signalled
  <2> QED BY <2>1 DEF Control
<1>15. ASSUME NEW s \in Stages, SourceEnd(s) PROVE Control
  <2>1. CASE Leave(s, "nil") \/ Leave(s, "user")
    <3>1. ExitStep(s)
      BY <1>15, <2>1, Positions, DeferFacts, KindFacts, SourceFacts
      DEF SourceEnd, ExitStep, Only, SameRun, AtEnd, SourceStops, TypeOK, Shape, IdleInv, ExitInv, Leave, LeaveDrained, Goto, Leaving, Signalled
    <3> QED BY <3>1 DEF Control
  <2>2. CASE ~(Leave(s, "nil") \/ Leave(s, "user"))
    <3>1. PICK l : /\ pc' = [pc EXCEPT ![s] = l] /\ ret' = ret /\ l \notin Leaving
                   /\ l = "park" => s = 1
      BY <1>15, <2>2, SourceFacts, DeferFacts, ResumeFacts DEF SourceEnd, Leave, Goto, Leaving, Signalled
    <3>2. pc[s] \notin Leaving /\ SameRun /\ UNCHANGED <<closed, sawClose>>
      BY <1>15 DEF SourceEnd, SameRun, Leaving, Signalled
    <3>3. \A t \in Stages : t # s => hand'[t] = hand[t]
      BY <1>15 DEF SourceEnd, TypeOK
    <3>4. \A c \in Chans : c # s => ch'[c] = ch[c]
      BY <1>15 DEF SourceEnd, TypeOK
    <3>5. LoopStep(s)
      BY <3>1, <3>2, <3>3, <3>4 DEF LoopStep, Only, TypeOK
    <3> QED BY <3>5 DEF Control
  <2> QED BY <2>1, <2>2
<1>16. ASSUME NEW s \in Stages, Unpark(s) PROVE Control
  <2>1. ExitStep(s)
    BY <1>16, Positions, DeferFacts, KindFacts, SourceFacts
    DEF Unpark, ExitInv, SendDone, ExitStep, Only, SameRun, AtEnd, SourceStops, TypeOK, Shape, IdleInv, Leave, Goto, Leaving, Signalled
  <2> QED BY <2>1 DEF Control
<1>17. ASSUME NEW s \in Stages, BatchEnd(s) PROVE Control
  <2>1. CASE sawClose[s] \/ ctxDone \/ (Kind[s] \in PollDrain /\ drained[s])
    <3>1. PICK l, e : /\ pc' = [pc EXCEPT ![s] = l] /\ l \in {"sigdone", "signal", "close"}
                      /\ ret' = [ret EXCEPT ![s] = e]
                      /\ e # "nil" \/ sawClose[s] \/ (Kind[s] \in PollDrain /\ drained[s])
      BY <1>17, <2>1, DeferFacts DEF BatchEnd, Leave, LeaveDrained, Goto
    <3>2. pc[s] = "turn" /\ Kind[s] \in Batching /\ UNCHANGED <<ch, hand, closed, sawClose>> /\ SameRun
      BY <1>17 DEF BatchEnd, SameRun
    <3>3. s # 1 /\ hand[s] = << >>
      BY <3>2, KindFacts, SourceFacts DEF IdleInv
    <3>4. Kind[s] \in PollDrain => s \in Chans
      BY Positions, KindFacts
    <3>5. sawClose[s] => AtEnd(s)
      BY <3>2, <3>3 DEF AtEnd, ExitInv
    <3>6. pc'[s] = l /\ ret'[s] = e /\ Only(s)
      BY <3>1, <3>2 DEF Only, TypeOK
    <3>7. ExitStep(s)
      BY <3>1, <3>2, <3>4, <3>5, <3>6 DEF ExitStep, Leaving, Signalled
    <3> QED BY <3>7 DEF Control
  <2>2. CASE ~(sawClose[s] \/ ctxDone \/ (Kind[s] \in PollDrain /\ drained[s]))
    <3>1. PICK l : /\ pc' = [pc EXCEPT ![s] = l] /\ ret' = ret /\ l \notin Leaving
                   /\ l = "park" => s = 1
      BY <1>17, <2>2, SourceFacts, DeferFacts, ResumeFacts DEF BatchEnd, Leave, Goto, Leaving, Signalled
    <3>2. pc[s] \notin Leaving /\ SameRun /\ UNCHANGED <<closed, sawClose>>
      BY <1>17 DEF BatchEnd, SameRun, Leaving, Signalled
    <3>3. \A t \in Stages : t # s => hand'[t] = hand[t]
      BY <1>17 DEF BatchEnd, TypeOK
    <3>4. \A c \in Chans : c # s => ch'[c] = ch[c]
      BY <1>17 DEF BatchEnd, TypeOK
    <3>5. LoopStep(s)
      BY <3>1, <3>2, <3>3, <3>4 DEF LoopStep, Only, TypeOK
    <3> QED BY <3>5 DEF Control
  <2> QED BY <2>1, <2>2
<1>18. ASSUME NEW s \in Stages, DeferSignalDone(s) PROVE Control
  <2>1. DeferStep(s)
    BY <1>18, Positions DEF DeferSignalDone, DeferStep, Only, SameRun, TypeOK, Shape, Goto
  <2> QED BY <2>1 DEF Control
<1>19. ASSUME NEW s \in Stages, DeferSignalDrain(s) PROVE Control
  <2>1. DeferStep(s)
    BY <1>19, Positions DEF DeferSignalDrain, DeferStep, Only, SameRun, TypeOK, Shape, Goto
  <2> QED BY <2>1 DEF Control
<1>20. ASSUME NEW s \in Stages, DeferClose(s) PROVE Control
  <2>1. DeferStep(s)
    BY <1>20, Positions DEF DeferClose, DeferStep, Only, SameRun, TypeOK, Shape, Goto
  <2> QED BY <2>1 DEF Control
<1>21. ASSUME NEW s \in Stages, GroupReturn(s) PROVE Control
  <2>1. DeferStep(s)
    BY <1>21, Positions DEF GroupReturn, DeferStep, Only, SameRun, TypeOK, Shape, Goto
  <2> QED BY <2>1 DEF Control
<1>22. ASSUME NEW c \in Chans, DrainStep(c) PROVE Control
  BY <1>22, HeadTail DEF DrainStep, Control, OutsideStep, TypeOK
<1>23. CASE Watch
  BY <1>23 DEF Watch, Control, OutsideStep, TypeOK
<1>24. CASE Cancel
  BY <1>24 DEF Cancel, Control, OutsideStep, TypeOK
<1>25. CASE DrainPhase
  BY <1>25 DEF DrainPhase, Control, OutsideStep, TypeOK
<1>26. CASE HardStop
  BY <1>26 DEF HardStop, Control, OutsideStep, TypeOK
<1>27. CASE RunReturn
  BY <1>27 DEF RunReturn, Control, OutsideStep, TypeOK
<1>28. CASE UNCHANGED vars
  BY <1>28 DEF vars, Control, OutsideStep
<1> QED
  BY <1>1, <1>2, <1>3, <1>4, <1>5, <1>6, <1>7, <1>8, <1>9, <1>10, <1>11, <1>12, <1>13, <1>14, <1>15, <1>16, <1>17, <1>18, <1>19, <1>20, <1>21, <1>22, <1>23, <1>24, <1>25, <1>26, <1>27, <1>28
  DEF Next, StageStep, Receive, Work, SendOut, Turn, Defers, Idle

\* A calm run was calm before, and who has left stays so.
LEMMA Calmer ==
  ASSUME TypeOK, Shape, IdleInv, ExitInv, [Next]_vars
  PROVE  /\ Calm' => Calm
         /\ \A s \in Stages : pc[s] \in Leaving => pc'[s] \in Leaving
         /\ ctxDone => ctxDone'
<1>1. Control
  BY Controlled
<1>2. ASSUME NEW s \in Stages, LoopStep(s)
      PROVE  /\ Calm' => Calm
             /\ \A t \in Stages : pc[t] \in Leaving => pc'[t] \in Leaving
             /\ ctxDone => ctxDone'
  BY <1>2 DEF LoopStep, Only, SameRun, Calm
<1>3. ASSUME NEW s \in Stages, ExitStep(s)
      PROVE  /\ Calm' => Calm
             /\ \A t \in Stages : pc[t] \in Leaving => pc'[t] \in Leaving
             /\ ctxDone => ctxDone'
  BY <1>3 DEF ExitStep, Only, SameRun, Calm, ExitInv
<1>4. ASSUME NEW s \in Stages, DeferStep(s)
      PROVE  /\ Calm' => Calm
             /\ \A t \in Stages : pc[t] \in Leaving => pc'[t] \in Leaving
             /\ ctxDone => ctxDone'
  BY <1>4 DEF DeferStep, Only, SameRun, Calm, Leaving, Signalled
<1>5. CASE OutsideStep
  BY <1>5 DEF OutsideStep, Calm
<1> QED BY <1>1, <1>2, <1>3, <1>4, <1>5 DEF Control

LEMMA ExitKept == TypeOK /\ Shape /\ IdleInv /\ ExitInv /\ [Next]_vars => ExitInv'
<1> SUFFICES ASSUME TypeOK, Shape, IdleInv, ExitInv, [Next]_vars
             PROVE  ExitInv'
  OBVIOUS
<1>0. \A c \in Chans : c \in Stages /\ c + 1 \in Stages /\ (c + 1) - 1 = c
  BY PipelineAssumption DEF Chans, Stages
<1>00. \A s \in Stages : s # 1 => s - 1 \in Chans
  BY PipelineAssumption DEF Chans, Stages
<1>1. Control
  BY Controlled
<1>2. ASSUME NEW s \in Stages, LoopStep(s) PROVE ExitInv'
  BY <1>0, <1>00, <1>2 DEF LoopStep, Only, SameRun, ExitInv, Leaving, Signalled
<1>3. ASSUME NEW s \in Stages, ExitStep(s) PROVE ExitInv'
  BY <1>0, <1>00, <1>3 DEF ExitStep, Only, SameRun, ExitInv, Leaving, Signalled
<1>4. ASSUME NEW s \in Stages, DeferStep(s) PROVE ExitInv'
  <2>1. /\ \A t \in Stages : t # s => pc'[t] = pc[t]
        /\ pc[s] \in Leaving /\ pc'[s] \in Leaving /\ pc[s] # "end"
        /\ UNCHANGED <<ch, hand, ret, sawClose, result>>
    BY <1>4 DEF DeferStep, Only, SameRun, Leaving, Signalled
  <2>2. \A c \in Chans : /\ closed[c] => closed'[c]
                         /\ closed'[c] => closed[c] \/ (c = s /\ pc'[s] = "return")
    BY <1>4 DEF DeferStep, SameRun, TypeOK
  <2>3. \A c \in Chans : closed'[c] => pc'[c] \in {"return", "end"}
    BY <1>0, <1>4, <2>1, <2>2 DEF DeferStep, ExitInv
  <2>4. /\ runErr' # "nil" => ctxDone'
        /\ runErr # "nil" => runErr' # "nil"
        /\ pc'[s] = "end" /\ ret[s] # "nil" => runErr' # "nil"
    BY <1>4 DEF DeferStep, SameRun, ExitInv
  <2>5. \A t \in Stages : pc'[t] = "end" /\ ret'[t] # "nil" => runErr' # "nil"
    BY <2>1, <2>4 DEF ExitInv
  <2>6. \A t \in Stages \ {1} : sawClose'[t] => closed'[t-1] /\ ch'[t-1] = << >>
    BY <1>00, <2>1, <2>2 DEF ExitInv
  <2> QED BY <2>1, <2>3, <2>4, <2>5, <2>6 DEF ExitInv, Leaving, Signalled
<1>5. CASE OutsideStep
  BY <1>0, <1>00, <1>5 DEF OutsideStep, ExitInv
<1> QED BY <1>1, <1>2, <1>3, <1>4, <1>5 DEF Control

-----------------------------------------------------------------------------
(* Why a stage may leave: its input is at its end, or a Take at or behind   *)
(* it has let all its items through.                                       *)

Clean(s) == closed[s-1] /\ ch[s-1] = << >> /\ hand[s] = << >>
CutFrom(s) == \E t \in Stages : s <= t /\ TakeDone(t)

CleanInv == Calm => \A s \in Stages \ {1} : pc[s] \in Leaving => Clean(s) \/ CutFrom(s)

\* Before any Take is done, the source only leaves when it has sent all it
\* has, or because the caller has cancelled.
SourceInv ==
  Calm /\ ~CutFrom(1) =>
    /\ \A c \in Chans : closed[c] => closed[1]
    /\ done \/ stageCtx => parentDone \/ closed[1]
    /\ pc[1] \in Leaving => parentDone \/ hand[1] = << >>

\* The last of the Takes that are done.
LastInv == TakeN > 0 /\ CutFrom(1) => \E t \in Stages : TakeDone(t) /\ ~CutFrom(t+1)

\* A Take that is done stays so, and at most one becomes done in a step.
LEMMA TakeDoneStays ==
  ASSUME TypeOK, Move
  PROVE  /\ \A t \in Stages : TakeDone(t) => TakeDone(t)'
         /\ \/ \A t \in Stages : TakeDone(t)' <=> TakeDone(t)
            \/ \E s \in Stages : TakeDone(s)' /\ \A t \in Stages : t # s => (TakeDone(t)' <=> TakeDone(t))
<1>1. CASE taken' = taken
  BY <1>1 DEF TakeDone
<1>2. ASSUME NEW s \in Stages, NEW x \in 1..NItems, SendMove(s, x)
      PROVE  /\ \A t \in Stages : TakeDone(t) => TakeDone(t)'
             /\ \/ \A t \in Stages : TakeDone(t)' <=> TakeDone(t)
                \/ TakeDone(s)' /\ \A t \in Stages : t # s => (TakeDone(t)' <=> TakeDone(t))
  <2>1. \A t \in Stages : t # s => taken'[t] = taken[t]
    BY <1>2 DEF SendMove, TypeOK
  <2>2. taken'[s] >= taken[s] /\ taken[s] \in Nat /\ taken'[s] \in Nat /\ TakeN \in Nat
    BY <1>2, PipelineAssumption DEF SendMove, TypeOK
  <2>3. TakeDone(s) => TakeDone(s)'
    BY <2>2 DEF TakeDone
  <2> QED BY <2>1, <2>3 DEF TakeDone
<1>3. Move => taken' = taken \/ \E s \in Stages, x \in 1..NItems : SendMove(s, x)
  BY DEF Move, StillMove, RecvMove, SkipMove, EndMove, DrainMove
<1> QED BY <1>1, <1>2, <1>3

LEMMA LastKept ==
  ASSUME TypeOK, Move, LastInv
  PROVE  LastInv'
<1> SUFFICES ASSUME TakeN > 0, CutFrom(1)'
             PROVE  \E t \in Stages : TakeDone(t)' /\ ~CutFrom(t+1)'
  BY DEF LastInv
<1>0. \A s \in Stages : s \in Nat /\ 1 <= s
  BY PipelineAssumption DEF Stages
<1>1. CASE \A t \in Stages : TakeDone(t)' <=> TakeDone(t)
  BY <1>1 DEF LastInv, CutFrom
<1>2. ASSUME NEW s \in Stages, TakeDone(s)', \A t \in Stages : t # s => (TakeDone(t)' <=> TakeDone(t))
      PROVE  \E t \in Stages : TakeDone(t)' /\ ~CutFrom(t+1)'
  <2>1. CASE CutFrom(s+1)
    <3>1. CutFrom(1)
      BY <1>0, <2>1 DEF CutFrom
    <3>2. PICK u \in Stages : TakeDone(u) /\ ~CutFrom(u+1)
      BY <3>1 DEF LastInv
    <3>3. s < u
      BY <1>0, <2>1, <3>2 DEF CutFrom
    <3>4. TakeDone(u)' /\ ~CutFrom(u+1)'
      BY <1>0, <1>2, <3>2, <3>3 DEF CutFrom
    <3> QED BY <3>4
  <2>2. CASE ~CutFrom(s+1)
    <3>1. ~CutFrom(s+1)'
      BY <1>0, <1>2, <2>2 DEF CutFrom
    <3> QED BY <1>2, <3>1
  <2> QED BY <2>1, <2>2
<1> QED BY <1>1, <1>2, TakeDoneStays

\* A drain channel is closed by a stage whose input was at its end, or which
\* a Take behind it has cut off.
LEMMA DrainedBy ==
  ASSUME DrainInv, TypeOK, CleanInv, Calm, NEW s \in Chans, drained[s]
  PROVE  closed[s] \/ CutFrom(s+1)
<1>1. s + 1 \in Stages \ {1} /\ (s + 1) - 1 = s
  BY PipelineAssumption DEF Chans, Stages
<1>2. pc[s+1] \in Signalled
  <2>1. InitialRefs(Consumers[s]) \in Nat \ {0}
    BY PipelineAssumption DEF InitialRefs
  <2>2. refs[s] = InitialRefs(Consumers[s]) - (IF HasSignalled(s+1) THEN 1 ELSE 0) /\ refs[s] = 0
    BY DEF DrainInv
  <2>3. HasSignalled(s+1)
    BY <2>1, <2>2
  <2> QED BY <2>3 DEF HasSignalled
<1> QED BY <1>1, <1>2 DEF CleanInv, Clean, Leaving

LEMMA CleanKept ==
  ASSUME TypeOK, Shape, DrainInv, IdleInv, ExitInv, CleanInv, Move, [Next]_vars
  PROVE  CleanInv'
<1> SUFFICES ASSUME Calm', NEW s \in Stages \ {1}, pc'[s] \in Leaving, ~CutFrom(s)'
             PROVE  Clean(s)'
  BY DEF CleanInv
<1>1. Calm /\ ~CutFrom(s)
  BY Calmer, TakeDoneStays DEF CutFrom
<1>2. s - 1 \in Chans /\ s - 1 \in Stages /\ s \in Nat /\ s - 1 # s
  BY PipelineAssumption DEF Chans, Stages
<1>3. pc[s] \in Leaving => Clean(s)
  BY <1>1 DEF CleanInv
<1>4. Control
  BY Controlled
<1>5. ASSUME NEW r \in Stages, LoopStep(r) PROVE Clean(s)'
  <2>1. r # s /\ pc[s] = pc'[s] /\ hand'[s] = hand[s] /\ closed' = closed
    BY <1>5 DEF LoopStep, Only
  <2>2. r # s - 1
    BY <1>2, <1>3, <1>5, <2>1 DEF LoopStep, Clean, ExitInv, Leaving, Signalled
  <2> QED BY <1>2, <1>3, <1>5, <2>1, <2>2 DEF LoopStep, Only, Clean
<1>6. ASSUME NEW r \in Stages, ExitStep(r), r # s PROVE Clean(s)'
  <2>1. pc[s] = pc'[s] /\ hand'[s] = hand[s] /\ closed' = closed
    BY <1>6 DEF ExitStep, Only
  <2>2. r # s - 1
    BY <1>2, <1>3, <1>6, <2>1 DEF ExitStep, Clean, ExitInv, Leaving, Signalled
  <2> QED BY <1>2, <1>3, <1>6, <2>1, <2>2 DEF ExitStep, Only, Clean
<1>7. ASSUME ExitStep(s) PROVE Clean(s)'
  <2>1. ret'[s] = "nil" /\ ~TakeDone(s) /\ ~SourceStops(s)
    BY <1>1, <1>2 DEF Calm, CutFrom, SourceStops
  <2>2. CASE AtEnd(s)
    BY <1>2, <1>7, <2>2 DEF ExitStep, Only, AtEnd, Clean
  <2>3. CASE s \in Chans /\ drained[s]
    <3>1. closed[s]
      BY <1>1, <1>2, <2>3, DrainedBy DEF CutFrom
    <3> QED BY <1>7, <2>3, <3>1 DEF ExitStep, ExitInv, Leaving, Signalled
  <2> QED BY <1>7, <2>1, <2>2, <2>3 DEF ExitStep
<1>8. ASSUME NEW r \in Stages, DeferStep(r) PROVE Clean(s)'
  <2>1. pc[s] \in Leaving /\ UNCHANGED <<ch, hand>>
    BY <1>8 DEF DeferStep, Only, Leaving, Signalled
  <2>2. closed[s-1] => closed'[s-1]
    BY <1>2, <1>8 DEF DeferStep, SameRun, TypeOK
  <2> QED BY <1>3, <2>1, <2>2 DEF Clean
<1>9. CASE OutsideStep
  BY <1>2, <1>3, <1>9 DEF OutsideStep, Clean
<1> QED BY <1>4, <1>5, <1>6, <1>7, <1>8, <1>9 DEF Control

LEMMA SourceKept ==
  ASSUME TypeOK, Shape, DrainInv, IdleInv, ExitInv, CleanInv, SourceInv, Move, [Next]_vars
  PROVE  SourceInv'
<1> SUFFICES ASSUME Calm', ~CutFrom(1)'
             PROVE  /\ \A c \in Chans : closed'[c] => closed'[1]
                    /\ done' \/ stageCtx' => parentDone' \/ closed'[1]
                    /\ pc'[1] \in Leaving => parentDone' \/ hand'[1] = << >>
  BY DEF SourceInv
<1> DEFINE Goal == /\ \A c \in Chans : closed'[c] => closed'[1]
                   /\ done' \/ stageCtx' => parentDone' \/ closed'[1]
                   /\ pc'[1] \in Leaving => parentDone' \/ hand'[1] = << >>
<1>0. 1 \in Stages /\ 1 \in Chans /\ \A s \in Stages : s \in Nat /\ s >= 1 /\ (s # 1 => s - 1 \in Chans)
  BY PipelineAssumption DEF Chans, Stages
<1>1. Calm /\ ~CutFrom(1)
  BY Calmer, TakeDoneStays DEF CutFrom
<1>2. \A s \in Stages : ~CutFrom(s) /\ ~CutFrom(s+1)
  BY <1>0, <1>1 DEF CutFrom
<1>3. \A s \in Stages : s # 1 /\ pc[s] \in Leaving => closed[1]
  BY <1>0, <1>1, <1>2 DEF CleanInv, SourceInv, Clean
<1>4. drained[1] => closed[1]
  BY <1>0, <1>1, <1>2, DrainedBy
<1>5. closed[1] => pc[1] \in {"return", "end"}
  BY <1>0 DEF ExitInv
<1>6. /\ \A c \in Chans : closed[c] => closed[1]
      /\ done \/ stageCtx => parentDone \/ closed[1]
      /\ pc[1] \in Leaving => parentDone \/ hand[1] = << >>
  BY <1>1 DEF SourceInv
<1>7. Control
  BY Controlled
<1>8. ASSUME NEW r \in Stages, LoopStep(r) PROVE Goal
  <2>1. r # 1 => pc'[1] = pc[1] /\ hand'[1] = hand[1]
    BY <1>0, <1>8 DEF LoopStep, Only
  <2> QED BY <1>6, <1>8, <2>1 DEF LoopStep, SameRun
<1>9. ASSUME NEW r \in Stages, ExitStep(r) PROVE Goal
  <2>1. SameRun /\ closed' = closed
    BY <1>9 DEF ExitStep
  <2>2. CASE r # 1
    <3>1. pc'[1] = pc[1] /\ hand'[1] = hand[1]
      BY <1>0, <1>9, <2>2 DEF ExitStep, Only
    <3> QED BY <1>6, <2>1, <3>1 DEF SameRun
  <2>3. CASE r = 1
    <3>1. ~closed[1] /\ ~drained[1]
      BY <1>4, <1>5, <1>9, <2>3 DEF ExitStep, Leaving, Signalled
    <3>2. ret'[1] = "nil" /\ ~TakeDone(1) /\ ~AtEnd(1) /\ ~ctxDone
      BY <1>0, <1>1 DEF Calm, CutFrom, AtEnd
    <3>3. hand'[1] = << >> \/ done \/ stageCtx
      BY <1>9, <2>3, <3>1, <3>2 DEF ExitStep, SourceStops, StageCtxDone
    <3> QED BY <1>6, <2>1, <3>1, <3>3 DEF SameRun
  <2> QED BY <2>2, <2>3
<1>10. ASSUME NEW r \in Stages, DeferStep(r) PROVE Goal
  <2>1. \A c \in Chans : /\ closed[c] => closed'[c]
                         /\ closed'[c] => closed[c] \/ (c = r /\ pc[r] \in Leaving)
    BY <1>10 DEF DeferStep, SameRun, TypeOK, Leaving, Signalled
  <2>2. \A c \in Chans : closed'[c] => closed'[1]
    BY <1>0, <1>3, <1>6, <2>1
  <2>3. UNCHANGED <<hand, parentDone, stageCtx>> /\ (pc'[1] \in Leaving => pc[1] \in Leaving)
    BY <1>0, <1>10 DEF DeferStep, Only, SameRun, Leaving, Signalled
  <2>4. done' => done \/ closed[1]
    <3>1. CASE pc[r] = "sigdone"
      <4>1. r # 1
        BY <3>1, Positions DEF Shape
      <4> QED BY <1>3, <3>1, <4>1 DEF Leaving
    <3>2. CASE pc[r] # "sigdone"
      BY <1>10, <3>2 DEF DeferStep, SameRun
    <3> QED BY <3>1, <3>2
  <2> QED BY <1>0, <1>6, <2>1, <2>2, <2>3, <2>4
<1>11. CASE OutsideStep
  BY <1>4, <1>6, <1>11 DEF OutsideStep
<1> QED BY <1>7, <1>8, <1>9, <1>10, <1>11 DEF Control

-----------------------------------------------------------------------------
(* What a Take lets through. *)

TakenInv ==
  \A t \in TakeStages :
    /\ taken[t] <= TakeN /\ Len(hand[t]) <= 1
    /\ pc[t] \in {"work", "send"} => taken[t] < TakeN

\* A Take is in the middle of a chain and works on one item at a time.
LEMMA TakeFacts ==
  ASSUME NEW t \in TakeStages
  PROVE  /\ t \in Stages /\ t \in Chans /\ t # 1 /\ t # N /\ t + 1 \in Stages
         /\ Kind[t] = "take" /\ Kind[t] \notin Batching \cup Sources \cup Terminals
         /\ \A q : Resume(t, q) = IF q # << >> THEN "work" ELSE "recv"
         /\ TakeN \in Nat
BY SMTT(40), PipelineAssumption DEF TakeStages, Stages, Chans, Batching, Sources, Terminals, Resume

\* One item is what is left of it, or nothing.
LEMMA ShortTail ==
  ASSUME NEW q \in Seq(Nat), q # << >>, Len(q) <= 1
  PROVE  Tail(q) = << >>
OBVIOUS

\* A Take works on an item only if it still has one to let through.
LEMMA TakenKept == TypeOK /\ Shape /\ TakenInv /\ [Next]_vars => TakenInv'
<1> SUFFICES ASSUME TypeOK, Shape, TakenInv, [Next]_vars PROVE TakenInv'
  OBVIOUS
<1> USE DEF netVars, drainVars, stageVars, runVars, histVars
<1>1. ASSUME NEW s \in Stages, Recv(s) PROVE TakenInv'
  <2>1. \A t \in TakeStages : t \in Stages /\ (t # s => pc'[t] = pc[t] /\ hand'[t] = hand[t])
    BY <1>1, TakeFacts DEF Recv, TypeOK, Goto
  <2>2. Len(hand'[s]) = 1 /\ taken' = taken /\ ~TakeDone(s)
    BY <1>1 DEF Recv, TypeOK
  <2>3. s \in TakeStages => taken[s] < TakeN
    BY <2>2, TakeFacts DEF TakeDone, TypeOK
  <2>4. ASSUME NEW t \in TakeStages, t # s
        PROVE  /\ taken'[t] <= TakeN /\ Len(hand'[t]) <= 1
               /\ pc'[t] \in {"work", "send"} => taken'[t] < TakeN
    BY <2>1, <2>2, <2>4 DEF TakenInv
  <2>5. s \in TakeStages => taken'[s] <= TakeN /\ Len(hand'[s]) <= 1 /\ taken'[s] < TakeN
    BY <2>2, <2>3 DEF TakenInv
  <2> QED BY <2>4, <2>5 DEF TakenInv
<1>2. ASSUME NEW s \in Stages, RecvClosed(s) PROVE TakenInv'
  <2>1. \A t \in TakeStages : t \in Stages /\ (pc'[t] \in {"work", "send"} => pc[t] \in {"work", "send"})
    BY <1>2, TakeFacts, DeferFacts DEF RecvClosed, TypeOK, Leave, LeaveDrained, Goto
  <2> QED BY <1>2, <2>1 DEF RecvClosed, TakenInv
<1>3. ASSUME NEW s \in Stages, TakeExit(s) PROVE TakenInv'
  <2>1. \A t \in TakeStages : t \in Stages /\ (pc'[t] \in {"work", "send"} => pc[t] \in {"work", "send"})
    BY <1>3, TakeFacts, DeferFacts DEF TakeExit, TypeOK, Leave, LeaveDrained, Goto
  <2> QED BY <1>3, <2>1 DEF TakeExit, TakenInv
<1>4. ASSUME NEW s \in Stages, RecvCtxDone(s) PROVE TakenInv'
  <2>1. \A t \in TakeStages : t \in Stages /\ (pc'[t] \in {"work", "send"} => pc[t] \in {"work", "send"})
    BY <1>4, TakeFacts, DeferFacts DEF RecvCtxDone, TypeOK, Leave, LeaveDrained, Goto
  <2> QED BY <1>4, <2>1 DEF RecvCtxDone, TakenInv
<1>5. ASSUME NEW s \in Stages, RecvDrained(s) PROVE TakenInv'
  <2>1. \A t \in TakeStages : t \in Stages /\ (pc'[t] \in {"work", "send"} => pc[t] \in {"work", "send"})
    BY <1>5, TakeFacts, DeferFacts DEF RecvDrained, TypeOK, Leave, LeaveDrained, Goto
  <2> QED BY <1>5, <2>1 DEF RecvDrained, TakenInv
<1>6. ASSUME NEW s \in Stages, Fill(s) PROVE TakenInv'
  <2>1. s \notin TakeStages
    BY <1>6, TakeFacts DEF Fill, Shape
  <2>2. \A t \in TakeStages : t \in Stages /\ pc'[t] = pc[t] /\ hand'[t] = hand[t]
    BY <1>6, <2>1, TakeFacts DEF Fill, TypeOK
  <2> QED BY <1>6, <2>2 DEF Fill, TakenInv
<1>7. ASSUME NEW s \in Stages, FillEnd(s) PROVE TakenInv'
  <2>1. s \notin TakeStages
    BY <1>7, TakeFacts DEF FillEnd, Shape
  <2>2. \A t \in TakeStages : t \in Stages /\ pc'[t] = pc[t] /\ hand'[t] = hand[t]
    BY <1>7, <2>1, TakeFacts DEF FillEnd, TypeOK, Goto
  <2> QED BY <1>7, <2>2 DEF FillEnd, TakenInv
<1>8. ASSUME NEW s \in Stages, WorkOk(s) PROVE TakenInv'
  <2>1. \A t \in TakeStages : t \in Stages /\ hand'[t] = hand[t]
    BY <1>8, TakeFacts DEF WorkOk, TypeOK
  <2>2. \A t \in TakeStages : pc'[t] \in {"work", "send"} => pc[t] \in {"work", "send"}
    <3>1. CASE Kind[s] \in Terminals
      BY <1>8, <2>1, <3>1, TakeFacts DEF WorkOk, TypeOK, Goto
    <3>2. CASE Kind[s] \notin Terminals
      BY <1>8, <2>1, <3>2, DeferFacts DEF WorkOk, TypeOK, Leave, Goto
    <3> QED BY <3>1, <3>2
  <2> QED BY <1>8, <2>1, <2>2 DEF WorkOk, TakenInv
<1>9. ASSUME NEW s \in Stages, WorkSkip(s) PROVE TakenInv'
  <2>1. \A t \in TakeStages : t \in Stages /\ (t # s => pc'[t] = pc[t] /\ hand'[t] = hand[t])
    BY <1>9, TakeFacts DEF WorkSkip, TypeOK, Goto
  <2>2. ASSUME s \in TakeStages PROVE hand'[s] = << >> /\ pc'[s] = "recv"
    <3>1. Tail(hand[s]) = << >>
      BY <1>9, <2>2, ShortTail DEF WorkSkip, TakenInv, TypeOK
    <3>2. Resume(s, Tail(hand[s])) = "recv"
      BY <2>2, <3>1, TakeFacts
    <3> QED BY <1>9, <3>1, <3>2 DEF WorkSkip, TypeOK, Goto
  <2> QED BY <1>9, <2>1, <2>2 DEF WorkSkip, TakenInv
<1>10. ASSUME NEW s \in Stages, WorkFail(s) PROVE TakenInv'
  <2>1. \A t \in TakeStages : t \in Stages /\ (pc'[t] \in {"work", "send"} => pc[t] \in {"work", "send"})
    BY <1>10, TakeFacts, DeferFacts DEF WorkFail, TypeOK, Leave, LeaveDrained, Goto
  <2> QED BY <1>10, <2>1 DEF WorkFail, TakenInv
<1>11. ASSUME NEW s \in Stages, Send(s) PROVE TakenInv'
  <2>1. \A t \in TakeStages : t \in Stages /\ (t # s => pc'[t] = pc[t] /\ hand'[t] = hand[t] /\ taken'[t] = taken[t])
    BY <1>11, TakeFacts DEF Send, TypeOK, Goto, Leave
  <2>2. ASSUME s \in TakeStages PROVE hand'[s] = << >> /\ pc'[s] = "recv" /\ taken'[s] <= TakeN
    <3>1. Tail(hand[s]) = << >>
      BY <1>11, <2>2, ShortTail DEF Send, Shape, TakenInv, TypeOK
    <3>2. Kind[s] # "generate"
      BY <2>2, TakeFacts
    <3>3. taken[s] < TakeN /\ taken'[s] = taken[s] + 1 /\ taken[s] \in Nat /\ TakeN \in Nat
      BY <1>11, <2>2, TakeFacts DEF Send, TakenInv, TypeOK
    <3>4. Resume(s, Tail(hand[s])) = "recv"
      BY <2>2, <3>1, TakeFacts
    <3>5. hand'[s] = << >> /\ pc'[s] = "recv"
      BY <1>11, <3>1, <3>2, <3>4 DEF Send, TypeOK, Goto
    <3> QED BY <3>3, <3>5
  <2> QED BY <2>1, <2>2 DEF TakenInv
<1>12. ASSUME NEW s \in Stages, SendCtxDone(s) PROVE TakenInv'
  <2>1. \A t \in TakeStages : t \in Stages /\ (pc'[t] \in {"work", "send"} => pc[t] \in {"work", "send"})
    BY <1>12, TakeFacts, DeferFacts DEF SendCtxDone, TypeOK, Leave, LeaveDrained, Goto
  <2> QED BY <1>12, <2>1 DEF SendCtxDone, TakenInv
<1>13. ASSUME NEW s \in Stages, SendDrained(s) PROVE TakenInv'
  <2>1. \A t \in TakeStages : t \in Stages /\ (pc'[t] \in {"work", "send"} => pc[t] \in {"work", "send"})
    BY <1>13, TakeFacts, DeferFacts DEF SendDrained, TypeOK, Leave, LeaveDrained, Goto
  <2> QED BY <1>13, <2>1 DEF SendDrained, TakenInv
<1>14. ASSUME NEW s \in Stages, SendStopped(s) PROVE TakenInv'
  <2>1. \A t \in TakeStages : t \in Stages /\ (pc'[t] \in {"work", "send"} => pc[t] \in {"work", "send"})
    BY <1>14, TakeFacts, DeferFacts DEF SendStopped, TypeOK, Leave, LeaveDrained, Goto
  <2> QED BY <1>14, <2>1 DEF SendStopped, TakenInv
<1>15. ASSUME NEW s \in Stages, SourceEnd(s) PROVE TakenInv'
  <2>1. \A t \in TakeStages : t \in Stages /\ (pc'[t] \in {"work", "send"} => pc[t] \in {"work", "send"})
    BY <1>15, TakeFacts, DeferFacts DEF SourceEnd, TypeOK, Leave, LeaveDrained, Goto
  <2> QED BY <1>15, <2>1 DEF SourceEnd, TakenInv
<1>16. ASSUME NEW s \in Stages, Unpark(s) PROVE TakenInv'
  <2>1. \A t \in TakeStages : t \in Stages /\ (pc'[t] \in {"work", "send"} => pc[t] \in {"work", "send"})
    BY <1>16, TakeFacts, DeferFacts DEF Unpark, TypeOK, Leave, LeaveDrained, Goto
  <2> QED BY <1>16, <2>1 DEF Unpark, TakenInv
<1>17. ASSUME NEW s \in Stages, BatchEnd(s) PROVE TakenInv'
  <2>1. \A t \in TakeStages : t \in Stages /\ (pc'[t] \in {"work", "send"} => pc[t] \in {"work", "send"})
    BY <1>17, TakeFacts, DeferFacts DEF BatchEnd, TypeOK, Leave, LeaveDrained, Goto
  <2> QED BY <1>17, <2>1 DEF BatchEnd, TakenInv
<1>18. ASSUME NEW s \in Stages, DeferSignalDone(s) PROVE TakenInv'
  <2>1. \A t \in TakeStages : t \in Stages /\ (pc'[t] \in {"work", "send"} => pc[t] \in {"work", "send"})
    BY <1>18, TakeFacts, DeferFacts DEF DeferSignalDone, TypeOK, Leave, LeaveDrained, Goto
  <2> QED BY <1>18, <2>1 DEF DeferSignalDone, TakenInv
<1>19. ASSUME NEW s \in Stages, DeferSignalDrain(s) PROVE TakenInv'
  <2>1. \A t \in TakeStages : t \in Stages /\ (pc'[t] \in {"work", "send"} => pc[t] \in {"work", "send"})
    BY <1>19, TakeFacts, DeferFacts DEF DeferSignalDrain, TypeOK, Leave, LeaveDrained, Goto
  <2> QED BY <1>19, <2>1 DEF DeferSignalDrain, TakenInv
<1>20. ASSUME NEW s \in Stages, DeferClose(s) PROVE TakenInv'
  <2>1. \A t \in TakeStages : t \in Stages /\ (pc'[t] \in {"work", "send"} => pc[t] \in {"work", "send"})
    BY <1>20, TakeFacts, DeferFacts DEF DeferClose, TypeOK, Leave, LeaveDrained, Goto
  <2> QED BY <1>20, <2>1 DEF DeferClose, TakenInv
<1>21. ASSUME NEW s \in Stages, GroupReturn(s) PROVE TakenInv'
  <2>1. \A t \in TakeStages : t \in Stages /\ (pc'[t] \in {"work", "send"} => pc[t] \in {"work", "send"})
    BY <1>21, TakeFacts, DeferFacts DEF GroupReturn, TypeOK, Leave, LeaveDrained, Goto
  <2> QED BY <1>21, <2>1 DEF GroupReturn, TakenInv
<1>22. ASSUME NEW c \in Chans, DrainStep(c) PROVE TakenInv'
  BY <1>22 DEF DrainStep, TakenInv
<1>23. CASE Watch
  BY <1>23 DEF Watch, TakenInv
<1>24. CASE Cancel
  BY <1>24 DEF Cancel, TakenInv
<1>25. CASE DrainPhase
  BY <1>25 DEF DrainPhase, TakenInv
<1>26. CASE HardStop
  BY <1>26 DEF HardStop, TakenInv
<1>27. CASE RunReturn
  BY <1>27 DEF RunReturn, TakenInv
<1>28. CASE UNCHANGED vars
  BY <1>28 DEF vars, TakenInv
<1> QED
  BY <1>1, <1>2, <1>3, <1>4, <1>5, <1>6, <1>7, <1>8, <1>9, <1>10, <1>11, <1>12, <1>13, <1>14, <1>15, <1>16, <1>17, <1>18, <1>19, <1>20, <1>21, <1>22, <1>23, <1>24, <1>25, <1>26, <1>27, <1>28
  DEF Next, StageStep, Receive, Work, SendOut, Turn, Defers, Idle

-----------------------------------------------------------------------------
(* The items that are still in play, those a stage dropped, and those that  *)
(* have passed a stage.                                                    *)

InPlay(y) == y \in D \/ (\E s \in Stages : y \in H(s)) \/ \E c \in Chans : y \in C(c)

\* A dropped item was dropped once, and is nowhere any more.
AwayInv ==
  /\ \A p \in skipped : p[2] \in 1..NItems /\ ~InPlay(p[2])
  /\ \A p, q \in skipped : p[2] = q[2] => p = q

\* Item y has passed stage t.
OnSide(t, y) ==
  \/ y \in D
  \/ \E p \in skipped : p[1] > t /\ p[2] = y
  \/ \E s \in Stages : s > t /\ y \in H(s)
  \/ \E c \in Chans : c >= t /\ y \in C(c)
Beyond(t) == {y \in 1..NItems : OnSide(t, y)}

\* A Take has counted the items that have passed it; one that did and is gone
\* was lost behind a Take further down that is done.  Before any Take is done
\* no item is lost.
CountInv ==
  /\ \A t \in TakeStages : Cardinality(Beyond(t)) <= taken[t]
  /\ Calm => \A t \in TakeStages : ~CutFrom(t+1) => Cardinality(Beyond(t)) = taken[t]
  /\ Calm /\ ~CutFrom(1) => \A y \in 1..NItems : Present(y)

\* Stages and channels are numbers in a row.
LEMMA Places ==
  /\ \A s \in Stages : s \in Int /\ 1 <= s /\ s <= N
  /\ \A c \in Chans : c \in Int /\ 1 <= c /\ c < N /\ c \in Stages /\ c + 1 \in Stages
  /\ N \in Stages /\ N \in Int
BY PipelineAssumption DEF Stages, Chans

\* No step brings an item into play.
LEMMA PlayShrinks ==
  ASSUME Move, NEW y, InPlay(y)'
  PROVE  InPlay(y)
<1> USE Places DEF InPlay
<1>1. CASE StillMove
  BY <1>1 DEF StillMove, D
<1>2. ASSUME NEW s \in Stages, NEW x \in 1..NItems, RecvMove(s, x) PROVE InPlay(y)
  BY <1>2 DEF RecvMove, D
<1>3. ASSUME NEW s \in Stages, NEW x \in 1..NItems, SendMove(s, x) PROVE InPlay(y)
  BY <1>3 DEF SendMove, D
<1>4. ASSUME NEW s \in Stages, NEW x \in 1..NItems, SkipMove(s, x) PROVE InPlay(y)
  BY <1>4 DEF SkipMove, D
<1>5. ASSUME NEW x \in 1..NItems, EndMove(x) PROVE InPlay(y)
  BY <1>5 DEF EndMove
<1>6. ASSUME NEW c \in Chans, NEW x \in 1..NItems, DrainMove(c, x) PROVE InPlay(y)
  BY <1>6 DEF DrainMove, D
<1> QED BY <1>1, <1>2, <1>3, <1>4, <1>5, <1>6 DEF Move

\* What a stage drops was in play and is not any more.
LEMMA SkipTakesOut ==
  ASSUME FlowInv, NEW s \in Stages, NEW x \in 1..NItems, SkipMove(s, x)
  PROVE  InPlay(x) /\ ~InPlay(x)'
<1>1. x \in H(s)
  BY DEF SkipMove
<1>2. PlaceInv
  BY DEF FlowInv
<1>3. x \notin D'
  BY <1>1, <1>2 DEF SkipMove, PlaceInv, Before, D
<1>4. ASSUME NEW t \in Stages PROVE x \notin H(t)'
  <2>1. CASE t = s
    BY <2>1 DEF SkipMove
  <2>2. CASE t < s
    BY <1>1, <1>2, <2>2 DEF SkipMove, PlaceInv, Before
  <2>3. CASE s < t
    BY <1>1, <1>2, <2>3 DEF SkipMove, PlaceInv, Before
  <2> QED BY <2>1, <2>2, <2>3, Places
<1>5. ASSUME NEW c \in Chans PROVE x \notin C(c)'
  <2>1. CASE c < s
    BY <1>1, <1>2, <2>1 DEF SkipMove, PlaceInv, Before
  <2>2. CASE c >= s
    BY <1>1, <1>2, <2>2 DEF SkipMove, PlaceInv, Before
  <2> QED BY <2>1, <2>2, Places
<1> QED BY <1>1, <1>3, <1>4, <1>5 DEF InPlay

LEMMA AwayKept ==
  ASSUME TypeOK, FlowInv, AwayInv, Move
  PROVE  AwayInv'
<1>1. CASE skipped' = skipped
  <2>1. ASSUME NEW p \in skipped PROVE ~InPlay(p[2])'
    <3>1. PICK y : y = p[2]
      OBVIOUS
    <3>2. ~InPlay(y)'
      BY <3>1, PlayShrinks DEF AwayInv
    <3> QED BY <3>1, <3>2
  <2> QED BY <1>1, <2>1 DEF AwayInv
<1>2. ASSUME NEW s \in Stages, NEW x \in 1..NItems, SkipMove(s, x) PROVE AwayInv'
  <2>1. skipped' = skipped \cup {<<s, x>>} /\ <<s, x>>[2] = x
    BY <1>2 DEF SkipMove
  <2>2. InPlay(x) /\ ~InPlay(x)'
    BY <1>2, SkipTakesOut
  <2>3. \A p \in skipped : p[2] # x
    BY <2>2 DEF AwayInv
  <2>4. ASSUME NEW p \in skipped PROVE ~InPlay(p[2])'
    <3>1. PICK y : y = p[2]
      OBVIOUS
    <3>2. ~InPlay(y)'
      BY <3>1, PlayShrinks DEF AwayInv
    <3> QED BY <3>1, <3>2
  <2>5. \A p \in skipped' : p[2] \in 1..NItems /\ ~InPlay(p[2])'
    BY <2>1, <2>2, <2>4 DEF AwayInv
  <2>6. \A p, q \in skipped' : p[2] = q[2] => p = q
    BY <2>1, <2>3 DEF AwayInv
  <2> QED BY <2>5, <2>6 DEF AwayInv
<1>3. Move => skipped' = skipped \/ \E s \in Stages, x \in 1..NItems : SkipMove(s, x)
  BY DEF Move, StillMove, RecvMove, SendMove, EndMove, DrainMove
<1> QED BY <1>1, <1>2, <1>3

\* What passes a Take is what it sends; what has passed it is dropped in its
\* channel or behind only by a DrainChan goroutine there.
LEMMA SideMoves ==
  ASSUME TypeOK, FlowInv, AwayInv, Move, NEW t \in TakeStages
  PROVE  \/ /\ taken'[t] = taken[t]
            /\ \A y \in 1..NItems : OnSide(t, y)' <=> OnSide(t, y)
         \/ /\ taken'[t] = taken[t] + 1
            /\ \E x \in 1..NItems : ~OnSide(t, x) /\ \A y \in 1..NItems : OnSide(t, y)' <=> OnSide(t, y) \/ y = x
         \/ /\ taken'[t] = taken[t]
            /\ \A y \in 1..NItems : OnSide(t, y)' => OnSide(t, y)
            /\ \E c \in Chans, x \in 1..NItems : c >= t /\ DrainMove(c, x)
<1> DEFINE Same == taken'[t] = taken[t] /\ \A y \in 1..NItems : OnSide(t, y)' <=> OnSide(t, y)
           Adds == /\ taken'[t] = taken[t] + 1
                   /\ \E x \in 1..NItems : ~OnSide(t, x) /\ \A y \in 1..NItems : OnSide(t, y)' <=> OnSide(t, y) \/ y = x
           Loses == /\ taken'[t] = taken[t]
                    /\ \A y \in 1..NItems : OnSide(t, y)' => OnSide(t, y)
                    /\ \E c \in Chans, x \in 1..NItems : c >= t /\ DrainMove(c, x)
<1>0. t \in Int /\ t \in Stages /\ t \in Chans /\ t < N /\ Kind[t] = "take"
  BY TakeFacts, Places
<1>1. CASE StillMove
  BY <1>1 DEF StillMove, OnSide, D
<1>2. ASSUME NEW s \in Stages, NEW x \in 1..NItems, RecvMove(s, x) PROVE Same
  <2>1. s - 1 >= t <=> s > t
    BY <1>0, Places
  <2>2. taken' = taken /\ delivered' = delivered /\ skipped' = skipped
    BY <1>2 DEF RecvMove
  <2>3. ASSUME NEW y \in 1..NItems PROVE OnSide(t, y)' <=> OnSide(t, y)
    BY <1>2, <2>1, <2>2 DEF RecvMove, OnSide, D
  <2> QED BY <2>2, <2>3
<1>3. ASSUME NEW s \in Stages, NEW x \in 1..NItems, SendMove(s, x), s # t PROVE Same
  <2>1. taken'[t] = taken[t] /\ delivered' = delivered /\ skipped' = skipped
    BY <1>0, <1>3 DEF SendMove, TypeOK
  <2>2. s >= t <=> s > t
    BY <1>0, <1>3, Places
  <2>3. ASSUME NEW y \in 1..NItems PROVE OnSide(t, y)' <=> OnSide(t, y)
    BY <1>3, <2>1, <2>2 DEF SendMove, OnSide, D
  <2> QED BY <2>1, <2>3
<1>4. ASSUME NEW x \in 1..NItems, SendMove(t, x) PROVE Adds
  <2>1. taken'[t] = taken[t] + 1 /\ delivered' = delivered /\ skipped' = skipped
    BY <1>0, <1>4 DEF SendMove, TypeOK
  <2>2. x \in H(t)
    BY <1>0, <1>4 DEF SendMove
  <2>3. ~OnSide(t, x)
    <3>1. PlaceInv
      BY DEF FlowInv
    <3>2. x \notin D
      BY <1>0, <2>2, <3>1 DEF PlaceInv, Before
    <3>3. \A p \in skipped : p[2] # x
      BY <1>0, <2>2 DEF AwayInv, InPlay
    <3>4. ASSUME NEW s \in Stages, s > t PROVE x \notin H(s)
      BY <1>0, <2>2, <3>1, <3>4, Places DEF PlaceInv, Before
    <3>5. ASSUME NEW c \in Chans, c >= t PROVE x \notin C(c)
      BY <1>0, <2>2, <3>1, <3>5 DEF PlaceInv, Before
    <3> QED BY <3>2, <3>3, <3>4, <3>5 DEF OnSide
  <2>4. ASSUME NEW y \in 1..NItems PROVE OnSide(t, y)' <=> OnSide(t, y) \/ y = x
    BY <1>0, <1>4, <2>1 DEF SendMove, OnSide, D
  <2> QED BY <2>1, <2>3, <2>4
<1>5. ASSUME NEW s \in Stages, NEW x \in 1..NItems, SkipMove(s, x) PROVE Same
  <2>1. taken' = taken /\ delivered' = delivered
    BY <1>5 DEF SkipMove
  <2>2. skipped' = skipped \cup {<<s, x>>} /\ <<s, x>>[1] = s /\ <<s, x>>[2] = x
    BY <1>5 DEF SkipMove
  <2>3. \A y : (\E p \in skipped' : p[1] > t /\ p[2] = y)
                 <=> (\E p \in skipped : p[1] > t /\ p[2] = y) \/ (s > t /\ y = x)
    BY <2>2
  <2>4. ASSUME NEW y \in 1..NItems PROVE OnSide(t, y)' <=> OnSide(t, y)
    BY <1>5, <2>1, <2>3 DEF SkipMove, OnSide, D
  <2> QED BY <2>1, <2>4
<1>6. ASSUME NEW x \in 1..NItems, EndMove(x) PROVE Same
  <2>1. taken' = taken /\ skipped' = skipped
    BY <1>6 DEF EndMove
  <2>2. ASSUME NEW y \in 1..NItems PROVE OnSide(t, y)' <=> OnSide(t, y)
    BY <1>0, <1>6, <2>1, Places DEF EndMove, OnSide
  <2> QED BY <2>1, <2>2
<1>7. ASSUME NEW c \in Chans, NEW x \in 1..NItems, DrainMove(c, x) PROVE Same \/ Loses
  <2>1. taken' = taken /\ delivered' = delivered /\ skipped' = skipped
    BY <1>7 DEF DrainMove
  <2>2. CASE c >= t
    <3>1. ASSUME NEW y \in 1..NItems PROVE OnSide(t, y)' => OnSide(t, y)
      BY <1>7, <2>1 DEF DrainMove, OnSide, D
    <3> QED BY <1>7, <2>1, <2>2, <3>1
  <2>3. CASE ~(c >= t)
    <3>1. ASSUME NEW y \in 1..NItems PROVE OnSide(t, y)' <=> OnSide(t, y)
      BY <1>7, <2>1, <2>3 DEF DrainMove, OnSide, D
    <3> QED BY <2>1, <3>1
  <2> QED BY <2>2, <2>3
<1>8. Same \/ Adds \/ Loses
  BY <1>1, <1>2, <1>3, <1>4, <1>5, <1>6, <1>7 DEF Move, StillMove
<1> QED BY <1>8

\* The number of items in a set with one more, or a few less.
LEMMA CountSteps ==
  /\ \A S, x : S \subseteq 1..NItems /\ x \notin S => Cardinality(S \cup {x}) = Cardinality(S) + 1
  /\ \A S, T : S \subseteq 1..NItems /\ T \subseteq S => Cardinality(T) <= Cardinality(S)
  /\ \A S : S \subseteq 1..NItems => Cardinality(S) \in Nat /\ IsFiniteSet(S)
<1>1. IsFiniteSet(1..NItems)
  BY FS_Interval, PipelineAssumption
<1>2. ASSUME NEW S, S \subseteq 1..NItems PROVE IsFiniteSet(S) /\ Cardinality(S) \in Nat
  BY <1>1, <1>2, FS_Subset, FS_CardinalityType
<1>3. ASSUME NEW S, NEW x, S \subseteq 1..NItems, x \notin S PROVE Cardinality(S \cup {x}) = Cardinality(S) + 1
  BY <1>2, <1>3, FS_AddElement
<1>4. ASSUME NEW S, NEW T, S \subseteq 1..NItems, T \subseteq S PROVE Cardinality(T) <= Cardinality(S)
  BY <1>2, <1>4, FS_Subset
<1> QED BY <1>2, <1>3, <1>4

\* In a calm run nothing is discarded but in front of a Take that is done.
LEMMA CalmDrain ==
  ASSUME CleanInv, Calm, NEW c \in Chans, NEW x, DrainMove(c, x)
  PROVE  CutFrom(c+1)
<1>1. c + 1 \in Stages \ {1} /\ (c + 1) - 1 = c
  BY Places
<1>2. Clean(c+1) \/ CutFrom(c+1)
  BY <1>1 DEF CleanInv, DrainMove, Leaving
<1>3. x \in C(c)
  BY DEF DrainMove
<1>4. ch[c] # << >>
  BY <1>3 DEF C, Elems
<1> QED BY <1>1, <1>2, <1>4 DEF Clean

LEMMA CountKept ==
  ASSUME TypeOK, Shape, FlowInv, ExitInv, CleanInv, AwayInv, CountInv, Move, [Next]_vars
  PROVE  CountInv'
<1>0. Calm' => Calm
  BY Calmer DEF FlowInv
<1>1. ASSUME NEW t \in TakeStages
      PROVE  /\ Cardinality(Beyond(t))' <= taken'[t]
             /\ Calm' /\ ~CutFrom(t+1)' => Cardinality(Beyond(t))' = taken'[t]
  <2>0. t \in Stages /\ t \in Int /\ taken[t] \in Nat
    BY TakeFacts, Places DEF TypeOK
  <2>1. ~CutFrom(t+1)' => ~CutFrom(t+1)
    BY TakeDoneStays DEF CutFrom
  <2>2. PICK S : S = Beyond(t)
    OBVIOUS
  <2>3. PICK T : T = Beyond(t)'
    OBVIOUS
  <2>4. /\ Cardinality(S) <= taken[t] /\ Cardinality(S) \in Nat /\ S \subseteq 1..NItems
        /\ Calm' /\ ~CutFrom(t+1)' => Cardinality(S) = taken[t]
    <3>1. S \subseteq 1..NItems
      BY <2>2 DEF Beyond
    <3> QED BY <1>0, <2>1, <2>2, <3>1, CountSteps DEF CountInv
  <2>5. CASE taken'[t] = taken[t] /\ \A y \in 1..NItems : OnSide(t, y)' <=> OnSide(t, y)
    <3>1. S = T
      BY <2>2, <2>3, <2>5 DEF Beyond
    <3> QED BY <2>3, <2>4, <2>5, <3>1
  <2>6. ASSUME taken'[t] = taken[t] + 1, NEW x \in 1..NItems, ~OnSide(t, x),
               \A y \in 1..NItems : OnSide(t, y)' <=> OnSide(t, y) \/ y = x
        PROVE  /\ Cardinality(T) <= taken'[t]
               /\ Calm' /\ ~CutFrom(t+1)' => Cardinality(T) = taken'[t]
    <3>1. T = S \cup {x} /\ x \notin S
      BY <2>2, <2>3, <2>6 DEF Beyond
    <3>2. Cardinality(T) = Cardinality(S) + 1
      BY <2>4, <3>1, CountSteps
    <3> QED BY <2>0, <2>4, <2>6, <3>2
  <2>7. ASSUME taken'[t] = taken[t], \A y \in 1..NItems : OnSide(t, y)' => OnSide(t, y),
               NEW c \in Chans, NEW x \in 1..NItems, c >= t, DrainMove(c, x)
        PROVE  /\ Cardinality(T) <= taken'[t]
               /\ Calm' /\ ~CutFrom(t+1)' => Cardinality(T) = taken'[t]
    <3>1. T \subseteq S
      BY <2>2, <2>3, <2>7 DEF Beyond
    <3>2. Cardinality(T) <= Cardinality(S) /\ Cardinality(T) \in Nat
      BY <2>4, <3>1, CountSteps
    <3>3. Calm => CutFrom(t+1)
      <4>1. Calm => CutFrom(c+1)
        BY <2>7, CalmDrain
      <4>2. c + 1 >= t + 1 /\ \A s \in Stages : c + 1 <= s => t + 1 <= s
        BY <2>0, <2>7, Places
      <4> QED BY <4>1, <4>2 DEF CutFrom
    <3> QED BY <1>0, <2>0, <2>1, <2>4, <2>7, <3>2, <3>3
  <2> QED BY <2>3, <2>5, <2>6, <2>7, SideMoves
<1>2. ASSUME Calm', ~CutFrom(1)', NEW y \in 1..NItems PROVE Present(y)'
  <2>1. Calm /\ ~CutFrom(1) /\ Present(y)
    BY <1>0, <1>2, TakeDoneStays DEF CutFrom, CountInv
  <2> USE Places DEF Present
  <2>2. CASE StillMove
    BY <2>1, <2>2 DEF StillMove, D, Skipped
  <2>3. ASSUME NEW s \in Stages, NEW x \in 1..NItems, RecvMove(s, x) PROVE Present(y)'
    BY <2>1, <2>3 DEF RecvMove, D, Skipped
  <2>4. ASSUME NEW s \in Stages, NEW x \in 1..NItems, SendMove(s, x) PROVE Present(y)'
    BY <2>1, <2>4 DEF SendMove, D, Skipped
  <2>5. ASSUME NEW s \in Stages, NEW x \in 1..NItems, SkipMove(s, x) PROVE Present(y)'
    <3>1. <<s, x>>[2] = x /\ skipped' = skipped \cup {<<s, x>>}
      BY <2>5 DEF SkipMove
    <3>2. \A z : z \in Skipped \/ z = x => z \in Skipped'
      BY <3>1 DEF Skipped
    <3> QED BY <2>1, <2>5, <3>2 DEF SkipMove, D
  <2>6. ASSUME NEW x \in 1..NItems, EndMove(x) PROVE Present(y)'
    BY <2>1, <2>6 DEF EndMove, Skipped
  <2>7. ASSUME NEW c \in Chans, NEW x \in 1..NItems, DrainMove(c, x) PROVE FALSE
    <3>1. CutFrom(c+1)
      BY <2>1, <2>7, CalmDrain
    <3> QED BY <2>1, <3>1, Places DEF CutFrom
  <2> QED BY <2>2, <2>3, <2>4, <2>5, <2>6, <2>7 DEF Move
<1> QED BY <1>1, <1>2 DEF CountInv

-----------------------------------------------------------------------------
(* The beginning.                                                          *)

LEMMA ExitInit == Init => ExitInv /\ CleanInv
<1> SUFFICES ASSUME Init PROVE ExitInv /\ CleanInv
  OBVIOUS
<1>1. \A s \in Stages : pc[s] \in {"recv", "send", "turn"}
  BY DEF Init
<1>2. ExitInv
  BY <1>1 DEF ExitInv, Init
<1>3. CleanInv
  BY <1>1 DEF CleanInv, Leaving, Signalled
<1> QED BY <1>2, <1>3

LEMMA TakeInit == Init => SourceInv /\ LastInv /\ TakenInv
<1> SUFFICES ASSUME Init PROVE SourceInv /\ LastInv /\ TakenInv
  OBVIOUS
<1>1. \A s \in Stages : pc[s] \in {"recv", "send", "turn"} /\ taken[s] = 0 /\ (s > 1 => pc[s] = "recv" /\ hand[s] = << >>)
  BY DEF Init
<1>2. 1 \in Stages
  BY PipelineAssumption DEF Stages
<1>3. SourceInv
  BY <1>1, <1>2 DEF SourceInv, Leaving, Signalled, Init
<1>4. TakeN > 0 => \A t \in Stages : ~TakeDone(t)
  BY <1>1, PipelineAssumption DEF TakeDone
<1>5. LastInv
  BY <1>4 DEF LastInv, CutFrom
<1>6. ASSUME NEW t \in TakeStages
      PROVE  taken[t] <= TakeN /\ Len(hand[t]) <= 1 /\ pc[t] \notin {"work", "send"}
  <2>1. t > 1 /\ t \in Stages /\ TakeN \in Nat
    BY TakeFacts, Places
  <2> QED BY <1>1, <2>1
<1> QED BY <1>3, <1>5, <1>6 DEF TakenInv

LEMMA CountInit == Init => AwayInv /\ CountInv
<1> SUFFICES ASSUME Init PROVE AwayInv /\ CountInv
  OBVIOUS
<1>1. AwayInv
  BY DEF AwayInv, Init
<1>2. Elems(<< >>) = {}
  BY DEF Elems
<1>3. D = {} /\ \A c \in Chans : C(c) = {}
  BY <1>2 DEF D, C, Init
<1>4. \A s \in Stages : s > 1 => H(s) = {}
  BY <1>2, Places DEF H, Init
<1>5. 1 \in Stages /\ \A y \in 1..NItems : y \in H(1)
  <2>1. 1 \in Stages
    BY PipelineAssumption DEF Stages
  <2>2. hand[1] = [i \in 1..NItems |-> i]
    BY <2>1 DEF Init
  <2>3. [i \in 1..NItems |-> i] \in Seq(Nat) /\ Len([i \in 1..NItems |-> i]) = NItems
    BY PipelineAssumption
  <2> QED BY <2>1, <2>2, <2>3 DEF H, Elems
<1>6. ASSUME NEW t \in TakeStages PROVE Cardinality(Beyond(t)) = 0 /\ taken[t] = 0
  <2>1. t \in Stages /\ t > 1
    BY TakeFacts, Places
  <2>2. \A s \in Stages : s > t => s > 1
    BY <2>1, Places
  <2>3. Beyond(t) = {}
    BY <1>3, <1>4, <2>2 DEF Beyond, OnSide, Init
  <2> QED BY <2>1, <2>3, FS_EmptySet DEF Init
<1>7. \A y \in 1..NItems : Present(y)
  BY <1>5 DEF Present
<1> QED BY <1>1, <1>6, <1>7 DEF CountInv

-----------------------------------------------------------------------------
(* The end.                                                                *)

\* A rising sequence has as many elements as its length says.
LEMMA RisingCount ==
  ASSUME NEW q \in Seq(Nat), Rising(q)
  PROVE  IsFiniteSet(Elems(q)) /\ Cardinality(Elems(q)) = Len(q)
<1> DEFINE f == [i \in 1..Len(q) |-> q[i]]
<1>1. Len(q) \in Nat /\ \A i \in 1..Len(q) : q[i] \in Nat
  OBVIOUS
<1>2. f \in Injection(1..Len(q), Elems(q))
  <2>1. f \in [1..Len(q) -> Elems(q)]
    BY DEF Elems
  <2>2. ASSUME NEW i \in 1..Len(q), NEW j \in 1..Len(q), f[i] = f[j] PROVE i = j
    BY <1>1, <2>2 DEF Rising
  <2> QED BY <2>1, <2>2 DEF Injection, IsInjective
<1>3. f \in Surjection(1..Len(q), Elems(q))
  BY DEF Surjection, Elems
<1>4. ExistsBijection(1..Len(q), Elems(q))
  BY <1>2, <1>3 DEF ExistsBijection, Bijection
<1>5. IsFiniteSet(1..Len(q)) /\ Cardinality(1..Len(q)) = Len(q)
  BY <1>1, FS_Interval
<1> QED BY <1>4, <1>5, FS_Bijection

DroppedIn(S) == {y \in 1..NItems : \E p \in skipped : p[1] \in S /\ p[2] = y}

\* An item is dropped by one stage only, and by that stage once.
LEMMA DropCount ==
  ASSUME AwayInv, NEW S
  PROVE  SkippedBy(S) = Cardinality(DroppedIn(S))
<1> DEFINE P == {p \in skipped : p[1] \in S}
           f == [y \in DroppedIn(S) |-> CHOOSE p \in P : p[2] = y]
<1>1. \A y \in DroppedIn(S) : f[y] \in P /\ f[y][2] = y
  BY DEF DroppedIn
<1>2. f \in Injection(DroppedIn(S), P)
  <2>1. f \in [DroppedIn(S) -> P]
    BY <1>1
  <2>2. ASSUME NEW y \in DroppedIn(S), NEW z \in DroppedIn(S), f[y] = f[z] PROVE y = z
    BY <1>1, <2>2
  <2> QED BY <2>1, <2>2 DEF Injection, IsInjective
<1>3. \A p \in P : p[2] \in DroppedIn(S) /\ f[p[2]] = p
  <2> SUFFICES ASSUME NEW p \in P PROVE p[2] \in DroppedIn(S) /\ f[p[2]] = p
    OBVIOUS
  <2>1. p[2] \in DroppedIn(S)
    BY DEF DroppedIn, AwayInv
  <2>2. f[p[2]] \in P /\ f[p[2]][2] = p[2]
    BY <1>1, <2>1
  <2> QED BY <2>1, <2>2 DEF AwayInv
<1>4. f \in Surjection(DroppedIn(S), P)
  <2>1. f \in [DroppedIn(S) -> P]
    BY <1>1
  <2>2. \A p \in P : \E y \in DroppedIn(S) : f[y] = p
    BY ZenonT(40), <1>3
  <2> HIDE DEF f, P
  <2> QED BY <2>1, <2>2 DEF Surjection
<1>5. ExistsBijection(DroppedIn(S), P)
  BY <1>2, <1>4 DEF ExistsBijection, Bijection
<1>6. IsFiniteSet(DroppedIn(S))
  BY CountSteps DEF DroppedIn
<1> QED BY <1>5, <1>6, FS_Bijection DEF SkippedBy

\* What was delivered or dropped, counted.
LEMMA Tallied ==
  ASSUME TypeOK, FlowInv, AwayInv, NEW S
  PROVE  /\ Len(delivered) + SkippedBy(S) = Cardinality(D \cup DroppedIn(S))
         /\ D \cup DroppedIn(S) \subseteq 1..NItems
         /\ SkippedBy(S) \in Nat /\ Len(delivered) \in Nat
<1>1. IsFiniteSet(D) /\ Cardinality(D) = Len(delivered)
  BY RisingCount DEF D, FlowInv, RisingInv, TypeOK
<1>2. IsFiniteSet(DroppedIn(S)) /\ Cardinality(DroppedIn(S)) = SkippedBy(S)
  BY CountSteps, DropCount DEF DroppedIn
<1>3. D \cap DroppedIn(S) = {}
  BY DEF DroppedIn, AwayInv, InPlay
<1>4. Cardinality(D \cap DroppedIn(S)) = 0
  BY <1>3, FS_EmptySet
<1>5. Cardinality(D) \in Nat /\ Cardinality(DroppedIn(S)) \in Nat
  BY <1>1, <1>2, FS_CardinalityType
<1>6. Cardinality(D \cup DroppedIn(S)) = Cardinality(D) + Cardinality(DroppedIn(S)) - Cardinality(D \cap DroppedIn(S))
  BY <1>1, <1>2, FS_Union
<1>7. D \cup DroppedIn(S) \subseteq 1..NItems
  BY DEF DroppedIn, FlowInv, RisingInv
<1> QED BY <1>1, <1>2, <1>4, <1>5, <1>6, <1>7

\* What holds of a run at every moment.
Whole ==
  /\ TypeOK /\ Shape /\ DrainInv /\ FlowInv /\ ExitInv
  /\ CleanInv /\ SourceInv /\ LastInv /\ TakenInv /\ AwayInv /\ CountInv

\* A run that is over, and that nothing cancelled, has delivered all it should.
LEMMA WholeDelivers == Whole => DeliveryComplete
<1> SUFFICES ASSUME Whole, result # "running", ~ctxDone
             PROVE  /\ Len(delivered) + SkippedBy(Stages) <= Emitted
                    /\ \A t \in TakeStages : PassedBy(t) <= TakeN
                    /\ (\A t \in TakeStages : PassedBy(t) < TakeN) =>
                         /\ Len(delivered) + SkippedBy(Stages) = Emitted
                         /\ parentDone \/ Emitted = NItems
  BY DEF DeliveryComplete
<1>0. TypeOK /\ FlowInv /\ RisingInv /\ PlaceInv /\ AwayInv /\ CountInv
  BY DEF Whole, FlowInv
<1>1. Calm /\ \A s \in Stages : pc[s] \in Leaving
  BY DEF Whole, ExitInv, Calm, Leaving, Signalled
<1>2. 1 \in Stages /\ NItems \in Nat /\ Elems(<< >>) = {}
  BY PipelineAssumption DEF Stages, Elems
<1> DEFINE Sent == (1..NItems) \ H(1)
           Seen == D \cup DroppedIn(Stages)
<1>3. Emitted = Cardinality(Sent) /\ Sent \subseteq 1..NItems
  <2>1. hand[1] \in Seq(Nat) /\ Rising(hand[1]) /\ H(1) \subseteq 1..NItems
    BY <1>0, <1>2 DEF TypeOK, RisingInv
  <2>2. Cardinality(H(1)) = Len(hand[1])
    BY <2>1, RisingCount DEF H
  <2>3. IsFiniteSet(1..NItems) /\ Cardinality(1..NItems) = NItems
    BY <1>2, FS_Interval
  <2>4. (1..NItems) \cap H(1) = H(1)
    BY <2>1
  <2>5. Cardinality(Sent) = Cardinality(1..NItems) - Cardinality((1..NItems) \cap H(1))
    BY <2>3, FS_Difference
  <2>6. Cardinality(Sent) = NItems - Len(hand[1])
    BY <2>2, <2>3, <2>4, <2>5
  <2> QED BY <2>6 DEF Emitted
<1>4. Len(delivered) + SkippedBy(Stages) = Cardinality(Seen) /\ Seen \subseteq 1..NItems
  BY <1>0, Tallied
<1>5. Seen \subseteq Sent
  <2> SUFFICES ASSUME NEW y \in Seen, y \in H(1) PROVE FALSE
    BY <1>4
  <2>1. CASE y \in D
    BY <1>0, <1>2, <1>4, <2>1 DEF PlaceInv, Before
  <2>2. CASE y \in DroppedIn(Stages)
    BY <1>0, <1>2, <2>2 DEF DroppedIn, AwayInv, InPlay
  <2> QED BY <2>1, <2>2
<1>6. Cardinality(Seen) <= Cardinality(Sent)
  BY <1>3, <1>5, CountSteps
<1>7. ASSUME NEW t \in TakeStages
      PROVE  /\ D \cup DroppedIn(t+1..N) \subseteq Beyond(t)
             /\ PassedBy(t) = Cardinality(D \cup DroppedIn(t+1..N))
             /\ PassedBy(t) \in Nat /\ PassedBy(t) <= TakeN
  <2>1. t \in Int /\ t \in Stages /\ TakeN \in Nat /\ taken[t] \in Nat
    BY <1>0, TakeFacts, Places DEF TypeOK
  <2>2. \A i \in t+1..N : i > t
    BY <2>1, Places
  <2>3. /\ PassedBy(t) = Cardinality(D \cup DroppedIn(t+1..N))
        /\ D \cup DroppedIn(t+1..N) \subseteq 1..NItems
        /\ SkippedBy(t+1..N) \in Nat /\ Len(delivered) \in Nat
    BY <1>0, Tallied DEF PassedBy
  <2>4. D \cup DroppedIn(t+1..N) \subseteq Beyond(t)
    BY <2>2, <2>3 DEF Beyond, OnSide, DroppedIn
  <2>5. Beyond(t) \subseteq 1..NItems
    BY DEF Beyond
  <2>6. PassedBy(t) <= Cardinality(Beyond(t)) /\ Cardinality(Beyond(t)) \in Nat
    BY <2>3, <2>4, <2>5, CountSteps
  <2>7. PassedBy(t) \in Nat
    BY <2>3 DEF PassedBy
  <2>8. Cardinality(Beyond(t)) <= taken[t] /\ taken[t] <= TakeN
    BY <1>0 DEF CountInv, Whole, TakenInv
  <2> QED BY <2>1, <2>3, <2>4, <2>6, <2>7, <2>8
<1>8. ASSUME NEW s \in Stages, s # 1, ~CutFrom(s) PROVE H(s) = {} /\ C(s-1) = {}
  BY <1>1, <1>2, <1>8 DEF Whole, CleanInv, Clean, H, C
<1>9. ASSUME \A t \in TakeStages : PassedBy(t) < TakeN, CutFrom(1) PROVE FALSE
  <2>1. PICK v \in Stages : TakeDone(v)
    BY <1>9 DEF CutFrom
  <2>2. v \in TakeStages
    BY <2>1 DEF TakeDone, TakeStages
  <2>3. TakeN > 0
    <3>1. PassedBy(v) \in Nat /\ PassedBy(v) < TakeN /\ TakeN \in Nat
      BY <1>7, <1>9, <2>2, TakeFacts
    <3> QED BY <3>1
  <2>4. PICK u \in Stages : TakeDone(u) /\ ~CutFrom(u+1)
    BY <1>9, <2>3 DEF Whole, LastInv
  <2>5. u \in TakeStages /\ taken[u] >= TakeN /\ u \in Int /\ 1 <= u
    BY <2>4, Places DEF TakeDone, TakeStages
  <2>6. \A s \in Stages : s > u => s # 1 /\ ~CutFrom(s)
    BY <2>4, <2>5, Places DEF CutFrom
  <2>7. \A s \in Stages : s > u => H(s) = {} /\ C(s-1) = {}
    BY <1>8, <2>6
  <2>8. \A c \in Chans : c >= u => C(c) = {}
    <3> SUFFICES ASSUME NEW c \in Chans, c >= u PROVE C(c) = {}
      OBVIOUS
    <3>1. c + 1 \in Stages /\ c + 1 > u /\ (c + 1) - 1 = c
      BY <2>5, Places
    <3> QED BY <2>7, <3>1
  <2>9. \A p \in skipped : p[1] > u => p[1] \in u+1..N
    <3> SUFFICES ASSUME NEW p \in skipped, p[1] > u PROVE p[1] \in u+1..N
      OBVIOUS
    <3>1. p[1] \in Stages
      BY <1>0 DEF TypeOK
    <3>2. p[1] \in Int /\ p[1] <= N /\ N \in Int
      BY <3>1, Places
    <3>3. \A i \in Int : i > u /\ i <= N => i \in u+1..N
      BY <2>5, <3>2
    <3> QED BY <3>2, <3>3
  <2>10. Beyond(u) \subseteq D \cup DroppedIn(u+1..N)
    BY <2>7, <2>8, <2>9 DEF Beyond, OnSide, DroppedIn
  <2>11. PassedBy(u) = Cardinality(Beyond(u))
    <3>1. D \cup DroppedIn(u+1..N) = Beyond(u)
      BY <1>7, <2>5, <2>10
    <3> QED BY <1>7, <2>5, <3>1
  <2>12. Cardinality(Beyond(u)) = taken[u]
    BY <1>0, <1>1, <2>4, <2>5 DEF CountInv
  <2>13. PassedBy(u) < TakeN /\ PassedBy(u) \in Nat /\ TakeN \in Nat
    BY <1>7, <1>9, <2>5, TakeFacts
  <2> QED BY <2>5, <2>11, <2>12, <2>13
<1>10. ASSUME ~CutFrom(1) PROVE Sent \subseteq Seen /\ (parentDone \/ Emitted = NItems)
  <2>1. \A s \in Stages : ~CutFrom(s)
    BY <1>10, Places DEF CutFrom
  <2>2. \A c \in Chans : C(c) = {}
    <3> SUFFICES ASSUME NEW c \in Chans PROVE C(c) = {}
      OBVIOUS
    <3>1. c + 1 \in Stages /\ c + 1 # 1 /\ (c + 1) - 1 = c
      BY Places
    <3> QED BY <1>8, <2>1, <3>1
  <2>3. ASSUME NEW y \in Sent PROVE y \in Seen
    <3>1. Present(y)
      BY <1>0, <1>1, <1>10 DEF CountInv
    <3>2. \A s \in Stages : y \notin H(s)
      BY <1>8, <2>1
    <3>3. y \in D \/ \E p \in skipped : p[2] = y
      BY <2>2, <3>1, <3>2 DEF Present, Skipped
    <3>4. \A p \in skipped : p[1] \in Stages
      BY <1>0 DEF TypeOK
    <3> QED BY <3>3, <3>4 DEF DroppedIn
  <2>4. parentDone \/ hand[1] = << >>
    BY <1>1, <1>2, <1>10 DEF Whole, SourceInv
  <2>5. hand[1] = << >> => Emitted = NItems
    BY <1>2 DEF Emitted
  <2> QED BY <2>3, <2>4, <2>5
<1>11. ASSUME ~CutFrom(1) PROVE Cardinality(Seen) = Cardinality(Sent)
  <2>1. Seen = Sent
    BY <1>5, <1>10, <1>11
  <2> QED BY <2>1
<1> HIDE DEF Seen, Sent
<1> QED BY <1>3, <1>4, <1>6, <1>7, <1>9, <1>10, <1>11

LEMMA WholeKept == Whole /\ [Next]_vars => Whole'
<1> SUFFICES ASSUME Whole, [Next]_vars PROVE Whole'
  OBVIOUS
<1>1. /\ TypeOK /\ Shape /\ DrainInv /\ FlowInv /\ IdleInv /\ ExitInv
      /\ CleanInv /\ SourceInv /\ LastInv /\ TakenInv /\ AwayInv /\ CountInv
  BY DEF Whole, FlowInv
<1>2. Move
  BY <1>1, GoesStep DEF Goes
<1>3. TypeOK' /\ Shape' /\ DrainInv' /\ FlowInv'
  BY <1>1, TypeStep, DrainStepInv, FlowStep
<1>4. ExitInv' /\ TakenInv'
  BY <1>1, ExitKept, TakenKept
<1>5. CleanInv' /\ SourceInv'
  BY <1>1, <1>2, CleanKept, SourceKept
<1>6. LastInv' /\ AwayInv'
  BY <1>1, <1>2, LastKept, AwayKept
<1>7. CountInv'
  BY <1>1, <1>2, CountKept
<1> QED BY <1>3, <1>4, <1>5, <1>6, <1>7 DEF Whole

\* When Run returns and nothing cancelled the stages, every item the source
\* sent reached the terminal or was dropped by a stage's own rule, unless a
\* Take behind it has let its n items through; no Take lets more through; and
\* the source has sent everything, if the caller has not cancelled.  For every
\* chain of stages, batching or not, with any number of Takes: closing a
\* channel, the drain protocol and DrainChan lose nothing (Take, DrainChan,
\* signalDrain and the deferred calls of the stage functions).
THEOREM NothingLost == Spec => []DeliveryComplete
<1>1. Init => Whole
  BY InitInv, FlowInit, ExitInit, TakeInit, CountInit DEF Whole
<1> QED BY <1>1, WholeKept, WholeDelivers, PTL DEF Spec
=============================================================================
