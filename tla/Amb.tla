--------------------------------- MODULE Amb ---------------------------------
(***************************************************************************)
(* Amb of several factories.  Each nested pipeline runs in a goroutine and *)
(* sends its items on a channel of its own; a forwarder per channel moves  *)
(* them to the merged channel; the source takes the first item's factory   *)
(* for the winner and cancels the others.                                  *)
(***************************************************************************)
EXTENDS Integers, SequencesExt

CONSTANTS
  Factories,  \* 1..n, n > 1
  NPerRun,    \* items of a nested pipeline
  Endings,    \* how the factories' pipelines may end: functions from Factories
  FactCap     \* buffer of the channels (DefaultBuffer)

VARIABLES
  ends,    \* how a factory's pipeline ends: "ok", "err" or "never"; "late": it fails when it is cancelled
  f,       \* the factory's goroutine: items sent, whether it runs, its channel
  fwd,     \* the forwarder: "recv", "send" or "end", and its item
  merged,  \* the merged channel
  fctx,    \* factories whose context has been cancelled
  inner,   \* innerCancel() has been called
  winner, pc, item,  \* the source: 0 or the winner, where it is, its item
  firstErr, ret, ctx, left,
  sent     \* history

vars == <<ends, f, fwd, merged, fctx, inner, winner, pc, item, firstErr, ret, ctx, left, sent>>

\* The source's context ends with the run or when the consumer leaves.
FDone(i) == inner \/ ctx \/ left \/ i \in fctx
Merged == \A i \in Factories : fwd[i].pc = "end"

Init ==
  /\ ends \in Endings
  /\ f = [i \in Factories |-> [n |-> 0, up |-> TRUE, ch |-> << >>]]
  /\ fwd = [i \in Factories |-> [pc |-> "recv", item |-> 0]]
  /\ merged = << >> /\ fctx = {} /\ inner = FALSE /\ winner = 0 /\ pc = "recv" /\ item = 0
  /\ firstErr = "nil" /\ ret = "run" /\ ctx = FALSE /\ left = FALSE /\ sent = << >>

-----------------------------------------------------------------------------
(* The goroutine of factory i. *)
fRest == <<ends, fwd, merged, fctx, winner, pc, item, ret, ctx, left, sent>>

FactorySends(i) ==
  /\ f[i].up /\ f[i].n < NPerRun /\ Len(f[i].ch) < FactCap
  /\ f' = [f EXCEPT ![i].n = @ + 1, ![i].ch = Append(@, f[i].n + 1)]
  /\ UNCHANGED <<fRest, inner, firstErr>>

\* Its run ends: by itself, with an error, which ends the others' too, or
\* cancelled.  Then it closes its channel.
FactoryEnds(i) ==
  /\ f[i].up
  /\ \/ f[i].n = NPerRun /\ ends[i] = "ok" /\ UNCHANGED <<inner, firstErr>>
     \/ /\ (f[i].n = NPerRun /\ ends[i] = "err") \/ (FDone(i) /\ ends[i] = "late")
        /\ inner' = TRUE /\ firstErr' = "err"
     \/ FDone(i) /\ ends[i] # "late" /\ UNCHANGED <<inner, firstErr>>
  /\ f' = [f EXCEPT ![i].up = FALSE]
  /\ UNCHANGED fRest

-----------------------------------------------------------------------------
(* The forwarder of factory i. *)
wRest == <<ends, fctx, inner, winner, pc, item, firstErr, ret, ctx, left, sent>>
ForwarderTakes(i) ==
  /\ fwd[i].pc = "recv"
  /\ \/ /\ f[i].ch # << >>
        /\ fwd' = [fwd EXCEPT ![i] = [pc |-> "send", item |-> Head(f[i].ch)]]
        /\ f' = [f EXCEPT ![i].ch = Tail(@)]
     \/ f[i].ch = << >> /\ ~f[i].up /\ fwd' = [fwd EXCEPT ![i].pc = "end"] /\ UNCHANGED f
  /\ UNCHANGED <<wRest, merged>>
ForwarderSends(i) ==
  /\ fwd[i].pc = "send"
  /\ \/ /\ Len(merged) < FactCap /\ merged' = Append(merged, <<i, fwd[i].item>>)
        /\ fwd' = [fwd EXCEPT ![i].pc = "recv"]
     \/ FDone(i) /\ fwd' = [fwd EXCEPT ![i].pc = "end"] /\ UNCHANGED merged
  /\ UNCHANGED <<wRest, f>>

-----------------------------------------------------------------------------
(* The source. *)
sRest == <<ends, f, fwd, ctx, left>>

\* Mutant: items of other factories are passed on as well.
TakeMutant ==
  /\ pc = "recv" /\ merged # << >> /\ merged' = Tail(merged)
  /\ winner' = IF winner = 0 THEN merged[1][1] ELSE winner
  /\ fctx' = fctx \cup (Factories \ {winner'})
  /\ item' = merged[1] /\ pc' = "yield"
  /\ UNCHANGED <<sRest, inner, firstErr, ret, sent>>

\* The first item decides; items of other factories are passed over.
Take ==
  /\ pc = "recv" /\ merged # << >> /\ merged' = Tail(merged)
  /\ winner' = IF winner = 0 THEN merged[1][1] ELSE winner
  /\ fctx' = fctx \cup (Factories \ {winner'})
  /\ IF merged[1][1] = winner' THEN item' = merged[1] /\ pc' = "yield" ELSE UNCHANGED <<item, pc>>
  /\ UNCHANGED <<sRest, inner, firstErr, ret, sent>>

\* The consumer takes the item.  yield refuses it when the consumer has left
\* or the context has ended, perhaps after having sent it: then the deferred
\* cancels end everything.
Yield ==
  /\ pc = "yield"
  /\ \/ sent' = Append(sent, item) /\ pc' = "recv" /\ UNCHANGED <<inner, ret>>
     \/ /\ left \/ ctx
        /\ inner' = TRUE /\ pc' = "done" /\ ret' = "nil" /\ sent' \in {sent, Append(sent, item)}
  /\ UNCHANGED <<sRest, merged, fctx, winner, item, firstErr>>

\* The merged channel is closed; wg.Wait.
Return ==
  /\ pc = "recv" /\ merged = << >> /\ Merged /\ \A i \in Factories : ~f[i].up
  /\ pc' = "done" /\ ret' = firstErr /\ inner' = TRUE
  /\ UNCHANGED <<sRest, merged, fctx, winner, item, firstErr, sent>>
Source == Take \/ Yield \/ Return

eRest == <<ends, f, fwd, merged, fctx, inner, winner, pc, item, firstErr, ret, sent>>
Cancel == ret = "run" /\ ~ctx /\ ctx' = TRUE /\ UNCHANGED <<eRest, left>>
Leave == ret = "run" /\ ~left /\ left' = TRUE /\ UNCHANGED <<eRest, ctx>>

AllGone == ret # "run" /\ Merged /\ \A i \in Factories : ~f[i].up
Halted == AllGone /\ UNCHANGED vars

Goroutine(i) == FactorySends(i) \/ FactoryEnds(i) \/ ForwarderTakes(i) \/ ForwarderSends(i)
Next == Source \/ Cancel \/ Leave \/ Halted \/ \E i \in Factories : Goroutine(i)
Fairness ==
  /\ WF_vars(Source)
  /\ \A i \in Factories : /\ WF_vars(FactorySends(i)) /\ WF_vars(FactoryEnds(i))
                          /\ WF_vars(ForwarderTakes(i)) /\ WF_vars(ForwarderSends(i))
Spec == Init /\ [][Next]_vars /\ Fairness

-----------------------------------------------------------------------------
\* Amb sends the items of one factory only, in order and without a gap; all
\* of them, if that factory's run ends well and no run fails.
OneWinner ==
  /\ \A j \in DOMAIN sent : ~left /\ ~ctx /\ ~inner => sent[j] = <<winner, j>>
  /\ \A j \in DOMAIN sent : sent[j][1] = winner
  /\ ret = "nil" /\ ~left /\ ~ctx => winner # 0 /\ ends[winner] = "ok" /\ Len(sent) = NPerRun

\* Amb fails exactly when a factory's run has failed, a cancelled loser's
\* included, unless the consumer or the caller has gone.
ErrorOfAFactory ==
  /\ ret = "err" => \E i \in Factories : ends[i] \in {"err", "late"} /\ ~f[i].up
  /\ ret = "nil" /\ ~left /\ ~ctx => \A i \in Factories \ {winner} : ends[i] # "late"

\* Nothing that Amb waits for lasts for ever.
MustEnd == left \/ ctx \/ \A i \in Factories : ends[i] \in {"ok", "err"}
=============================================================================
