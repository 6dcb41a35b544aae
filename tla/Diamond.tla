------------------------------- MODULE Diamond -------------------------------
(* A stream split by FanOut and joined by FanIn. *)
EXTENDS FanIn

Fails(k) == ~panic /\ WorkerFails(k)
Ended == Returned /\ \A k \in B : shut[k] /\ Gone(k)
\* The fan-out waits for room in a branch nobody will read: what reads the
\* branches has left because its own consumer had, or it reads them in
\* lockstep and waits for the other branch.
Waiting(b) == fpc = "send" /\ ~ctx /\ todo[1][1] = b /\ Len(ch[b]) = Cap
Abandoned == stage = "drain" /\ \E b \in B : Waiting(b)
Skewed ==
  /\ kind.in \in Lockstep /\ kind.out \in {"partition", "keyedBalance", "mapResult"}
  /\ \/ Waiting(2) /\ w[1].pc = "recv" /\ ch[1] = << >>
     \/ Waiting(1) /\ w[1].pc = "second" /\ ch[2] = << >>
Halted == (Ended \/ panic \/ Abandoned \/ Skewed) /\ UNCHANGED vars

Next ==
  \/ ~panic /\ FanOutStep
  \/ FanInStep \/ Consume \/ Leave \/ Cancel \/ Halted
  \/ \E k \in B : Work(k) \/ Fails(k) \/ Discard(k) \/ EachLeaves(k)

\* Every goroutine goes on as long as it can: the Go scheduler is fair.
Fairness ==
  /\ WF_vars(~panic /\ FanOutStep) /\ WF_vars(FanInStep) /\ WF_vars(Consume)
  /\ \A k \in B : WF_vars(Work(k)) /\ WF_vars(Discard(k))

Spec == Init /\ [][Next]_vars /\ Fairness

-----------------------------------------------------------------------------
Column(c) == [i \in DOMAIN out |-> out[i][c]]
Rising(s) == \A i, j \in DOMAIN s : i < j => s[i] <= s[j]
\* Nobody has cut the run short.
Whole == ~ctx /\ ~left
\* What of the first n outputs comes from branch k.
FromBranch(k, n) == {i \in 1..n : out[i][1] = k}

\* Merge keeps the order of each branch, and unless it is cut short it sends
\* everything before it returns.
MergedRight ==
  Is("merge") =>
    /\ \A i \in DOMAIN out : LET k == out[i][1] IN out[i][2] = took[k][Cardinality(FromBranch(k, i))]
    /\ \A k \in B : IsPrefix(took[k], routed[k]) /\ Cardinality(FromBranch(k, Len(out))) <= Len(took[k])
    /\ Whole /\ Returned => \A k \in B : Cardinality(FromBranch(k, Len(out))) = Len(routed[k])

\* Zip pairs by position, up to the end of the shorter branch.
ZippedRight ==
  Is("zip") =>
    /\ \A i \in DOMAIN out : out[i] = <<took[1][i], took[2][i]>>
    /\ kind.out \in Both => \A i \in DOMAIN out : out[i] = <<i, i>>
    /\ stage = "eof" => Len(out) = Min({Len(took[1]), Len(took[2])})

\* CombineLatest never loses an update: when neither goroutine is about to
\* send, the pair of the two latest values has been sent; and no pair is sent
\* twice (though one may be overtaken by a later one).
CombinedRight ==
  Is("combineLatest") =>
    /\ (\A k \in B : w[k].pc # "send" /\ w[k].why \notin {"ctx", "err"}) /\ 0 \notin {lat[1], lat[2]} =>
         Contains(out, <<lat[1], lat[2]>>)
    /\ \A i, j \in DOMAIN out : out[i] = out[j] => i = j

\* LatestFrom sends main items in order, with values that never go back.
LatestRight ==
  Is("latestFrom") => Ordered(Column(1)) /\ Rising(Column(2)) /\ ToSet(Column(2)) \subseteq ToSet(took[2])

\* SampleWith sends no item twice, and one item at most for every sample.
SampledRight ==
  Is("sampleWith") => Ordered(Column(1)) /\ ToSet(Column(1)) \subseteq ToSet(took[1]) /\ Len(out) <= Len(took[2])

\* SequenceEqual says that two streams are equal exactly if they are.
ComparedRight ==
  Is("sequenceEqual") => (stage = "eof" => routed[1] = routed[2]) /\ (stage = "differ" => routed[1] # routed[2])

\* What a fan-in sends is what its operator promises of the two branches,
\* however the goroutines that read them interleave.
JoinedRight ==
  MergedRight /\ ZippedRight /\ CombinedRight /\ LatestRight /\ SampledRight /\ ComparedRight

\* The readers whose end the stage waits for before it returns with why:
\* LatestFrom and SampleWith wait for the one that sends, CombineLatest for
\* none when one of them has failed, the others for both.
Awaited(why) ==
  {k \in B : /\ Is("latestFrom") => k = 1
             /\ Is("sampleWith") => k = 2
             /\ Is("combineLatest") => why \notin {"err", "ctx"}}

\* A fan-out stops early only after each of its two consumers has signalled:
\* with a consumer per branch both have left, and a stage that joins the
\* branches has returned.  Such a stage returns only after the readers it
\* waits for; the other reader of LatestFrom, SampleWith and a failed
\* CombineLatest may still be reading when the fan-out stops.
DrainOnlyWhenAllLeft ==
  /\ fwhy = "drain" => IF Is("each") THEN \A k \in B : Gone(k) ELSE Returned
  /\ Returned => \A k \in Awaited(stage) : Gone(k)

\* Every run of a diamond comes to its end, whoever leaves, fails or cancels,
\* with two exceptions: a fan-out that is blocked in a send when the fan-in
\* leaves because its own consumer had (the send does not watch the drain),
\* and a lockstep join of branches whose shares of the stream differ by more
\* than their buffers hold (never of Broadcast or Balance).
EndsOrSendStuck == <>[](Ended \/ panic \/ Abandoned \/ Skewed)

\* A goroutine never sends on the output after the stage has closed it.
NoSendOnClosed == ~panic
=============================================================================
