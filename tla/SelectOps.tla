----------------------------- MODULE SelectOps ------------------------------
(***************************************************************************)
(* Operators that pass on, drop or rearrange single items.  Each action is *)
(* what the operator does with the item x.                                 *)
(***************************************************************************)
EXTENDS StageLoop

Take(x) ==
  /\ Is("take")
  /\ IF st + 1 >= op.n THEN Return(st + 1, <<x>>, "self") ELSE Reply(st + 1, <<x>>)

Drop(x) ==
  /\ Is("drop")
  /\ IF st < op.n THEN Reply(st + 1, << >>) ELSE Reply(st, <<x>>)

TakeWhile(x) ==
  /\ Is("takeWhile")
  /\ IF Pred(x) THEN Reply(st, <<x>>) ELSE Return(st, << >>, "self")

\* st is 1 once an item has passed (dropping = false).
DropWhile(x) ==
  /\ Is("dropWhile")
  /\ IF st = 0 /\ Pred(x) THEN Reply(0, << >>) ELSE Reply(1, <<x>>)

\* Mutant: the ring gives up an item when it becomes full, not when it is.
DropLastMutant(x) ==
  /\ Is("dropLast")
  /\ IF Len(st) + 1 < op.n THEN Reply(Append(st, x), << >>)
                           ELSE Reply(Tail(Append(st, x)), <<Head(Append(st, x))>>)

\* st is the ring of the n latest items, oldest first.
DropLast(x) ==
  /\ Is("dropLast")
  /\ IF Len(st) < op.n THEN Reply(Append(st, x), << >>)
                       ELSE Reply(Append(Tail(st), x), <<Head(st)>>)

\* The boundary goroutine closes stopCh; the select may still pick items.
TakeUntil(x) == Is("takeUntil") /\ Reply(st, <<x>>)
TakeUntilStop ==
  /\ Is("takeUntil") /\ pc = "recv" /\ marks # << >>
  /\ Return(st, << >>, "self")
  /\ UNCHANGED <<op, kept, base, input, ahead, times, marks, sent, timeVars>>

\* st is 1 when the gate is known to be open; an item that finds it closed
\* looks at the gate itself.
DropUntil(x) ==
  /\ Is("dropUntil")
  /\ IF st = 1 \/ marks # << >> THEN Reply(1, <<x>>) ELSE Reply(0, << >>)
DropUntilOpen ==
  /\ Is("dropUntil") /\ pc = "recv" /\ st = 0 /\ marks # << >>
  /\ Reply(1, << >>)
  /\ UNCHANGED <<op, kept, base, input, ahead, times, marks, sent, timeVars>>

-----------------------------------------------------------------------------
\* Filter, Reject and RandomSample: the slow path of Filter, the predicate
\* turned round, and a predicate that throws a coin.
Filter(x) == Is("filter") /\ Reply(st, IF Pred(x) THEN <<x>> ELSE << >>)
Reject(x) == Is("reject") /\ Reply(st, IF ~Pred(x) THEN <<x>> ELSE << >>)
RandomSample(x) == Is("randomSample") /\ \E keep \in BOOLEAN : Reply(st, IF keep THEN <<x>> ELSE << >>)
Tap(x) == Is("tap") /\ Reply(st, <<x>>)

WithIndex(x) == Is("withIndex") /\ Reply(st + 1, << <<st, x>> >>)
Pairwise(x) == Is("pairwise") /\ Reply(<<x>>, IF st = << >> THEN << >> ELSE << <<st[1], x>> >>)
TakeEvery(x) == Is("takeEvery") /\ Reply(st + 1, IF st % op.n = 0 THEN <<x>> ELSE << >>)
DropEvery(x) == Is("dropEvery") /\ Reply(st + 1, IF st % op.n # 0 THEN <<x>> ELSE << >>)

\* What the user's function makes of an item.
Mapped(x) == <<"fn", x>>
MapEvery(x) == Is("mapEvery") /\ Reply(st + 1, <<IF st % op.n = 0 THEN Mapped(x) ELSE <<x>> >>)

Sep == "sep"
Intersperse(x) ==
  /\ Is("intersperse")
  /\ Reply(1, IF st = 0 THEN << <<x>> >> ELSE << <<Sep>>, <<x>> >>)

\* A FlatMap whose function keeps "first" in the blueprint: kept is <<1>>
\* after the first item of any run.
MapIntersperse(x) ==
  /\ Is("mapIntersperse") /\ kept' = <<1>>
  /\ Reply(st, IF kept = << >> THEN <<Mapped(x)>> ELSE << <<Sep>>, Mapped(x) >>)

Default == "default"
DefaultIfEmpty(x) == Is("defaultIfEmpty") /\ Reply(1, << <<x>> >>)

\* The user's function, or Contains or Add of the user's set, returns an
\* error: the stage returns it.
Fallible == {"filter", "reject", "tap", "mapEvery", "mapIntersperse", "within", "dedupeExternal"}
            \cup BatchCalls
UserError ==
  /\ op.kind \in Fallible /\ (Is("mapEvery") => st % op.n = 0)
  /\ op.kind \in BatchCalls => Len(st) + 1 >= BatchSize
  /\ Return(st, << >>, "err")

-----------------------------------------------------------------------------
\* Deduplication.  st (kept, for a set given by the user) lists the keys seen.
DistinctBy(x) ==
  /\ Is("distinctBy")
  /\ IF Contains(st, Key(x)) THEN Reply(st, << >>) ELSE Reply(Append(st, Key(x)), <<x>>)

DedupeGlobal(x) ==
  /\ Is("dedupe")
  /\ IF Contains(st, Key(x)) THEN Reply(st, << >>) ELSE Reply(Append(st, Key(x)), <<x>>)

DedupeConsecutive(x) ==
  /\ Is("dedupeConsecutive")
  /\ IF st = <<Key(x)>> THEN Reply(st, << >>) ELSE Reply(<<Key(x)>>, <<x>>)

\* Mutant: the window is cut after it has grown past n.
DedupeWindowMutant(x) ==
  /\ Is("dedupeWindow")
  /\ IF Contains(st, Key(x)) THEN Reply(st, << >>)
     ELSE Reply(Append(IF Len(st) > op.n THEN Tail(st) ELSE st, Key(x)), <<x>>)

DedupeWindow(x) ==
  /\ Is("dedupeWindow")
  /\ IF Contains(st, Key(x)) THEN Reply(st, << >>)
     ELSE Reply(Append(IF Len(st) >= op.n THEN Tail(st) ELSE st, Key(x)), <<x>>)

DedupeExternal(x) ==
  /\ Is("dedupeExternal")
  /\ IF Contains(kept, Key(x)) THEN Reply(st, << >>) /\ UNCHANGED kept
     ELSE Reply(st, <<x>>) /\ kept' = Append(kept, Key(x))

Selecting(x) ==
  \/ /\ \/ Take(x) \/ Drop(x) \/ TakeWhile(x) \/ DropWhile(x) \/ DropLast(x)
        \/ TakeUntil(x) \/ DropUntil(x)
        \/ Filter(x) \/ Reject(x) \/ RandomSample(x) \/ Tap(x)
        \/ WithIndex(x) \/ Pairwise(x) \/ TakeEvery(x) \/ DropEvery(x) \/ MapEvery(x)
        \/ Intersperse(x) \/ DefaultIfEmpty(x) \/ UserError
        \/ DistinctBy(x) \/ DedupeGlobal(x) \/ DedupeConsecutive(x) \/ DedupeWindow(x)
     /\ UNCHANGED kept
  \/ MapIntersperse(x)
  \/ DedupeExternal(x)
=============================================================================
