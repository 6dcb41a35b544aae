----------------------------- MODULE Operators ------------------------------
(***************************************************************************)
(* A stage of any single-input operator, run over every short stream, and  *)
(* what the operators promise, stated over the stream as a whole.          *)
(***************************************************************************)
EXTENDS SelectOps, FoldOps, WindowOps, TimeOps

Receive(x) ==
  /\ Arrives(x)
  /\ \/ (Selecting(x) \/ Folding(x) \/ Windowing(x)) /\ UNCHANGED <<marks, timer, tick>>
     \/ Timing(x)

\* What is sent, or returned, after the input has been closed.
AtClose ==
  CASE op.kind \in {"reduce", "reduceWhile", "groupBy", "frequencies", "toMap", "takeRandom"} -> {<<st>>}
    [] Is("sort") -> Sortings(st)
    [] Is("defaultIfEmpty") -> {IF st = 0 THEN << <<Default>> >> ELSE << >>}
    [] op.kind \in {"batch", "batchMeasure", "batchTimeout", "session", "chunkBy",
                    "chunkWhile", "bufferWith"} -> {Flush(st)}
    [] op.kind \in {"mapBatch", "mapBatchTimeout"} -> {BatchResult(st)}
    [] Is("lookupBy") -> {Joined(st, Fetched(Known, UniqueKeys(st)))}
    [] Is("debounce") -> {st}
    [] Is("single") -> {IF st = << >> THEN (IF op.n = 1 THEN << <<Default>> >> ELSE << >>) ELSE <<st>>}
    [] op.kind \in Terminals \ {"single"} -> {<<v>> : v \in Results}
    [] OTHER -> {<< >>}

\* Single without a default, and a function called with the last batch, may
\* end in an error.
CloseErrors == \/ Is("single") /\ st = << >> /\ op.n = 0
               \/ op.kind \in BatchCalls /\ st # << >>
Closed ==
  /\ pc = "recv" /\ ahead = 0
  /\ \/ ~(Is("single") /\ CloseErrors) /\ \E outs \in AtClose : Return(st, outs, "eof")
     \/ CloseErrors /\ Return(st, << >>, "err")
  /\ UNCHANGED <<op, kept, base, input, ahead, times, marks, sent, timeVars>>

\* The boundary pipeline of TakeUntil or DropUntil emits or ends: its
\* goroutine closes the stop, or gate, channel.
Boundary ==
  /\ pc # "end" /\ op.kind \in {"takeUntil", "dropUntil"} /\ marks = << >>
  /\ marks' = <<Len(input)>>
  /\ UNCHANGED <<op, st, kept, base, pc, pend, why, input, ahead, times, sent, timeVars>>

Next ==
  \/ \E x \in Items : Receive(x)
  \/ Closed \/ RunFailed \/ Emit \/ CtxDone \/ Drained \/ Rerun \/ Tick
  \/ Boundary \/ TakeUntilStop \/ DropUntilOpen \/ BufferWithFlush
  \/ BatchTick \/ MapBatchTick \/ SampleTick \/ DebounceFire \/ SessionFire
  \/ DedupeAdd \/ OtherAdd

Spec == Init /\ [][Next]_vars

-----------------------------------------------------------------------------
(* References.  s is the stream received, done tells whether the stage has  *)
(* come to its end by itself or by the end of the stream.                   *)

At(s, I) == LET o == SetToSortSeq(I, <) IN [j \in DOMAIN o |-> s[o[j]]]
Where(s, P(_)) == At(s, {i \in DOMAIN s : P(i)})
Firsts(s) == {i \in DOMAIN s : \A j \in 1..i - 1 : Key(s[j]) # Key(s[i])}
KeysOf(s) == {Key(s[i]) : i \in DOMAIN s}
With(s, k) == {i \in DOMAIN s : Key(s[i]) = k}
Freq(s) == [k \in KeysOf(s) |-> Cardinality(With(s, k))]
SumOver(s, I) == FoldSet(LAMBDA i, a : a + s[i], 0, I)
Sums(s) == [k \in KeysOf(s) |-> SumOver(s, With(s, k))]
Each(s, F(_)) == [i \in DOMAIN s |-> F(SubSeq(s, 1, i))]
Least(s, R(_, _)) == s[Min({i \in DOMAIN s : \A j \in DOMAIN s : ~R(Key(s[j]), Key(s[i]))})]
Stops(s) == {i \in DOMAIN s : ~Pred(s[i])}
Hits(s) == {i \in DOMAIN s : Pred(s[i])}
Whole(s, n) == (Len(s) \div n) * n

\* What the selecting operators must have sent.
Selected(s, done) ==
  LET n == op.n IN
  CASE Is("take") -> Where(s, LAMBDA i : i <= n)
    [] Is("drop") -> Where(s, LAMBDA i : i > n)
    [] Is("takeWhile") -> Where(s, LAMBDA i : \A j \in 1..i : Pred(s[j]))
    [] Is("dropWhile") -> Where(s, LAMBDA i : \E j \in 1..i : ~Pred(s[j]))
    [] Is("dropLast") -> Where(s, LAMBDA i : i <= Len(s) - n)
    [] Is("dropUntil") -> Where(s, LAMBDA i : marks # << >> /\ i > marks[1])
    [] Is("filter") -> At(s, Hits(s))
    [] Is("reject") -> At(s, Stops(s))
    [] Is("withIndex") -> [i \in DOMAIN s |-> <<i - 1, s[i]>>]
    [] Is("pairwise") -> [i \in 1..Len(s) - 1 |-> <<s[i], s[i + 1]>>]
    [] Is("takeEvery") -> Where(s, LAMBDA i : i % n = 1 % n)
    [] Is("dropEvery") -> Where(s, LAMBDA i : i % n # 1 % n)
    [] Is("mapEvery") -> [i \in DOMAIN s |-> IF i % n = 1 % n THEN Mapped(s[i]) ELSE <<s[i]>>]
    [] Is("intersperse") -> [i \in 1..2 * Len(s) - 1 |->
                               IF i % 2 = 1 THEN <<s[(i + 1) \div 2]>> ELSE <<Sep>>]
    [] Is("mapIntersperse") -> [i \in 1..2 * Len(s) - 1 |->
                                  IF i % 2 = 1 THEN Mapped(s[(i + 1) \div 2]) ELSE <<Sep>>]
    [] Is("defaultIfEmpty") -> IF s = << >> /\ done THEN << <<Default>> >> ELSE [i \in DOMAIN s |-> <<s[i]>>]
    [] op.kind \in {"distinctBy", "dedupe"} -> At(s, Firsts(s))
    [] Is("dedupeExternal") -> Where(s, LAMBDA i : i \in Firsts(s) /\ ~Contains(base, Key(s[i])))
    [] Is("dedupeConsecutive") -> Where(s, LAMBDA i : i > 1 => Key(s[i - 1]) # Key(s[i]))
    [] OTHER -> s

\* What the folding and windowing operators must have sent.
Folded(s, done) ==
  LET n == op.n
      atEnd(v) == IF done THEN <<v>> ELSE << >> IN
  CASE Is("scan") -> Each(s, LAMBDA p : p)
    [] op.kind \in {"reduce", "collect"} -> atEnd(s)
    [] Is("reduceWhile") -> atEnd(IF Stops(s) = {} THEN s ELSE SubSeq(s, 1, Min(Stops(s))))
    [] Is("groupBy") -> atEnd([k \in KeysOf(s) |-> At(s, With(s, k))])
    [] Is("frequencies") -> atEnd(Freq(s))
    [] Is("toMap") -> atEnd([k \in KeysOf(s) |-> s[Max(With(s, k))]])
    [] op.kind \in {"runningFrequencies", "runningCount"} -> Each(s, Freq)
    [] Is("runningSum") -> Each(s, Sums)
    [] Is("first") -> atEnd(At(s, DOMAIN s \cap {1}))
    [] Is("last") -> atEnd(At(s, DOMAIN s \cap {Len(s)}))
    [] Is("single") -> atEnd(IF s = << >> THEN <<Default>> ELSE s)
    [] Is("count") -> atEnd(Len(s))
    [] Is("sum") -> atEnd(SumOver(s, DOMAIN s))
    [] Is("any") -> atEnd(Hits(s) # {})
    [] Is("all") -> atEnd(Stops(s) = {})
    [] Is("find") -> atEnd(IF Hits(s) = {} THEN << >> ELSE <<s[Min(Hits(s))]>>)
    [] Is("min") -> atEnd(IF s = << >> THEN s ELSE <<Least(s, <)>>)
    [] Is("minMax") -> atEnd(IF s = << >> THEN s ELSE <<Least(s, <), Least(s, >)>>)
    [] Is("unbatch") -> FlattenSeq([i \in DOMAIN s |-> Slice(s[i])])
    [] Is("within") -> [i \in DOMAIN s |-> SelectSeq(Slice(s[i]), Pred)]
    [] Is("slidingWindow") -> [i \in 1..(IF Len(s) < n THEN 0 ELSE (Len(s) - n) \div op.step + 1) |->
                                 SubSeq(s, (i - 1) * op.step + 1, (i - 1) * op.step + n)]
    [] Is("mapBatch") -> [i \in 1..(IF done THEN Len(s) ELSE Whole(s, n)) |-> <<"fn", s[i]>>]
    [] Is("mapBatchTimeout") -> [i \in 1..(IF done THEN Len(s) ELSE Len(s) - Len(st)) |-> <<"fn", s[i]>>]
    [] Is("lookupBy") -> [i \in 1..(IF done THEN Len(s) ELSE Whole(s, n)) |->
                            <<s[i], IF Key(s[i]) \in Known THEN <<"value", Key(s[i])>> ELSE Zero>>]

Folds == {"scan", "reduce", "reduceWhile", "groupBy", "frequencies", "toMap",
          "runningFrequencies", "runningCount", "runningSum", "unbatch", "within",
          "slidingWindow"} \cup BatchCalls \cup Terminals
Selects == {"take", "drop", "takeWhile", "dropWhile", "dropLast", "takeUntil", "dropUntil",
            "filter", "reject", "tap", "withIndex", "pairwise", "takeEvery", "dropEvery",
            "mapEvery", "intersperse", "mapIntersperse", "defaultIfEmpty", "distinctBy",
            "dedupe", "dedupeExternal", "dedupeConsecutive"}

-----------------------------------------------------------------------------
Out == sent \o pend
Natural == why \in {"no", "eof", "self"}

\* Each operator computes what its reference says of the whole stream, has
\* sent all of it that the items so far decide, also in a second run of the
\* same blueprint, and has sent a prefix of it when it is cut short by the
\* context, a drain or an error.  MapIntersperse keeps "first" in the
\* blueprint and is right in its first run only.
Computes ==
  (op.kind \in Folds \cup Selects /\ ~(Is("mapIntersperse") /\ base # << >>)) =>
    LET ref(done) == IF op.kind \in Folds THEN Folded(input, done) ELSE Selected(input, done)
    IN CASE Natural -> Out = ref(why # "no")
         [] op.kind \in Terminals -> TRUE
         [] OTHER -> IsPrefix(sent, ref(TRUE)) \/ IsPrefix(sent, ref(FALSE))

\* The operators that have a choice keep to it: a sample is a subsequence, a
\* reservoir holds n items of the stream, each no more often than it came,
\* a sort is a permutation in order, and a dedup window suppresses an item
\* exactly if its key is among the last n that passed.
ChoicesKept ==
  LET times_(s, x) == Cardinality({i \in DOMAIN s : s[i] = x})
      passedIn(S, i, j) == {k \in S : j < k /\ k < i} IN
  CASE Is("randomSample") -> \E S \in SUBSET DOMAIN input : Out = At(input, S)
    [] Is("takeRandom") /\ why = "eof" ->
         /\ Len(Out[1]) = Min({op.n, Len(input)})
         /\ \A x \in ToSet(Out[1]) : times_(Out[1], x) <= times_(input, x)
    [] Is("sort") /\ why = "eof" ->
         /\ \A x \in Items : times_(Out, x) = times_(input, x)
         /\ \A i \in 1..Len(Out) - 1 : Key(Out[i]) <= Key(Out[i + 1])
    [] Is("dedupeWindow") /\ Natural ->
         \E S \in SUBSET DOMAIN input :
           /\ Out = At(input, S)
           /\ \A i \in DOMAIN input :
                i \in S <=> ~\E j \in S : /\ j < i /\ Key(input[i]) = Key(input[j])
                                          /\ Cardinality(passedIn(S, i, j)) < op.n
    [] OTHER -> TRUE

\* Whether the items s already decide all a stage will ever send.
Decided(s) ==
  CASE Is("take") -> Len(s) >= op.n
    [] op.kind \in {"takeWhile", "all", "reduceWhile"} -> Stops(s) # {}
    [] op.kind \in {"any", "find"} -> Hits(s) # {}
    [] Is("first") -> s # << >>
    [] Is("single") -> Len(s) > 1
    [] OTHER -> FALSE

\* An operator that may stop early looks at no item after the one that
\* decides its result.  What a terminal has received beyond it, the rest of a
\* micro-batch, is thrown away; in every other end, also when the run fails
\* or is cancelled, a terminal has looked at all it has received.
ReadsNoMore ==
  /\ input # << >> => ~Decided(Front(input))
  /\ pc # "recv" /\ ahead > 0 => Decided(input)

\* Windows never lose, repeat or reorder an item: what has been sent, what is
\* being sent and what is buffered make up the stream, windows are not empty
\* and as large as the operator allows, and nothing but a drop of the
\* partial batch is lost at the end.
Partitioned ==
  LET cutAt(i) == Len(FlattenSeq(SubSeq(Out, 1, i)))
      rest == IF why = "no" THEN st ELSE << >> IN
  (op.kind \in BatchKinds \cup {"chunkBy", "chunkWhile", "bufferWith", "session"} /\ Natural) =>
    /\ Is("batchDrop") \/ FlattenSeq(Out) \o rest = input
    /\ IsPrefix(FlattenSeq(Out), input)
    /\ \A i \in DOMAIN Out :
         /\ Out[i] # << >>
         /\ op.kind \in {"batch", "batchDrop", "batchTimeout"} => Len(Out[i]) <= BatchSize
         /\ Is("batchMeasure") => Measure(Front(Out[i])) < op.n
         /\ op.kind \in {"batch", "batchMeasure"} /\ (i < Len(Out) \/ why = "no") =>
              IF Is("batch") THEN Len(Out[i]) = op.n ELSE Measure(Out[i]) >= op.n
         /\ Is("bufferWith") => cutAt(i) \in ToSet(marks) \/ why = "eof"
    /\ \A i \in 1..Len(input) - 1 :
         /\ Is("chunkBy") => ((\E j \in DOMAIN Out : cutAt(j) = i) <=> Key(input[i]) # Key(input[i + 1]))
         /\ Is("chunkWhile") => ((\E j \in DOMAIN Out : cutAt(j) = i) <=> input[i] > input[i + 1])

\* However late the stage is: Throttle lets an item pass exactly if the last
\* one passed at least n before; a session is never split, and an item never
\* leaves Debounce, less than n before the next item came; Sample sends items
\* in order, none twice; and a TTL set holds a key exactly as long as its
\* latest Add says.  A stamp of Timestamp is the time the item was received,
\* so that the interval of TimeInterval is the difference of two stamps; the
\* comment of Timestamp speaks of the time the item exits (misc.go:179),
\* which is later when the consumer is slow.
Timely ==
  LET sentAt(i) == \E j \in DOMAIN Out : Out[j] = input[i]
      gap(i) == times[i + 1] - times[i]
      prior(i) == {j \in 1..i - 1 : sentAt(j)}
      cutAt(i) == Len(FlattenSeq(SubSeq(Out, 1, i)))
      holds(k) == k \in DOMAIN Evict(kept, now).entries IN
  /\ Is("throttle") /\ Natural => \A i \in DOMAIN input :
       sentAt(i) <=> (prior(i) = {} \/ times[i] - times[Max(prior(i))] >= op.n)
  /\ Is("debounce") => \A i \in 1..Len(input) - 1 : sentAt(i) => gap(i) >= op.n
  /\ Is("debounce") /\ why = "eof" /\ input # << >> => sentAt(Len(input))
  /\ Is("session") => \A i \in DOMAIN Out : cutAt(i) < Len(input) => gap(cutAt(i)) >= op.n
  /\ op.kind \in {"sample", "debounce"} => \A i, j \in DOMAIN Out : i < j => Out[i] < Out[j]
  /\ Is("timestamp") /\ Natural => Out = [i \in DOMAIN input |-> <<input[i], times[i]>>]
  /\ Is("timeInterval") /\ Natural =>
       Out = [i \in DOMAIN input |-> <<input[i], IF i = 1 THEN 0 ELSE gap(i - 1)>>]
  /\ Is("dedupeTTL") => \A k \in {Key(1), Key(2), Key(3)} :
       holds(k) <=> \E i \in DOMAIN marks : marks[i][1] = k /\ marks[i][2] + op.n > now
=============================================================================
