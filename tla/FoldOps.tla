------------------------------ MODULE FoldOps -------------------------------
(***************************************************************************)
(* Operators that fold the stream into a state, and the terminals that     *)
(* return one.  The user's reducer is Append, from which every other       *)
(* reducer can be computed.  An empty map is the empty function << >>.     *)
(***************************************************************************)
EXTENDS StageLoop

\* m with the entry of k replaced by v, and by the entry and v added up.
Put(m, k, v) == (k :> v) @@ m
Add(m, k, v) == Put(m, k, v + IF k \in DOMAIN m THEN m[k] ELSE 0)

Scan(x) == Is("scan") /\ LET s == Append(st, x) IN Reply(s, <<s>>)
Reduce(x) == Is("reduce") /\ Reply(Append(st, x), << >>)

ReduceWhile(x) ==
  /\ Is("reduceWhile")
  /\ LET s == Append(st, x) IN IF Pred(x) THEN Reply(s, << >>) ELSE Return(s, <<s>>, "self")

GroupBy(x) ==
  /\ Is("groupBy")
  /\ Reply(Put(st, Key(x), IF Key(x) \in DOMAIN st THEN Append(st[Key(x)], x) ELSE <<x>>), << >>)

FrequenciesBy(x) == Is("frequencies") /\ Reply(Add(st, Key(x), 1), << >>)
ToMap(x) == Is("toMap") /\ Reply(Put(st, Key(x), x), << >>)

\* These send a copy of the map after each item.
RunningFrequenciesBy(x) ==
  Is("runningFrequencies") /\ LET m == Add(st, Key(x), 1) IN Reply(m, <<m>>)
RunningCountBy(x) == Is("runningCount") /\ LET m == Add(st, Key(x), 1) IN Reply(m, <<m>>)
RunningSumBy(x) == Is("runningSum") /\ LET m == Add(st, Key(x), x) IN Reply(m, <<m>>)

\* The reservoir has room, or the i-th item replaces entry j < i.
TakeRandom(x) ==
  /\ Is("takeRandom")
  /\ IF Len(st) < op.n THEN Reply(Append(st, x), << >>)
     ELSE \E j \in 0..Len(input) :
            Reply(IF j < op.n THEN [st EXCEPT ![j + 1] = x] ELSE st, << >>)

\* Sort.  sort.Slice is not stable: any permutation in order of the keys.
Sort(x) == Is("sort") /\ Reply(Append(st, x), << >>)
Permuted(s, f) == [i \in DOMAIN s |-> s[f[i]]]
Sortings(s) ==
  {Permuted(s, f) : f \in {g \in Bijection(DOMAIN s, DOMAIN s) :
     \A i, j \in DOMAIN s : i < j => Key(s[g[i]]) <= Key(s[g[j]])}}

-----------------------------------------------------------------------------
(* Terminals.  st holds the variables the callback closes over. *)

Collect(x) == Is("collect") /\ Reply(Append(st, x), << >>)
First(x) == Is("first") /\ Return(<<x>>, << <<x>> >>, "self")
LastOf(x) == Is("last") /\ Reply(<<x>>, << >>)
Count(x) == Is("count") /\ Reply(st + 1, << >>)
Sum(x) == Is("sum") /\ Reply(st + x, << >>)

\* A second item is an error of the callback.
Single(x) ==
  /\ Is("single")
  /\ IF st = << >> THEN Reply(<<x>>, << >>) ELSE Return(st, << >>, "err")

\* Any and All keep 1 once a matching, or a non-matching, item has been seen.
AnyMatch(x) == Is("any") /\ IF Pred(x) THEN Return(1, <<TRUE>>, "self") ELSE Reply(0, << >>)
AllMatch(x) == Is("all") /\ IF ~Pred(x) THEN Return(1, <<FALSE>>, "self") ELSE Reply(0, << >>)
Find(x) == Is("find") /\ IF Pred(x) THEN Return(<<x>>, << <<x>> >>, "self") ELSE Reply(st, << >>)

\* Min, MinBy; Max and MaxBy are Min with less turned round.
MinOf(x) ==
  /\ Is("min")
  /\ Reply(IF st = << >> \/ Key(x) < Key(st[1]) THEN <<x>> ELSE st, << >>)
MinMax(x) ==
  /\ Is("minMax")
  /\ Reply(IF st = << >> THEN <<x, x>>
           ELSE <<IF Key(x) < Key(st[1]) THEN x ELSE st[1],
                  IF Key(st[2]) < Key(x) THEN x ELSE st[2]>>, << >>)

\* What the terminal computes when the run has ended without its callback
\* having stopped it: the possible results.
Results ==
  CASE Is("any") -> {FALSE} [] Is("all") -> {TRUE} [] OTHER -> {st}

\* Mutant: the context is looked at before each item of a micro-batch.
RunFailedMutant ==
  /\ pc = "recv" /\ op.kind \in Terminals
  /\ \E v \in Results :
       Return(st, IF op.kind \in Swallowing \cup {"collect", "count", "sum"} THEN <<v>> ELSE << >>, "ctx")
  /\ UNCHANGED <<op, kept, base, input, ahead, times, marks, sent, timeVars>>

\* The run fails or is cancelled, which the terminal sees between two
\* micro-batches: one that swallows the error returns what it has, Collect,
\* Count and Sum return it with the error, the others return nothing with it.
RunFailed ==
  /\ pc = "recv" /\ ahead = 0 /\ op.kind \in Terminals
  /\ \E v \in Results :
       Return(st, IF op.kind \in Swallowing \cup {"collect", "count", "sum"} THEN <<v>> ELSE << >>, "ctx")
  /\ UNCHANGED <<op, kept, base, input, ahead, times, marks, sent, timeVars>>

Folding(x) ==
  /\ \/ Scan(x) \/ Reduce(x) \/ ReduceWhile(x) \/ GroupBy(x) \/ FrequenciesBy(x)
     \/ ToMap(x) \/ RunningFrequenciesBy(x) \/ RunningCountBy(x) \/ RunningSumBy(x)
     \/ TakeRandom(x) \/ Sort(x)
     \/ Collect(x) \/ First(x) \/ LastOf(x) \/ Count(x) \/ Sum(x) \/ Single(x)
     \/ AnyMatch(x) \/ AllMatch(x) \/ Find(x) \/ MinOf(x) \/ MinMax(x)
  /\ UNCHANGED kept
=============================================================================
