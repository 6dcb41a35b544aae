---------------------------- MODULE MCOperators -----------------------------
(* Every operator with small parameters, over streams of up to four items.  *)
EXTENDS Operators

NonZero(x) == x # 0
Mod3(x) == x % 3

O(k, n) == [kind |-> k, n |-> n, step |-> 1]
AllOps ==
  {O(k, 0) : k \in {"take", "takeRandom", "takeWhile", "dropWhile", "takeUntil", "dropUntil",
     "filter", "reject", "randomSample", "tap", "withIndex", "pairwise", "intersperse",
     "mapIntersperse", "defaultIfEmpty", "distinctBy", "dedupe", "dedupeConsecutive",
     "dedupeExternal", "scan", "reduce", "reduceWhile", "groupBy", "frequencies", "toMap",
     "runningFrequencies", "runningCount", "runningSum", "sort", "unbatch", "within",
     "chunkBy", "chunkWhile", "bufferWith", "timestamp", "timeInterval"} \cup Terminals}
  \cup {O(k, 2) : k \in {"take", "drop", "dropLast", "takeEvery", "dropEvery", "mapEvery",
     "dedupeWindow", "takeRandom", "batch", "batchDrop", "mapBatch", "lookupBy",
     "batchTimeout", "mapBatchTimeout", "sample", "debounce", "session", "throttle", "dedupeTTL"}}
  \cup {O("batchMeasure", 3), O("slidingWindow", 2), O("single", 1),
        [kind |-> "slidingWindow", n |-> 3, step |-> 2]}
=============================================================================
