------------------------------ MODULE MCDiamond ------------------------------
(* Every fan-out joined by every fan-in, Share and Unzip, which route as    *)
(* Broadcast does, by two.                                                  *)
EXTENDS Diamond

AllKinds ==
  [out : {"broadcast", "balance", "keyedBalance", "partition", "mapResult", "sources"},
   in : {"merge", "zip", "combineLatest", "latestFrom", "sampleWith", "sequenceEqual", "each"}]
  \cup [out : {"share", "unzip"}, in : {"zip", "each"}]
OneCombine == [out : {"broadcast"}, in : {"combineLatest"}]
=============================================================================
