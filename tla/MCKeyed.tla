------------------------------- MODULE MCKeyed -------------------------------
(* Items 1, 2 and 4 have one key, item 3 another. *)
EXTENDS Keyed

TwoKeys(i) == IF i = 3 THEN 0 ELSE 1

M(kind, keyed, flat, ttl, fn, store) ==
  [kind |-> kind, keyed |-> keyed, flat |-> flat, ttl |-> ttl, fn |-> fn, store |-> store,
   len |-> IF ttl = "none" THEN 3 ELSE 4]
\* MapWithKey and FlatMapWith of every kind, the serial stages with every
\* TTL, and a sweep beside another worker.
AllModes ==
  {M(k, keyed, ~keyed, "none", "getset", FALSE) :
     k \in {"serial", "concurrent", "ordered"}, keyed \in BOOLEAN}
  \cup {M("serial", TRUE, FALSE, ttl, fn, store) :
     ttl \in {"key", "state"}, fn \in {"getset", "update"}, store \in BOOLEAN}
  \cup {M("serial", FALSE, FALSE, "state", fn, store) :
     fn \in {"getset", "update"}, store \in BOOLEAN}
  \cup {[M("concurrent", TRUE, FALSE, "key", "getset", FALSE) EXCEPT !.len = 3]}
OrderedOnly == {M("ordered", FALSE, FALSE, "none", "getset", FALSE)}
=============================================================================
