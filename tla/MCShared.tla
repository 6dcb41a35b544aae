------------------------------ MODULE MCShared ------------------------------
(***************************************************************************)
(* Small instances of Shared.                                              *)
(*                                                                         *)
(* Outboxes: each strategy with all senders on one mutex, and drop-oldest  *)
(* over two shards of which two senders share one.  Breakers: a serial     *)
(* stage with a half-open deadline and a concurrent one without.           *)
(***************************************************************************)
EXTENDS Shared

CONSTANTS a, b, c  \* senders of an outbox, workers behind a breaker

MCOutboxes ==
  LET one == [s \in {a, b, c} |-> 0]
      two == [s \in {a, b, c} |-> IF s = c THEN 1 ELSE 0]
  IN [overflow : {"block", "newest"}, shard : {one}, cap : {1}]
       \cup [overflow : {"oldest"}, shard : {two}, cap : 1..2]
MCBreakers ==
  {[workers |-> {a}, failureThreshold |-> 3, cooldown |-> 4, halfOpenProbes |-> 3, halfOpenTimeout |-> 2],
   [workers |-> {a, b, c}, failureThreshold |-> 3, cooldown |-> 2, halfOpenProbes |-> 2, halfOpenTimeout |-> 0]}
=============================================================================
