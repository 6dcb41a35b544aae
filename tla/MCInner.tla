------------------------------- MODULE MCInner -------------------------------
(***************************************************************************)
(* Small instances of Inner.                                               *)
(***************************************************************************)
EXTENDS Inner

Op(names, hooked, max) == [name : names, hooked : hooked, max : max]
MCOps ==
  Op({"concat", "amb", "catch", "using", "tapError", "finally", "ignore"}, {FALSE}, {0})
  \cup Op({"concat", "amb", "materialize"}, {TRUE}, {0})
  \cup Op({"retry"}, {FALSE}, {2}) \cup Op({"retry"}, {TRUE}, {0})
MCPipelines == [n : {2}, end : {"ok", "err"}] \cup [n : {1}, end : {"canceled", "never"}]
\* Up to the order of the factories, which Amb does not tell apart.
MCEndings == {e \in [Factories -> {"ok", "err", "never", "late"}] :
              <<e[1], e[2]>> \in {<<"ok", "ok">>, <<"ok", "err">>, <<"ok", "late">>, <<"err", "never">>, <<"never", "late">>}}
=============================================================================
