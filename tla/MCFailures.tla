----------------------------- MODULE MCFailures -----------------------------
(***************************************************************************)
(* Small instances of Failures.                                            *)
(***************************************************************************)
EXTENDS Failures

(* Stages: each handler and each panic action at least once. *)
RetryMax(n) == [kind |-> "max", n |-> n, bo |-> TRUE]
IfTransient == [kind |-> "if", n |-> 0, bo |-> TRUE]
NoBackoff == [kind |-> "max", n |-> 1, bo |-> FALSE]

\* RetryMax in a stage restarted over a window, with pauses.
Windowed == [layers |-> <<RetryMax(1)>>, base |-> "halt", maxRestarts |-> 2, window |-> 2,
             onPanic |-> "restart", panicOnly |-> FALSE, pause |-> TRUE]

MCStages == {
  Windowed,
  \* RetryIfThen(Skip) under RestartAlways
  [Windowed EXCEPT !.layers = <<IfTransient>>, !.base = "skip", !.maxRestarts = 1,
                   !.window = 0, !.pause = FALSE],
  \* RetryThen(RetryIfThen(Return)) under RestartOnPanic
  [Windowed EXCEPT !.layers = <<RetryMax(1), IfTransient>>, !.base = "return", !.window = 0,
                   !.panicOnly = TRUE, !.pause = FALSE],
  \* a retry without a backoff function under RestartOnError
  [Windowed EXCEPT !.layers = <<NoBackoff>>, !.maxRestarts = 1, !.window = 0,
                   !.onPanic = "propagate"],
  \* a replacement of the wrong type, panics skipped
  [Windowed EXCEPT !.layers = << >>, !.base = "mistyped", !.maxRestarts = 0,
                   !.window = 0, !.onPanic = "skip"] }

\* Effects: a store that outlives the runs, one per run, a dry run whose
\* output is a segment, and a segment of one item whose effect is real.
Effect(idem, len, max) ==
  [idem |-> idem, len |-> len, max |-> max, dry |-> FALSE, required |-> TRUE, seg |-> FALSE]
MCPolicies ==
  {Effect("store", 2, 2), [Effect("run", 3, 1) EXCEPT !.required = FALSE],
   [Effect("none", 3, 1) EXCEPT !.seg = TRUE, !.dry = TRUE],
   [Effect("none", 1, 1) EXCEPT !.seg = TRUE]}
\* Items 1 and 3 have the same key, item 2 the empty one.
MCKeyOf(i) == IF i = 2 THEN 0 ELSE 1
=============================================================================
