----------------------------- MODULE MCPipeline -----------------------------
(***************************************************************************)
(* Chains of stages on which TLC checks Pipeline.  Every channel has one   *)
(* slot, so that a stage blocks on its output as soon as the next one      *)
(* lags, and every pipeline has one consumer.                              *)
(***************************************************************************)
EXTENDS Pipeline

\* An early exit behind fast-path stages.
ChainEarly == <<"slice", "fastmap", "fastfilter", "take", "fastforeach">>
\* A source that may go on for ever, and every kind of batching.
ChainCancel == <<"generate", "map", "fused">>
\* A filter in front of a stage that leaves when the terminal fails.
ChainStuck == <<"slice", "fastfilter", "fastmap", "foreach">>

OneSlot == [c \in Chans |-> 1]
OneConsumer == [c \in Chans |-> 1]
=============================================================================
