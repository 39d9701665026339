----------------------------- MODULE MCMetrics ------------------------------
(***************************************************************************)
(* An instance of Metrics with two of the helper sets.                     *)
(***************************************************************************)
EXTENDS Metrics

TwoSets == <<"guild_keys", "channel_keys">>
=============================================================================
