---------------------------- MODULE MCTelemetryHub ---------------------------
(* TelemetryHub on a small instance: one stream of all bots, and one that  *)
(* filters.                                                                *)
EXTENDS TelemetryHub, TLC

CONSTANTS b1, b2, s1, s2

MCBot    == {b1, b2}
MCStream == {s1, s2}
MCFilter == (s1 :> {}) @@ (s2 :> {b1})
==============================================================================
