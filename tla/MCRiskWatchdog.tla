---------------------------- MODULE MCRiskWatchdog ---------------------------
(* RiskWatchdog on a small instance: the default limit, one below the 3    *)
(* percent floor of SLOW, and one above it.                                *)
EXTENDS RiskWatchdog

CONSTANTS b1, b2

MCBot == {b1, b2}
MCDrawdown == {0, 4, 8}
MCLimit == {0, 2, 8}
==============================================================================
