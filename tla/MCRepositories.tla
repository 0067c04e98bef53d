---------------------------- MODULE MCRepositories ---------------------------
(* Repositories on a small instance: one bot and two callers.             *)
EXTENDS Repositories, TLC

CONSTANTS k1, k2, c1, c2, s1, s2, r1, r2, i1, i2, i3

MCConfig  == {k1}
MCSession == {k2}
MCCaller  == {c1, c2}
MCState   == {s1, s2}
MCRest    == {r1, r2}
MCId      == {i1, i2, i3}

Symmetry == Permutations(MCCaller) \cup Permutations(MCState)
            \cup Permutations(MCRest) \cup Permutations(MCId)
==============================================================================
