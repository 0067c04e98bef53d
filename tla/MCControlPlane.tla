---------------------------- MODULE MCControlPlane ---------------------------
(* ControlPlane on a small instance: three RPCs about one bot.             *)
EXTENDS ControlPlane, TLC

CONSTANTS b1, c1, c2, c3, s1, s2

MCBot == {b1}
MCCall2 == {c1, c2}
MCCall3 == {c1, c2, c3}
MCSetting == {s1, s2}
MCSymmetry == Permutations(MCCall3) \cup Permutations(MCSetting)
==============================================================================
