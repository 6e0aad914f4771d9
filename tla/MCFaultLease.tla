---------------------------- MODULE MCFaultLease ----------------------------
(* FaultLease on small instances: the programs that share the lease.       *)
EXTENDS FaultLease, TLC

CONSTANTS g1, g2, g3, p1, s1, d1

NoOne      == {}
OneGated   == {g1}
ThreeGated == {g1, g2, g3}
OnePlain   == {p1}
OneSealed  == {s1}
OneDemo    == {d1}

\* Runs under FaultLease differ in their names only.
GatedSymmetry == Permutations(ThreeGated)
=============================================================================
