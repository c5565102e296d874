--------------------------- MODULE MCInstancePool ---------------------------
(* Instances of InstancePool for TLC. *)
EXTENDS InstancePool

CONSTANTS i1, r1, r2, c1, c2

OneInstance     == {i1}
TwoRequests     == {r1, r2}
NoRequests      == {}
TwoCapabilities == {c1, c2}
=============================================================================
