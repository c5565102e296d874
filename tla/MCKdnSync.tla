------------------------------ MODULE MCKdnSync ------------------------------
(* Instances of KdnSync for TLC. *)
EXTENDS KdnSync

CONSTANTS k1, k2, x1, x2

OneKdn   == {k1}
TwoKdns  == {k1, k2}
OneKid   == {x1}
TwoKids  == {x1, x2}
NoKids   == {}
=============================================================================
