----------------------------- MODULE MCRouting ------------------------------
(* The values of Routing's constants for TLC. *)
EXTENDS Routing, TLC

CONSTANTS p1, p2, k1, k2, x1, x2, t1, t2, t3

KdnRank   == k1 :> 1 @@ k2 :> 2
ProxyRank == p1 :> 1 @@ p2 :> 2
Lengths   == x1 :> 1 @@ x2 :> 2
Transfers == t1 :> 2 @@ t2 :> 1 @@ t3 :> 1
Services  == t1 :> 1 @@ t2 :> 2 @@ t3 :> 1
=============================================================================
