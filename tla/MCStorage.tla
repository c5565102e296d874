----------------------------- MODULE MCStorage ------------------------------
(* The values of Storage's constants for TLC. *)
EXTENDS Storage, TLC

CONSTANTS x1, x2, x3

FirstDigits == x1 :> 1 @@ x2 :> 1 @@ x3 :> 0
LastDigits  == x1 :> 2 @@ x2 :> 0 @@ x3 :> 1
Separator   == <<1, 2>>
=============================================================================
