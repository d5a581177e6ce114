------------------------------ MODULE MCServices ------------------------------
(* Instances of Services for TLC: two of whatever acts at the same time,   *)
(* which may change places.                                                *)
EXTENDS Services, TLC

CONSTANTS a1, a2

Acting == Permutations({a1, a2})

(* A reference with a colon, one that looks like a secret, and a name.     *)
Widths == ("colon" :> 3) @@ ("key" :> 2) @@ ("plain" :> 1)
=============================================================================
