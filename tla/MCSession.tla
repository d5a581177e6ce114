----------------------------- MODULE MCSession -----------------------------
(* Instances of Session for TLC: many undisturbed calls, few disturbed.    *)
EXTENDS Session, TLC

CONSTANTS s1, s2

Few == [ids |-> {s1}, messages |-> 1]
Many == [ids |-> {s1, s2}, messages |-> 3]

Disturbed == ({} :> Many) @@ ({"overlap", "cancel"} :> Few) @@ ({"others"} :> Few)
Overlapping == {"overlap"} :> Many
=============================================================================
