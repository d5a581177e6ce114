----------------------------- MODULE Transcript -----------------------------
(***************************************************************************)
(* What the session manager promises its callers: a current session that   *)
(* knows all it is told, and stored ones, each saved in one step as it is  *)
(* known at that moment and loaded from what was saved of it, less what    *)
(* cannot be read.  Otherwise only a session that is being ended may       *)
(* forget, and only what is not saved dies with it.                        *)
(***************************************************************************)
CONSTANTS Ids, None

VARIABLES current, known, ending, saved

Init == current = None /\ known = {} /\ ending = FALSE /\ saved = [id \in {} |-> {}]

Begin(id) == /\ ~ending /\ id \notin {current} \cup DOMAIN saved
             /\ current' = id /\ known' = {}
             /\ UNCHANGED <<ending, saved>>

Tell == /\ current # None /\ ~ending
        /\ \E message \in known' : known' = known \cup {message}
        /\ UNCHANGED <<current, ending, saved>>

Save == /\ current # None
        /\ saved' = [id \in DOMAIN saved \cup {current} |-> IF id = current THEN known ELSE saved[id]]
        /\ UNCHANGED <<current, known, ending>>

Open(id) == /\ ~ending /\ id \in DOMAIN saved
            /\ current' = id /\ known' \subseteq saved[id]
            /\ UNCHANGED <<ending, saved>>

End == /\ current # None /\ ~ending
       /\ ending' = TRUE /\ known' \subseteq known
       /\ UNCHANGED <<current, saved>>

(* At the end of an end, or because the process dies.                      *)
Leave == /\ current' = None /\ known' = {} /\ ending' = FALSE
         /\ UNCHANGED saved

vars == <<current, known, ending, saved>>

Next == Tell \/ Save \/ End \/ Leave \/ \E id \in Ids : Begin(id) \/ Open(id)
=============================================================================
