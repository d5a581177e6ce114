----------------------------- MODULE SecretStore -----------------------------
(***************************************************************************)
(* The secrets: their values in the keyring of the system or, when there is*)
(* none, in the memory of the process; their names, which the keyring does *)
(* not list, in an index file; and the commands and prompts over both.     *)
(***************************************************************************)
EXTENDS Naturals

CONSTANTS Elevations,   \* names "elevation:<host>:password"
          OtherNames, Values, None

VARIABLES keyring,   \* per name the value the system keeps
          index,     \* the names in the index file
          secure,    \* whether this process could use the keyring when it started
          memory,    \* the values it keeps otherwise
          listed,    \* its copy of the index, None while no process runs
          pending,   \* the names still to go through by the command under way
          saving,    \* the name for whose change the index is about to be written
          written,   \* history: the last value given to each name
          doubt      \* history: names changed without the keyring or the index following

secretVars == <<keyring, index, secure, memory, listed, pending, saving, written, doubt>>

SecretNames == Elevations \union OtherNames
Running == listed # None
Idle == Running /\ saving = None /\ pending = {}

Get(n) == IF secure THEN keyring[n] ELSE memory[n]

SecretsInit ==
    /\ keyring = [n \in SecretNames |-> None] /\ index = {} /\ listed = None
    /\ secure = FALSE /\ memory = keyring /\ pending = {} /\ saving = None
    /\ written = keyring /\ doubt = {}

-----------------------------------------------------------------------------
(* _check_keyring, _load_secret_names: an index that others can read, whose*)
(* HMAC is not that of this machine, or that is not JSON is not used.      *)
Open(works, accepted) ==
    /\ ~Running
    /\ secure' = works /\ memory' = [n \in SecretNames |-> None]
    /\ listed' = IF accepted THEN index ELSE {}
    /\ doubt' = IF accepted THEN doubt ELSE doubt \union index
    /\ UNCHANGED <<keyring, index, pending, saving, written>>

(* set: a keyring that refuses raises before anything has changed.         *)
SetSecret(n, v) ==
    /\ Idle
    /\ IF secure THEN keyring' = [keyring EXCEPT ![n] = v] /\ UNCHANGED memory
                 ELSE memory' = [memory EXCEPT ![n] = v] /\ UNCHANGED keyring
    /\ listed' = listed \union {n} /\ saving' = n
    /\ written' = [written EXCEPT ![n] = v] /\ doubt' = doubt \union {n}
    /\ UNCHANGED <<index, secure, pending>>

(* Mutant: a name leaves the list although its value could not be removed. *)
M_Delete(n, ok) ==
    /\ IF secure => ok /\ keyring[n] # None
       THEN IF secure THEN keyring' = [keyring EXCEPT ![n] = None] /\ UNCHANGED memory
                      ELSE memory' = [memory EXCEPT ![n] = None] /\ UNCHANGED keyring
       ELSE UNCHANGED <<keyring, memory>>
    /\ listed' = listed \ {n} /\ saving' = n
    /\ written' = IF ok THEN [written EXCEPT ![n] = None] ELSE written
    /\ doubt' = doubt \union {n}

(* remove: deleting what the keyring does not have, or while it is locked, *)
(* fails, and the name stays.                                              *)
Delete(n, ok) ==
    IF secure => ok /\ keyring[n] # None
    THEN /\ IF secure THEN keyring' = [keyring EXCEPT ![n] = None] /\ UNCHANGED memory
                      ELSE memory' = [memory EXCEPT ![n] = None] /\ UNCHANGED keyring
         /\ listed' = listed \ {n} /\ saving' = n
         /\ written' = [written EXCEPT ![n] = None] /\ doubt' = doubt \union {n}
    ELSE UNCHANGED <<keyring, memory, listed, saving, written, doubt>>

(* /secret delete, which takes any name.                                   *)
DeleteSecret(n, ok) ==
    /\ Idle /\ Delete(n, ok)
    /\ UNCHANGED <<index, secure, pending>>

(* /secret clear-elevation: the listed names, one after the other.         *)
ClearElevation(names) ==
    /\ Idle /\ names \subseteq listed \intersect Elevations /\ names # {}
    /\ pending' = names
    /\ UNCHANGED <<keyring, index, secure, memory, listed, saving, written, doubt>>

ClearNext(n, ok) ==
    /\ n \in pending /\ saving = None
    /\ Delete(n, ok) /\ pending' = pending \ {n}
    /\ UNCHANGED <<index, secure>>

(* _save_secret_names replaces the file in one step; a failure to is       *)
(* logged.                                                                 *)
SaveIndex(ok) ==
    /\ saving # None /\ saving' = None
    /\ index' = IF ok THEN listed ELSE index
    /\ doubt' = IF ok /\ secure THEN doubt \ {saving} ELSE doubt
    /\ UNCHANGED <<keyring, secure, memory, listed, pending, written>>

(* The process ends, or dies before the index is written.                  *)
CloseSecrets ==
    /\ Running
    /\ listed' = None /\ pending' = {} /\ saving' = None
    /\ memory' = [n \in SecretNames |-> None]
    /\ UNCHANGED <<keyring, index, secure, written, doubt>>

SecretsNext ==
    \/ \E works, accepted \in BOOLEAN : Open(works, accepted)
    \/ \E n \in SecretNames : \/ \E v \in Values : SetSecret(n, v)
                             \/ \E ok \in BOOLEAN : DeleteSecret(n, ok) \/ ClearNext(n, ok)
    \/ \E names \in SUBSET Elevations : ClearElevation(names)
    \/ \E ok \in BOOLEAN : SaveIndex(ok)
    \/ CloseSecrets

-----------------------------------------------------------------------------
(* With the keyring, a process lists exactly the secrets it can read, and  *)
(* reads what was last written, whatever processes came before it; except  *)
(* for names whose last change was made without a keyring or without the   *)
(* index being saved, or that were in an index refused since (set, remove, *)
(* _save_secret_names, _load_secret_names).                                *)
ListedAreReadable ==
    Idle /\ secure => \A n \in SecretNames \ doubt : /\ n \in listed <=> Get(n) # None
                                                    /\ Get(n) = written[n]
=============================================================================
