------------------------------ MODULE SchemaFile ------------------------------
(***************************************************************************)
(* What opening the database promises to the processes that share it: the  *)
(* file goes from its initial schema version to the current one in one     *)
(* step and stays there, messages are saved under the current schema only  *)
(* and are never lost -- except from a file that began at version 1, whose *)
(* sessions may be rebuilt once more after the upgrade.                    *)
(***************************************************************************)
EXTENDS Naturals

CONSTANTS InitialVersions, Target

VARIABLES began, version, messages

Init == began \in InitialVersions /\ version = began /\ messages = 0

Upgrade == version # Target /\ version' = Target /\ UNCHANGED <<began, messages>>

Rebuild == began = 1 /\ version = Target /\ messages' = 0 /\ UNCHANGED <<began, version>>

Save == version = Target /\ messages' = messages + 1 /\ UNCHANGED <<began, version>>

Next == Upgrade \/ Rebuild \/ Save

Spec == Init /\ [][Next]_<<began, version, messages>>
=============================================================================
