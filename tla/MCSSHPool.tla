----------------------------- MODULE MCSSHPool -----------------------------
(***************************************************************************)
(* Instances of SSHPool for TLC: connections of several users to one host. *)
(***************************************************************************)
EXTENDS SSHPool, TLC

CONSTANT host

SameHost == [k \in Keys |-> host]
SameHostMatching == [h \in {host} |-> Keys]

Symmetry == Permutations(Tasks) \cup Permutations(Conns) \cup Permutations(Keys)

(* The tasks are interchangeable: where one sweep is allowed it does not   *)
(* matter who does it.  The others disconnect hosts.  SYMMETRY would not be*)
(* sound for liveness.                                                     *)
Sweeper == CHOOSE t \in Tasks : TRUE
LiveNext == \/ \E t \in Tasks :
                  \/ \E k \in Keys, retry \in BOOLEAN : Execute(t, k, retry)
                  \/ GetConnection(t) \/ RunAndRetry(t) \/ Disconnecting(t) \/ Cancel(t)
            \/ \E t \in Tasks \ {Sweeper}, h \in Hosts : Disconnect(t, h)
            \/ DisconnectAll(Sweeper)
            \/ Environment
LiveSpec == Init /\ [][LiveNext]_vars /\ Fairness
=============================================================================
