---------------------------- MODULE BashPipeline ----------------------------
(***************************************************************************)
(* The pipeline that runs shell commands on a host over SSH                *)
(* (merlya/pipelines/bash.py) on the engine of ChangePipeline.  Command i  *)
(* has effect i on the host; rollback command i undoes effect i.           *)
(***************************************************************************)
EXTENDS ChangePipeline

CONSTANTS Commands,      \* number of commands
          Rollbacks,     \* number of rollback commands
          Checks         \* number of post-check commands

BashAssumption == /\ Commands \in Nat \ {0} /\ Rollbacks \in Nat /\ Checks \in Nat
                  /\ Rollbacks <= Commands

VARIABLES effects,   \* what the commands have left on the host
          next,      \* the next command, rollback command or check to run
          errors     \* a rollback command or a check has failed

bash == <<effects, next, errors>>

Init == EngineInit /\ effects = {} /\ next = 1 /\ errors = FALSE

Restart == next' = 1 /\ errors' = FALSE

(* plan() blocks dangerous commands; diff() never fails.                   *)
Plan == (\E ok \in BOOLEAN : PlanEnds(ok)) /\ UNCHANGED bash

Diff == DiffEnds(TRUE) /\ UNCHANGED bash

Hitl == (\E ok \in BOOLEAN : Answer(ok)) /\ UNCHANGED bash

(* A command of apply() succeeds.                                          *)
Command ==
    /\ stage = "apply" /\ next <= Commands
    /\ effects' = effects \cup {next}
    /\ next' = next + 1
    /\ UNCHANGED <<engine, errors>>

(* A command fails, or the connection does, having taken effect or not:    *)
(* apply() returns a failure.  An exception before the first command has   *)
(* finished leaves nothing executed, but the dictionary of rollback data   *)
(* still has its key.                                                      *)
CommandFails ==
    /\ stage = "apply" /\ next <= Commands
    /\ effects' \in {effects, effects \cup {next}}
    /\ ApplyEnds(FALSE, TRUE)
    /\ Restart

Applied ==
    /\ stage = "apply" /\ next > Commands
    /\ ApplyEnds(TRUE, TRUE)
    /\ Restart
    /\ UNCHANGED effects

(* A check exits with zero or not; a connection error ends the checks.     *)
Check ==
    /\ stage = "post_check" /\ next <= Checks
    /\ next' = next + 1
    /\ errors' \in {errors, TRUE}
    /\ UNCHANGED <<engine, effects>>

Checked ==
    /\ stage = "post_check"
    /\ \/ next > Checks /\ PostCheckEnds(~errors)
       \/ next <= Checks /\ PostCheckEnds(FALSE)
    /\ Restart
    /\ UNCHANGED effects

(* Mutant: after a failed rollback command the same one is tried again.    *)
M_RollbackRetries ==
    /\ stage = "rollback" /\ next <= Rollbacks
    /\ \/ effects' = effects \ {next} /\ next' = next + 1 /\ UNCHANGED errors
       \/ UNCHANGED <<effects, next>> /\ errors' = ~errors
    /\ UNCHANGED engine

(* rollback() runs every rollback command, whether or not its command has  *)
(* run, and goes on after one that fails.                                  *)
Rollback ==
    /\ stage = "rollback" /\ next <= Rollbacks
    /\ \/ effects' = effects \ {next} /\ UNCHANGED errors
       \/ effects' \in {effects, effects \ {next}} /\ errors' = TRUE
    /\ next' = next + 1
    /\ UNCHANGED engine

(* It returns, because a connection error cut it short or no commands were *)
(* defined (failure), or after the last command.                           *)
RolledBack ==
    /\ stage = "rollback"
    /\ \/ next > Rollbacks /\ RollbackEnds(Rollbacks > 0 /\ ~errors)
       \/ next <= Rollbacks /\ RollbackEnds(FALSE)
    /\ UNCHANGED bash

(* Only before apply can an Exception reach the engine: apply, post_check  *)
(* and rollback catch theirs.                                              *)
Raises == stage \in {"plan", "diff", "hitl"} /\ StageRaises /\ UNCHANGED bash

Working == \/ Plan \/ Diff \/ Hitl \/ Command \/ CommandFails \/ Applied
           \/ Check \/ Checked \/ Rollback \/ RolledBack \/ Raises

-----------------------------------------------------------------------------
TypeOK == /\ EngineTypeOK
          /\ effects \subseteq 1..Commands
          /\ next \in 1..(1 + CASE stage = "apply" -> Commands
                             [] stage = "post_check" -> Checks
                             [] stage \in {"done", "cancelled"} -> Commands + Checks
                             [] OTHER -> Rollbacks)
          /\ errors \in BOOLEAN

(* The host was changed; the change is complete; it is undone, which a     *)
(* rollback can only promise with a rollback command for each command.     *)
Touched == effects # {}
Achieved == effects = 1..Commands
Undone == Rollbacks = Commands => effects = {}
=============================================================================
