---------------------------- MODULE AnsiblePipeline ----------------------------
(***************************************************************************)
(* The Ansible pipeline (merlya/pipelines/ansible.py) on the engine of     *)
(* ChangePipeline: one ansible command, whose task i has effect i on the   *)
(* inventory, and a rollback playbook that, run to its end, undoes them.   *)
(***************************************************************************)
EXTENDS ChangePipeline

CONSTANTS Commands,      \* number of tasks
          Rollbacks,     \* 0: no rollback playbook
          Checks         \* number of check tasks

VARIABLES effects,   \* what the tasks have left on the inventory
          next,      \* the next check task
          errors     \* a check task has failed

play == <<effects, next, errors>>
All == 1..Commands

Init == EngineInit /\ effects = {} /\ next = 1 /\ errors = FALSE

(* plan() checks the parameters of the mode and that ansible runs; diff()  *)
(* runs the command in check mode.                                         *)
Plan == (\E ok \in BOOLEAN : PlanEnds(ok)) /\ UNCHANGED play

Diff == (\E ok \in BOOLEAN : DiffEnds(ok)) /\ UNCHANGED play

Hitl == (\E ok \in BOOLEAN : Answer(ok)) /\ UNCHANGED play

(* apply() runs the command: it exits with zero after all its tasks, or    *)
(* fails, or its output cannot be decoded, after any of them.              *)
Apply ==
    /\ stage = "apply"
    /\ \/ effects' = All /\ ApplyEnds(TRUE, TRUE)
       \/ effects' \in SUBSET All /\ \E hasData \in BOOLEAN : ApplyEnds(FALSE, hasData)
    /\ UNCHANGED <<next, errors>>

(* A check task passes, fails or raises, and the next one is run.          *)
Check ==
    /\ stage = "post_check" /\ next <= Checks
    /\ next' = next + 1
    /\ errors' \in {errors, TRUE}
    /\ UNCHANGED <<engine, effects>>

Checked == stage = "post_check" /\ next > Checks /\ PostCheckEnds(~errors) /\ UNCHANGED play

(* rollback() fails without a rollback playbook, and runs it otherwise.    *)
Rollback ==
    /\ stage = "rollback"
    /\ \/ Rollbacks > 0 /\ effects' = {} /\ RollbackEnds(TRUE)
       \/ effects' \in (IF Rollbacks > 0 THEN SUBSET effects ELSE {effects}) /\ RollbackEnds(FALSE)
    /\ UNCHANGED <<next, errors>>

(* The stages catch their exceptions, plan included; the confirmation can  *)
(* raise one.                                                              *)
Raises == stage = "hitl" /\ StageRaises /\ UNCHANGED play

Working == Plan \/ Diff \/ Hitl \/ Apply \/ Check \/ Checked \/ Rollback \/ Raises

-----------------------------------------------------------------------------
TypeOK == /\ EngineTypeOK
          /\ effects \subseteq All /\ next \in 1..Checks + 1 /\ errors \in BOOLEAN

(* The inventory was changed; the change is complete; it is undone.        *)
Touched == effects # {}
Achieved == effects = All
Undone == effects = {}
=============================================================================
