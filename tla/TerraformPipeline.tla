-------------------------- MODULE TerraformPipeline --------------------------
(***************************************************************************)
(* The Terraform pipeline (merlya/pipelines/terraform.py) on the engine of *)
(* ChangePipeline.  Terraform itself is external: it plans the difference  *)
(* between the configuration and its state file, and applying a plan adds  *)
(* to both the infrastructure and the state file.                          *)
(***************************************************************************)
EXTENDS ChangePipeline

CONSTANT Resources

VARIABLES config,    \* the resources the configuration declares
          world,     \* how many instances of each resource exist
          state,     \* the resources in terraform.tfstate, none: no file
          plan,      \* the resources the plan file will create and destroy
          backup,    \* _state_backup: the copied state, {} for None
          before     \* history: world when apply() began

infra == <<config, world, state, plan, backup, before>>

Init == /\ EngineInit
        /\ config \in SUBSET Resources
        /\ state \in SUBSET Resources
        /\ world = [r \in Resources |-> IF r \in state THEN 1 ELSE 0]
        /\ plan = [create |-> {}, destroy |-> {}]
        /\ backup = {}
        /\ before = world

(* What terraform finds of a state file: it looks up the resources of the  *)
(* file, and knows of no others.  What it plans is the difference to them. *)
Present(tracked) == {r \in tracked : world[r] > 0}
PlanFor(tracked) == [create |-> config \ Present(tracked), destroy |-> Present(tracked) \ config]

(* A set of the plan's resources has been carried out.                     *)
CarriedOut(p, done, tracked) ==
    /\ world' = [r \in Resources |->
                   IF r \in done \cap p.create THEN world[r] + 1
                   ELSE IF r \in done \cap p.destroy THEN world[r] - 1
                   ELSE world[r]]
    /\ state' = (tracked \cup (done \cap p.create)) \ (done \cap p.destroy)

(* plan() writes the plan file, diff() shows it.                           *)
Plan == /\ \/ PlanEnds(TRUE) /\ plan' = PlanFor(state)
           \/ PlanEnds(FALSE) /\ UNCHANGED plan
        /\ UNCHANGED <<config, world, state, backup, before>>

Diff == (\E ok \in BOOLEAN : DiffEnds(ok)) /\ UNCHANGED infra

Hitl == (\E ok \in BOOLEAN : Answer(ok)) /\ UNCHANGED infra

(* _backup_state: nothing to copy before the first apply.                  *)
Backup == /\ backup' = state
          /\ before' = world

(* Mutant: a plan that was carried out in part counts as applied.          *)
M_Apply ==
    /\ stage = "apply"
    /\ Backup
    /\ \E done \in SUBSET (plan.create \cup plan.destroy) :
         /\ CarriedOut(plan, done, state)
         /\ ApplyEnds(TRUE, TRUE)
    /\ UNCHANGED <<config, plan>>

(* apply() backs the state up and carries out the plan file, completely or *)
(* in part; its rollback data is never empty.                              *)
Apply ==
    /\ stage = "apply"
    /\ Backup
    /\ \E done \in SUBSET (plan.create \cup plan.destroy) :
         /\ CarriedOut(plan, done, state)
         /\ \/ done = plan.create \cup plan.destroy /\ ApplyEnds(TRUE, TRUE)
            \/ ApplyEnds(FALSE, TRUE)
    /\ UNCHANGED <<config, plan>>

(* terraform's output cannot be decoded, say: apply() raises after it ran. *)
ApplyRaises ==
    /\ stage = "apply"
    /\ Backup
    /\ \E done \in SUBSET (plan.create \cup plan.destroy) : CarriedOut(plan, done, state)
    /\ StageRaises
    /\ UNCHANGED <<config, plan>>

PostCheck == (\E ok \in BOOLEAN : PostCheckEnds(ok)) /\ UNCHANGED infra

(* rollback() copies the backup over the state file and runs               *)
(* `terraform apply -auto-approve`, with the configuration as it is.       *)
Rollback ==
    /\ stage = "rollback"
    /\ \/ /\ backup # {}
          /\ \E done \in SUBSET (PlanFor(backup).create \cup PlanFor(backup).destroy) :
               /\ CarriedOut(PlanFor(backup), done, Present(backup))
               /\ \/ /\ done = PlanFor(backup).create \cup PlanFor(backup).destroy
                     /\ RollbackEnds(TRUE)
                  \/ RollbackEnds(FALSE)
       \/ backup = {} /\ RollbackEnds(FALSE) /\ UNCHANGED <<world, state>>
    /\ UNCHANGED <<config, plan, backup, before>>

Raises == stage \in {"plan", "diff", "hitl", "post_check"} /\ StageRaises /\ UNCHANGED infra

Working == Plan \/ Diff \/ Hitl \/ Apply \/ ApplyRaises \/ PostCheck \/ Rollback \/ Raises

-----------------------------------------------------------------------------
TypeOK == /\ EngineTypeOK
          /\ config \subseteq Resources /\ state \subseteq Resources
          /\ world \in [Resources -> 0..2]
          /\ plan \in [create : SUBSET Resources, destroy : SUBSET Resources]
          /\ backup \subseteq Resources

(* The infrastructure was changed; it and the state file are what the      *)
(* configuration says, one instance of each resource.  rollback() applies  *)
(* the unchanged configuration: what it reports as undone is the change    *)
(* made complete, with nothing that the configuration does not declare,    *)
(* and no more than one instance too many, of a resource that the state    *)
(* did not have before (the failed apply had created it).                  *)
Touched == world # before
Achieved == /\ world = [r \in Resources |-> IF r \in config THEN 1 ELSE 0]
            /\ state = config
Undone == /\ state = config
          /\ \A r \in Resources : r \notin config => world[r] = 0
          /\ \A r \in config : world[r] = 1 \/ (world[r] = 2 /\ r \notin backup)
=============================================================================
