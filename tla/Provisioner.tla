------------------------------ MODULE Provisioner ------------------------------
(***************************************************************************)
(* The provisioners (merlya/provisioners/base.py, AbstractProvisioner):    *)
(* the stages of ChangePipeline after a validation, with a rollback only   *)
(* if apply() returned data for it.  Here apply(), rollback() and the      *)
(* others are the operations of a backend, "hcl" for TerraformBackend or   *)
(* "mcp" for MCPBackend, each of which tracks what it has created.         *)
(***************************************************************************)
EXTENDS ChangePipeline

CONSTANT Resources

VARIABLES config,    \* the specifications given, or the resources declared
          world,     \* how many instances of each resource exist
          state,     \* terraform's state, or the _created_resources with an id
          plan,      \* what is to be created and destroyed
          backup,    \* not used by these backends
          before     \* history: world when apply() began

infra == <<config, world, state, plan, backup, before>>

Terraform == INSTANCE TerraformPipeline

(* MCPBackend keeps no state from one execution to the next.               *)
Init(b) ==
    /\ deps \in [dry_run : BOOLEAN, auto_rollback : BOOLEAN]
    /\ stage = "validate" /\ data = FALSE
    /\ result = [success |-> FALSE, aborted |-> "no", approved |-> FALSE, rollback |-> "none"]
    /\ config \in SUBSET Resources
    /\ state \in IF b = "hcl" THEN SUBSET Resources ELSE {{}}
    /\ world = [r \in Resources |-> IF r \in state THEN 1 ELSE 0]
    /\ plan = [create |-> {}, destroy |-> {}]
    /\ backup = {} /\ before = world

(* The credentials, `terraform init` and `terraform validate`, or the MCP  *)
(* server are in order, or they are not.                                   *)
Validate ==
    /\ stage = "validate"
    /\ \/ stage' = "plan" /\ UNCHANGED result
       \/ Abort
    /\ UNCHANGED <<deps, data, infra>>

(* The plan terraform makes with `-out`; the mcp backend's is to create an *)
(* instance for each specification.                                        *)
PlannedResources == Terraform!PlanFor(state)
PlannedInstances == [create |-> config, destroy |-> {}]

(* A plan without changes is a success that ends here.                     *)
Plan(b) ==
    /\ stage = "plan"
    /\ \/ /\ plan' = IF b = "hcl" THEN PlannedResources ELSE PlannedInstances
          /\ IF plan'.create \cup plan'.destroy = {}
             THEN /\ Finish([result EXCEPT !.success = TRUE, !.aborted = "plan"])
                  /\ UNCHANGED <<deps, data>>
             ELSE PlanEnds(TRUE)
       \/ PlanEnds(FALSE) /\ UNCHANGED plan
    /\ UNCHANGED <<config, world, state, backup, before>>

Diff == (\E ok \in BOOLEAN : DiffEnds(ok)) /\ UNCHANGED infra

(* The context has no `hitl`: nobody is asked, the answer is yes.          *)
Hitl == Answer(TRUE) /\ UNCHANGED infra

(* apply() or post_check() returned a failure.                             *)
StageFails(hasData) ==
    /\ data' = hasData
    /\ IF deps.auto_rollback /\ hasData
       THEN stage' = "rollback" /\ UNCHANGED result
       ELSE Finish(result)
    /\ UNCHANGED deps

(* TerraformBackend.apply carries out the plan file, and reads the state   *)
(* as rollback data only if that succeeds; output it cannot decode raises. *)
ApplyPlan ==
    \E done \in SUBSET (plan.create \cup plan.destroy) :
       /\ Terraform!CarriedOut(plan, done, state)
       /\ \/ /\ done = plan.create \cup plan.destroy
             /\ \E hasData \in BOOLEAN : ApplyEnds(TRUE, hasData)
          \/ StageFails(FALSE)
          \/ StageRaises

(* MCPBackend.apply creates one instance after the other and goes on after *)
(* one that fails.  An answer may be lost after the instance was created,  *)
(* and one that says success may hold no id, so that the instance is not   *)
(* found by the rollback.  An exception before an instance is asked for    *)
(* ends the loop without data for a rollback of those made so far.         *)
CreateInstances ==
    \E made \in SUBSET plan.create : \E answered \in SUBSET made : \E known \in SUBSET answered :
       /\ world' = [r \in Resources |-> IF r \in made THEN 1 ELSE 0]
       /\ state' = known
       /\ \/ answered = plan.create /\ ApplyEnds(TRUE, TRUE)
          \/ answered # plan.create /\ StageFails(TRUE)
          \/ made # plan.create /\ StageFails(FALSE)

Apply(b) ==
    /\ stage = "apply"
    /\ before' = world
    /\ IF b = "hcl" THEN ApplyPlan ELSE CreateInstances
    /\ UNCHANGED <<config, plan, backup>>

PostCheck ==
    /\ stage = "post_check"
    /\ PostCheckEnds(TRUE) \/ StageFails(data)
    /\ UNCHANGED infra

(* TerraformBackend.rollback destroys everything in the state; what it     *)
(* fails to destroy stays there.                                           *)
DestroyAll(done) == state' = state \ done

(* MCPBackend.rollback terminates the instances with an id, one after the  *)
(* other, and goes on after one that fails.                                *)
TerminateInstances(done) == UNCHANGED state

(* An operation that is reported as failed may have been done.             *)
Rollback(b) ==
    /\ stage = "rollback"
    /\ \E done \in SUBSET state :
          /\ world' = [r \in Resources |-> IF r \in done THEN 0 ELSE world[r]]
          /\ IF b = "hcl" THEN DestroyAll(done) ELSE TerminateInstances(done)
          /\ \E ok \in BOOLEAN : (ok => done = state) /\ RollbackEnds(ok)
    /\ UNCHANGED <<config, plan, backup, before>>

Raises == stage \in {"hitl", "post_check"} /\ StageRaises /\ UNCHANGED infra

Working(b) == \/ Validate \/ Plan(b) \/ Diff \/ Hitl \/ Apply(b)
              \/ PostCheck \/ Rollback(b) \/ Raises

-----------------------------------------------------------------------------
TypeOK == /\ stage \in Stages \cup {"validate", "done", "cancelled"}
          /\ config \subseteq Resources /\ state \subseteq Resources
          /\ world \in [Resources -> 0..1]
          /\ plan \in [create : SUBSET Resources, destroy : SUBSET Resources]

(* The infrastructure was changed; it is as specified; what this execution *)
(* created, and knows of, is gone.  Nothing is promised for what existed   *)
(* before: terraform's rollback destroys that as well.                     *)
Touched == world # before
Achieved(b) == IF b = "hcl" THEN Terraform!Achieved ELSE \A r \in config : world[r] = 1
Undone(b) == \A r \in (IF b = "hcl" THEN plan.create ELSE state) : world[r] = 0

(* A rollback is due: there is data for it.                                *)
Undoable == data
=============================================================================
