--------------------------- MODULE PipelinesProofs ---------------------------
(* Theorems about Pipelines, for every number of commands, rollbacks,      *)
(* checks and resources: what each kind of pipeline and provisioner keeps, *)
(* and with that the four promises of Pipelines.                           *)
EXTENDS Pipelines, TLAPS

Early == {"validate", "plan", "diff", "hitl"}
Late == {"apply", "post_check", "rollback"}

(* What all engines keep: the result is empty up to the confirmation, what *)
(* runs after it is approved and no dry run, and success or a rollback is  *)
(* recorded only at the end.                                               *)
EngineInv ==
    /\ deps \in [dry_run : BOOLEAN, auto_rollback : BOOLEAN]
    /\ stage \in Stages \cup {"validate", "done", "cancelled"}
    /\ data \in BOOLEAN
    /\ result \in [success : BOOLEAN, aborted : Stages \cup {"validate", "no"}, approved : BOOLEAN,
                   rollback : {"none", "ok", "failed"}]
    /\ stage \in Early \cup {"apply", "post_check"} => result.aborted = "no"
    /\ stage \in Early => ~result.approved
    /\ stage \in Early \cup {"apply"} => ~data
    /\ stage \in Late => result.approved /\ ~deps.dry_run
    /\ result.success \/ result.rollback # "none" => stage = "done"

(* The four promises, of a target for which a rollback can be due.         *)
Promises(touched, achieved, undone, due) ==
    /\ touched => result.approved /\ ~deps.dry_run
    /\ result.success /\ result.aborted = "no" => achieved
    /\ stage = "done" /\ ~result.success /\ deps.auto_rollback /\ touched /\ due
          => result.rollback # "none" \/ result.aborted = "apply"
    /\ result.rollback = "ok" /\ stage = "done" => undone

(* Commands take effect in order, and a rollback that met no error has     *)
(* undone the effects of the commands it has come to.                      *)
BashWork ==
    /\ effects \subseteq 1..Commands /\ next \in Nat \ {0}
    /\ stage \in Early => effects = {} /\ next = 1 /\ ~errors
    /\ stage = "apply" => next <= Commands + 1 /\ effects = 1..next-1 /\ ~errors
    /\ stage = "post_check" => next <= Checks + 1 /\ effects = 1..Commands
    /\ stage = "rollback" => next <= Rollbacks + 1 /\ (~errors => \A i \in effects : i >= next)
    /\ stage \in {"done", "cancelled"} => next <= Commands + Checks + 1
BashInv ==
    /\ EngineInv /\ stage # "validate" /\ Bash!EngineTypeOK /\ errors \in BOOLEAN /\ BashWork
    /\ Promises(Bash!Touched, Bash!Achieved, Bash!Undone, TRUE)

(* All tasks of a play that is checked have taken effect.                  *)
AnsibleInv ==
    /\ EngineInv /\ stage # "validate" /\ Ansible!TypeOK
    /\ stage \in Early \cup {"apply"} => effects = {}
    /\ stage = "post_check" => effects = Ansible!All
    /\ Promises(Ansible!Touched, Ansible!Achieved, Ansible!Undone, TRUE)

(* A resource that nobody else changes is as wanted once it was applied,   *)
(* and the count kept of a scaling is the one that was replaced.           *)
KubernetesInv ==
    /\ EngineInv /\ stage # "validate" /\ Kubernetes!TypeOK
    /\ stage \in Early \cup {"apply"} => replaced = <<>>
    /\ stage = "post_check" => data /\ Kubernetes!Achieved
    /\ operation = "scale" /\ ~others =>
          /\ stage \in Early \cup {"apply"} => original \in {replicas, None}
          /\ stage \in {"post_check", "rollback"} /\ replaced # <<>> => original \in {replaced[1], None}
    /\ Promises(Kubernetes!Touched, Kubernetes!Achieved, Kubernetes!Undone, TRUE)

(* Terraform's state file tells the truth until a plan is carried out, the *)
(* plan that is carried out is that of this state, and what it leaves alone*)
(* is as the backup says.                                                  *)
Counted == world = [r \in Resources |-> IF r \in state THEN 1 ELSE 0]
TerraformInv ==
    /\ EngineInv /\ stage # "validate" /\ Terraform!TypeOK
    /\ stage # "done" => world \in [Resources -> 0..1]
    /\ stage \in Early \cup {"apply"} => Counted /\ before = world
    /\ stage \in {"diff", "hitl", "apply"} =>
          plan = [create |-> config \ state, destroy |-> state \ config]
    /\ stage = "post_check" => data /\ Terraform!Achieved
    /\ stage \in {"post_check", "rollback"} =>
          \A r \in Resources : /\ r \in config /\ r \in backup => world[r] = 1
                              /\ r \notin config /\ r \notin backup => world[r] = 0
    /\ Promises(Terraform!Touched, Terraform!Achieved, Terraform!Undone, TRUE)

(* So it is for terraform's backend, whose rollback starts from a plan that*)
(* was carried out; the mcp backend starts from nothing.                   *)
ProvisionInv(b) ==
    /\ EngineInv
    /\ Provision!TypeOK
    /\ stage \in Early \cup {"apply"} => Counted /\ before = world /\ (b = "mcp" => state = {})
    /\ stage \in {"diff", "hitl", "apply"} =>
          plan = [create |-> config \ state, destroy |-> IF b = "hcl" THEN state \ config ELSE {}]
    /\ stage \in {"post_check", "rollback"} /\ b = "hcl" => state = config /\ plan.create \subseteq config
    /\ stage = "post_check" => Provision!Achieved(b)
    /\ Promises(Provision!Touched, Provision!Achieved(b), Provision!Undone(b), Provision!Undoable)

IInv == \/ kind = "bash" /\ BashInv
        \/ kind = "ansible" /\ AnsibleInv
        \/ kind = "kubernetes" /\ KubernetesInv
        \/ kind = "terraform" /\ TerraformInv
        \/ kind \in Provisioned /\ ProvisionInv(kind)
-----------------------------------------------------------------------------
(* What is assumed of the constants of a bash pipeline.                    *)
LEMMA Counts == /\ Commands \in Nat \ {0} /\ Rollbacks \in Nat /\ Checks \in Nat
                /\ Rollbacks <= Commands
BY PipelineAssumption DEF Bash!BashAssumption

(* The pipeline of shell commands.                                         *)
LEMMA BashInitial == Bash!Init => BashInv
<1> SUFFICES ASSUME Bash!Init PROVE BashInv
  OBVIOUS
<1>1. /\ result = [success |-> FALSE, aborted |-> "no", approved |-> FALSE, rollback |-> "none"]
      /\ deps \in [dry_run : BOOLEAN, auto_rollback : BOOLEAN] /\ stage = "plan" /\ data = FALSE
      /\ effects = {} /\ next = 1 /\ errors = FALSE
  BY DEF Bash!Init, Bash!EngineInit
<1>2. EngineInv /\ Bash!EngineTypeOK
  BY <1>1 DEF EngineInv, Bash!EngineTypeOK, Bash!Result, Bash!Stages, Stages, Early, Late
<1>3. BashWork
  BY <1>1 DEF BashWork, Early
<1>4. Promises(Bash!Touched, Bash!Achieved, Bash!Undone, TRUE)
  BY <1>1 DEF Promises, Bash!Touched
<1> QED BY <1>1, <1>2, <1>3, <1>4 DEF BashInv

LEMMA BashEngine ==
    ASSUME EngineInv, Bash!EngineTypeOK, stage # "validate",
           Bash!Working \/ (Cancel /\ UNCHANGED host)
    PROVE  EngineInv' /\ Bash!EngineTypeOK' /\ stage' # "validate"
<1> USE DEF EngineInv, Bash!EngineTypeOK, Bash!Result, Bash!Stages, Stages, Early, Late,
            Bash!Finish, Bash!Abort, Bash!Failed, Bash!engine
<1>1. CASE \E ok \in BOOLEAN : Bash!PlanEnds(ok) \/ Bash!DiffEnds(ok)
  BY <1>1 DEF Bash!PlanEnds, Bash!DiffEnds
<1>2. CASE \E ok \in BOOLEAN : Bash!Answer(ok)
  <2>1. CASE Bash!Answer(FALSE)
    BY <2>1 DEF Bash!Answer
  <2>2. CASE Bash!Answer(TRUE) /\ deps.dry_run
    BY <2>2 DEF Bash!Answer
  <2>3. CASE Bash!Answer(TRUE) /\ ~deps.dry_run
    BY <2>3 DEF Bash!Answer
  <2> QED BY <1>2, <2>1, <2>2, <2>3
<1>3. CASE \E ok \in BOOLEAN : Bash!ApplyEnds(ok, TRUE)
  BY <1>3 DEF Bash!ApplyEnds
<1>4. CASE \E ok \in BOOLEAN : Bash!PostCheckEnds(ok)
  BY <1>4 DEF Bash!PostCheckEnds
<1>5. CASE \E ok \in BOOLEAN : Bash!RollbackEnds(ok)
  BY <1>5 DEF Bash!RollbackEnds
<1>6. CASE Bash!StageRaises /\ stage \in {"plan", "diff", "hitl"}
  BY <1>6 DEF Bash!StageRaises
<1>7. CASE UNCHANGED Bash!engine
  BY <1>7
<1>8. CASE Cancel
  BY <1>8 DEF Cancel, Ended
<1> QED
  BY <1>1, <1>2, <1>3, <1>4, <1>5, <1>6, <1>7, <1>8
  DEF Bash!Working, Bash!Plan, Bash!Diff, Bash!Hitl, Bash!Command, Bash!CommandFails, Bash!Applied,
      Bash!Check, Bash!Checked, Bash!Rollback, Bash!RolledBack, Bash!Raises

LEMMA BashErrors ==
    ASSUME errors \in BOOLEAN, Bash!Working \/ (Cancel /\ UNCHANGED host)
    PROVE  errors' \in BOOLEAN
<1>1. CASE UNCHANGED errors
  BY <1>1
<1>2. CASE errors' \in {FALSE, TRUE}
  BY <1>2
<1> QED
  BY <1>1, <1>2
  DEF Bash!Working, Bash!Plan, Bash!Diff, Bash!Hitl, Bash!Command, Bash!CommandFails, Bash!Applied,
      Bash!Check, Bash!Checked, Bash!Rollback, Bash!RolledBack, Bash!Raises, Bash!bash, Bash!Restart, host

LEMMA BashStep == BashInv /\ (Bash!Working \/ (Cancel /\ UNCHANGED host)) => BashInv'
<1> DEFINE Kept == Promises(Bash!Touched, Bash!Achieved, Bash!Undone, TRUE)
<1> SUFFICES ASSUME BashInv, Bash!Working \/ (Cancel /\ UNCHANGED host) PROVE BashWork' /\ Kept'
  BY BashEngine, BashErrors DEF BashInv
<1>0. EngineInv /\ BashWork /\ Kept /\ EngineInv' /\ stage # "validate"
  BY BashEngine DEF BashInv
<1> USE <1>0, Counts DEF EngineInv, Early, Late, Stages
<1>1. CASE \/ Bash!Plan \/ Bash!Diff \/ Bash!Raises
  <2>1. /\ UNCHANGED <<deps, effects, next, errors>> /\ stage \in Early /\ result.success = FALSE
        /\ stage' = "done" => result' = [result EXCEPT !.aborted = stage]
        /\ stage' # "done" => result' = result
        /\ stage' \in {"diff", "hitl", "done"}
    BY <1>1 DEF Bash!Plan, Bash!PlanEnds, Bash!Diff, Bash!DiffEnds, Bash!Raises, Bash!StageRaises,
                Bash!Abort, Bash!Finish, Bash!bash
  <2>2. effects = {} /\ next = 1 /\ errors = FALSE
    BY <2>1 DEF BashWork
  <2>3. BashWork'
    BY <2>1, <2>2 DEF BashWork
  <2>4. Kept'
    BY <2>1, <2>2 DEF Promises, Bash!Touched
  <2> QED BY <2>3, <2>4
<1>2. CASE Bash!Hitl
  <2>1. UNCHANGED <<deps, effects, next, errors>> /\ effects = {} /\ next = 1 /\ errors = FALSE
    BY <1>2 DEF Bash!Hitl, Bash!Answer, Bash!bash, BashWork
  <2>2. stage' \in {"apply", "done"}
    BY <1>2 DEF Bash!Hitl, Bash!Answer, Bash!Abort, Bash!Finish
  <2>3. BashWork'
    <3>1. next-1 = 0 /\ 1..0 = {}
      BY <2>1
    <3> QED BY <2>1, <2>2, <3>1 DEF BashWork
  <2>4. result'.success /\ result'.aborted = "no" => FALSE
    BY <1>2 DEF Bash!Hitl, Bash!Answer, Bash!Abort, Bash!Finish
  <2>5. Kept'
    BY <2>1, <2>2, <2>4 DEF Promises, Bash!Touched, Bash!Undone
  <2> QED BY <2>3, <2>5
<1>3. CASE Bash!Command
  <2>1. /\ UNCHANGED <<deps, stage, data, result, errors>> /\ stage = "apply"
        /\ next' = next + 1 /\ next <= Commands /\ effects' = effects \cup {next}
    BY <1>3 DEF Bash!Command, Bash!engine
  <2>2. effects = 1..next-1 /\ next \in Nat \ {0}
    BY <2>1 DEF BashWork
  <2>3. effects' = 1..next'-1 /\ effects' \subseteq 1..Commands /\ next' <= Commands + 1
    BY <2>1, <2>2
  <2>4. BashWork'
    BY <2>1, <2>2, <2>3 DEF BashWork
  <2>5. Kept'
    BY <2>1 DEF Promises
  <2> QED BY <2>4, <2>5
<1>4. CASE Bash!CommandFails
  <2>1. /\ stage = "apply" /\ next' = 1 /\ errors' = FALSE /\ effects' \subseteq 1..Commands
        /\ UNCHANGED <<deps, result>> /\ stage' \in {"rollback", "done"}
        /\ deps.auto_rollback => stage' = "rollback"
    BY <1>4 DEF Bash!CommandFails, Bash!ApplyEnds, Bash!Failed, Bash!Restart, Bash!Finish, BashWork
  <2>2. BashWork'
    BY <2>1 DEF BashWork
  <2>3. Kept'
    BY <2>1 DEF Promises
  <2> QED BY <2>2, <2>3
<1>5. CASE Bash!Applied
  <2>1. /\ stage = "apply" /\ stage' = "post_check" /\ next' = 1 /\ errors' = FALSE
        /\ UNCHANGED <<deps, result, effects>> /\ next > Commands
    BY <1>5 DEF Bash!Applied, Bash!ApplyEnds, Bash!Restart
  <2>2. next = Commands + 1 /\ effects = 1..next-1
    BY <2>1 DEF BashWork
  <2>3. effects = 1..Commands
    BY <2>2
  <2>4. BashWork'
    BY <2>1, <2>3 DEF BashWork
  <2>5. Kept'
    BY <2>1 DEF Promises
  <2> QED BY <2>4, <2>5
<1>6. CASE Bash!Check
  <2>1. /\ UNCHANGED <<deps, stage, data, result, effects>> /\ stage = "post_check"
        /\ next' = next + 1 /\ next <= Checks
    BY <1>6 DEF Bash!Check, Bash!engine
  <2>2. BashWork'
    BY <2>1 DEF BashWork
  <2>3. Kept'
    BY <2>1 DEF Promises
  <2> QED BY <2>2, <2>3
<1>7. CASE Bash!Checked
  <2>0. /\ stage = "post_check" /\ Bash!Restart /\ UNCHANGED effects /\ UNCHANGED <<deps, data>>
        /\ Bash!Finish([result EXCEPT !.success = TRUE]) \/ Bash!Failed
    BY <1>7, Zenon DEF Bash!Checked, Bash!PostCheckEnds
  <2>1. /\ stage = "post_check"
        /\ UNCHANGED <<deps, effects>>
        /\ \/ stage' = "done" /\ result' = [result EXCEPT !.success = TRUE]
           \/ stage' = "rollback" /\ result' = result
           \/ stage' = "done" /\ result' = result /\ ~deps.auto_rollback
    <3>1. CASE Bash!Finish([result EXCEPT !.success = TRUE])
      BY <2>0, <3>1, Zenon DEF Bash!Finish
    <3>2. CASE Bash!Failed /\ deps.auto_rollback
      BY <2>0, <3>2 DEF Bash!Failed
    <3>3. CASE Bash!Failed /\ ~deps.auto_rollback
      BY <2>0, <3>3 DEF Bash!Failed, Bash!Finish
    <3> QED BY <2>0, <3>1, <3>2, <3>3
  <2>2. effects = 1..Commands
    BY <2>1 DEF BashWork
  <2>3. BashWork'
    BY <2>0, <2>1, <2>2 DEF BashWork, Bash!Restart
  <2>4. Kept'
    BY <2>1, <2>2 DEF Promises, Bash!Achieved
  <2> QED BY <2>3, <2>4
<1>8. CASE Bash!Rollback
  <2>0. /\ UNCHANGED Bash!engine /\ stage = "rollback"
        /\ next' = next + 1 /\ next <= Rollbacks
        /\ \/ effects' = effects \ {next} /\ UNCHANGED errors
           \/ effects' \in {effects, effects \ {next}} /\ errors' = TRUE
    BY <1>8, Zenon DEF Bash!Rollback
  <2>e. effects' \subseteq effects
    BY <2>0
  <2>f. ~errors' => ~errors /\ effects' = effects \ {next}
    BY <2>0, Zenon
  <2>1. UNCHANGED <<deps, stage, data, result>> /\ stage = "rollback"
    BY <2>0 DEF Bash!engine
  <2>2. ~errors' => \A i \in effects' : i >= next'
    <3> SUFFICES ASSUME ~errors', NEW i \in effects' PROVE i >= next'
      OBVIOUS
    <3>1. ~errors /\ i \in effects /\ i # next
      BY <2>f
    <3>2. i >= next /\ i \in 1..Commands /\ next \in Nat
      BY <2>1, <3>1 DEF BashWork
    <3> QED BY <2>0, <3>1, <3>2
  <2>3. BashWork'
    BY <2>0, <2>1, <2>2, <2>e DEF BashWork
  <2>4. Kept'
    BY <2>1, <2>e DEF Promises, Bash!Touched
  <2> QED BY <2>3, <2>4
<1>9. CASE Bash!RolledBack
  <2>1. /\ stage = "rollback" /\ stage' = "done"
        /\ UNCHANGED <<deps, data>> /\ UNCHANGED Bash!bash
        /\ \/ /\ next > Rollbacks /\ ~errors
              /\ result' = [result EXCEPT !.rollback = "ok"]
           \/ result' = [result EXCEPT !.rollback = "failed"]
    <3>1. CASE next > Rollbacks /\ Bash!RollbackEnds(Rollbacks > 0 /\ ~errors)
      <4>1. CASE Rollbacks > 0 /\ ~errors
        BY <1>9, <3>1, <4>1, Zenon DEF Bash!RolledBack, Bash!RollbackEnds, Bash!Finish
      <4>2. CASE ~(Rollbacks > 0 /\ ~errors)
        BY <1>9, <3>1, <4>2, Zenon DEF Bash!RolledBack, Bash!RollbackEnds, Bash!Finish
      <4> QED BY <4>1, <4>2
    <3>2. CASE Bash!RollbackEnds(FALSE)
      BY <1>9, <3>2, Zenon DEF Bash!RolledBack, Bash!RollbackEnds, Bash!Finish
    <3> QED BY <1>9, <3>1, <3>2, Zenon DEF Bash!RolledBack
  <2>2. UNCHANGED <<effects, next, errors>>
    BY <2>1 DEF Bash!bash
  <2>3. BashWork'
    BY <2>1, <2>2 DEF BashWork
  <2>4. CASE next > Rollbacks /\ ~errors /\ result' = [result EXCEPT !.rollback = "ok"]
    <3>1. ASSUME Rollbacks = Commands, NEW i \in effects PROVE FALSE
      <4>1. i >= next /\ i \in 1..Commands /\ next \in Nat
        BY <2>1, <2>4 DEF BashWork
      <4> QED BY <2>4, <3>1, <4>1
    <3> QED BY <2>1, <2>2, <2>3, <2>4, <3>1 DEF Promises, Bash!Touched, Bash!Undone
  <2>5. CASE result' = [result EXCEPT !.rollback = "failed"]
    BY <2>1, <2>2, <2>3, <2>5 DEF Promises, Bash!Touched
  <2> QED BY <2>1, <2>4, <2>5
<1>10. CASE Cancel /\ UNCHANGED host
  <2>1. /\ UNCHANGED <<deps, result, effects, next, errors>> /\ stage' = "cancelled"
        /\ stage \notin {"done", "cancelled"}
    BY <1>10 DEF Cancel, Ended, host
  <2>2. BashWork'
    BY <2>1 DEF BashWork
  <2>3. Kept'
    BY <2>1 DEF Promises, Bash!Touched
  <2> QED BY <2>2, <2>3
<1> QED
  BY <1>1, <1>2, <1>3, <1>4, <1>5, <1>6, <1>7, <1>8, <1>9, <1>10 DEF Bash!Working

(* The Ansible pipeline.                                                   *)
LEMMA AnsibleInitial == Ansible!Init => AnsibleInv
<1> SUFFICES ASSUME Ansible!Init PROVE AnsibleInv
  OBVIOUS
<1>1. /\ result = [success |-> FALSE, aborted |-> "no", approved |-> FALSE, rollback |-> "none"]
      /\ deps \in [dry_run : BOOLEAN, auto_rollback : BOOLEAN] /\ stage = "plan" /\ data = FALSE
      /\ effects = {} /\ next = 1 /\ errors = FALSE
  BY DEF Ansible!Init, Ansible!EngineInit
<1>2. EngineInv /\ Ansible!EngineTypeOK
  BY <1>1 DEF EngineInv, Ansible!EngineTypeOK, Ansible!Result, Ansible!Stages, Stages, Early, Late
<1>3. next \in 1..Checks + 1 /\ effects \subseteq Ansible!All
  BY <1>1, Counts
<1>4. Promises(Ansible!Touched, Ansible!Achieved, Ansible!Undone, TRUE)
  BY <1>1 DEF Promises, Ansible!Touched
<1> QED BY <1>1, <1>2, <1>3, <1>4 DEF AnsibleInv, Ansible!TypeOK, Early

LEMMA AnsibleStep == AnsibleInv /\ (Ansible!Working \/ (Cancel /\ UNCHANGED host)) => AnsibleInv'
<1> SUFFICES ASSUME AnsibleInv, Ansible!Working \/ (Cancel /\ UNCHANGED host) PROVE AnsibleInv'
  OBVIOUS
<1> USE Counts
    DEF AnsibleInv, EngineInv, Ansible!TypeOK, Ansible!EngineTypeOK,
        Ansible!Result, Ansible!Stages, Stages, Early, Late, Promises, Ansible!Touched,
        Ansible!Achieved, Ansible!Undone, Ansible!play, Ansible!engine, Ansible!Finish, Ansible!Abort
<1>1. CASE Ansible!Plan
  BY <1>1 DEF Ansible!Plan, Ansible!PlanEnds
<1>2. CASE Ansible!Diff
  BY <1>2 DEF Ansible!Diff, Ansible!DiffEnds
<1>3. CASE Ansible!Hitl
  <2>1. PICK ok \in BOOLEAN : Ansible!Answer(ok)
    BY <1>3 DEF Ansible!Hitl
  <2> USE <1>3, <2>1 DEF Ansible!Hitl, Ansible!Answer
  <2>2. CASE ~ok
    BY <2>2
  <2>3. CASE ok /\ deps.dry_run
    BY <2>3
  <2>4. CASE ok /\ ~deps.dry_run
    BY <2>4
  <2> QED BY <2>2, <2>3, <2>4
<1>4. CASE Ansible!Apply
  BY <1>4 DEF Ansible!Apply, Ansible!ApplyEnds, Ansible!Failed
<1>5. CASE Ansible!Check
  <2>1. next' \in 1..Checks + 1
    BY <1>5 DEF Ansible!Check
  <2>2. errors' \in BOOLEAN
    BY <1>5, Zenon DEF Ansible!Check
  <2>3. UNCHANGED <<deps, stage, data, result, effects>> /\ stage = "post_check"
    BY <1>5 DEF Ansible!Check
  <2> QED BY <2>1, <2>2, <2>3
<1>6. CASE Ansible!Checked
  BY <1>6 DEF Ansible!Checked, Ansible!PostCheckEnds, Ansible!Failed
<1>7. CASE Ansible!Rollback
  BY <1>7 DEF Ansible!Rollback, Ansible!RollbackEnds
<1>8. CASE Ansible!Raises
  BY <1>8 DEF Ansible!Raises, Ansible!StageRaises
<1>9. CASE Cancel /\ UNCHANGED host
  BY <1>9 DEF Cancel, Ended, host
<1> QED
  BY <1>1, <1>2, <1>3, <1>4, <1>5, <1>6, <1>7, <1>8, <1>9 DEF Ansible!Working

(* The Kubernetes pipeline, and others who change the resource.            *)
LEMMA KubernetesInitial == Kubernetes!Init => KubernetesInv
<1> SUFFICES ASSUME Kubernetes!Init PROVE KubernetesInv
  OBVIOUS
<1>1. EngineInv /\ Kubernetes!EngineTypeOK
  <2>1. result = [success |-> FALSE, aborted |-> "no", approved |-> FALSE, rollback |-> "none"]
        /\ deps \in [dry_run : BOOLEAN, auto_rollback : BOOLEAN] /\ stage = "plan" /\ data = FALSE
    BY DEF Kubernetes!Init, Kubernetes!EngineInit
  <2> QED BY <2>1 DEF EngineInv, Kubernetes!EngineTypeOK, Kubernetes!Result, Kubernetes!Stages, Stages, Early, Late
<1> QED
  BY <1>1, PipelineAssumption DEF Kubernetes!KubernetesAssumption, Kubernetes!Init, Kubernetes!EngineInit,
     KubernetesInv, Kubernetes!TypeOK,
     Early, Late, Promises, Kubernetes!Touched, Kubernetes!Achieved,
     Kubernetes!Undone, Kubernetes!Held

LEMMA KubernetesStep ==
    KubernetesInv /\ (Kubernetes!Working \/ Kubernetes!Other \/ (Cancel /\ UNCHANGED cluster))
        => KubernetesInv'
<1> SUFFICES ASSUME KubernetesInv,
                    Kubernetes!Working \/ Kubernetes!Other \/ (Cancel /\ UNCHANGED cluster)
             PROVE  KubernetesInv'
  OBVIOUS
<1> USE PipelineAssumption
    DEF Kubernetes!KubernetesAssumption, KubernetesInv, EngineInv, Kubernetes!TypeOK,
        Kubernetes!EngineTypeOK, Kubernetes!Result, Kubernetes!Stages, Stages, Early, Late,
        Promises, Kubernetes!Touched, Kubernetes!Achieved, Kubernetes!Undone, Kubernetes!Held,
        Kubernetes!cluster, Kubernetes!engine, Kubernetes!Finish, Kubernetes!Abort
<1>1. CASE Kubernetes!Plan
  BY <1>1 DEF Kubernetes!Plan, Kubernetes!PlanEnds
<1>2. CASE Kubernetes!Diff
  BY <1>2 DEF Kubernetes!Diff, Kubernetes!DiffEnds, Kubernetes!Manifests
<1>3. CASE Kubernetes!Hitl
  <2>1. PICK ok \in BOOLEAN : Kubernetes!Answer(ok)
    BY <1>3 DEF Kubernetes!Hitl
  <2> USE <1>3, <2>1 DEF Kubernetes!Hitl, Kubernetes!Answer
  <2>2. CASE ~ok
    BY <2>2
  <2>3. CASE ok /\ deps.dry_run
    BY <2>3, ZenonT(40)
  <2>4. CASE ok /\ ~deps.dry_run
    BY <2>4
  <2> QED BY <2>2, <2>3, <2>4
<1>4. CASE Kubernetes!Apply
  BY <1>4 DEF Kubernetes!Apply, Kubernetes!Kept, Kubernetes!Changed, Kubernetes!Possible,
              Kubernetes!Operations, Kubernetes!ApplyEnds, Kubernetes!Failed
<1>5. CASE Kubernetes!PostCheck
  BY <1>5, ZenonT(40) DEF Kubernetes!PostCheck, Kubernetes!PostCheckEnds, Kubernetes!Failed
<1>6. CASE Kubernetes!Rollback
  BY <1>6 DEF Kubernetes!Rollback, Kubernetes!Previous, Kubernetes!RollbackEnds
<1>7. CASE Kubernetes!Raises
  BY <1>7 DEF Kubernetes!Raises, Kubernetes!StageRaises
<1>8. CASE Kubernetes!Other
  BY <1>8 DEF Kubernetes!Other, Kubernetes!Ended
<1>9. CASE Cancel /\ UNCHANGED cluster
  BY <1>9 DEF Cancel, Ended, cluster
<1> QED
  BY <1>1, <1>2, <1>3, <1>4, <1>5, <1>6, <1>7, <1>8, <1>9 DEF Kubernetes!Working
(* Terraform carries out what it planned for a true state file: all of it  *)
(* makes the configuration true, and a part of it leaves no resource twice.*)
LEMMA CarryingOut ==
    ASSUME config \subseteq Resources, state \subseteq Resources, Counted,
           plan = [create |-> config \ state, destroy |-> state \ config],
           NEW done \in SUBSET (plan.create \cup plan.destroy),
           Terraform!CarriedOut(plan, done, state)
    PROVE  /\ world' \in [Resources -> 0..1] /\ state' \subseteq Resources
           /\ done = plan.create \cup plan.destroy
                 => state' = config /\ world' = [r \in Resources |-> IF r \in config THEN 1 ELSE 0]
           /\ \A r \in Resources : /\ r \in config /\ r \in state => world'[r] = 1
                                /\ r \notin config /\ r \notin state => world'[r] = 0
<1>1. plan.create = config \ state /\ plan.destroy = state \ config
  OBVIOUS
<1>2. state' = (state \cup (done \cap plan.create)) \ (done \cap plan.destroy)
  BY DEF Terraform!CarriedOut
<1>3. \A r \in Resources : world[r] = IF r \in state THEN 1 ELSE 0
  BY DEF Counted
<1>4. world' = [r \in Resources |-> IF r \in done \cap plan.create THEN world[r] + 1
                                   ELSE IF r \in done \cap plan.destroy THEN world[r] - 1
                                   ELSE world[r]]
  BY DEF Terraform!CarriedOut
<1>5. ASSUME NEW r \in Resources
      PROVE  /\ world'[r] \in 0..1
             /\ done = plan.create \cup plan.destroy => world'[r] = IF r \in config THEN 1 ELSE 0
             /\ r \in config /\ r \in state => world'[r] = 1
             /\ r \notin config /\ r \notin state => world'[r] = 0
  <2>1. world[r] = IF r \in state THEN 1 ELSE 0
    BY <1>3
  <2>2. world'[r] = IF r \in done \cap plan.create THEN world[r] + 1
                    ELSE IF r \in done \cap plan.destroy THEN world[r] - 1
                    ELSE world[r]
    BY <1>4
  <2>3. r \in plan.create <=> r \in config /\ r \notin state
    BY <1>1
  <2>4. r \in plan.destroy <=> r \in state /\ r \notin config
    BY <1>1
  <2>5. CASE r \in config /\ r \notin state
    BY <2>1, <2>2, <2>3, <2>4, <2>5
  <2>6. CASE r \in state /\ r \notin config
    BY <2>1, <2>2, <2>3, <2>4, <2>6
  <2>7. CASE (r \in state) <=> (r \in config)
    BY <2>1, <2>2, <2>3, <2>4, <2>7
  <2> QED BY <2>5, <2>6, <2>7
<1>6. world' = [r \in Resources |-> world'[r]]
  BY <1>4
<1>7. world' \in [Resources -> 0..1]
  BY <1>5, <1>6
<1>8. done = plan.create \cup plan.destroy
         => world' = [r \in Resources |-> IF r \in config THEN 1 ELSE 0]
  BY <1>5, <1>6
<1>9. done = plan.create \cup plan.destroy => state' = config
  BY <1>1, <1>2
<1>10. state' \subseteq Resources
  BY <1>1, <1>2
<1> QED BY <1>5, <1>7, <1>8, <1>9, <1>10

(* What it plans for such a state file.                                    *)
LEMMA Planning ==
    ASSUME state \subseteq Resources, Counted
    PROVE  Terraform!PlanFor(state) = [create |-> config \ state, destroy |-> state \ config]
<1>1. {r \in state : world[r] > 0} = state
  BY DEF Counted
<1> QED BY <1>1 DEF Terraform!PlanFor, Terraform!Present

(* The Terraform pipeline.                                                 *)
LEMMA TerraformInitial == Terraform!Init => TerraformInv
<1> SUFFICES ASSUME Terraform!Init PROVE TerraformInv
  OBVIOUS
<1>1. /\ result = [success |-> FALSE, aborted |-> "no", approved |-> FALSE, rollback |-> "none"]
      /\ deps \in [dry_run : BOOLEAN, auto_rollback : BOOLEAN] /\ stage = "plan" /\ data = FALSE
  BY DEF Terraform!Init, Terraform!EngineInit
<1>2. EngineInv /\ Terraform!EngineTypeOK
  BY <1>1 DEF EngineInv, Terraform!EngineTypeOK, Terraform!Result, Terraform!Stages, Stages, Early, Late
<1>3. /\ config \subseteq Resources /\ state \subseteq Resources
      /\ plan = [create |-> {}, destroy |-> {}] /\ backup = {} /\ before = world
      /\ Counted /\ world \in [Resources -> 0..1]
  BY DEF Terraform!Init, Counted
<1>4. world \in [Resources -> 0..2] /\ plan \in [create : SUBSET Resources, destroy : SUBSET Resources]
  BY <1>3
<1>5. Promises(Terraform!Touched, Terraform!Achieved, Terraform!Undone, TRUE)
  BY <1>1, <1>3 DEF Promises, Terraform!Touched
<1> QED BY <1>1, <1>2, <1>3, <1>4, <1>5 DEF TerraformInv, Terraform!TypeOK, Early

LEMMA TerraformEngine ==
    ASSUME EngineInv, Terraform!EngineTypeOK, stage # "validate",
           Terraform!Working \/ Cancel
    PROVE  EngineInv' /\ Terraform!EngineTypeOK' /\ stage' # "validate"
<1> USE DEF EngineInv, Terraform!EngineTypeOK, Terraform!Result, Terraform!Stages, Stages, Early, Late,
            Terraform!Finish, Terraform!Abort, Terraform!Failed
<1>1. CASE \E ok \in BOOLEAN : Terraform!PlanEnds(ok) \/ Terraform!DiffEnds(ok)
  BY <1>1 DEF Terraform!PlanEnds, Terraform!DiffEnds
<1>2. CASE \E ok \in BOOLEAN : Terraform!Answer(ok)
  <2>1. CASE Terraform!Answer(FALSE)
    BY <2>1 DEF Terraform!Answer
  <2>2. CASE Terraform!Answer(TRUE) /\ deps.dry_run
    BY <2>2 DEF Terraform!Answer
  <2>3. CASE Terraform!Answer(TRUE) /\ ~deps.dry_run
    BY <2>3 DEF Terraform!Answer
  <2> QED BY <1>2, <2>1, <2>2, <2>3
<1>3. CASE \E ok \in BOOLEAN : Terraform!ApplyEnds(ok, TRUE)
  BY <1>3 DEF Terraform!ApplyEnds
<1>4. CASE \E ok \in BOOLEAN : Terraform!PostCheckEnds(ok)
  BY <1>4 DEF Terraform!PostCheckEnds
<1>5. CASE \E ok \in BOOLEAN : Terraform!RollbackEnds(ok)
  BY <1>5 DEF Terraform!RollbackEnds
<1>6. CASE Terraform!StageRaises
  BY <1>6 DEF Terraform!StageRaises
<1>7. CASE Cancel
  BY <1>7 DEF Cancel, Ended
<1> QED
  BY <1>1, <1>2, <1>3, <1>4, <1>5, <1>6, <1>7
  DEF Terraform!Working, Terraform!Plan, Terraform!Diff, Terraform!Hitl, Terraform!Apply,
      Terraform!ApplyRaises, Terraform!PostCheck, Terraform!Rollback, Terraform!Raises

(* A rollback creates a resource a second time at most, and completed it   *)
(* leaves what it promises.                                                *)
LEMMA RollingBack ==
    ASSUME world \in [Resources -> 0..1], config \subseteq Resources, backup \subseteq Resources,
           \A r \in Resources : /\ r \in config /\ r \in backup => world[r] = 1
                               /\ r \notin config /\ r \notin backup => world[r] = 0,
           UNCHANGED <<config, backup>>,
           NEW done \in SUBSET (Terraform!PlanFor(backup).create \cup Terraform!PlanFor(backup).destroy),
           Terraform!CarriedOut(Terraform!PlanFor(backup), done, Terraform!Present(backup))
    PROVE  /\ world' \in [Resources -> 0..2] /\ state' \subseteq Resources
           /\ done = Terraform!PlanFor(backup).create \cup Terraform!PlanFor(backup).destroy
                 => Terraform!Undone'
<1> DEFINE p == Terraform!PlanFor(backup)
           present == Terraform!Present(backup)
<1>1. present \subseteq backup /\ \A r \in backup : r \in present <=> world[r] > 0
  BY DEF Terraform!Present
<1>2. p.create = config \ present /\ p.destroy = present \ config
  BY DEF Terraform!PlanFor
<1>3. /\ world' = [r \in Resources |-> IF r \in done \cap p.create THEN world[r] + 1
                                      ELSE IF r \in done \cap p.destroy THEN world[r] - 1
                                      ELSE world[r]]
      /\ state' = (present \cup (done \cap p.create)) \ (done \cap p.destroy)
  BY DEF Terraform!CarriedOut
<1> HIDE DEF p, present
<1>4. ASSUME NEW r \in Resources
      PROVE  world[r] + 1 \in 0..2 /\ world[r] \in 0..2 /\ (r \in p.destroy => world[r] - 1 \in 0..2)
  BY <1>1, <1>2
<1>5. world' \in [Resources -> 0..2] /\ state' \subseteq Resources
  BY <1>1, <1>2, <1>3, <1>4
<1>6. ASSUME done = p.create \cup p.destroy PROVE Terraform!Undone'
  <2>1. state' = config
    BY <1>2, <1>3, <1>6
  <2>2. ASSUME NEW r \in Resources
        PROVE  /\ r \notin config => world'[r] = 0
               /\ r \in config => world'[r] = 1 \/ (world'[r] = 2 /\ r \notin backup)
    <3>1. /\ r \in config \ present => world'[r] = world[r] + 1
          /\ r \in present \ config => world'[r] = world[r] - 1
          /\ (r \in config <=> r \in present) => world'[r] = world[r]
      BY <1>2, <1>3, <1>6
    <3>2. world[r] \in 0..1
      OBVIOUS
    <3>3. CASE r \in backup
      BY <1>1, <3>1, <3>2, <3>3
    <3>4. CASE r \notin backup
      BY <1>1, <3>1, <3>2, <3>4
    <3> QED BY <3>3, <3>4
  <2> QED BY <2>1, <2>2 DEF Terraform!Undone
<1> QED BY <1>5, <1>6 DEF p

LEMMA TerraformStep == TerraformInv /\ (Terraform!Working \/ (Cancel /\ UNCHANGED infra)) => TerraformInv'
<1> DEFINE Kept == Promises(Terraform!Touched, Terraform!Achieved, Terraform!Undone, TRUE)
<1> SUFFICES ASSUME TerraformInv, Terraform!Working \/ (Cancel /\ UNCHANGED infra)
             PROVE  TerraformInv'
  OBVIOUS
<1>0. /\ EngineInv /\ Terraform!EngineTypeOK /\ stage # "validate"
      /\ EngineInv' /\ Terraform!EngineTypeOK' /\ stage' # "validate"
  BY TerraformEngine DEF TerraformInv, Terraform!TypeOK
<1>t. /\ config \subseteq Resources /\ state \subseteq Resources /\ backup \subseteq Resources
      /\ world \in [Resources -> 0..2]
      /\ plan \in [create : SUBSET Resources, destroy : SUBSET Resources]
  BY DEF TerraformInv, Terraform!TypeOK
<1>k. Kept
  BY DEF TerraformInv
<1> USE DEF Early, Terraform!Finish, Terraform!Abort, Terraform!Failed, Terraform!Touched
<1>1. CASE Terraform!Plan
  <2>1. /\ UNCHANGED <<deps, data, config, world, state, backup, before>> /\ stage = "plan"
        /\ \/ stage' = "diff" /\ UNCHANGED result /\ plan' = Terraform!PlanFor(state)
           \/ stage' = "done" /\ result' = [result EXCEPT !.aborted = stage] /\ UNCHANGED plan
    BY <1>1 DEF Terraform!Plan, Terraform!PlanEnds
  <2>2. Counted /\ before = world /\ world \in [Resources -> 0..1]
    BY <2>1 DEF TerraformInv
  <2>3. stage' = "diff" => plan' = [create |-> config \ state, destroy |-> state \ config]
    BY <1>t, <2>1, <2>2, Planning
  <2>4. plan' \in [create : SUBSET Resources, destroy : SUBSET Resources]
    BY <1>t, <2>1, <2>3
  <2>5. Kept'
    BY <1>0, <1>k, <2>1, <2>2 DEF Promises, EngineInv
  <2> QED BY <1>0, <1>t, <2>1, <2>2, <2>3, <2>4, <2>5 DEF TerraformInv, Terraform!TypeOK, Counted
<1>2. CASE Terraform!Diff \/ Terraform!Hitl
  <2>1. /\ UNCHANGED <<deps, data, config, world, state, backup, before, plan>>
        /\ stage \in {"diff", "hitl"} /\ stage' \in {"hitl", "apply", "done"}
        /\ result'.rollback = result.rollback
        /\ result'.success => result'.aborted # "no"
    <3>1. CASE \E ok \in BOOLEAN : Terraform!DiffEnds(ok) /\ UNCHANGED Terraform!infra
      BY <1>0, <3>1 DEF Terraform!DiffEnds, Terraform!infra, EngineInv
    <3>2. CASE \E ok \in BOOLEAN : Terraform!Answer(ok) /\ UNCHANGED Terraform!infra
      BY <1>0, <3>2 DEF Terraform!Answer, Terraform!infra, EngineInv
    <3> QED BY <1>2, <3>1, <3>2 DEF Terraform!Diff, Terraform!Hitl
  <2>2. /\ Counted /\ before = world /\ world \in [Resources -> 0..1]
        /\ plan = [create |-> config \ state, destroy |-> state \ config]
    BY <2>1 DEF TerraformInv
  <2>3. Kept'
    BY <1>0, <1>k, <2>1, <2>2 DEF Promises, EngineInv
  <2> QED BY <1>0, <1>t, <2>1, <2>2, <2>3 DEF TerraformInv, Terraform!TypeOK, Counted
<1>3. CASE Terraform!Apply \/ Terraform!ApplyRaises
  <2>1. PICK done \in SUBSET (plan.create \cup plan.destroy) :
             /\ Terraform!CarriedOut(plan, done, state)
             /\ \/ /\ done = plan.create \cup plan.destroy
                   /\ stage' = "post_check" /\ data' = TRUE /\ result' = result
                \/ /\ stage' \in {"rollback", "done"} /\ result' = result
                   /\ deps.auto_rollback => stage' = "rollback"
                \/ stage' = "done" /\ result' = [result EXCEPT !.aborted = stage]
    <3>1. CASE Terraform!Apply
      BY <3>1 DEF Terraform!Apply, Terraform!ApplyEnds
    <3>2. CASE Terraform!ApplyRaises
      BY <1>0, <3>2 DEF Terraform!ApplyRaises, Terraform!StageRaises, EngineInv
    <3> QED BY <1>3, <3>1, <3>2
  <2>2. /\ stage = "apply" /\ UNCHANGED <<deps, config, plan>> /\ backup' = state /\ before' = world
    BY <1>3 DEF Terraform!Apply, Terraform!ApplyRaises, Terraform!Backup, Terraform!ApplyEnds, Terraform!StageRaises
  <2>3. Counted /\ plan = [create |-> config \ state, destroy |-> state \ config]
    BY <2>2 DEF TerraformInv
  <2>4. /\ world' \in [Resources -> 0..1] /\ state' \subseteq Resources
        /\ done = plan.create \cup plan.destroy
              => state' = config /\ world' = [r \in Resources |-> IF r \in config THEN 1 ELSE 0]
        /\ \A r \in Resources : /\ r \in config' /\ r \in backup' => world'[r] = 1
                             /\ r \notin config' /\ r \notin backup' => world'[r] = 0
    BY <1>t, <2>1, <2>2, <2>3, CarryingOut
  <2>5. world' \in [Resources -> 0..2]
    BY <2>4
  <2>6. stage' = "post_check" => data' /\ Terraform!Achieved'
    BY <2>1, <2>2, <2>4 DEF Terraform!Achieved
  <2>7. Kept'
    <3>1. /\ result'.approved /\ ~deps'.dry_run /\ result'.success = FALSE
          /\ result'.rollback = "none" /\ result'.aborted \in {"no", "apply"}
          /\ stage' = "done" /\ deps'.auto_rollback => result'.aborted = "apply"
      BY <1>0, <2>1, <2>2 DEF EngineInv, Late
    <3> QED BY <3>1 DEF Promises
  <2>8. stage' \in {"post_check", "rollback", "done"}
    BY <2>1
  <2> QED BY <1>0, <1>t, <2>2, <2>4, <2>5, <2>6, <2>7, <2>8 DEF TerraformInv, Terraform!TypeOK
<1>4. CASE Terraform!PostCheck \/ (Terraform!Raises /\ stage = "post_check")
  <2>1. /\ UNCHANGED <<deps, data, config, world, state, backup, before, plan>> /\ stage = "post_check"
        /\ \/ stage' = "done" /\ result' = [result EXCEPT !.success = TRUE]
           \/ stage' = "done" /\ result' = result /\ ~deps.auto_rollback
           \/ stage' = "done" /\ result' = [result EXCEPT !.aborted = stage] /\ ~(deps.auto_rollback /\ data)
           \/ stage' = "rollback" /\ result' \in {result, [result EXCEPT !.aborted = stage]}
    <3>1. CASE Terraform!PostCheckEnds(TRUE) /\ UNCHANGED Terraform!infra
      BY <3>1 DEF Terraform!PostCheckEnds, Terraform!infra
    <3>2. CASE Terraform!PostCheckEnds(FALSE) /\ UNCHANGED Terraform!infra
      BY <3>2 DEF Terraform!PostCheckEnds, Terraform!infra
    <3>3. CASE Terraform!Raises /\ stage = "post_check"
      BY <3>3 DEF Terraform!Raises, Terraform!StageRaises, Terraform!infra
    <3> QED BY <1>4, <3>1, <3>2, <3>3 DEF Terraform!PostCheck
  <2>2. data /\ Terraform!Achieved /\ world \in [Resources -> 0..1]
    BY <2>1 DEF TerraformInv
  <2>3. Kept'
    BY <1>0, <1>k, <2>1, <2>2 DEF Promises, EngineInv, Terraform!Achieved
  <2>4. stage' \in {"rollback", "done"}
    BY <2>1
  <2> QED BY <1>0, <1>t, <2>1, <2>2, <2>3, <2>4 DEF TerraformInv, Terraform!TypeOK
<1>5. CASE Terraform!Rollback
  <2>1. /\ UNCHANGED <<deps, data, config, plan, backup, before>> /\ stage = "rollback" /\ stage' = "done"
        /\ result'.rollback # "none" /\ result'.success = FALSE /\ result'.approved /\ ~deps.dry_run
    BY <1>0, <1>5 DEF Terraform!Rollback, Terraform!RollbackEnds, EngineInv, Late
  <2>2. /\ world \in [Resources -> 0..1]
        /\ \A r \in Resources : /\ r \in config /\ r \in backup => world[r] = 1
                             /\ r \notin config /\ r \notin backup => world[r] = 0
    BY <2>1 DEF TerraformInv
  <2>3. /\ world' \in [Resources -> 0..2] /\ state' \subseteq Resources
        /\ result'.rollback = "ok" => Terraform!Undone'
    <3>1. CASE UNCHANGED <<world, state>> /\ Terraform!RollbackEnds(FALSE)
      BY <1>0, <1>t, <3>1 DEF Terraform!RollbackEnds, EngineInv
    <3>2. ASSUME NEW done \in SUBSET (Terraform!PlanFor(backup).create \cup Terraform!PlanFor(backup).destroy),
                 Terraform!CarriedOut(Terraform!PlanFor(backup), done, Terraform!Present(backup)),
                 \/ /\ done = Terraform!PlanFor(backup).create \cup Terraform!PlanFor(backup).destroy
                    /\ Terraform!RollbackEnds(TRUE)
                 \/ Terraform!RollbackEnds(FALSE)
          PROVE  /\ world' \in [Resources -> 0..2] /\ state' \subseteq Resources
                 /\ result'.rollback = "ok" => Terraform!Undone'
      <4>1. /\ world' \in [Resources -> 0..2] /\ state' \subseteq Resources
            /\ done = Terraform!PlanFor(backup).create \cup Terraform!PlanFor(backup).destroy
                  => Terraform!Undone'
        BY <1>t, <2>1, <2>2, <3>2, RollingBack
      <4>2. Terraform!RollbackEnds(FALSE) => result'.rollback # "ok"
        BY <1>0 DEF Terraform!RollbackEnds, EngineInv
      <4> QED BY <3>2, <4>1, <4>2
    <3> QED BY <1>5, <3>1, <3>2 DEF Terraform!Rollback
  <2>4. Kept'
    BY <2>1, <2>3 DEF Promises
  <2> QED BY <1>0, <1>t, <2>1, <2>3, <2>4 DEF TerraformInv, Terraform!TypeOK
<1>6. CASE Terraform!Raises /\ stage # "post_check"
  <2>1. /\ UNCHANGED <<deps, data, config, world, state, backup, before, plan>>
        /\ stage \in {"plan", "diff", "hitl"} /\ stage' = "done"
        /\ result' = [result EXCEPT !.aborted = stage]
    BY <1>6 DEF Terraform!Raises, Terraform!StageRaises, Terraform!infra
  <2>2. before = world /\ world \in [Resources -> 0..1]
    BY <2>1 DEF TerraformInv
  <2>3. Kept'
    BY <1>0, <1>k, <2>1, <2>2 DEF Promises, EngineInv
  <2> QED BY <1>0, <1>t, <2>1, <2>2, <2>3 DEF TerraformInv, Terraform!TypeOK
<1>7. CASE Cancel /\ UNCHANGED infra
  <2>1. /\ UNCHANGED <<deps, data, result, config, world, state, backup, before, plan>>
        /\ stage' = "cancelled" /\ stage \notin {"done", "cancelled"}
    BY <1>7 DEF Cancel, Ended, infra
  <2>2. world \in [Resources -> 0..1]
    BY <2>1 DEF TerraformInv
  <2>3. Kept'
    BY <1>0, <1>k, <2>1 DEF Promises, EngineInv
  <2> QED BY <1>0, <1>t, <2>1, <2>2, <2>3 DEF TerraformInv, Terraform!TypeOK
<1> QED
  BY <1>1, <1>2, <1>3, <1>4, <1>5, <1>6, <1>7, Zenon DEF Terraform!Working

(* A provisioner plans and carries out a plan as the pipeline does.        *)
LEMMA SameTerraform ==
    /\ Provision!Terraform!PlanFor(state) = Terraform!PlanFor(state)
    /\ Provision!Terraform!Achieved <=> Terraform!Achieved
    /\ \A p, done, tracked :
          Provision!Terraform!CarriedOut(p, done, tracked) <=> Terraform!CarriedOut(p, done, tracked)
BY DEF Provision!Terraform!PlanFor, Terraform!PlanFor, Provision!Terraform!Present,
       Terraform!Present, Provision!Terraform!Achieved,
       Terraform!Achieved, Provision!Terraform!CarriedOut, Terraform!CarriedOut

LEMMA ProvisionInitial == \A b \in Provisioned : Provision!Init(b) => ProvisionInv(b)
<1> SUFFICES ASSUME NEW b \in Provisioned, Provision!Init(b) PROVE ProvisionInv(b)
  OBVIOUS
<1>1. /\ result = [success |-> FALSE, aborted |-> "no", approved |-> FALSE, rollback |-> "none"]
      /\ deps \in [dry_run : BOOLEAN, auto_rollback : BOOLEAN] /\ stage = "validate" /\ data = FALSE
  BY DEF Provision!Init
<1>2. EngineInv
  BY <1>1 DEF EngineInv, Stages, Early, Late
<1>3. /\ config \subseteq Resources /\ state \subseteq Resources
      /\ plan = [create |-> {}, destroy |-> {}] /\ before = world
      /\ Counted /\ world \in [Resources -> 0..1] /\ (b = "mcp" => state = {})
  BY DEF Provision!Init, Counted
<1>4. plan \in [create : SUBSET Resources, destroy : SUBSET Resources]
  BY <1>3
<1>5. Promises(Provision!Touched, Provision!Achieved(b), Provision!Undone(b), Provision!Undoable)
  BY <1>1, <1>3 DEF Promises, Provision!Touched
<1> QED BY <1>1, <1>2, <1>3, <1>4, <1>5 DEF ProvisionInv, Provision!TypeOK, Early

LEMMA ProvisionEngine ==
    ASSUME EngineInv, NEW b, Provision!Working(b) \/ Cancel
    PROVE  EngineInv'
<1> USE DEF EngineInv, Stages, Early, Late, Provision!Stages, Provision!Finish, Provision!Abort, Provision!Failed
<1>1. CASE Provision!Validate
  BY <1>1 DEF Provision!Validate
<1>2. CASE Provision!Plan(b)
  BY <1>2 DEF Provision!Plan, Provision!PlanEnds
<1>3. CASE Provision!Diff
  BY <1>3 DEF Provision!Diff, Provision!DiffEnds
<1>4. CASE \E ok \in BOOLEAN : Provision!Answer(ok)
  <2>1. CASE Provision!Answer(FALSE)
    BY <2>1 DEF Provision!Answer
  <2>2. CASE Provision!Answer(TRUE) /\ deps.dry_run
    BY <2>2 DEF Provision!Answer
  <2>3. CASE Provision!Answer(TRUE) /\ ~deps.dry_run
    BY <2>3 DEF Provision!Answer
  <2> QED BY <1>4, <2>1, <2>2, <2>3
<1>5. CASE \E ok, hasData \in BOOLEAN : Provision!ApplyEnds(ok, hasData)
  BY <1>5 DEF Provision!ApplyEnds
<1>6. CASE (\E hasData \in BOOLEAN : Provision!StageFails(hasData)) /\ stage \in {"apply", "post_check"}
  BY <1>6 DEF Provision!StageFails
<1>7. CASE Provision!PostCheckEnds(TRUE)
  BY <1>7 DEF Provision!PostCheckEnds
<1>8. CASE Provision!StageRaises
  BY <1>8 DEF Provision!StageRaises
<1>9. CASE \E ok \in BOOLEAN : Provision!RollbackEnds(ok)
  BY <1>9 DEF Provision!RollbackEnds
<1>10. CASE Cancel
  BY <1>10 DEF Cancel, Ended
<1>11. data \in BOOLEAN
  OBVIOUS
<1> HIDE DEF EngineInv, Stages, Early, Late, Provision!Finish, Provision!Abort, Provision!Failed
<1> QED
  BY <1>1, <1>2, <1>3, <1>4, <1>5, <1>6, <1>7, <1>8, <1>9, <1>10, <1>11
  DEF Provision!Working, Provision!Hitl, Provision!Apply, Provision!ApplyPlan,
      Provision!CreateInstances, Provision!PostCheck, Provision!Rollback, Provision!Raises

(* A pre-approved plan of terraform that was carried out is what its       *)
(* rollback starts from.                                                   *)
LEMMA ProvisionApply ==
    ASSUME NEW b \in Provisioned, ProvisionInv(b), Provision!Apply(b)
    PROVE  ProvisionInv(b)'
<1>0. EngineInv /\ EngineInv' /\ Provision!TypeOK
  BY ProvisionEngine DEF ProvisionInv, Provision!Working
<1>1. /\ stage = "apply" /\ before' = world /\ UNCHANGED <<config, plan, backup>>
      /\ Counted /\ config \subseteq Resources /\ state \subseteq Resources
      /\ plan = [create |-> config \ state, destroy |-> IF b = "hcl" THEN state \ config ELSE {}]
      /\ b = "mcp" => state = {}
      /\ plan \in [create : SUBSET Resources, destroy : SUBSET Resources]
  BY <1>0 DEF Provision!Apply, ProvisionInv, Provision!TypeOK
<1>2. result.success = FALSE /\ result.approved /\ ~deps.dry_run /\ data = FALSE
  BY <1>0, <1>1 DEF EngineInv, Early, Late
<1>3. stage' \in Stages \cup {"validate", "done", "cancelled"}
  BY <1>0 DEF EngineInv
<1>4. CASE b = "hcl"
  <2>1. PICK done \in SUBSET (plan.create \cup plan.destroy) :
             /\ Provision!Terraform!CarriedOut(plan, done, state)
             /\ \/ /\ done = plan.create \cup plan.destroy
                   /\ \E hasData \in BOOLEAN : Provision!ApplyEnds(TRUE, hasData)
                \/ Provision!StageFails(FALSE)
                \/ Provision!StageRaises
    BY <1>4 DEF Provision!Apply, Provision!ApplyPlan
  <2>2. /\ UNCHANGED deps
        /\ \/ /\ done = plan.create \cup plan.destroy
              /\ stage' = "post_check" /\ result' = result
           \/ stage' = "done" /\ result' = result /\ ~data'
           \/ stage' = "done" /\ result' = [result EXCEPT !.aborted = "apply"]
    <3>1. CASE done = plan.create \cup plan.destroy /\ \E hasData \in BOOLEAN : Provision!ApplyEnds(TRUE, hasData)
      BY <3>1 DEF Provision!ApplyEnds
    <3>2. CASE Provision!StageFails(FALSE)
      BY <3>2 DEF Provision!StageFails, Provision!Finish
    <3>3. CASE Provision!StageRaises
      BY <1>1, <1>2, <3>3 DEF Provision!StageRaises, Provision!Abort, Provision!Finish
    <3> QED BY <2>1, <3>1, <3>2, <3>3, Zenon
  <2>3. /\ world' \in [Resources -> 0..1] /\ state' \subseteq Resources
        /\ done = plan.create \cup plan.destroy
              => state' = config /\ world' = [r \in Resources |-> IF r \in config THEN 1 ELSE 0]
    <3>1. Terraform!CarriedOut(plan, done, state)
      BY <2>1, SameTerraform
    <3>2. plan = [create |-> config \ state, destroy |-> state \ config]
      BY <1>1, <1>4
    <3> QED BY <1>1, <3>1, <3>2, CarryingOut
  <2>4. stage' = "post_check" => /\ state' = config' /\ plan'.create \subseteq config'
                                 /\ Provision!Achieved(b)'
    BY <1>1, <1>4, <2>2, <2>3 DEF Provision!Achieved, Provision!Terraform!Achieved
  <2>5. Promises(Provision!Touched, Provision!Achieved(b), Provision!Undone(b), Provision!Undoable)'
    <3>1. result'.success = FALSE /\ result'.approved /\ ~deps'.dry_run /\ result'.rollback = result.rollback
      BY <1>0, <1>2, <2>2 DEF EngineInv
    <3>2. result'.rollback = "none"
      BY <1>0, <1>1, <3>1 DEF EngineInv
    <3>3. stage' = "done" /\ data' => result'.aborted = "apply"
      BY <1>0, <2>2 DEF EngineInv
    <3> QED BY <3>1, <3>2, <3>3 DEF Promises, Provision!Undoable
  <2>6. stage' \in {"post_check", "done"}
    BY <2>2
  <2> QED BY <1>0, <1>1, <1>3, <2>3, <2>4, <2>5, <2>6 DEF ProvisionInv, Provision!TypeOK, Stages, Provision!Stages, Early
<1>5. CASE b = "mcp"
  <2>1. PICK made, answered, known :
             /\ made \subseteq plan.create /\ answered \subseteq made /\ known \subseteq answered
             /\ world' = [r \in Resources |-> IF r \in made THEN 1 ELSE 0]
             /\ state' = known
             /\ \/ answered = plan.create /\ Provision!ApplyEnds(TRUE, TRUE)
                \/ answered # plan.create /\ Provision!StageFails(TRUE)
                \/ made # plan.create /\ Provision!StageFails(FALSE)
    BY <1>5 DEF Provision!Apply, Provision!CreateInstances
  <2>2. plan.create = config
    BY <1>1, <1>5
  <2>3. /\ UNCHANGED <<deps, result>>
        /\ \/ answered = plan.create /\ stage' = "post_check"
           \/ /\ stage' \in {"rollback", "done"}
              /\ deps.auto_rollback /\ data' => stage' = "rollback"
    BY <2>1 DEF Provision!ApplyEnds, Provision!StageFails, Provision!Finish
  <2>4. world' \in [Resources -> 0..1] /\ state' \subseteq Resources
    BY <1>1, <2>1, <2>2
  <2>5. stage' = "post_check" => Provision!Achieved(b)'
    BY <1>1, <1>5, <2>1, <2>2, <2>3 DEF Provision!Achieved
  <2>6. Promises(Provision!Touched, Provision!Achieved(b), Provision!Undone(b), Provision!Undoable)'
    <3>1. result'.success = FALSE /\ result'.approved /\ ~deps'.dry_run /\ result'.rollback = "none"
      BY <1>0, <1>1, <1>2, <2>3 DEF EngineInv
    <3>2. stage' = "done" => ~(deps'.auto_rollback /\ data')
      BY <2>3
    <3> QED BY <3>1, <3>2 DEF Promises, Provision!Undoable
  <2>7. stage' \in {"post_check", "rollback", "done"}
    BY <2>3
  <2> QED BY <1>0, <1>1, <1>3, <1>5, <2>4, <2>5, <2>6, <2>7 DEF ProvisionInv, Provision!TypeOK, Stages, Provision!Stages, Early
<1> QED BY <1>4, <1>5 DEF Provisioned

LEMMA ProvisionStep ==
    \A b \in Provisioned :
       ProvisionInv(b) /\ (Provision!Working(b) \/ (Cancel /\ UNCHANGED infra)) => ProvisionInv(b)'
<1> SUFFICES ASSUME NEW b \in Provisioned, ProvisionInv(b),
                    Provision!Working(b) \/ (Cancel /\ UNCHANGED infra)
             PROVE  ProvisionInv(b)'
  OBVIOUS
<1> DEFINE Kept == Promises(Provision!Touched, Provision!Achieved(b), Provision!Undone(b), Provision!Undoable)
<1>0. EngineInv /\ EngineInv' /\ Provision!TypeOK
  BY ProvisionEngine DEF ProvisionInv
<1>t. /\ config \subseteq Resources /\ state \subseteq Resources
      /\ world \in [Resources -> 0..1]
      /\ plan \in [create : SUBSET Resources, destroy : SUBSET Resources]
      /\ stage' \in Stages \cup {"validate", "done", "cancelled"}
  BY <1>0 DEF Provision!TypeOK, EngineInv
<1>k. Kept
  BY DEF ProvisionInv
<1> USE DEF Provision!Finish, Provision!Abort
<1>1. CASE Provision!Validate
  <2>1. /\ UNCHANGED <<deps, data, config, world, state, backup, before, plan>> /\ stage = "validate"
        /\ \/ stage' = "plan" /\ UNCHANGED result
           \/ stage' = "done" /\ result' = [result EXCEPT !.aborted = stage]
    BY <1>1 DEF Provision!Validate, Provision!infra
  <2>2. Counted /\ before = world /\ (b = "mcp" => state = {})
    BY <2>1 DEF ProvisionInv, Early
  <2>3. Kept'
    BY <1>0, <1>k, <2>1, <2>2 DEF Promises, EngineInv, Early, Provision!Touched
  <2> QED BY <1>0, <1>t, <2>1, <2>2, <2>3 DEF ProvisionInv, Provision!TypeOK, Stages, Provision!Stages, Counted, Early
<1>2. CASE Provision!Plan(b)
  <2>1. /\ UNCHANGED <<deps, data, config, world, state, backup, before>> /\ stage = "plan"
        /\ \/ /\ plan' = IF b = "hcl" THEN Provision!PlannedResources ELSE Provision!PlannedInstances
              /\ \/ stage' = "diff" /\ UNCHANGED result
                 \/ stage' = "done" /\ result' = [result EXCEPT !.success = TRUE, !.aborted = "plan"]
           \/ /\ UNCHANGED plan
              /\ stage' = "done" /\ result' = [result EXCEPT !.aborted = stage]
    BY <1>2 DEF Provision!Plan, Provision!PlanEnds
  <2>2. Counted /\ before = world /\ (b = "mcp" => state = {})
    BY <2>1 DEF ProvisionInv, Early
  <2>3. Provision!PlannedResources = [create |-> config \ state, destroy |-> state \ config]
    BY <1>t, <2>2, Planning, SameTerraform DEF Provision!PlannedResources
  <2>4. b = "mcp" => Provision!PlannedInstances = [create |-> config \ state, destroy |-> {}]
    BY <2>2 DEF Provision!PlannedInstances
  <2>5. stage' = "diff" =>
          plan' = [create |-> config \ state, destroy |-> IF b = "hcl" THEN state \ config ELSE {}]
    BY <2>1, <2>3, <2>4 DEF Provisioned
  <2>6. plan' \in [create : SUBSET Resources, destroy : SUBSET Resources]
    BY <1>t, <2>1, <2>3, <2>4 DEF Provisioned
  <2>7. Kept'
    BY <1>0, <1>k, <2>1, <2>2 DEF Promises, EngineInv, Early, Provision!Touched
  <2> QED BY <1>0, <1>t, <2>1, <2>2, <2>5, <2>6, <2>7 DEF ProvisionInv, Provision!TypeOK, Stages, Provision!Stages, Counted, Early
<1>3. CASE Provision!Diff \/ Provision!Hitl \/ (Provision!Raises /\ stage = "hitl")
  <2>1. /\ UNCHANGED <<deps, data, config, world, state, backup, before, plan>>
        /\ stage \in {"diff", "hitl"} /\ stage' \in {"hitl", "apply", "done"}
        /\ result'.rollback = result.rollback
        /\ result'.success => result'.aborted # "no"
    <3>1. CASE \E ok \in BOOLEAN : Provision!DiffEnds(ok) /\ UNCHANGED Provision!infra
      BY <1>0, <3>1 DEF Provision!DiffEnds, Provision!infra, EngineInv
    <3>2. CASE Provision!Answer(TRUE) /\ UNCHANGED Provision!infra
      BY <1>0, <3>2 DEF Provision!Answer, Provision!infra, EngineInv
    <3>3. CASE Provision!Raises /\ stage = "hitl"
      BY <1>0, <3>3 DEF Provision!Raises, Provision!StageRaises, Provision!infra, EngineInv
    <3> QED BY <1>3, <3>1, <3>2, <3>3 DEF Provision!Diff, Provision!Hitl
  <2>2. /\ Counted /\ before = world /\ (b = "mcp" => state = {})
        /\ plan = [create |-> config \ state, destroy |-> IF b = "hcl" THEN state \ config ELSE {}]
    BY <2>1 DEF ProvisionInv, Early
  <2>3. Kept'
    BY <1>0, <1>k, <2>1, <2>2 DEF Promises, EngineInv, Early, Provision!Touched
  <2> QED BY <1>0, <1>t, <2>1, <2>2, <2>3 DEF ProvisionInv, Provision!TypeOK, Stages, Provision!Stages, Counted, Early
<1>4. CASE Provision!Apply(b)
  BY <1>4, ProvisionApply
<1>5. CASE Provision!PostCheck \/ (Provision!Raises /\ stage = "post_check")
  <2>1. /\ UNCHANGED <<deps, data, config, world, state, backup, before, plan>> /\ stage = "post_check"
        /\ \/ stage' = "done" /\ result' = [result EXCEPT !.success = TRUE]
           \/ stage' = "done" /\ result' = result /\ ~(deps.auto_rollback /\ data)
           \/ stage' = "done" /\ result' = [result EXCEPT !.aborted = stage] /\ ~(deps.auto_rollback /\ data)
           \/ stage' = "rollback" /\ result' \in {result, [result EXCEPT !.aborted = stage]}
    <3>1. CASE stage = "post_check" /\ Provision!PostCheckEnds(TRUE) /\ UNCHANGED Provision!infra
      BY <3>1 DEF Provision!PostCheckEnds, Provision!infra
    <3>2. CASE stage = "post_check" /\ Provision!StageFails(data) /\ UNCHANGED Provision!infra
      BY <3>2 DEF Provision!StageFails, Provision!infra
    <3>3. CASE Provision!Raises /\ stage = "post_check"
      BY <3>3 DEF Provision!Raises, Provision!StageRaises, Provision!infra
    <3> QED BY <1>5, <3>1, <3>2, <3>3 DEF Provision!PostCheck
  <2>2. Provision!Achieved(b) /\ (b = "hcl" => state = config /\ plan.create \subseteq config)
    BY <2>1 DEF ProvisionInv
  <2>3. Provision!Achieved(b)'
    BY <2>1, <2>2 DEF Provision!Achieved, Provision!Terraform!Achieved
  <2>4. result.success = FALSE /\ result.approved /\ ~deps.dry_run /\ result.rollback = "none"
    BY <1>0, <2>1 DEF EngineInv, Late
  <2>5. Kept'
    <3>1. result'.approved /\ ~deps'.dry_run /\ result'.rollback = "none"
      BY <1>0, <2>1, <2>4 DEF EngineInv
    <3>2. stage' = "done" /\ ~result'.success => ~(deps'.auto_rollback /\ data')
      BY <1>0, <2>1 DEF EngineInv
    <3> QED BY <2>3, <3>1, <3>2 DEF Promises, Provision!Undoable
  <2>6. stage' \in {"rollback", "done"}
    BY <2>1
  <2> QED BY <1>0, <1>t, <2>1, <2>2, <2>5, <2>6 DEF ProvisionInv, Provision!TypeOK, Stages, Provision!Stages, Early
<1>6. CASE Provision!Rollback(b)
  <2>1. PICK done \in SUBSET state :
             /\ world' = [r \in Resources |-> IF r \in done THEN 0 ELSE world[r]]
             /\ IF b = "hcl" THEN Provision!DestroyAll(done) ELSE Provision!TerminateInstances(done)
             /\ \E ok \in BOOLEAN : (ok => done = state) /\ Provision!RollbackEnds(ok)
    BY <1>6 DEF Provision!Rollback
  <2>2. /\ stage = "rollback" /\ UNCHANGED <<config, plan, backup, before>>
    BY <1>6 DEF Provision!Rollback
  <2>3. /\ UNCHANGED <<deps, data>> /\ stage' = "done"
        /\ result' \in {[result EXCEPT !.rollback = "ok"], [result EXCEPT !.rollback = "failed"]}
        /\ result' = [result EXCEPT !.rollback = "ok"] => done = state
    <3>1. PICK ok \in BOOLEAN : (ok => done = state) /\ Provision!RollbackEnds(ok)
      BY <2>1
    <3>2. CASE ok
      BY <3>1, <3>2 DEF Provision!RollbackEnds
    <3>3. CASE ~ok
      <4>1. result' = [result EXCEPT !.rollback = "failed"] /\ UNCHANGED <<deps, data>> /\ stage' = "done"
        BY <3>1, <3>3 DEF Provision!RollbackEnds
      <4>2. result'.rollback = "failed"
        BY <1>0, <4>1 DEF EngineInv
      <4>3. result' # [result EXCEPT !.rollback = "ok"]
        BY <1>0, <4>2 DEF EngineInv
      <4> QED BY <4>1, <4>3
    <3> QED BY <3>2, <3>3
  <2>4. world' \in [Resources -> 0..1] /\ state' \subseteq state
    BY <1>t, <2>1 DEF Provision!DestroyAll, Provision!TerminateInstances
  <2>5. /\ result'.rollback \in {"ok", "failed"} /\ result'.success = FALSE /\ result'.approved
        /\ result'.rollback = "ok" => done = state
    BY <1>0, <2>2, <2>3 DEF EngineInv, Late
  <2>6. done = state => Provision!Undone(b)'
    <3>1. CASE b = "hcl"
      <4>1. state = config /\ plan.create \subseteq config
        BY <2>2, <3>1 DEF ProvisionInv
      <4> QED BY <1>t, <2>1, <2>2, <3>1, <4>1 DEF Provision!Undone
    <3>2. CASE b = "mcp"
      BY <1>t, <2>1, <3>2 DEF Provision!Undone, Provision!TerminateInstances
    <3> QED BY <3>1, <3>2 DEF Provisioned
  <2>7. ~deps.dry_run
    BY <1>0, <2>2 DEF EngineInv, Late
  <2>8. Kept'
    BY <2>3, <2>5, <2>6, <2>7 DEF Promises
  <2> QED BY <1>0, <1>t, <2>2, <2>3, <2>4, <2>8 DEF ProvisionInv, Provision!TypeOK, Stages, Provision!Stages, Early
<1>7. CASE Cancel /\ UNCHANGED infra
  <2>1. /\ UNCHANGED <<deps, data, result, config, world, state, backup, before, plan>>
        /\ stage' = "cancelled" /\ stage \notin {"done", "cancelled"}
    BY <1>7 DEF Cancel, Ended, infra
  <2>2. result.success = FALSE /\ result.rollback = "none"
    BY <1>0, <2>1 DEF EngineInv
  <2>3. Kept'
    BY <1>k, <2>1, <2>2 DEF Promises, Provision!Touched
  <2> QED BY <1>0, <1>t, <2>1, <2>3 DEF ProvisionInv, Provision!TypeOK, Stages, Provision!Stages, Early
<1>8. CASE Provision!Raises
  BY <1>3, <1>5, <1>8 DEF Provision!Raises
<1> QED
  BY <1>1, <1>2, <1>3, <1>4, <1>5, <1>6, <1>7, <1>8, Zenon DEF Provision!Working
-----------------------------------------------------------------------------
LEMMA Initially == Init => IInv
<1> SUFFICES ASSUME Init PROVE IInv
  OBVIOUS
<1> QED
  BY BashInitial, AnsibleInitial, KubernetesInitial, TerraformInitial, ProvisionInitial, Zenon DEF Init, IInv

(* Nothing looks at the variables of another kind of execution.            *)
LEMMA Stuttering == IInv /\ UNCHANGED vars => IInv'
<1> SUFFICES ASSUME IInv, UNCHANGED vars PROVE IInv'
  OBVIOUS
<1>1. /\ UNCHANGED <<deps, stage, data, result, kind>>
      /\ UNCHANGED <<effects, next, errors>>
      /\ UNCHANGED <<operation, others, replicas, original, replaced, temp>>
      /\ UNCHANGED <<config, world, state, plan, backup, before>>
  BY DEF vars, host, cluster, infra
<1>2. EngineInv => EngineInv'
  BY <1>1 DEF EngineInv
<1>3. BashInv => BashInv'
  BY <1>1, <1>2 DEF BashInv, BashWork, Bash!EngineTypeOK, Promises, Bash!Touched, Bash!Achieved, Bash!Undone
<1>4. AnsibleInv => AnsibleInv'
  BY <1>1, <1>2 DEF AnsibleInv, Ansible!TypeOK, Ansible!EngineTypeOK, Promises,
                    Ansible!Touched, Ansible!Achieved, Ansible!Undone
<1>5. KubernetesInv => KubernetesInv'
  BY <1>1, <1>2 DEF KubernetesInv, Kubernetes!TypeOK, Kubernetes!EngineTypeOK, Promises,
                    Kubernetes!Touched, Kubernetes!Achieved, Kubernetes!Undone
<1>6. TerraformInv => TerraformInv'
  BY <1>1, <1>2 DEF TerraformInv, Terraform!TypeOK, Terraform!EngineTypeOK, Promises, Counted,
                    Terraform!Touched, Terraform!Achieved, Terraform!Undone
<1>7. kind \in Provisioned /\ ProvisionInv(kind) => kind' \in Provisioned /\ ProvisionInv(kind)'
  BY <1>1, <1>2 DEF ProvisionInv, Provision!TypeOK, Promises, Counted, Provision!Touched, Provision!Undoable,
                    Provision!Achieved, Provision!Terraform!Achieved, Provision!Undone
<1> QED BY <1>1, <1>3, <1>4, <1>5, <1>6, <1>7, Zenon DEF IInv

LEMMA Invariance == Spec => []IInv
<1>1. IInv /\ [Next]_vars => IInv'
  <2> SUFFICES ASSUME IInv, Next PROVE IInv'
    BY Stuttering
  <2>1. kind' = kind
    BY DEF Next, Working, Outside
  <2>2. CASE kind = "bash"
    <3>1. BashInv
      BY <2>2 DEF IInv, Provisioned
    <3>2. Bash!Working \/ (Cancel /\ UNCHANGED host)
      BY <2>2 DEF Next, Working, Outside, Provisioned
    <3> QED BY <2>1, <2>2, <3>1, <3>2, BashStep DEF IInv
  <2>3. CASE kind = "ansible"
    <3>1. AnsibleInv
      BY <2>3 DEF IInv, Provisioned
    <3>2. Ansible!Working \/ (Cancel /\ UNCHANGED host)
      BY <2>3 DEF Next, Working, Outside, Provisioned
    <3> QED BY <2>1, <2>3, <3>1, <3>2, AnsibleStep DEF IInv
  <2>4. CASE kind = "kubernetes"
    <3>1. KubernetesInv
      BY <2>4 DEF IInv, Provisioned
    <3>2. Kubernetes!Working \/ Kubernetes!Other \/ (Cancel /\ UNCHANGED cluster)
      BY <2>4 DEF Next, Working, Outside, Provisioned
    <3> QED BY <2>1, <2>4, <3>1, <3>2, KubernetesStep DEF IInv
  <2>5. CASE kind = "terraform"
    <3>1. TerraformInv
      BY <2>5 DEF IInv, Provisioned
    <3>2. Terraform!Working \/ (Cancel /\ UNCHANGED infra)
      BY <2>5 DEF Next, Working, Outside, Provisioned
    <3> QED BY <2>1, <2>5, <3>1, <3>2, TerraformStep DEF IInv
  <2>6. CASE kind \in Provisioned
    <3>1. ProvisionInv(kind)
      BY <2>6 DEF IInv, Provisioned
    <3>2. Provision!Working(kind) \/ (Cancel /\ UNCHANGED infra)
      BY <2>6 DEF Next, Working, Outside, Provisioned
    <3>3. PICK b \in Provisioned : b = kind
      BY <2>6
    <3>4. ProvisionInv(b)'
      BY <3>1, <3>2, <3>3, ProvisionStep
    <3>5. kind' = b
      BY <2>1, <3>3
    <3>6. ProvisionInv(kind)'
      BY <3>4, <3>5
    <3> QED BY <2>1, <2>6, <3>6 DEF IInv
  <2> QED BY <2>2, <2>3, <2>4, <2>5, <2>6, Zenon DEF IInv
<1> QED BY Initially, <1>1, PTL DEF Spec

(* The four promises hold whatever runs.                                   *)
LEMMA Promised == IInv => Promises(Touched, Achieved, Undone, Undoable)
<1> SUFFICES ASSUME IInv PROVE Promises(Touched, Achieved, Undone, Undoable)
  OBVIOUS
<1>1. CASE kind = "bash" /\ BashInv
  <2>1. /\ Touched = Bash!Touched /\ Achieved = Bash!Achieved
        /\ Undone = Bash!Undone /\ Undoable
    BY <1>1 DEF OnHost, Provisioned, Touched, Achieved, Undone, Undoable
  <2> QED BY <1>1, <2>1 DEF BashInv, Promises
<1>2. CASE kind = "ansible" /\ AnsibleInv
  <2>1. /\ Touched = Bash!Touched /\ Achieved = Bash!Achieved
        /\ Undone = Ansible!Undone /\ Undoable
    BY <1>2 DEF OnHost, Provisioned, Touched, Achieved, Undone, Undoable
  <2>2. (Bash!Touched <=> Ansible!Touched) /\ (Bash!Achieved <=> Ansible!Achieved)
    BY DEF Bash!Touched, Ansible!Touched, Bash!Achieved, Ansible!Achieved, Ansible!All
  <2> QED BY <1>2, <2>1, <2>2 DEF AnsibleInv, Promises
<1>3. CASE kind = "kubernetes" /\ KubernetesInv
  <2>1. /\ Touched = Kubernetes!Touched /\ Achieved = Kubernetes!Achieved
        /\ Undone = Kubernetes!Undone /\ Undoable
    BY <1>3 DEF OnHost, Provisioned, Touched, Achieved, Undone, Undoable
  <2> QED BY <1>3, <2>1 DEF KubernetesInv, Promises
<1>4. CASE kind = "terraform" /\ TerraformInv
  <2>1. /\ Touched = Terraform!Touched /\ Achieved = Terraform!Achieved
        /\ Undone = Terraform!Undone /\ Undoable
    BY <1>4 DEF OnHost, Provisioned, Touched, Achieved, Undone, Undoable
  <2> QED BY <1>4, <2>1 DEF TerraformInv, Promises
<1>5. CASE kind \in Provisioned /\ ProvisionInv(kind)
  <2>1. /\ Touched = Terraform!Touched /\ Achieved = Provision!Achieved(kind)
        /\ Undone = Provision!Undone(kind)
    BY <1>5 DEF OnHost, Provisioned, Touched, Achieved, Undone
  <2>2. Terraform!Touched <=> Provision!Touched
    BY DEF Terraform!Touched, Provision!Touched
  <2>3. Undoable <=> Provision!Undoable
    BY <1>5, Zenon DEF Undoable
  <2> QED BY <1>5, <2>1, <2>2, <2>3 DEF ProvisionInv, Promises
<1> QED BY <1>1, <1>2, <1>3, <1>4, <1>5, Zenon DEF IInv

(* Whatever stage fails, raises or is cancelled, a dry run changes nothing *)
(* and a pipeline changes its target only after the user's yes.            *)
THEOREM ApprovedChanges == Spec => []ChangedOnlyIfApproved
<1>1. IInv => ChangedOnlyIfApproved
  BY Promised DEF Promises, ChangedOnlyIfApproved
<1> QED BY <1>1, Invariance, PTL

(* A plain success of execute() means the whole change, however many       *)
(* commands, tasks or resources there are and whatever the checks said.    *)
THEOREM SuccessIsWhole == Spec => []SuccessMeansAchieved
<1>1. IInv => SuccessMeansAchieved
  BY Promised DEF Promises, SuccessMeansAchieved
<1> QED BY <1>1, Invariance, PTL

(* With auto_rollback a failure after the target was changed has tried the *)
(* rollback, except where apply() raised or has no data to roll back.      *)
THEOREM FailuresRolledBack == Spec => []FailureIsRolledBack
<1>1. IInv => FailureIsRolledBack
  BY Promised DEF Promises, FailureIsRolledBack
<1> QED BY <1>1, Invariance, PTL

(* A rollback that reports success has undone what the execution did, or   *)
(* for terraform has made the configuration the state of the world, with   *)
(* at most what the execution had created in duplicate.                    *)
THEOREM RollbacksUndo == Spec => []RollbackUndoes
<1>1. IInv => RollbackUndoes
  BY Promised DEF Promises, RollbackUndoes
<1> QED BY <1>1, Invariance, PTL

(* Every execution keeps to the types of its pipeline: a bash pipeline is  *)
(* never past the end of the list of commands its stage goes through.      *)
THEOREM TypeCorrect == Spec => []TypeOK
<1>1. IInv => TypeOK
  <2>1. kind = "bash" /\ BashInv => Bash!TypeOK
    <3> SUFFICES ASSUME BashInv PROVE Bash!TypeOK
      OBVIOUS
    <3>1. /\ Bash!EngineTypeOK /\ errors \in BOOLEAN /\ stage # "validate"
          /\ effects \subseteq 1..Commands /\ next \in Nat \ {0}
      BY DEF BashInv, BashWork
    <3>2. stage \in {"plan", "diff", "hitl", "rollback", "apply", "post_check", "done", "cancelled"}
      BY <3>1 DEF Bash!EngineTypeOK, Bash!Stages
    <3>3. /\ stage = "apply" => next <= 1 + Commands
          /\ stage = "post_check" => next <= 1 + Checks
          /\ stage \in {"done", "cancelled"} => next <= 1 + (Commands + Checks)
          /\ stage \in {"plan", "diff", "hitl", "rollback"} => next <= 1 + Rollbacks
      BY <3>1, Counts DEF BashInv, BashWork, Early
    <3> DEFINE most == CASE stage = "apply" -> Commands
                         [] stage = "post_check" -> Checks
                         [] stage \in {"done", "cancelled"} -> Commands + Checks
                         [] OTHER -> Rollbacks
    <3>4. /\ stage = "apply" => most = Commands
          /\ stage = "post_check" => most = Checks
          /\ stage \in {"done", "cancelled"} => most = Commands + Checks
          /\ stage \in {"plan", "diff", "hitl", "rollback"} => most = Rollbacks
      OBVIOUS
    <3> HIDE DEF most
    <3>5. most \in Nat /\ next <= 1 + most
      BY <3>2, <3>3, <3>4, Counts
    <3>6. next \in 1..(1 + most)
      BY <3>1, <3>5
    <3> QED BY <3>1, <3>6 DEF Bash!TypeOK, most
  <2>2. AnsibleInv => Ansible!TypeOK
    BY DEF AnsibleInv
  <2>3. KubernetesInv => Kubernetes!TypeOK
    BY DEF KubernetesInv
  <2>4. TerraformInv => Terraform!TypeOK
    BY DEF TerraformInv
  <2>5. ProvisionInv(kind) => Provision!TypeOK
    BY DEF ProvisionInv
  <2>6. CASE kind = "bash" /\ BashInv
    BY <2>1, <2>6 DEF TypeOK, Provisioned
  <2>7. CASE kind = "ansible" /\ AnsibleInv
    BY <2>2, <2>7 DEF TypeOK, Provisioned
  <2>8. CASE kind = "kubernetes" /\ KubernetesInv
    BY <2>3, <2>8 DEF TypeOK, Provisioned
  <2>9. CASE kind = "terraform" /\ TerraformInv
    BY <2>4, <2>9 DEF TypeOK, Provisioned
  <2>10. CASE kind \in Provisioned /\ ProvisionInv(kind)
    BY <2>5, <2>10 DEF TypeOK, Provisioned
  <2> QED BY <2>6, <2>7, <2>8, <2>9, <2>10, Zenon DEF IInv
<1> QED BY <1>1, Invariance, PTL
=============================================================================
