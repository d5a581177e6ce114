------------------------------ MODULE Pipelines ------------------------------
(***************************************************************************)
(* What every change to a system promises, whichever way it is made: an    *)
(* execution belongs to one of the pipelines or of the provisioner's       *)
(* backends, and each runs on an engine of its own stages.                 *)
(***************************************************************************)
EXTENDS ChangePipeline

CONSTANTS Commands, Rollbacks, Checks,      \* of a bash or an ansible pipeline
          Wanted, MaxReplicas, Heading,     \* of a kubernetes pipeline
          Resources,                        \* of terraform and of a provisioner
          None

VARIABLES kind,                                            \* what runs
          effects, next, errors,                           \* BashPipeline, AnsiblePipeline
          operation, others, replicas, original, replaced, temp,   \* KubernetesPipeline
          config, world, state, plan, backup, before       \* TerraformPipeline, Provisioner

Bash == INSTANCE BashPipeline
Ansible == INSTANCE AnsiblePipeline
Kubernetes == INSTANCE KubernetesPipeline
Terraform == INSTANCE TerraformPipeline
Provision == INSTANCE Provisioner

ASSUME PipelineAssumption == Bash!BashAssumption /\ Kubernetes!KubernetesAssumption

host == <<effects, next, errors>>
cluster == <<operation, others, replicas, original, replaced, temp>>
infra == <<config, world, state, plan, backup, before>>
vars == <<deps, stage, data, result, kind, host, cluster, infra>>

NoHost == effects = None /\ next = None /\ errors = None
NoCluster == /\ operation = None /\ others = None /\ replicas = None
             /\ original = None /\ replaced = None /\ temp = None
NoInfra == /\ config = None /\ world = None /\ state = None /\ plan = None
           /\ backup = None /\ before = None

OnHost == {"bash", "ansible"}
Provisioned == {"hcl", "mcp"}

Init == \/ kind = "bash" /\ Bash!Init /\ NoCluster /\ NoInfra
        \/ kind = "ansible" /\ Ansible!Init /\ NoCluster /\ NoInfra
        \/ kind = "kubernetes" /\ Kubernetes!Init /\ NoHost /\ NoInfra
        \/ kind = "terraform" /\ Terraform!Init /\ NoHost /\ NoCluster
        \/ kind \in Provisioned /\ Provision!Init(kind) /\ NoHost /\ NoCluster

(* A step of the execution's own stages.                                   *)
Working == /\ UNCHANGED kind
           /\ \/ kind = "bash" /\ Bash!Working /\ UNCHANGED <<cluster, infra>>
              \/ kind = "ansible" /\ Ansible!Working /\ UNCHANGED <<cluster, infra>>
              \/ kind = "kubernetes" /\ Kubernetes!Working /\ UNCHANGED <<host, infra>>
              \/ kind = "terraform" /\ Terraform!Working /\ UNCHANGED <<host, cluster>>
              \/ kind \in Provisioned /\ Provision!Working(kind) /\ UNCHANGED <<host, cluster>>

(* The execution is cancelled, or somebody else changes the target.        *)
Outside == /\ UNCHANGED <<kind, host, infra>>
           /\ \/ Cancel /\ UNCHANGED cluster
              \/ kind = "kubernetes" /\ Kubernetes!Other

Next == Working \/ Outside

(* The event loop goes on, and external commands end: those of a bash      *)
(* pipeline by their time limits; of kubectl, ansible-playbook, terraform  *)
(* and the MCP servers, which are waited for without one, it is assumed.   *)
(* Whether the user answers the confirmation is not.                       *)
Spec == Init /\ [][Next]_vars /\ WF_vars(Working /\ stage # "hitl")

-----------------------------------------------------------------------------
TypeOK == CASE kind = "bash" -> Bash!TypeOK
            [] kind = "ansible" -> Ansible!TypeOK
            [] kind = "kubernetes" -> Kubernetes!TypeOK
            [] kind = "terraform" -> Terraform!TypeOK
            [] kind \in Provisioned -> Provision!TypeOK

(* Whether the target was changed, the change is complete, the change is   *)
(* undone (made complete, by terraform's rollback), and a rollback is due  *)
(* when a stage fails.                                                     *)
Touched == CASE kind \in OnHost -> Bash!Touched
             [] kind = "kubernetes" -> Kubernetes!Touched
             [] OTHER -> Terraform!Touched
Achieved == CASE kind \in OnHost -> Bash!Achieved
              [] kind = "kubernetes" -> Kubernetes!Achieved
              [] kind = "terraform" -> Terraform!Achieved
              [] OTHER -> Provision!Achieved(kind)
Undone == CASE kind = "bash" -> Bash!Undone
            [] kind = "ansible" -> Ansible!Undone
            [] kind = "kubernetes" -> Kubernetes!Undone
            [] kind = "terraform" -> Terraform!Undone
            [] OTHER -> Provision!Undone(kind)
Undoable == kind \in Provisioned => Provision!Undoable

(* Whatever fails, is refused or is cancelled, nothing is changed by a dry *)
(* run, nor by a pipeline without the user's yes (the engines' execute).   *)
(* A provisioner records an approval for which nobody was asked            *)
(* ("auto-approving", provisioners/base.py:434).                           *)
ChangedOnlyIfApproved ==
    Touched => ~deps.dry_run /\ (kind \in Provisioned \/ result.approved)

(* A plain success, one that was not aborted as a dry run or for want of   *)
(* changes, means that the whole change is in effect and nothing of it was *)
(* undone (execute, with each apply).                                      *)
SuccessMeansAchieved == result.success /\ result.aborted = "no" => Achieved

(* With auto_rollback an execution that ends without success and leaves    *)
(* something behind has tried to roll it back ("Apply failed - attempt     *)
(* rollback", "Post-check failed - attempt rollback"), unless apply()      *)
(* itself raised: its rollback data is stored only when it returns.  The   *)
(* provisioners do so only if apply() returned data for it, which that of  *)
(* terraform does only when it succeeds, and that of mcp unless an         *)
(* exception ends its loop.                                                *)
FailureIsRolledBack ==
    stage = "done" /\ ~result.success /\ deps.auto_rollback /\ Touched /\ Undoable
        => result.rollback # "none" \/ result.aborted = "apply"

(* A rollback reported as successful leaves what its kind promises,        *)
(* wherever the execution stopped: everything undone, or for terraform the *)
(* configuration in effect (the rollback methods).                         *)
RollbackUndoes == result.rollback = "ok" /\ stage = "done" => Undone

(* An execution that is approved ends, with a result or cancelled, through *)
(* commands, checks and rollback commands that fail in any order, as long  *)
(* as each of them ends.                                                   *)
Terminates == result.approved ~> Ended
=============================================================================
