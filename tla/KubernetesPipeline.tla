-------------------------- MODULE KubernetesPipeline --------------------------
(***************************************************************************)
(* The Kubernetes pipeline (merlya/pipelines/kubernetes.py) in all its     *)
(* operations, on the engine of ChangePipeline.  The resource it works on  *)
(* is its replica count, its manifest's version or its rollout revision,   *)
(* whichever the operation changes; others (an autoscaler, an operator)    *)
(* may change it too while the pipeline waits for its user.                *)
(***************************************************************************)
EXTENDS ChangePipeline

CONSTANTS Wanted,        \* the count, the manifest or the revision to reach
          MaxReplicas,   \* bound on counts, versions and revisions
          Heading,       \* the first word of `rollout history`, no revision
          None           \* no resource, or nothing kept

KubernetesAssumption ==
    /\ MaxReplicas \in Nat \ {0}      \* there is a first revision
    /\ Wanted \in 0..MaxReplicas /\ {Heading, None} \cap Nat = {}

VARIABLES operation,  \* _operation
          others,     \* whether others change the resource meanwhile
          replicas,   \* what the cluster holds of the resource, None: absent
          original,   \* _original_replicas or _rollout_revision
          replaced,   \* history: what the command replaced
          temp        \* the temporary manifests on disk, at most one per stage

cluster == <<operation, others, replicas, original, replaced, temp>>

Operations == {"apply", "delete", "scale", "rollout", "patch"}
Held == 0..MaxReplicas

Init == /\ EngineInit
        /\ operation \in Operations
        /\ others \in BOOLEAN
        /\ replicas \in Held \cup {None}
        /\ original = None /\ replaced = <<>>
        /\ temp = 0

(* plan() checks that kubectl runs and the operation has its parameters.   *)
Plan == (\E ok \in BOOLEAN : PlanEnds(ok)) /\ UNCHANGED cluster

(* An inline manifest is written to a temporary file by diff and again by  *)
(* apply, which removes its own.                                           *)
Manifests == IF operation = "apply" THEN {0, 1} ELSE {0}

(* diff() shows the change: a server-side dry run of the manifest, the     *)
(* current count, which it keeps (None when kubectl fails), or a line of   *)
(* text; an exception makes it fail.                                       *)
Diff == /\ \/ /\ operation = "scale"
              /\ DiffEnds(TRUE) /\ original' \in {replicas, None}
           \/ /\ operation # "scale"
              /\ DiffEnds(TRUE) /\ UNCHANGED original
           \/ /\ operation \notin {"delete", "rollout"}
              /\ DiffEnds(FALSE) /\ UNCHANGED original
        /\ temp' \in Manifests
        /\ UNCHANGED <<operation, others, replicas, replaced>>

Hitl == (\E ok \in BOOLEAN : Answer(ok)) /\ UNCHANGED cluster

(* Mutant: the count is read after the command has replaced it.            *)
M_Kept == IF operation = "scale" /\ original = None THEN {Wanted, None} ELSE {original}

(* What apply() reads first, to be able to roll back: the count only if    *)
(* diff() got none; the revision is the first word of the first line of    *)
(* `rollout history` that has no "REVISION" in it: the line that names the *)
(* resource, or the oldest revision, if kubectl prints no such line.       *)
Kept == CASE operation = "rollout" -> {Heading, 1, None}
          [] operation = "scale" /\ (original = None) -> {replicas, None}
          [] OTHER -> {original}

(* What the command leaves when it is carried out.                         *)
Changed == CASE operation = "apply" -> Wanted
             [] operation = "delete" -> None
             [] operation \in {"scale", "rollout"} /\ (replicas # None) -> Wanted
             [] OTHER -> replicas

(* Whether kubectl can exit with zero: a patch has no verb, a resource     *)
(* that is not there cannot be deleted, scaled or restarted.               *)
Possible == operation = "apply" \/ (operation # "patch" /\ replicas # None)

(* apply() reads what it needs for a rollback and runs kubectl; a failed   *)
(* or undecodable kubectl may have done its work.  The temporary manifest  *)
(* of this stage is removed, that of diff() is not.                        *)
Apply ==
    /\ stage = "apply"
    /\ original' \in Kept
    /\ \E ok \in BOOLEAN, hasData \in BOOLEAN :
         /\ ok => hasData /\ Possible
         /\ replicas' \in IF ok THEN {Changed} ELSE {Changed, replicas}
         /\ replaced' = IF ok \/ replicas' # replicas THEN <<replicas>> ELSE replaced
         /\ ApplyEnds(ok, hasData)
    /\ UNCHANGED <<operation, others, temp>>

(* post_check() fails if the resource cannot be read, except after a       *)
(* delete or for a manifest that names none; what it reads of the rollout  *)
(* and of the pods only warns.                                             *)
PostCheck == /\ \E ok \in BOOLEAN :
                  /\ ok => replicas # None \/ operation \in {"apply", "delete"}
                  /\ ~ok => operation # "delete"
                  /\ PostCheckEnds(ok)
             /\ UNCHANGED cluster

(* The revision before the current one: if the restart never took effect   *)
(* that is an older one than the one in use before the apply stage.        *)
Previous == IF replaced # <<>> THEN replaced[1] ELSE replicas - 1

(* rollback() runs a command for a rollout, and for a scaling whose count  *)
(* was kept; kubectl refuses a revision that is not one.                   *)
Rollback ==
    /\ stage = "rollback"
    /\ LET restored == IF operation = "rollout" /\ original = None THEN Previous ELSE original
           works == /\ operation \in {"scale", "rollout"} /\ replicas # None
                    /\ restored \in Held
       IN \/ works /\ replicas' = restored /\ RollbackEnds(TRUE)
          \/ replicas' \in (IF works THEN {restored, replicas} ELSE {replicas}) /\ RollbackEnds(FALSE)
    /\ UNCHANGED <<operation, others, original, replaced, temp>>

(* diff, apply and rollback catch their exceptions; post_check does not.   *)
Raises == stage \in {"hitl", "post_check"} /\ StageRaises /\ UNCHANGED cluster

Other == /\ others /\ ~Ended
         /\ replicas' \in Held \cup {None}
         /\ UNCHANGED <<engine, operation, others, original, replaced, temp>>

Working == Plan \/ Diff \/ Hitl \/ Apply \/ PostCheck \/ Rollback \/ Raises

-----------------------------------------------------------------------------
TypeOK == /\ EngineTypeOK
          /\ operation \in Operations /\ others \in BOOLEAN
          /\ replicas \in Held \cup {None}
          /\ original \in Held \cup {Heading, None}
          /\ replaced \in {<<>>} \cup {<<x>> : x \in Held \cup {None}}
          /\ temp \in 0..1

(* The resource was changed; it is as wanted; it is as it was before.  The *)
(* last two can only be promised if nobody else changes it, and undoing a  *)
(* rollout only if no revision was kept: the one read from the history is  *)
(* the oldest, not the last.                                               *)
Touched == replaced # <<>>
Achieved == ~others => replicas = IF operation = "delete" THEN None ELSE Wanted
Undone == ~others /\ Touched /\ (operation = "rollout" => original = None)
              => replicas = replaced[1]
=============================================================================
