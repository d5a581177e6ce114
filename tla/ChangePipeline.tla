--------------------------- MODULE ChangePipeline ---------------------------
(***************************************************************************)
(* The engine of the change pipelines (merlya/pipelines/base.py,           *)
(* AbstractPipeline.execute): plan, diff, human approval, apply and        *)
(* post-check, with rollback when something fails after the approval.      *)
(*                                                                         *)
(* The stages are abstract methods.  A module for a concrete pipeline      *)
(* conjoins each stage's end, given here with its outcome, with what that  *)
(* pipeline's method does to its target.                                   *)
(***************************************************************************)
EXTENDS Naturals

VARIABLES deps,     \* the options dry_run and auto_rollback of this execution
          stage,    \* _current_stage, or "done" or "cancelled"
          data,     \* _rollback_data is not empty
          result    \* the PipelineResult

engine == <<deps, stage, data, result>>

Stages == {"plan", "diff", "hitl", "apply", "post_check", "rollback"}

(* aborted names the stage aborted_at; rollback is the RollbackResult.     *)
Result == [success : BOOLEAN, aborted : Stages \cup {"no"}, approved : BOOLEAN,
           rollback : {"none", "ok", "failed"}]

EngineInit ==
    /\ deps \in [dry_run : BOOLEAN, auto_rollback : BOOLEAN]
    /\ stage = "plan"
    /\ data = FALSE
    /\ result = [success |-> FALSE, aborted |-> "no", approved |-> FALSE, rollback |-> "none"]

EngineTypeOK ==
    /\ deps \in [dry_run : BOOLEAN, auto_rollback : BOOLEAN]
    /\ stage \in Stages \cup {"done", "cancelled"}
    /\ data \in BOOLEAN
    /\ result \in Result
    /\ result.aborted # "no" => stage \in {"rollback", "done", "cancelled"}

Ended == stage \in {"done", "cancelled"}

(* _finalize_result, with the fields of the result set on the way.         *)
Finish(r) == stage' = "done" /\ result' = r

Abort == Finish([result EXCEPT !.aborted = stage])

(* plan() and diff() return; ok is the success field of what they return.  *)
PlanEnds(ok) ==
    /\ stage = "plan"
    /\ IF ok THEN stage' = "diff" /\ UNCHANGED result ELSE Abort
    /\ UNCHANGED <<deps, data>>

DiffEnds(ok) ==
    /\ stage = "diff"
    /\ IF ok THEN stage' = "hitl" /\ UNCHANGED result ELSE Abort
    /\ UNCHANGED <<deps, data>>

(* Mutant: the dry run is only looked at after the apply stage.            *)
M_Answer(approved) ==
    /\ stage = "hitl"
    /\ IF approved
       THEN stage' = "apply" /\ result' = [result EXCEPT !.approved = TRUE]
       ELSE Abort
    /\ UNCHANGED <<deps, data>>

(* The user answers the confirmation; a dry run ends here as a success     *)
(* aborted at the apply stage.                                             *)
Answer(approved) ==
    /\ stage = "hitl"
    /\ IF ~approved THEN Abort
       ELSE IF deps.dry_run
       THEN Finish([result EXCEPT !.approved = TRUE, !.success = TRUE, !.aborted = "apply"])
       ELSE stage' = "apply" /\ result' = [result EXCEPT !.approved = TRUE]
    /\ UNCHANGED <<deps, data>>

(* apply() or post_check() returned a failure.                             *)
Failed == IF deps.auto_rollback
          THEN stage' = "rollback" /\ UNCHANGED result
          ELSE Finish(result)

ApplyEnds(ok, hasData) ==
    /\ stage = "apply"
    /\ data' = hasData
    /\ IF ok THEN stage' = "post_check" /\ UNCHANGED result ELSE Failed
    /\ UNCHANGED deps

(* Mutant: a failed post-check is not rolled back.                         *)
M_PostCheckEnds(ok) ==
    /\ stage = "post_check"
    /\ IF ok THEN Finish([result EXCEPT !.success = TRUE]) ELSE Finish(result)
    /\ UNCHANGED <<deps, data>>

PostCheckEnds(ok) ==
    /\ stage = "post_check"
    /\ IF ok THEN Finish([result EXCEPT !.success = TRUE]) ELSE Failed
    /\ UNCHANGED <<deps, data>>

(* A stage raises an Exception: rolled back if it was raised while         *)
(* applying or checking and rollback data has been stored.                 *)
StageRaises ==
    /\ stage \in Stages \ {"rollback"}
    /\ IF stage \in {"apply", "post_check"} /\ deps.auto_rollback /\ data
       THEN stage' = "rollback" /\ result' = [result EXCEPT !.aborted = stage]
       ELSE Abort
    /\ UNCHANGED <<deps, data>>

(* _safe_rollback: an exception counts as a failure.                       *)
RollbackEnds(ok) ==
    /\ stage = "rollback"
    /\ Finish([result EXCEPT !.rollback = IF ok THEN "ok" ELSE "failed"])
    /\ UNCHANGED <<deps, data>>

(* CancelledError passes `except Exception`: no result and no rollback.    *)
Cancel ==
    /\ ~Ended
    /\ stage' = "cancelled"
    /\ UNCHANGED <<deps, data, result>>
=============================================================================
