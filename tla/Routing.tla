-------------------------------- MODULE Routing --------------------------------
(***************************************************************************)
(* How a task of a batch is routed before the agent works on it: rules over*)
(* the words of the task, a fast model that is asked first and a second one*)
(* for unsure verdicts; any of them may be missing, fail or take too long. *)
(* The verdict decides whether commands of the agent need the user's yes.  *)
(* The agent itself can ask for a classification meanwhile.                *)
(***************************************************************************)
EXTENDS Integers, FiniteSetsExt

CONSTANTS MaxTasks,   \* bound: tasks in a batch
          None

VARIABLES extractor,  \* the fast model: "unknown", "ready" or "failed"
          fallback,   \* whether a model for unsure verdicts is configured
          auto,       \* auto_confirm: nobody can be asked
          task,       \* the task under way
          tasks,
          center,     \* what classify_intent last told the agent
          unasked     \* history: a command ran unasked though the router had flagged its task

routingVars == <<extractor, fallback, auto, task, tasks, center, unasked>>

(* What the rules see in a task: words for a change and for a diagnosis,   *)
(* words that destroy, an operation on infrastructure and the environment. *)
Operations == {"provision", "update", "destroy", "plan"}
Tasks == [fast : BOOLEAN, change : 0..2, diag : 0..2, deletes : BOOLEAN,
          operation : Operations \union {None}, production : BOOLEAN]

(* RouterResult, without the entities; confidence in tenths.               *)
Verdict(mode, confidence, destructive, severity) ==
    [mode |-> mode, confidence |-> confidence, destructive |-> destructive, severity |-> severity]

NoTask == [pc |-> "idle", text |-> None, result |-> None, flagged |-> FALSE, answered |-> FALSE]

RoutingInit ==
    /\ extractor = "unknown" /\ fallback \in BOOLEAN /\ auto \in BOOLEAN
    /\ task = NoTask /\ tasks = 0 /\ center = None /\ unasked = FALSE

(* _determine_severity.                                                    *)
Severity(t, destructive) ==
    CASE t.production /\ (t.operation = "destroy" \/ destructive) -> "critical"
      [] ~(t.production /\ (t.operation = "destroy" \/ destructive))
         /\ (t.operation = "destroy" \/ (t.production /\ t.operation \in {"provision", "update"})) -> "high"
      [] ~t.production /\ t.operation \in {"provision", "update"} -> "medium"
      [] t.operation = "plan" -> "low"
      [] OTHER -> IF destructive THEN "high" ELSE "low"

M_Center(change, diag) == IF change >= diag THEN "remediation" ELSE "diagnostic"

(* A change needs more words for it than for a diagnosis.                  *)
Center(change, diag) == IF change > diag THEN "remediation" ELSE "diagnostic"

(* _extract_with_regex.                                                    *)
Regex(t) ==
    LET change == t.change + (IF t.operation \in {"provision", "update", "destroy"} THEN 3 ELSE 0)
        diag == t.diag + (IF t.operation = "plan" THEN 3 ELSE 0)
        mode == Center(change, diag)
        destructive == t.deletes \/ t.operation = "destroy" IN
    Verdict(mode, Min({6 + (IF mode = "remediation" THEN change ELSE diag), 9}),
            destructive, Severity(t, destructive))

Flags(v) == v.destructive \/ v.severity = "critical"

-----------------------------------------------------------------------------
(* route: a task that looks like a listing is routed at once; the answers  *)
(* of the models are not asked for.                                        *)
Route(t) ==
    /\ task.pc = "idle" /\ tasks < MaxTasks /\ tasks' = tasks + 1
    /\ task' = IF t.fast THEN [NoTask EXCEPT !.pc = "routed", !.text = t,
                                             !.result = Verdict("query", 10, FALSE, "low")]
               ELSE [NoTask EXCEPT !.pc = "extract", !.text = t]
    /\ UNCHANGED <<extractor, fallback, auto, center, unasked>>

(* _ensure_initialized: a failure is kept, to avoid retries.               *)
Initialize(ok) ==
    /\ task.pc = "extract" /\ extractor = "unknown"
    /\ extractor' = IF ok THEN "ready" ELSE "failed"
    /\ UNCHANGED <<fallback, auto, task, tasks, center, unasked>>

(* extract: the verdict of the model, or of the rules when there is none,  *)
(* it fails or it takes longer than EXTRACTION_TIMEOUT.                    *)
Extracted(v, answered) ==
    task' = [task EXCEPT !.pc = "extracted", !.result = v, !.flagged = Flags(v), !.answered = answered]

ExtractByRules ==
    /\ task.pc = "extract" /\ extractor # "unknown"
    /\ Extracted(Regex(task.text), FALSE)
    /\ UNCHANGED <<extractor, fallback, auto, tasks, center, unasked>>

ExtractByModel(v) ==
    /\ task.pc = "extract" /\ extractor = "ready"
    /\ Extracted(v, TRUE)
    /\ UNCHANGED <<extractor, fallback, auto, tasks, center, unasked>>

(* handle_llm_fallback: an answer replaces the verdict; no answer leaves it*)
Unsure == task.result.confidence < 6 /\ fallback

AskFallback(mode) ==
    /\ task.pc = "extracted" /\ Unsure
    /\ task' = [task EXCEPT !.pc = "routed", !.answered = TRUE,
                            !.result = Verdict(mode, 9, FALSE, "low")]
    /\ UNCHANGED <<extractor, fallback, auto, tasks, center, unasked>>

(* The verdict is sure enough, or the second model did not answer.         *)
KeepVerdict ==
    /\ task.pc = "extracted" /\ task' = [task EXCEPT !.pc = "routed"]
    /\ UNCHANGED <<extractor, fallback, auto, tasks, center, unasked>>

(* The bash and ssh_execute tools: a flagged task needs a yes.             *)
Command ==
    /\ task.pc = "routed"
    /\ task' = IF Flags(task.result) THEN [task EXCEPT !.pc = "ask"] ELSE task
    /\ unasked' = (unasked \/ (task.flagged /\ ~Flags(task.result)))
    /\ UNCHANGED <<extractor, fallback, auto, tasks, center>>

(* With auto_confirm the prompt raises and the task is over.               *)
Answer ==
    /\ task.pc = "ask"
    /\ IF auto THEN task' = NoTask /\ center' = None
       ELSE task' = [task EXCEPT !.pc = "routed"] /\ UNCHANGED center
    /\ UNCHANGED <<extractor, fallback, auto, tasks, unasked>>

EndTask ==
    /\ task.pc = "routed" /\ task' = NoTask /\ center' = None
    /\ UNCHANGED <<extractor, fallback, auto, tasks, unasked>>

(* CenterClassifier.classify for the agent: confidence in hundredths; the  *)
(* model is asked when the rules are unsure, and wins when it is surer.    *)
Classify(mode, sure) ==
    /\ task.pc = "routed"
    /\ LET c == task.text.change
           d == task.text.diag
           rules == [mode |-> Center(c, d),
                     sure |-> CASE c + d = 0 -> 30 [] c + d > 0 /\ c = d -> 50
                                [] OTHER -> Min({95, 50 + 15 * (IF c > d THEN c - d ELSE d - c)})]
           asked == rules.sure < 70 /\ sure # None
           best == IF asked THEN (IF sure > rules.sure THEN [mode |-> mode, sure |-> sure] ELSE rules) ELSE rules IN
       center' = [mode |-> best.mode, clarify |-> best.sure < 70, answered |-> asked]
    /\ UNCHANGED <<extractor, fallback, auto, task, tasks, unasked>>

Modes == {"diagnostic", "remediation", "query", "chat"}
Verdicts == {Verdict(mode, confidence, destructive, severity) :
                 mode \in {"diagnostic", "remediation", "query"}, confidence \in {5, 9},
                 destructive \in BOOLEAN, severity \in {"low", "critical"}}

RoutingNext ==
    \/ \E t \in Tasks : Route(t)
    \/ \E ok \in BOOLEAN : Initialize(ok)
    \/ \E v \in Verdicts : ExtractByModel(v)
    \/ \E mode \in Modes : AskFallback(mode)
    \/ ExtractByRules \/ KeepVerdict \/ Command \/ Answer \/ EndTask
    \/ \E mode \in {"diagnostic", "remediation"}, sure \in {40, 60, 90} \union {None} : Classify(mode, sure)

-----------------------------------------------------------------------------
(* A task is only taken for a change, by the router or in what the agent   *)
(* is told, when a model said so or its words for a change outnumber the   *)
(* others, whichever models are missing, fail or time out; and then the    *)
(* rules' flag for destruction still stands (extract, classify).           *)
UnansweredIsSafe ==
    /\ (task.result # None /\ ~task.answered /\ task.text.operation = None) =>
          /\ task.result.mode = "remediation" => task.text.change > task.text.diag
          /\ task.result.confidence # 10 => task.result.destructive = task.text.deletes
    /\ (center # None /\ ~center.answered /\ center.mode = "remediation") =>
          task.text.change > task.text.diag

(* "Prompt user if router flagged severity/destructive intent"             *)
(* (_execute_ssh_command).                                                 *)
FlaggedIsAsked == ~unasked
=============================================================================
