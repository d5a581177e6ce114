-------------------------------- MODULE Agent --------------------------------
(***************************************************************************)
(* What happens to a request of the user.  The four parts work on state of *)
(* their own, so an execution follows one of them: the turn of the         *)
(* conversation it belongs to, the commands that its agent proposes, the   *)
(* elevation of those commands on a host, and the subagents that work on   *)
(* many hosts.                                                             *)
(***************************************************************************)
EXTENDS Naturals

CONSTANTS Tasks, MaxPasswordRetries,                        \* Elevation
          Callers, Hosts, Unknown, Commands, Classes,       \* ToolCalls
          MaxSameFingerprint, PatternWindowSize, MaxCategoryCommands, MaxTotalCalls, MaxCalls,
          Roles, Convs, MaxMessages, HardMax, MaxAttempts, MaxTasks, MaxRounds,   \* Turn
          HostCount, MaxConcurrent, MaxTimeout, IdleTimeout,                     \* Fleet
          None

(* No list of hosts is endless, and the semaphore lets somebody in.        *)
ASSUME AgentAssumption == HostCount \in Nat /\ MaxConcurrent \in Nat \ {0} /\ MaxMessages \in Nat /\ Roles # {}

(* A missing value is no value.                                            *)
ASSUME NoneAssumption ==
    /\ None \notin Convs
    /\ None \notin {"hangs", "success", "timeout", "cancelled", "sudo", "su", "doas", "root",
                    "of user", "of root", "wrong"}

VARIABLES part,
          host, remote, interactive, secrets, cached, task,                        \* Elevation
          agent, recorded, confirm, queue, shown, lastTarget, caller, made, said,  \* ToolCalls
          mode, phase, role, agents, store, born, unsaved, messages, attempt,      \* Turn
          interrupted, rounds, tasks,
          call, execution, cancelled, pc, subagent, answer, outcome, results,      \* Fleet
          elapsed, idle

Elevating == INSTANCE Elevation
Calling == INSTANCE ToolCalls
Talking == INSTANCE Turn
Working == INSTANCE Fleet

elevationVars == <<host, remote, interactive, secrets, cached, task>>
callVars == <<agent, recorded, confirm, queue, shown, lastTarget, caller, made, said>>
turnVars == <<mode, phase, role, agents, store, born, unsaved, messages, attempt,
              interrupted, rounds, tasks>>
fleetVars == <<call, execution, cancelled, pc, subagent, answer, outcome, results, elapsed, idle>>
vars == <<part, elevationVars, callVars, turnVars, fleetVars>>

NoElevation == /\ host = None /\ remote = None /\ interactive = None
               /\ secrets = None /\ cached = None /\ task = None
NoCalls == /\ agent = None /\ recorded = None /\ confirm = None
           /\ queue = None /\ shown = None /\ lastTarget = None
           /\ caller = None /\ made = None /\ said = None
NoTurn == /\ mode = None /\ phase = None /\ role = None
          /\ agents = None /\ store = None /\ born = None
          /\ unsaved = None /\ messages = None /\ attempt = None
          /\ interrupted = None /\ rounds = None /\ tasks = None
NoFleet == /\ call = None /\ execution = None /\ cancelled = None /\ pc = None
           /\ subagent = None /\ answer = None /\ outcome = None /\ results = None
           /\ elapsed = None /\ idle = None

Init == \/ part = "elevation" /\ Elevating!ElevationInit
           /\ NoCalls /\ NoTurn /\ NoFleet
        \/ part = "calls" /\ Calling!CallsInit
           /\ NoElevation /\ NoTurn /\ NoFleet
        \/ part = "turn" /\ Talking!TurnInit
           /\ NoElevation /\ NoCalls /\ NoFleet
        \/ part = "fleet" /\ Working!FleetInit
           /\ NoElevation /\ NoCalls /\ NoTurn

Elevate == part = "elevation" /\ Elevating!ElevationNext /\ UNCHANGED <<part, callVars, turnVars, fleetVars>>
Calls == part = "calls" /\ Calling!CallsNext /\ UNCHANGED <<part, elevationVars, turnVars, fleetVars>>
Talk == part = "turn" /\ Talking!TurnNext /\ UNCHANGED <<part, elevationVars, callVars, fleetVars>>
Work == part = "fleet" /\ Working!FleetNext /\ UNCHANGED <<part, elevationVars, callVars, turnVars>>

Next == Elevate \/ Calls \/ Talk \/ Work

(* The event loop runs on whatever can run, and the user comes to answer   *)
(* each prompt in a way that is understood.  That a subagent answers is not*)
(* assumed: time passes until it is late.  That the model and the MCP      *)
(* servers answer in a turn is assumed: call_mcp waits for them without a  *)
(* time limit (merlya/agent/tools_mcp.py).                                 *)
Spec == /\ Init /\ [][Next]_vars
        /\ \A t \in Tasks : WF_elevationVars(part = "elevation" /\ Elevating!ElevationStep(t))
        /\ \A t \in Callers :
              /\ WF_callVars(part = "calls" /\ Calling!CallStep(t))
              /\ SF_callVars(part = "calls" /\ Calling!Understood(t))
        /\ WF_turnVars(part = "turn" /\ Talking!Work)
        /\ WF_fleetVars(part = "fleet" /\ Working!Gather)
        /\ WF_fleetVars(part = "fleet" /\ Working!Tick)
        /\ \A i \in 1..HostCount : /\ WF_fleetVars(part = "fleet" /\ Working!Step(i))
                                  /\ WF_fleetVars(part = "fleet" /\ Working!Unwind(i))

-----------------------------------------------------------------------------
(* No specialist's command waits for a password that nobody sends, and a   *)
(* verified password goes to the program it was verified with (Elevation:  *)
(* prepare_host_elevation and request_credentials against ssh_execute).    *)
PasswordsFit == part = "elevation" => Elevating!NothingHangs /\ Elevating!PasswordFitsCommand

(* The execution agent runs what was said yes to (ToolCalls: should_skip   *)
(* and confirm_command among concurrent calls).                            *)
RunsOnlyConfirmed == part = "calls" => Calling!RunsOnlyConfirmed

(* The stored conversation is the agent's (Turn: _persist_history on all   *)
(* ways out of a turn).                                                    *)
ConversationIsKept == part = "turn" => Talking!ConversationIsKept

(* No return of a tool is sent without its call (Turn: limit_history).     *)
SentIsPaired == part = "turn" => Talking!SentIsPaired

(* A conversation is written over only by its continuation (Turn:          *)
(* clear_history, the agents of a batch, _persist_history).                *)
ContinuesItself ==
    [][part = "turn" => \A c \in Convs : Talking!Continues(c)]_vars

(* No subagent outlives the call of run_on_hosts it belongs to, and the    *)
(* limit of concurrency holds (Fleet: _execute_on_host, ActivityTimeout).  *)
NothingLeftRunning == part = "fleet" => Working!NothingLeftRunning

(* The results of run_on_hosts are those of its subagents (Fleet:          *)
(* AggregatedResults, with timeouts, cancellations and failures).          *)
ResultsAreTrue == part = "fleet" => Working!ResultsAreTrue

(* Whatever the user, the database, and the model and the tools once they  *)
(* answer do, the calls of tools return, the turn they belong to ends, and *)
(* so does the work on many hosts, whose subagents need not answer.        *)
Quiet == CASE part = "elevation" -> \A t \in Tasks : task[t].pc = "done"
           [] part = "calls" -> \A t \in Callers : caller[t].pc = "idle"
           [] part = "turn" -> phase \in {"prompt", "closed", "killed"}
           [] part = "fleet" -> call # "running"
EverythingEnds == []<>Quiet

(* Exit codes of a batch: "0: all tasks succeeded, 1: one or more tasks    *)
(* failed" (docs/reference/cli.md).                                        *)
ExitTellsFailure == part = "turn" => Talking!ExitTellsFailure

(* The command the user says yes to is the one he sees (_prompt_lock:      *)
(* "Mutex to prevent overlapping prompts from parallel agents").           *)
AnswersWhatIsShown == part = "calls" => Calling!AnswersWhatIsShown
=============================================================================
