--------------------------------- MODULE Fleet ---------------------------------
(***************************************************************************)
(* One call of run_on_hosts of the subagent orchestrator                   *)
(* (merlya/subagents/orchestrator.py): a task per host, at most            *)
(* MaxConcurrent at a time, each watched by an ActivityTimeout             *)
(* (merlya/subagents/timeout.py) while its subagent works in a task of its *)
(* own (merlya/subagents/factory.py).  The caller may be cancelled.        *)
(*                                                                         *)
(* A host is a position in the list of hosts, which may name one twice.    *)
(* The on_progress callbacks are left out: their exceptions are swallowed. *)
(* Time advances in the intervals at which the timeouts are looked at.     *)
(***************************************************************************)
EXTENDS Naturals, FiniteSets, Functions

CONSTANTS HostCount,       \* number of hosts
          MaxConcurrent,
          MaxTimeout, IdleTimeout,     \* in check intervals
          None

VARIABLES call,        \* of run_on_hosts: "running", or how it has ended
          execution,   \* its entry in _active_executions
          cancelled,   \* the caller has been cancelled
          pc,          \* where the task of each host is
          subagent,    \* the task in which the subagent of the host runs
          answer,      \* how that task has ended
          outcome,     \* what the task of the host has returned or raised
          results,     \* of the AggregatedResults
          elapsed, idle    \* of each ActivityTimeout

timers == <<elapsed, idle>>
fleetVars == <<call, execution, cancelled, pc, subagent, answer, outcome, results, timers>>

Slots == 1..HostCount

(* waiting for the semaphore; watching the subagent; timing out or         *)
(* unwinding, both until the cancelled subagent has ended                  *)
PC == {"waiting", "watching", "timingOut", "unwinding", "ended"}

FleetInit ==
        /\ call = "running" /\ execution = "running" /\ cancelled = FALSE
        /\ pc = [i \in Slots |-> "waiting"]
        /\ subagent = [i \in Slots |-> "none"]
        /\ answer = [i \in Slots |-> None]
        /\ outcome = [i \in Slots |-> None]
        /\ results = <<>>
        /\ elapsed = [i \in Slots |-> 0]
        /\ idle = [i \in Slots |-> 0]

(* The hosts whose task is inside the semaphore.                           *)
Holding == {i \in Slots : pc[i] \in {"watching", "timingOut", "unwinding"}}

(* The task of host i ends; it releases the semaphore.                     *)
EndWith(i, o) == /\ pc' = [pc EXCEPT ![i] = "ended"]
                 /\ outcome' = [outcome EXCEPT ![i] = o]

(* _execute_on_host: the subagent is created, which may raise, and started *)
(* with the timers at zero.  The semaphore is fair.                        *)
Start(i) ==
    /\ pc[i] = "waiting" /\ \A j \in 1..i-1 : pc[j] # "waiting"
    /\ Cardinality(Holding) < MaxConcurrent
    /\ \/ EndWith(i, "failed") /\ UNCHANGED subagent
       \/ /\ pc' = [pc EXCEPT ![i] = "watching"]
          /\ subagent' = [subagent EXCEPT ![i] = "running"]
          /\ UNCHANGED outcome
    /\ UNCHANGED <<call, execution, cancelled, answer, results, timers>>

(* touch_activity, called by the local shell tool.                         *)
Touch(i) ==
    /\ subagent[i] = "running"
    /\ idle' = [idle EXCEPT ![i] = 0]
    /\ UNCHANGED <<call, execution, cancelled, pc, subagent, answer, outcome, results, elapsed>>

(* SubagentInstance.run turns every Exception into a failure; a            *)
(* CancelledError, its own or that of cancel(), passes.                    *)
SubagentEnds(i) ==
    /\ subagent[i] \in {"running", "cancelling"}
    /\ subagent' = [subagent EXCEPT ![i] = "ended"]
    /\ \E a \in IF subagent[i] = "running" THEN {"success", "failed", "cancelled"}
                                           ELSE {"failed", "cancelled"} :
          answer' = [answer EXCEPT ![i] = a]
    /\ UNCHANGED <<call, execution, cancelled, pc, outcome, results, timers>>

Late(i) == elapsed[i] >= MaxTimeout \/ idle[i] >= IdleTimeout

(* Mutant: the cancelled subagent is not awaited.                          *)
M_TimeOut(i) ==
    /\ pc[i] = "watching" /\ subagent[i] = "running" /\ Late(i)
    /\ EndWith(i, "timeout")
    /\ subagent' = [subagent EXCEPT ![i] = "cancelling"]
    /\ UNCHANGED <<call, execution, cancelled, answer, results, timers>>

(* ActivityTimeout.run finds the subagent late: it cancels it and waits    *)
(* until it has ended.                                                     *)
TimeOut(i) ==
    /\ pc[i] = "watching" /\ subagent[i] = "running" /\ Late(i)
    /\ pc' = [pc EXCEPT ![i] = "timingOut"]
    /\ subagent' = [subagent EXCEPT ![i] = "cancelling"]
    /\ UNCHANGED <<call, execution, cancelled, answer, outcome, results, timers>>

(* Mutant: every result of a subagent counts as a success.                 *)
M_Report(i) ==
    /\ pc[i] \in {"watching", "timingOut", "unwinding"} /\ subagent[i] = "ended"
    /\ EndWith(i, CASE pc[i] = "timingOut" -> "timeout"
                    [] pc[i] = "unwinding" -> "cancelled"
                    [] OTHER -> IF answer[i] = "failed" THEN "success" ELSE answer[i])
    /\ UNCHANGED <<call, execution, cancelled, subagent, answer, results, timers>>

(* _execute_on_host returns the result of the subagent, or that of a       *)
(* timeout whatever the subagent answered in the end, or raises the        *)
(* CancelledError of the caller or of the subagent.                        *)
Report(i) ==
    /\ pc[i] \in {"watching", "timingOut", "unwinding"} /\ subagent[i] = "ended"
    /\ EndWith(i, CASE pc[i] = "timingOut" -> "timeout"
                    [] pc[i] = "unwinding" -> "cancelled"
                    [] OTHER -> answer[i])
    /\ UNCHANGED <<call, execution, cancelled, subagent, answer, results, timers>>

(* The cancelled caller cancels every task that has not ended: one that    *)
(* waits for the semaphore ends, one that watches cancels its subagent and *)
(* waits for it, one that waits for a late subagent still reports that.    *)
Cancel ==
    /\ call = "running" /\ ~cancelled
    /\ cancelled' = TRUE
    /\ pc' = [i \in Slots |-> CASE pc[i] = "waiting" -> "ended"
                                [] pc[i] = "watching" -> "unwinding"
                                [] OTHER -> pc[i]]
    /\ outcome' = [i \in Slots |-> IF pc[i] = "waiting" THEN "cancelled" ELSE outcome[i]]
    /\ subagent' = [i \in Slots |-> IF pc[i] = "watching" /\ subagent[i] = "running"
                                    THEN "cancelling" ELSE subagent[i]]
    /\ UNCHANGED <<call, execution, answer, results, timers>>

(* gather has all outcomes.  It raises if the caller was cancelled; an     *)
(* assertion fails on an outcome that is a CancelledError.  The execution  *)
(* is marked as completed only when the call returns.                      *)
Gather ==
    /\ call = "running" /\ \A i \in Slots : pc[i] = "ended"
    /\ IF cancelled \/ "cancelled" \in Range(outcome)
       THEN /\ call' = IF cancelled THEN "cancelled" ELSE "raised"
            /\ UNCHANGED <<execution, results>>
       ELSE call' = "returned" /\ execution' = "completed" /\ results' = outcome
    /\ UNCHANGED <<cancelled, pc, subagent, answer, outcome, timers>>

(* AggregatedResults: what its summary says of the hosts.                  *)
Summary(rs) == LET succeeded == {i \in DOMAIN rs : rs[i] = "success"}
               IN  CASE succeeded = DOMAIN rs -> "complete success"
                     [] succeeded = {} -> "complete failure"
                     [] OTHER -> "partial success"

(* Time passes; each timeout is looked at once per interval.               *)
Tick ==
    /\ \E i \in Slots : subagent[i] = "running"
    /\ \A i \in Slots : ~(pc[i] = "watching" /\ subagent[i] = "running" /\ Late(i))
    /\ elapsed' = [i \in Slots |-> elapsed[i] + IF subagent[i] = "running" THEN 1 ELSE 0]
    /\ idle' = [i \in Slots |-> idle[i] + IF subagent[i] = "running" THEN 1 ELSE 0]
    /\ UNCHANGED <<call, execution, cancelled, pc, subagent, answer, outcome, results>>

Step(i) == Start(i) \/ TimeOut(i) \/ Report(i)

FleetNext == \/ \E i \in Slots : Step(i) \/ Touch(i) \/ SubagentEnds(i)
             \/ Cancel \/ Gather \/ Tick

(* A cancelled subagent ends, for it catches nothing but an Exception; that*)
(* it answers by itself is not assumed.                                    *)
Unwind(i) == subagent[i] = "cancelling" /\ SubagentEnds(i)

-----------------------------------------------------------------------------
(* However a call of run_on_hosts ends, returning, raising or cancelled,   *)
(* no subagent of it goes on working, and no more than max_concurrent      *)
(* worked at any time.                                                     *)
NothingLeftRunning ==
    /\ call # "running" => \A i \in Slots : subagent[i] \in {"none", "ended"}
    /\ Cardinality({i \in Slots : subagent[i] \in {"running", "cancelling"}}) <= MaxConcurrent

(* A returned call has a result for every host; it is a success for        *)
(* exactly those whose subagent said so, a host reported as timed out was  *)
(* late, and the summary speaks of success for all, some or no hosts as    *)
(* their subagents did (_execute_on_host, AggregatedResults).              *)
ResultsAreTrue ==
    call = "returned" =>
        /\ DOMAIN results = Slots
        /\ \A i \in Slots : /\ results[i] = "success" <=> answer[i] = "success"
                            /\ results[i] = "timeout" => Late(i)
        /\ Summary(results) = Summary(answer)

=============================================================================
