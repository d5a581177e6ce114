------------------------------ MODULE ToolCalls ------------------------------
(***************************************************************************)
(* The commands that one agent runs in one request.  The calls of tools in *)
(* a response of the model run concurrently; they share the tracker of the *)
(* request (merlya/agent/tracker.py), the confirmations of the user        *)
(* (merlya/agent/confirmation.py), the prompt (merlya/ui/console.py) and   *)
(* the target of the session (merlya/hosts/target_resolver.py).  The agent *)
(* is a specialist (merlya/agent/specialists) or a subagent                *)
(* (merlya/agent/tools/core).                                              *)
(*                                                                         *)
(* How a command is elevated is in Elevation: here it may only fail for    *)
(* want of a password.  Two commands of one class agree in their first 25  *)
(* characters after normalisation and in their category; two of one normal *)
(* form differ in case and in the blanks around them only.                 *)
(***************************************************************************)
EXTENDS Naturals, Sequences, FiniteSets, SequencesExt

CONSTANTS Callers,              \* the calls of one response of the model
          Hosts, Unknown,       \* hosts that resolve, names that do not
          Commands, Classes,
          MaxSameFingerprint, PatternWindowSize, MaxCategoryCommands, MaxTotalCalls,
          MaxCalls,             \* bound: calls the model makes in all
          None

VARIABLES agent,       \* kind of agent, and what the request gave it
          recorded,    \* the ToolCallTracker: what has been recorded, in order
          confirm,     \* the ConfirmationState
          queue,       \* the calls that want the prompt; the first has it
          shown,       \* the command whose text was printed last
          lastTarget,  \* last_remote_target of the session
          caller,      \* the call each caller is in
          made,        \* number of calls made
          said         \* history: what the user said yes to

callVars == <<agent, recorded, confirm, queue, shown, lastTarget, caller, made, said>>

ClassOf == CHOOSE f \in [Commands -> Classes] : \A c \in Classes : \E x \in Commands : f[x] = c

(* command.strip().lower(): commands that differ may have one normal form. *)
NormalOf == CHOOSE f \in [Commands -> Commands] :
                /\ \A x \in Commands : f[f[x]] = f[x] /\ ClassOf[f[x]] = ClassOf[x]
                /\ (\E x \in Commands : f[x] # x) /\ (\E x, y \in Commands : f[x] # f[y])

LocalHost == "local"
Kinds == {"execution", "diagnostic", "security", "subagent"}

(* A fingerprint is a host and a class; so is the key of a category.       *)
Fingerprint(host, cmd) == <<host, ClassOf[cmd]>>

Times(fp) == Cardinality({i \in DOMAIN recorded : recorded[i] = fp})

(* The window of fingerprints is the same sequence twice.                  *)
Repeats(window) == LET half == Len(window) \div 2
                   IN  SubSeq(window, 1, half) = SubSeq(window, half + 1, Len(window))

LastOf(s, n) == SubSeq(s, Len(s) - n + 1, Len(s))

(* ToolCallTracker.would_loop                                              *)
WouldLoop(fp) ==
    \/ Len(recorded) >= MaxTotalCalls
    \/ Times(fp) >= MaxSameFingerprint
    \/ Times(fp) >= MaxCategoryCommands
    \/ /\ Len(recorded) >= PatternWindowSize - 1
       /\ Repeats(Append(LastOf(recorded, PatternWindowSize - 1), fp))

(* Mutant: what was confirmed is compared by its class, as patterns are.   *)
M_ShouldSkip(cmd) == confirm.always \/ \E c \in confirm.commands : ClassOf[c] = ClassOf[cmd]

(* ConfirmationState.should_skip                                           *)
ShouldSkip(cmd) == confirm.always \/ NormalOf[cmd] \in confirm.commands

NoCall == [pc |-> "idle", tool |-> None, host |-> None, cmd |-> None]

CallsInit ==
    /\ agent \in [kind : Kinds, local : BOOLEAN, confirmed : BOOLEAN, auto : BOOLEAN,
                  mentioned : {{}, Hosts}]
    /\ agent.kind \in {"security", "subagent"} => ~agent.local
    /\ agent.kind # "subagent" => agent.mentioned = {}
    /\ agent.kind \notin {"execution", "subagent"} => ~agent.confirmed /\ ~agent.auto
    /\ recorded = <<>>
    /\ confirm = [always |-> FALSE, commands |-> {}]
    /\ queue = <<>> /\ shown = None /\ lastTarget = None
    /\ caller = [t \in Callers |-> NoCall]
    /\ made = 0 /\ said = {}

(* Where a call runs: bash is local; the diagnostic and the execution agent*)
(* of a local target run everything there; a subagent does so with every   *)
(* host that is neither in its request nor the last target                 *)
(* (_determine_execution_target).                                          *)
HostOf(tool, host) ==
    CASE tool = "bash" \/ agent.local -> LocalHost
      [] agent.kind = "subagent" /\ host \notin agent.mentioned \cup {lastTarget} -> LocalHost
      [] OTHER -> host

(* With what a call begins.  The execution agent elevates last, when the   *)
(* command has been checked and confirmed; the others elevate a command of *)
(* ssh_execute first, and never one that reads a file.                     *)
Elevated(tool, where) == IF where # LocalHost /\ tool = "ssh_execute" THEN "elevating" ELSE "checking"

ExecutionAgent(tool, where) == "checking"
DiagnosticAgent(tool, where) == Elevated(tool, where)
SecurityAgent(tool, where) == Elevated(tool, where)
Subagent(tool, where) == Elevated(tool, where)

First(tool, where) == CASE agent.kind = "execution" -> ExecutionAgent(tool, where)
                        [] agent.kind = "diagnostic" -> DiagnosticAgent(tool, where)
                        [] agent.kind = "security" -> SecurityAgent(tool, where)
                        [] agent.kind = "subagent" -> Subagent(tool, where)

(* The model calls a tool.                                                 *)
Invoke(t) ==
    /\ caller[t].pc = "idle" /\ made < MaxCalls
    /\ \E tool \in {"ssh_execute", "bash", "read_file"}, host \in Hosts \cup Unknown, cmd \in Commands :
          /\ tool = "read_file" => agent.kind = "diagnostic"
          /\ LET where == HostOf(tool, host)
             IN  caller' = [caller EXCEPT ![t] =
                 [pc |-> First(tool, where), tool |-> tool, host |-> where, cmd |-> cmd]]
    /\ made' = made + 1
    /\ UNCHANGED <<agent, recorded, confirm, queue, shown, lastTarget, said>>

(* The command is elevated, before it is checked or, by the execution      *)
(* agent, after it was confirmed; without a password it is given up.       *)
Elevate(t) ==
    /\ caller[t].pc = "elevating"
    /\ \E next \in {IF agent.kind = "execution" THEN "running" ELSE "checking", "idle"} :
          caller' = [caller EXCEPT ![t].pc = next]
    /\ UNCHANGED <<agent, recorded, confirm, queue, shown, lastTarget, made, said>>

(* Whether the call asks before it runs: the execution agent, and a        *)
(* subagent whose request was found destructive or critical, except for an *)
(* ssh_execute that it runs locally (_execute_local).                      *)
Asks(call) ==
    /\ agent.confirmed
    /\ \/ agent.kind = "execution" /\ ~agent.auto /\ ~ShouldSkip(call.cmd)
       \/ agent.kind = "subagent" /\ ~(call.tool = "ssh_execute" /\ call.host = LocalHost)

Onward(t) == IF agent.kind = "execution" /\ caller[t].host # LocalHost THEN "elevating" ELSE "running"

(* would_loop and record, with no await between them; a command that needs *)
(* a confirmation is printed (confirm_command) and waits for the prompt.   *)
(* The subagent makes the host the last target before it asks.             *)
Check(t) ==
    /\ caller[t].pc = "checking"
    /\ LET host == caller[t].host
           cmd == caller[t].cmd
           fp == Fingerprint(host, cmd)
           asks == Asks(caller[t])
       IN  IF WouldLoop(fp)
           THEN /\ caller' = [caller EXCEPT ![t] = NoCall]
                /\ UNCHANGED <<recorded, queue, shown, lastTarget>>
           ELSE /\ recorded' = Append(recorded, fp)
                /\ caller' = [caller EXCEPT ![t].pc = IF asks THEN "asking" ELSE Onward(t)]
                /\ queue' = IF asks THEN Append(queue, t) ELSE queue
                /\ shown' = IF asks /\ agent.kind = "execution" THEN cmd ELSE shown
                /\ lastTarget' = IF agent.kind = "subagent" /\ host # LocalHost THEN host ELSE lastTarget
    /\ UNCHANGED <<agent, confirm, made, said>>

(* The user says yes to call t, having in mind the command that was printed*)
(* last; the question of a subagent names the command itself.              *)
Yes(t, always) ==
    said' = IF agent.kind = "execution"
            THEN said \cup {[asked |-> caller[t].cmd, shown |-> shown, always |-> always]} ELSE said

(* Mutant: a choice that is not understood lets go of nothing.             *)
M_Answer(t) ==
    /\ queue # <<>> /\ Head(queue) = t
    /\ agent.kind = "execution" /\ UNCHANGED callVars

(* The user answers the prompt: y, a (always, of the execution agent only),*)
(* n or an error, or something else, after which the prompt is asked again *)
(* behind the others.  With auto_confirm a subagent's prompt raises, since *)
(* it has no default.                                                      *)
Answer(t) ==
    /\ queue # <<>> /\ Head(queue) = t
    /\ \/ /\ ~agent.auto /\ Yes(t, FALSE)
          /\ confirm' = IF agent.kind = "execution"
                        THEN [confirm EXCEPT !.commands = @ \cup {NormalOf[caller[t].cmd]}] ELSE confirm
          /\ caller' = [caller EXCEPT ![t].pc = Onward(t)]
          /\ queue' = Tail(queue)
       \/ /\ ~agent.auto /\ agent.kind = "execution" /\ Yes(t, TRUE)
          /\ confirm' = [confirm EXCEPT !.always = TRUE]
          /\ caller' = [caller EXCEPT ![t].pc = Onward(t)]
          /\ queue' = Tail(queue)
       \/ /\ caller' = [caller EXCEPT ![t] = NoCall]
          /\ queue' = Tail(queue)
          /\ UNCHANGED <<confirm, said>>
       \/ /\ agent.kind = "execution"
          /\ queue' = Append(Tail(queue), t)
          /\ UNCHANGED <<confirm, said, caller>>
    /\ UNCHANGED <<agent, recorded, shown, lastTarget, made>>

(* HostTargetResolver.resolve: a name that is not found stands for the last*)
(* target.                                                                 *)
Resolved(host) == CASE host \in Hosts \cup {LocalHost} -> host
                    [] host \notin Hosts \cup {LocalHost} /\ lastTarget \in Hosts -> lastTarget
                    [] OTHER -> None

(* bash_execute or ssh_execute returns: a command that succeeded on a      *)
(* remote host makes it the last target, by the name it was given.         *)
Run(t) ==
    /\ caller[t].pc = "running"
    /\ \E ok \in BOOLEAN :
          /\ Resolved(caller[t].host) = None => ~ok
          /\ lastTarget' = IF ok /\ caller[t].host # LocalHost
                           THEN Resolved(caller[t].host) ELSE lastTarget
    /\ caller' = [caller EXCEPT ![t] = NoCall]
    /\ UNCHANGED <<agent, recorded, confirm, queue, shown, made, said>>

CallStep(t) == Elevate(t) \/ Check(t) \/ Run(t)
CallsNext == \E t \in Callers : Invoke(t) \/ CallStep(t) \/ Answer(t)

(* The user comes to answer each prompt in a way that is understood;       *)
(* commands return, for they have a timeout.                               *)
Understood(t) == Answer(t) /\ Len(queue') < Len(queue)

-----------------------------------------------------------------------------
(* What the execution agent is about to do after a confirmation is required*)
(* was said yes to: by an answer `always', or by a yes to a command of the *)
(* same normal form, be it for another host; a yes given to one call serves*)
(* a concurrent one only so (ConfirmationState.should_skip).               *)
RunsOnlyConfirmed ==
    \A t \in Callers :
        /\ caller[t].pc \in {"running", "elevating"}
        /\ agent.kind = "execution" /\ agent.confirmed /\ ~agent.auto
        => \E y \in said : y.always \/ NormalOf[y.asked] = NormalOf[caller[t].cmd]

(* "Check if this exact command was already confirmed" (confirmation.py):  *)
(* not so, a command that differs in case from a confirmed one is not asked*)
(* for.  No run checks this statement.                                     *)
RunsExactlyConfirmed ==
    \A t \in Callers :
        /\ caller[t].pc \in {"running", "elevating"}
        /\ agent.kind = "execution" /\ agent.confirmed /\ ~agent.auto
        => \E y \in said : y.always \/ y.asked = caller[t].cmd

(* ConsoleUI._prompt_lock: "Mutex to prevent overlapping prompts from      *)
(* parallel agents": the command the user says yes to is the one he sees.  *)
AnswersWhatIsShown == \A y \in said : y.asked = y.shown
=============================================================================
