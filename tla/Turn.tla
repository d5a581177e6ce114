--------------------------------- MODULE Turn ---------------------------------
(***************************************************************************)
(* The turns of a conversation: the prompt of the REPL                     *)
(* (merlya/repl/loop.py) or the tasks of a batch (merlya/cli/run.py), the  *)
(* run of the agent with its delegations to specialists                    *)
(* (merlya/agent/main.py, merlya/agent/orchestrator), the history it sends *)
(* to the model (merlya/agent/history.py) and the conversation it stores   *)
(* (merlya/persistence/repositories.py).  The user may interrupt           *)
(* (merlya/cli/__init__.py) and the database may refuse a write.           *)
(*                                                                         *)
(* A message is its kind and the round of tool calls it belongs to.  Titles*)
(* are left out, so /conv rename and the commands that only show something *)
(* change nothing.                                                         *)
(***************************************************************************)
EXTENDS Naturals, Sequences, FiniteSets, SequencesExt

CONSTANTS Roles,         \* the models that tasks ask for; the REPL has the first
          Convs,         \* identifiers of conversations
          MaxMessages,   \* max_messages of the history processor
          HardMax,       \* HARD_MAX_HISTORY_MESSAGES
          MaxAttempts,   \* MAX_SPECIALIST_RETRIES
          MaxTasks,      \* bound: tasks of a batch
          MaxRounds,     \* bound: rounds of tool calls, in all
          None

VARIABLES mode,         \* "repl" or "batch"
          phase,        \* where the program is
          role,         \* the agent in use
          agents,       \* of each role: its history and its active conversation
          store,        \* the conversations table
          born,         \* identifiers in use
          unsaved,      \* history: conversations whose last write was refused
          messages,     \* of the running turn, as the model last had them
          attempt,      \* of the running delegation
          interrupted,  \* _cancel_flag of the signal handler
          rounds,
          tasks         \* TaskResult of each task of the batch

turnVars == <<mode, phase, role, agents, store, born, unsaved, messages, attempt,
              interrupted, rounds, tasks>>

Fresh == [history |-> <<>>, active |-> None]

(* A request with the words of the user, a response that calls tools, a    *)
(* request with what they returned, or one that asks for another try.      *)
Msg(kind, round) == [kind |-> kind, round |-> round]
Calls(m) == IF m.kind = "calls" THEN {m.round} ELSE {}
Returns(m) == IF m.kind = "returns" THEN {m.round} ELSE {}

CallsIn(ms) == UNION {Calls(ms[i]) : i \in DOMAIN ms}
ReturnsIn(ms) == UNION {Returns(ms[i]) : i \in DOMAIN ms}

(* Mutant: the window is cut where it ends.                                *)
M_SafeStart(ms) == IF Len(ms) <= MaxMessages THEN 1 ELSE Len(ms) - MaxMessages + 1

(* find_safe_truncation_point: the start of the window, moved back to the  *)
(* calls whose returns are in it.                                          *)
SafeStart(ms) ==
    LET start == Len(ms) - MaxMessages + 1
        orphans == ReturnsIn(SubSeq(ms, start, Len(ms))) \ CallsIn(SubSeq(ms, start, Len(ms)))
        whole == {i \in 1..start-1 : orphans \subseteq CallsIn(SubSeq(ms, i, start - 1))}
    IN  CASE Len(ms) <= MaxMessages -> 1
          [] Len(ms) > MaxMessages /\ orphans = {} -> start
          [] Len(ms) > MaxMessages /\ orphans # {} /\ whole # {} ->
                CHOOSE i \in whole : \A j \in whole : j <= i
          [] OTHER -> IF Len(ms) > HardMax THEN Len(ms) - HardMax + 1 ELSE 1

(* limit_history                                                           *)
Limited(ms) == SubSeq(ms, SafeStart(ms), Len(ms))

Repl == CHOOSE r \in Roles : TRUE

TurnInit ==
    /\ mode \in {"repl", "batch"} /\ phase = "prompt" /\ role = Repl
    /\ agents = [r \in Roles |-> Fresh]
    /\ store = [c \in Convs |-> None] /\ born = {} /\ unsaved = {}
    /\ messages = <<>> /\ attempt = 0 /\ interrupted = FALSE /\ rounds = 0 /\ tasks = <<>>

Active == agents[role].active

(* _persist_history of h: the error of an update is swallowed, and an      *)
(* update of a row that is not there changes nothing.                      *)
Persist(h) ==
    \E ok \in BOOLEAN :
        /\ store' = IF ok /\ Active # None /\ store[Active] # None
                    THEN [store EXCEPT ![Active] = h] ELSE store
        /\ unsaved' = CASE Active = None -> unsaved
                        [] Active # None /\ ok -> unsaved \ {Active}
                        [] OTHER -> unsaved \cup {Active}

(* Mutant: the agent goes on with its conversation.                        *)
M_Cleared(agent) == [agent EXCEPT !.history = <<>>]

(* clear_history                                                           *)
Cleared(agent) == Fresh

(* A slash command at the prompt: /new, a change of the model, which makes *)
(* another agent, /conv delete, /exit, and /conv load, whose data          *)
(* REPL.run looks at in vain.                                              *)
Command ==
    /\ mode = "repl" /\ phase = "prompt"
    /\ \/ agents' = [agents EXCEPT ![role] = Cleared(@)] /\ UNCHANGED <<store, phase>>
       \/ agents' = [agents EXCEPT ![role] = Fresh] /\ UNCHANGED <<store, phase>>
       \/ /\ \E c \in Convs : store[c] # None /\ store' = [store EXCEPT ![c] = None]
          /\ UNCHANGED <<agents, phase>>
       \/ phase' = "closing" /\ UNCHANGED <<agents, store>>
    /\ UNCHANGED <<mode, role, born, unsaved, messages, attempt, interrupted, rounds, tasks>>

(* A request is typed; the mentions in it that nothing defines are asked   *)
(* for, one after the other (_expand_mentions).                            *)
Type ==
    /\ mode = "repl" /\ phase = "prompt"
    /\ phase' \in {"mentions", "starting"}
    /\ UNCHANGED <<mode, role, agents, store, born, unsaved, messages, attempt, interrupted,
                   rounds, tasks>>

Mentioned ==
    /\ phase = "mentions" /\ phase' = "starting"
    /\ UNCHANGED <<mode, role, agents, store, born, unsaved, messages, attempt, interrupted,
                   rounds, tasks>>

(* The next task of a batch: a slash command that is refused, fails or     *)
(* succeeds, a request that the router fails on, or one that is given to   *)
(* the agent of its model (run_batch).                                     *)
NextTask ==
    /\ mode = "batch" /\ phase = "prompt" /\ Len(tasks) < MaxTasks
    /\ \/ /\ \E ok \in BOOLEAN : tasks' = Append(tasks, [agent |-> FALSE, failed |-> ~ok, success |-> ok])
          /\ UNCHANGED <<phase, role>>
       \/ phase' = "starting" /\ role' \in Roles /\ UNCHANGED tasks
    /\ UNCHANGED <<mode, agents, store, born, unsaved, messages, attempt, interrupted, rounds>>

(* MerlyaAgent.run makes a conversation when it has none.  It is active    *)
(* although it may not have been stored.                                   *)
Start ==
    /\ phase = "starting" /\ phase' = "asking"
    /\ IF Active # None THEN UNCHANGED <<agents, store, born, unsaved>>
       ELSE \E c \in Convs \ born, ok \in BOOLEAN :
               /\ agents' = [agents EXCEPT ![role].active = c]
               /\ born' = born \cup {c}
               /\ store' = [store EXCEPT ![c] = IF ok THEN <<>> ELSE None]
               /\ unsaved' = IF ok THEN unsaved ELSE unsaved \cup {c}
    /\ messages' = Append(agents[role].history, Msg("user", rounds))
    /\ UNCHANGED <<mode, role, attempt, interrupted, rounds, tasks>>

(* The history processor is applied to every request, and what it leaves   *)
(* is the history from there on.                                           *)
Ask ==
    /\ phase = "asking" /\ phase' = "answering"
    /\ messages' = Limited(messages)
    /\ UNCHANGED <<mode, role, agents, store, born, unsaved, attempt, interrupted, rounds, tasks>>

(* The result of the turn reaches the REPL or the batch, which counts      *)
(* every answer of the agent as a success.                                 *)
Answered(failed) ==
    /\ phase' = "prompt" /\ messages' = <<>> /\ attempt' = 0
    /\ tasks' = IF mode = "batch" THEN Append(tasks, [agent |-> TRUE, failed |-> failed, success |-> TRUE])
                ELSE tasks

(* The model calls tools, which may ask it to try again, or delegates.     *)
CallTools ==
    /\ phase = "answering" /\ rounds < MaxRounds
    /\ rounds' = rounds + 1
    /\ \/ \E kind \in {"returns", "retries"} :
             /\ messages' = messages \o <<Msg("calls", rounds'), Msg(kind, rounds')>>
             /\ phase' = "asking" /\ UNCHANGED attempt
       \/ /\ messages' = Append(messages, Msg("calls", rounds'))
          /\ phase' = "delegating" /\ attempt' = 1
    /\ UNCHANGED <<mode, role, agents, store, born, unsaved, interrupted, tasks>>

(* One attempt of run_specialist_with_retry (run_specialist_once has one): *)
(* the output seems complete, the tracker says it loops, it raises, or it  *)
(* is tried again.                                                         *)
Attempt ==
    /\ phase = "delegating"
    /\ \E over \in BOOLEAN :
          IF over \/ attempt = MaxAttempts
          THEN /\ messages' = Append(messages, Msg("returns", rounds))
               /\ phase' = "asking" /\ attempt' = 0
          ELSE attempt' = attempt + 1 /\ UNCHANGED <<messages, phase>>
    /\ UNCHANGED <<mode, role, agents, store, born, unsaved, interrupted, rounds, tasks>>

(* Mutant: the history is persisted before it is replaced.                 *)
M_Finish ==
    /\ phase = "answering"
    /\ LET h == messages \o <<Msg("calls", rounds + 1), Msg("returns", rounds + 1)>>
       IN  agents' = [agents EXCEPT ![role].history = h] /\ Persist(agents[role].history)
    /\ rounds' = rounds + 1
    /\ Answered(FALSE)
    /\ UNCHANGED <<mode, role, born, interrupted>>

(* The model answers, by a call of the output tool: the history is that of *)
(* the run.                                                                *)
Finish ==
    /\ phase = "answering" /\ rounds < MaxRounds
    /\ LET h == messages \o <<Msg("calls", rounds + 1), Msg("returns", rounds + 1)>>
       IN  agents' = [agents EXCEPT ![role].history = h] /\ Persist(h)
    /\ rounds' = rounds + 1
    /\ Answered(FALSE)
    /\ UNCHANGED <<mode, role, born, interrupted>>

(* The limit of the usage, an answer that is not understood, or any other  *)
(* exception: the history stays what it was, and the user is told.         *)
Fail ==
    /\ phase \in {"starting", "asking", "answering"}
    /\ Persist(agents[role].history)
    /\ Answered(TRUE)
    /\ UNCHANGED <<mode, role, agents, born, interrupted, rounds>>

(* Ctrl-C while the program works.  The first one cancels every task: a    *)
(* request is persisted and given up, a question about a mention ends the  *)
(* REPL.  Any later one, the flag being never reset, ends the process.     *)
Interrupt ==
    /\ mode = "repl" /\ phase \in {"mentions", "starting", "asking", "answering", "delegating"}
    /\ \/ /\ interrupted /\ phase' = "killed"
          /\ UNCHANGED <<store, unsaved, messages, attempt, tasks>>
       \/ /\ ~interrupted /\ phase = "mentions" /\ phase' = "closing"
          /\ UNCHANGED <<store, unsaved, messages, attempt, tasks>>
       \/ /\ ~interrupted /\ phase # "mentions"
          /\ Persist(agents[role].history) /\ Answered(TRUE)
    /\ interrupted' = TRUE
    /\ UNCHANGED <<mode, role, agents, born, rounds>>

(* The batch has done its tasks, or the REPL ends: SharedContext.close.    *)
Close ==
    /\ \/ phase = "closing"
       \/ mode = "batch" /\ phase = "prompt" /\ tasks # <<>>
    /\ phase' = "closed"
    /\ UNCHANGED <<mode, role, agents, store, born, unsaved, messages, attempt, interrupted,
                   rounds, tasks>>

(* passed, failed and the exit status of a batch (run_batch, run_single).  *)
ExitCode == IF \A i \in DOMAIN tasks : tasks[i].success THEN 0 ELSE 1

(* What goes on by itself: the model answers or fails within its timeout.  *)
Work == Mentioned \/ Start \/ Ask \/ CallTools \/ Attempt \/ Finish \/ Fail \/ Close
TurnNext == Command \/ Type \/ NextTask \/ Work \/ Interrupt

-----------------------------------------------------------------------------
(* At the prompt the stored conversation is the one the agent has in mind, *)
(* after answers, errors, interrupts and commands, unless the database     *)
(* refused the last write or the user deleted it (_persist_history).       *)
ConversationIsKept ==
    \A r \in Roles : LET c == agents[r].active IN
        phase = "prompt" /\ c # None /\ c \notin unsaved => store[c] \in {None, agents[r].history}

(* A stored conversation is written over only by its own continuation: a   *)
(* turn, however it ends, keeps the messages before it, but for those that *)
(* the window has no room for; after /new, a change of the model or for    *)
(* another model of a batch, it is another conversation that is written.   *)
Continues(c) ==
    LET old == store[c]
        new == store'[c]
    IN  old # None /\ new # None /\ new # old =>
          \E i \in 1..Len(old) + 1 : /\ IsPrefix(SubSeq(old, i, Len(old)), new)
                                     /\ i > 1 => Len(new) > MaxMessages

(* What is sent to the model has no return of a tool whose call was cut    *)
(* off, and is not longer than the window and one round (limit_history).   *)
SentIsPaired ==
    phase = "answering" => /\ ReturnsIn(messages) \subseteq CallsIn(messages)
                           /\ Len(messages) <= MaxMessages + 1

(* Exit codes of a batch: "0: all tasks succeeded, 1: one or more tasks    *)
(* failed".                                                                *)
ExitTellsFailure ==
    mode = "batch" /\ phase = "closed"
    => (ExitCode = 0 <=> \A i \in DOMAIN tasks : ~tasks[i].failed)
=============================================================================
