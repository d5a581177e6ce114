----------------------------- MODULE MCPManager -----------------------------
(***************************************************************************)
(* The manager of MCP servers (merlya/mcp/manager.py) used by concurrent   *)
(* tasks: sessions to servers are opened lazily and aggregated into one    *)
(* session group, under one lock; close() takes no lock.                   *)
(*                                                                         *)
(* A step runs from one await that suspends to the next.  A task that      *)
(* finds the lock free takes it without suspending.                        *)
(***************************************************************************)
EXTENDS Naturals, FiniteSets

CONSTANTS Tasks, Servers, None,
          MaxCloses       \* bound on the calls of close()

ASSUME MCPAssumption == None \notin Tasks \cup Servers /\ MaxCloses \in Nat

VARIABLES config,      \* the configured (and enabled) servers
          group,       \* _group: the number of the session group, 0: None
          groups,      \* how many groups have been created
          connected,   \* _connected
          sessions,    \* sessions[g][s]: how often s was aggregated into g
          prefix,      \* _component_prefix
          lock,        \* the task holding _lock, or None
          pc, server,  \* per task: where it waits, the server of its call
          held,        \* per task: the group it has obtained
          closes       \* calls of close() so far

manager == <<config, group, groups, connected, sessions, prefix, lock>>
vars == <<config, group, groups, connected, sessions, prefix, lock, pc, server, held, closes>>

(* wantGroup   in _ensure_group before connecting, waiting for _lock        *)
(* entering    in __aenter__ of a new group, holding _lock                  *)
(* wantConnect has a group, waiting for _lock to connect the server         *)
(* connecting  in connect_to_server, holding _lock                          *)
(* wantCallGroup, enteringCall  the same for _ensure_group before the call  *)
(* calling     in call_tool of the group it holds                           *)
(* closing     in __aexit__ of the group                                    *)
PC == {"idle", "wantGroup", "entering", "wantConnect", "connecting",
       "wantCallGroup", "enteringCall", "calling", "closing"}

Init == /\ config \in SUBSET Servers
        /\ group = 0 /\ groups = 0 /\ connected = {}
        /\ sessions = [g \in 1..MaxCloses+1 |-> [s \in Servers |-> 0]]
        /\ prefix = None /\ lock = None
        /\ pc = [t \in Tasks |-> "idle"]
        /\ server = [t \in Tasks |-> None]
        /\ held = [t \in Tasks |-> 0]
        /\ closes = 0

Goto(t, where) == pc' = [pc EXCEPT ![t] = where]

(* The call of the task returns or raises.                                 *)
Finish(t) == /\ Goto(t, "idle")
             /\ server' = [server EXCEPT ![t] = None]
             /\ held' = [held EXCEPT ![t] = 0]

(* asyncio.Lock is handed to its waiters in turn.  t takes it at once when *)
(* it is free and no other task waits for it.                              *)
NoQueue(t) == \A u \in Tasks \ {t} : pc[u] \notin {"wantGroup", "wantConnect", "wantCallGroup"}
Free(t) == lock = None /\ NoQueue(t)

(* Mutant: the comment of _ensure_connected not heeded: _ensure_group runs *)
(* under the lock that it takes itself.                                    *)
M_Entering(t, waiting, entering) ==
    /\ Goto(t, waiting)
    /\ lock' = IF Free(t) THEN t ELSE lock
    /\ UNCHANGED <<prefix, held>>

(* _ensure_group, when there is none: take the lock or queue for it.       *)
Entering(t, waiting, entering) ==
    /\ IF Free(t) THEN Goto(t, entering) /\ lock' = t ELSE Goto(t, waiting) /\ UNCHANGED lock
    /\ UNCHANGED <<prefix, held>>

(* The rest of call_tool once its server is connected: _ensure_group.      *)
CallGroup(t) ==
    IF group # 0
    THEN Goto(t, "calling") /\ held' = [held EXCEPT ![t] = group] /\ UNCHANGED <<lock, prefix>>
    ELSE Entering(t, "wantCallGroup", "enteringCall")

(* Mutant: _ensure_connected does not check again under the lock.          *)
M_UnderLock(t, s) ==
    /\ s \in config
    /\ Goto(t, "connecting") /\ lock' = t /\ prefix' = s
    /\ held' = [held EXCEPT ![t] = IF @ = 0 THEN group ELSE @]

(* _ensure_connected, under the lock: another task may have connected the  *)
(* server; one no longer configured is a KeyError, a case of Fails.  The   *)
(* group is the one the task obtained before it waited.                    *)
UnderLock(t, s) ==
    IF s \in connected
    THEN CallGroup(t)
    ELSE /\ s \in config
         /\ Goto(t, "connecting") /\ lock' = t /\ prefix' = s
         /\ held' = [held EXCEPT ![t] = IF @ = 0 THEN group ELSE @]

(* _ensure_connected with a group: take the lock, or queue for it.         *)
Connecting(t, s) ==
    IF Free(t)
    THEN UnderLock(t, s)
    ELSE /\ Goto(t, "wantConnect") /\ held' = [held EXCEPT ![t] = group]
         /\ UNCHANGED <<lock, prefix>>

(* call_tool: _ensure_connected up to its first suspension.  A server      *)
(* already connected only needs the group.                                 *)
Call(t, s) ==
    /\ pc[t] = "idle" /\ s \in config
    /\ server' = [server EXCEPT ![t] = s]
    /\ IF s \in connected THEN CallGroup(t)
       ELSE IF group # 0 THEN Connecting(t, s)
       ELSE Entering(t, "wantGroup", "entering")
    /\ UNCHANGED <<config, group, groups, connected, sessions, closes>>

(* A task waiting in _ensure_group gets the lock: the group may exist now. *)
GroupLock(t) ==
    /\ pc[t] \in {"wantGroup", "wantCallGroup"} /\ lock = None
    /\ IF group = 0
       THEN /\ lock' = t
            /\ Goto(t, IF pc[t] = "wantGroup" THEN "entering" ELSE "enteringCall")
            /\ UNCHANGED <<prefix, held>>
       ELSE IF pc[t] = "wantGroup" THEN Connecting(t, server[t])
       ELSE CallGroup(t)
    /\ UNCHANGED <<config, group, groups, connected, sessions, server, closes>>

(* __aenter__ returns: the group is stored and the lock released; a task   *)
(* on its way to connect queues for the lock again.                        *)
Entered(t) ==
    /\ pc[t] \in {"entering", "enteringCall"}
    /\ groups' = groups + 1
    /\ group' = groups + 1
    /\ held' = [held EXCEPT ![t] = groups + 1]
    /\ lock' = None
    /\ Goto(t, IF pc[t] = "entering" THEN "wantConnect" ELSE "calling")
    /\ UNCHANGED <<config, connected, sessions, prefix, server, closes>>

(* A task waiting to connect gets the lock.                                *)
ConnectLock(t) ==
    /\ pc[t] = "wantConnect" /\ lock = None
    /\ UnderLock(t, server[t])
    /\ UNCHANGED <<config, group, groups, connected, sessions, server, closes>>

(* connect_to_server returns: the tools of the server are in the group the *)
(* task holds.  The lock is released, and the call goes on with the group  *)
(* there is now.                                                           *)
Connected(t) ==
    /\ pc[t] = "connecting"
    /\ sessions' = [sessions EXCEPT ![held[t]][server[t]] = @ + 1]
    /\ connected' = connected \cup {server[t]}
    /\ prefix' = None
    /\ \/ /\ group # 0
          /\ Goto(t, "calling") /\ held' = [held EXCEPT ![t] = group] /\ lock' = None
       \/ /\ group = 0 /\ NoQueue(t)
          /\ Goto(t, "enteringCall") /\ UNCHANGED <<held, lock>>
       \/ /\ group = 0 /\ ~NoQueue(t)
          /\ Goto(t, "wantCallGroup") /\ lock' = None /\ UNCHANGED held
    /\ UNCHANGED <<config, group, groups, server, closes>>

(* Mutant: a failed or cancelled connect leaves the prefix set.            *)
M_FailsPrefix(t) ==
    /\ pc[t] \notin {"idle", "closing"}
    /\ Finish(t)
    /\ lock' = IF lock = t THEN None ELSE lock
    /\ UNCHANGED <<config, group, groups, connected, sessions, prefix, closes>>

(* Mutant: _connected.add is in the finally clause.                        *)
M_FailsConnected(t) ==
    /\ pc[t] \notin {"idle", "closing"}
    /\ Finish(t)
    /\ lock' = IF lock = t THEN None ELSE lock
    /\ prefix' = IF pc[t] = "connecting" THEN None ELSE prefix
    /\ connected' = IF pc[t] = "connecting" THEN connected \cup {server[t]} ELSE connected
    /\ UNCHANGED <<config, group, groups, sessions, closes>>

(* What the task waits for raises, or the call is cancelled (the commands  *)
(* of the user have time limits).                                          *)
Fails(t) ==
    /\ pc[t] \notin {"idle", "closing"}
    /\ Finish(t)
    /\ lock' = IF lock = t THEN None ELSE lock
    /\ prefix' = IF pc[t] = "connecting" THEN None ELSE prefix
    /\ UNCHANGED <<config, group, groups, connected, sessions, closes>>

(* group.call_tool returns.                                                *)
Called(t) ==
    /\ pc[t] = "calling"
    /\ Finish(t)
    /\ UNCHANGED <<manager, closes>>

(* close() up to __aexit__.                                                *)
Close(t) ==
    /\ pc[t] = "idle" /\ group # 0 /\ closes < MaxCloses
    /\ closes' = closes + 1
    /\ Goto(t, "closing")
    /\ UNCHANGED <<manager, server, held>>

(* __aexit__ returns or raises: the finally clause.                        *)
Closed(t) ==
    /\ pc[t] = "closing"
    /\ group' = 0 /\ connected' = {}
    /\ Finish(t)
    /\ UNCHANGED <<config, groups, sessions, prefix, lock, closes>>

(* /mcp add of a name not in use, /mcp remove: only the configuration.     *)
AddServer(s) ==
    /\ s \notin config
    /\ config' = config \cup {s}
    /\ UNCHANGED <<group, groups, connected, sessions, prefix, lock, pc, server, held, closes>>

RemoveServer(s) ==
    /\ s \in config
    /\ config' = config \ {s}
    /\ UNCHANGED <<group, groups, connected, sessions, prefix, lock, pc, server, held, closes>>

(* What a task does by itself when nothing fails.                          *)
Goes(t) == GroupLock(t) \/ Entered(t) \/ ConnectLock(t) \/ Connected(t) \/ Called(t) \/ Closed(t)

Next == \/ \E t \in Tasks : Goes(t) \/ Fails(t) \/ Close(t) \/ \E s \in Servers : Call(t, s)
        \/ \E s \in Servers : AddServer(s) \/ RemoveServer(s)

Spec == Init /\ [][Next]_vars

(* asyncio.Lock serves its waiters in turn, so a task that could get it    *)
(* again and again does.  That servers answer is assumed: the manager sets *)
(* no time limit.  A task whose server was removed while it waited for the *)
(* lock raises when it gets it.                                            *)
FairSpec == /\ Spec
            /\ \A t \in Tasks : SF_vars(Goes(t))
            /\ \A t \in Tasks : SF_vars(/\ pc[t] \in {"wantGroup", "wantConnect"} /\ lock = None
                                        /\ server[t] \notin config /\ Fails(t))

-----------------------------------------------------------------------------
TypeOK == /\ config \subseteq Servers
          /\ group \in 0..MaxCloses+1 /\ groups \in 0..MaxCloses+1
          /\ connected \subseteq Servers
          /\ sessions \in [1..MaxCloses+1 -> [Servers -> Nat]]
          /\ prefix \in Servers \cup {None}
          /\ lock \in Tasks \cup {None}
          /\ pc \in [Tasks -> PC]
          /\ server \in [Tasks -> Servers \cup {None}]
          /\ held \in [Tasks -> 0..MaxCloses+1]
          /\ closes \in 0..MaxCloses

(* Tools are filed under the server being connected: the shared prefix     *)
(* that _component_name_hook reads is the one of the only task connecting, *)
(* and is unset otherwise, whatever fails, is cancelled or is closed.      *)
PrefixIsOwn ==
    /\ \A t \in Tasks : pc[t] = "connecting" => prefix = server[t] /\ lock = t
    /\ prefix # None => \E t \in Tasks : pc[t] = "connecting"

(* "Ensure a server is connected and aggregated into the group": a server  *)
(* marked as connected has its tools in the current group.                 *)
ConnectedMeansAggregated ==
    \A s \in connected : group # 0 /\ sessions[group][s] > 0

(* ... until the first close(), which takes no lock and may overtake a     *)
(* task that holds the old group, whatever fails, is cancelled or changes  *)
(* in the configuration (_ensure_connected).                               *)
AggregatedUntilClose == closes = 0 => ConnectedMeansAggregated

(* Until then tasks that need a server at once start it once.              *)
StartedOnce == closes = 0 => \A g \in 1..groups, s \in Servers : sessions[g][s] <= 1

(* Every call ends.                                                        *)
CallsEnd == \A t \in Tasks : pc[t] # "idle" ~> pc[t] = "idle"
=============================================================================
