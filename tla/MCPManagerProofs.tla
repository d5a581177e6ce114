-------------------------- MODULE MCPManagerProofs --------------------------
(* Theorems about MCPManager for every number of tasks, servers and calls  *)
(* of close(): the shared prefix is that of the only task connecting, and  *)
(* until the first close() a server is started once and stays aggregated.  *)
EXTENDS MCPManager, FiniteSetTheorems, TLAPS

Waiting == {"wantGroup", "wantConnect", "wantCallGroup"}
Entry == {"entering", "enteringCall"}

(* Exactly the task that enters a group or connects holds the lock.        *)
LockHeld == \A t \in Tasks : pc[t] \in Entry \cup {"connecting"} <=> lock = t

(* The prefix is set by the holder of the lock, while it connects.         *)
PrefixSet == /\ \A t \in Tasks : pc[t] = "connecting" => prefix = server[t]
             /\ prefix # None => lock \in Tasks /\ pc[lock] = "connecting"

(* A task with a call has its server.                                      *)
CallHasServer == \A t \in Tasks : pc[t] \notin {"idle", "closing"} => server[t] \in Servers

(* There is no group while one is entered.                                 *)
EntryFindsNone == \A t \in Tasks : pc[t] \in Entry => group = 0

(* Every group but the last has been left by a close() that has ended.     *)
Closers == {t \in Tasks : pc[t] = "closing"}
GroupsCounted == /\ IsFiniteSet(Closers)
                 /\ groups + Cardinality(Closers) <= closes + IF group = 0 THEN 0 ELSE 1

(* Until the first close() there is one group: who holds a group or is on  *)
(* its way to connect holds that one, a server is aggregated into it when  *)
(* it is connected and not before, and only a server that is not connected *)
(* is being connected.                                                     *)
FirstGroup ==
    closes = 0 =>
       /\ group = groups
       /\ \A t \in Tasks : /\ pc[t] # "closing"
                           /\ held[t] \in {0, group}
                           /\ pc[t] \in {"wantConnect", "connecting"} => group = 1
                           /\ pc[t] = "connecting" => held[t] = 1 /\ server[t] \notin connected
       /\ \A g \in 1..MaxCloses+1, s \in Servers :
             sessions[g][s] = IF g = group /\ s \in connected THEN 1 ELSE 0
       /\ group = 0 => connected = {}

IInv == /\ TypeOK /\ LockHeld /\ PrefixSet /\ CallHasServer
        /\ EntryFindsNone /\ GroupsCounted /\ FirstGroup
(* What a task does when it calls, or when it gets the lock: it has its    *)
(* group, it queues, or it takes the free lock to enter or to connect.     *)
HasGroup(t) == /\ group # 0 /\ Goto(t, "calling")
               /\ held' = [held EXCEPT ![t] = group] /\ UNCHANGED <<lock, prefix>>
Queues(t) == /\ \/ Goto(t, "wantGroup") /\ UNCHANGED held
                \/ Goto(t, "wantCallGroup") /\ UNCHANGED held
                \/ group # 0 /\ Goto(t, "wantConnect") /\ held' = [held EXCEPT ![t] = group]
             /\ UNCHANGED <<lock, prefix>>
Enters(t) == /\ group = 0 /\ lock = None /\ lock' = t
             /\ \E where \in Entry : Goto(t, where)
             /\ UNCHANGED <<held, prefix>>
Connects(t) == /\ lock = None /\ lock' = t /\ (closes = 0 => group # 0)
               /\ server'[t] \in config \ connected
               /\ Goto(t, "connecting") /\ prefix' = server'[t]
               /\ held' = [held EXCEPT ![t] = IF @ = 0 THEN group ELSE @]
Moves(t) == /\ pc[t] \in Waiting \cup {"idle"}
            /\ server'[t] \in Servers
            /\ server' = [server EXCEPT ![t] = server'[t]]
            /\ HasGroup(t) \/ Queues(t) \/ Enters(t) \/ Connects(t)
            /\ UNCHANGED <<config, group, groups, connected, sessions, closes>>

Takes(t) == GroupLock(t) \/ ConnectLock(t) \/ \E s \in Servers : Call(t, s)

LEMMA TakesMoves ==
    ASSUME TypeOK, CallHasServer, FirstGroup, NEW t \in Tasks, Takes(t)
    PROVE  Moves(t)
<1> USE DEF TypeOK
<1>1. ASSUME Entering(t, "wantGroup", "entering") \/ Entering(t, "wantCallGroup", "enteringCall"),
             group = 0
      PROVE  Queues(t) \/ Enters(t)
  BY <1>1 DEF Entering, Queues, Enters, Free, Entry
<1>2. ASSUME CallGroup(t)
      PROVE  HasGroup(t) \/ Queues(t) \/ Enters(t)
  BY <1>1, <1>2 DEF CallGroup, HasGroup
<1>3. ASSUME NEW s \in Servers, UnderLock(t, s), server'[t] = s, lock = None,
             closes = 0 => group # 0
      PROVE  HasGroup(t) \/ Queues(t) \/ Enters(t) \/ Connects(t)
  BY <1>2, <1>3 DEF UnderLock, Connects
<1>4. ASSUME NEW s \in Servers, Connecting(t, s), server'[t] = s, group # 0
      PROVE  HasGroup(t) \/ Queues(t) \/ Enters(t) \/ Connects(t)
  BY <1>3, <1>4 DEF Connecting, Free, Queues
<1>5. CASE GroupLock(t)
  <2>1. pc[t] \in {"wantGroup", "wantCallGroup"} /\ server[t] \in Servers
    BY <1>5 DEF GroupLock, CallHasServer
  <2>2. server' = server /\ server'[t] = server[t]
    BY <1>5 DEF GroupLock
  <2>3. HasGroup(t) \/ Queues(t) \/ Enters(t) \/ Connects(t)
    <3>1. CASE group = 0
      BY <1>5, <3>1 DEF GroupLock, Enters, Entry
    <3>2. CASE group # 0
      BY <1>5, <3>2, <1>2, <1>4, <2>1, <2>2 DEF GroupLock
    <3> QED BY <3>1, <3>2
  <2> QED BY <1>5, <2>1, <2>2, <2>3 DEF GroupLock, Moves, Waiting
<1>6. CASE ConnectLock(t)
  <2>1. pc[t] = "wantConnect" /\ server[t] \in Servers /\ server' = server /\ lock = None
    BY <1>6 DEF ConnectLock, CallHasServer
  <2>2. closes = 0 => group # 0
    BY <2>1 DEF FirstGroup
  <2>3. HasGroup(t) \/ Queues(t) \/ Enters(t) \/ Connects(t)
    BY <1>6, <1>3, <2>1, <2>2 DEF ConnectLock
  <2> QED BY <1>6, <2>1, <2>3 DEF ConnectLock, Moves, Waiting
<1>7. ASSUME NEW s \in Servers, Call(t, s) PROVE Moves(t)
  <2>1. server' = [server EXCEPT ![t] = s] /\ server'[t] = s
    BY <1>7 DEF Call
  <2>2. HasGroup(t) \/ Queues(t) \/ Enters(t) \/ Connects(t)
    BY <1>7, <1>1, <1>2, <1>4, <2>1 DEF Call
  <2> QED BY <1>7, <2>1, <2>2 DEF Call, Moves
<1> QED BY <1>5, <1>6, <1>7 DEF Takes

(* The steps by the way they treat the state.                              *)
LEMMA StepKinds ==
    ASSUME TypeOK, CallHasServer, FirstGroup, Next
    PROVE  \/ \E t \in Tasks : \/ Moves(t) \/ Entered(t) \/ Connected(t) \/ Called(t)
                               \/ Closed(t) \/ Fails(t) \/ Close(t)
           \/ \E s \in Servers : AddServer(s) \/ RemoveServer(s)
<1>1. CASE \E t \in Tasks : Takes(t)
  BY <1>1, TakesMoves
<1> QED BY <1>1 DEF Next, Goes, Takes

-----------------------------------------------------------------------------
(* Types, and the groups counted by the calls of close().                  *)
LEMMA CountsInit == Init => TypeOK /\ GroupsCounted
<1> SUFFICES ASSUME Init PROVE TypeOK /\ GroupsCounted
  OBVIOUS
<1>1. Closers = {}
  BY DEF Init, Closers
<1>2. GroupsCounted
  BY <1>1, FS_EmptySet DEF Init, GroupsCounted
<1> QED BY <1>2, MCPAssumption DEF Init, TypeOK, PC

(* A step in which no task begins or stops closing.                        *)
LEMMA ClosersStay ==
    ASSUME GroupsCounted, Closers' = Closers, UNCHANGED <<groups, closes>>,
           (group = 0) <=> (group' = 0)
    PROVE  GroupsCounted'
  BY DEF GroupsCounted

LEMMA GotoClosers ==
    ASSUME TypeOK, NEW t \in Tasks, NEW where, Goto(t, where),
           pc[t] # "closing", where # "closing"
    PROVE  Closers' = Closers
  BY DEF TypeOK, Goto, Closers

LEMMA CountsNext == IInv /\ Next => TypeOK' /\ GroupsCounted'
<1> SUFFICES ASSUME IInv, Next PROVE TypeOK' /\ GroupsCounted'
  OBVIOUS
<1>0. TypeOK /\ EntryFindsNone /\ GroupsCounted /\ CallHasServer /\ FirstGroup
  BY DEF IInv
<1>c. Cardinality(Closers) \in Nat
  BY <1>0, FS_CardinalityType DEF GroupsCounted
<1> USE MCPAssumption DEF TypeOK
<1>1. ASSUME NEW t \in Tasks, Moves(t) PROVE TypeOK' /\ GroupsCounted'
  <2>1. PICK where \in PC \ {"closing"} : Goto(t, where)
    BY <1>1 DEF Moves, HasGroup, Queues, Enters, Connects, Entry, PC
  <2>2. held' \in [Tasks -> 0..MaxCloses+1]
    BY <1>0, <1>1 DEF Moves, HasGroup, Queues, Enters, Connects
  <2>3. TypeOK'
    BY <1>0, <1>1, <2>1, <2>2 DEF Moves, HasGroup, Queues, Enters, Connects, Goto
  <2>4. pc[t] # "closing"
    BY <1>1 DEF Moves, Waiting
  <2> QED BY <1>0, <1>1, <2>1, <2>3, <2>4, GotoClosers, ClosersStay DEF Moves
<1>2. ASSUME NEW t \in Tasks, Entered(t) PROVE TypeOK' /\ GroupsCounted'
  <2>1. group = 0 /\ groups + Cardinality(Closers) <= closes
    BY <1>0, <1>2 DEF Entered, EntryFindsNone, Entry, GroupsCounted
  <2>2. groups + 1 \in 0..MaxCloses+1
    BY <1>0, <1>c, <2>1
  <2>3. TypeOK'
    BY <1>0, <1>2, <2>2 DEF Entered, Goto, PC
  <2>4. PICK where \in {"wantConnect", "calling"} : Goto(t, where)
    BY <1>2 DEF Entered
  <2>5. Closers' = Closers
    BY <1>0, <1>2, <2>4, GotoClosers DEF Entered
  <2>6. GroupsCounted'
    BY <1>0, <1>2, <1>c, <2>1, <2>5 DEF Entered, GroupsCounted
  <2> QED BY <2>3, <2>6
<1>3. ASSUME NEW t \in Tasks, Connected(t) PROVE TypeOK' /\ GroupsCounted'
  <2>1. server[t] \in Servers
    BY <1>0, <1>3 DEF Connected, CallHasServer
  <2>2. sessions' \in [1..MaxCloses+1 -> [Servers -> Nat]]
    <3> DEFINE g == held[t]
    <3>1. sessions' = [sessions EXCEPT ![g] = [sessions[g] EXCEPT ![server[t]] = @ + 1]]
      BY <1>3 DEF Connected
    <3>2. CASE g \in 1..MaxCloses+1
      <4>1. [sessions[g] EXCEPT ![server[t]] = @ + 1] \in [Servers -> Nat]
        BY <1>0, <2>1, <3>2
      <4> HIDE DEF g
      <4> QED BY <1>0, <3>1, <3>2, <4>1
    <3>3. CASE g \notin 1..MaxCloses+1
      <4> HIDE DEF g
      <4> QED BY <1>0, <3>1, <3>3
    <3> QED BY <3>2, <3>3
  <2>3. /\ held' \in [Tasks -> 0..MaxCloses+1]
        /\ pc' \in [Tasks -> PC]
        /\ lock' \in Tasks \cup {None}
    <3>1. CASE Goto(t, "calling") /\ held' = [held EXCEPT ![t] = group] /\ lock' = None
      BY <1>0, <3>1 DEF Goto, PC
    <3>2. CASE Goto(t, "enteringCall") /\ UNCHANGED <<held, lock>>
      BY <1>0, <3>2 DEF Goto, PC
    <3>3. CASE Goto(t, "wantCallGroup") /\ UNCHANGED held /\ lock' = None
      BY <1>0, <3>3 DEF Goto, PC
    <3> QED BY <1>3, <3>1, <3>2, <3>3 DEF Connected
  <2>4. TypeOK'
    BY <1>0, <1>3, <2>1, <2>2, <2>3 DEF Connected
  <2>5. PICK where \in {"calling", "enteringCall", "wantCallGroup"} : Goto(t, where)
    BY <1>3 DEF Connected
  <2>6. Closers' = Closers
    BY <1>0, <1>3, <2>5, GotoClosers DEF Connected
  <2> QED BY <1>0, <1>3, <2>4, <2>6, ClosersStay DEF Connected
<1>4. ASSUME NEW t \in Tasks, Called(t) PROVE TypeOK' /\ GroupsCounted'
  <2>1. TypeOK'
    BY <1>0, <1>4 DEF Called, Finish, Goto, manager, PC
  <2>2. Closers' = Closers
    BY <1>0, <1>4, GotoClosers DEF Called, Finish
  <2> QED BY <1>0, <1>4, <2>1, <2>2, ClosersStay DEF Called, manager
<1>5. ASSUME NEW t \in Tasks, Closed(t) PROVE TypeOK' /\ GroupsCounted'
  <2>1. TypeOK'
    BY <1>0, <1>5 DEF Closed, Finish, Goto, PC
  <2>2. t \in Closers /\ Closers' = Closers \ {t}
    BY <1>0, <1>5 DEF Closed, Finish, Goto, Closers
  <2>3. IsFiniteSet(Closers') /\ Cardinality(Closers') = Cardinality(Closers) - 1
    BY <1>0, <2>2, FS_RemoveElement DEF GroupsCounted
  <2>4. GroupsCounted'
    BY <1>0, <1>5, <1>c, <2>3 DEF Closed, GroupsCounted
  <2> QED BY <2>1, <2>4
<1>6. ASSUME NEW t \in Tasks, Fails(t) PROVE TypeOK' /\ GroupsCounted'
  <2>1. TypeOK'
    BY <1>0, <1>6 DEF Fails, Finish, Goto, PC
  <2>2. Closers' = Closers
    BY <1>0, <1>6, GotoClosers DEF Fails, Finish
  <2> QED BY <1>0, <1>6, <2>1, <2>2, ClosersStay DEF Fails
<1>7. ASSUME NEW t \in Tasks, Close(t) PROVE TypeOK' /\ GroupsCounted'
  <2>1. TypeOK'
    BY <1>0, <1>7 DEF Close, Goto, PC, manager
  <2>2. t \notin Closers /\ Closers' = Closers \cup {t}
    BY <1>0, <1>7 DEF Close, Goto, Closers
  <2>3. IsFiniteSet(Closers') /\ Cardinality(Closers') = Cardinality(Closers) + 1
    BY <1>0, <2>2, FS_AddElement DEF GroupsCounted
  <2>4. GroupsCounted'
    BY <1>0, <1>7, <1>c, <2>3 DEF Close, GroupsCounted, manager
  <2> QED BY <2>1, <2>4
<1>8. ASSUME NEW s \in Servers, AddServer(s) \/ RemoveServer(s) PROVE TypeOK' /\ GroupsCounted'
  <2>1. TypeOK'
    BY <1>0, <1>8 DEF AddServer, RemoveServer
  <2>2. Closers' = Closers
    BY <1>8 DEF AddServer, RemoveServer, Closers
  <2> QED BY <1>0, <1>8, <2>1, <2>2, ClosersStay DEF AddServer, RemoveServer
<1> QED
  BY <1>0, <1>1, <1>2, <1>3, <1>4, <1>5, <1>6, <1>7, <1>8, StepKinds

-----------------------------------------------------------------------------
(* The lock, the prefix and the servers of the calls.                      *)
LEMMA LockInit == Init => LockHeld /\ PrefixSet /\ CallHasServer /\ EntryFindsNone
BY MCPAssumption DEF Init, LockHeld, PrefixSet, CallHasServer, EntryFindsNone, Entry

LEMMA LockNext == IInv /\ Next => LockHeld' /\ PrefixSet' /\ CallHasServer' /\ EntryFindsNone'
<1> SUFFICES ASSUME IInv, Next
             PROVE  LockHeld' /\ PrefixSet' /\ CallHasServer' /\ EntryFindsNone'
  OBVIOUS
<1>0. /\ TypeOK /\ LockHeld /\ PrefixSet /\ CallHasServer /\ EntryFindsNone /\ FirstGroup
      /\ pc \in [Tasks -> PC] /\ server \in [Tasks -> Servers \cup {None}]
      /\ lock \in Tasks \cup {None}
  BY DEF IInv, TypeOK
<1> USE MCPAssumption
<1>1. ASSUME NEW t \in Tasks, Moves(t)
      PROVE  LockHeld' /\ PrefixSet' /\ CallHasServer' /\ EntryFindsNone'
  <2>1. LockHeld'
    BY <1>0, <1>1 DEF Moves, HasGroup, Queues, Enters, Connects, Goto, LockHeld, Entry, Waiting
  <2>2. PrefixSet'
    BY <1>0, <1>1 DEF Moves, HasGroup, Queues, Enters, Connects, Goto, PrefixSet, LockHeld, Entry, Waiting
  <2>3. CallHasServer'
    BY <1>0, <1>1 DEF Moves, HasGroup, Queues, Enters, Connects, Goto, CallHasServer, Entry, Waiting
  <2>4. EntryFindsNone'
    BY <1>0, <1>1 DEF Moves, HasGroup, Queues, Enters, Connects, Goto, EntryFindsNone, Entry, Waiting
  <2> QED BY <2>1, <2>2, <2>3, <2>4
<1>2. ASSUME NEW t \in Tasks, Entered(t)
      PROVE  LockHeld' /\ PrefixSet' /\ CallHasServer' /\ EntryFindsNone'
  BY <1>0, <1>2 DEF Entered, Goto, LockHeld, PrefixSet, CallHasServer, EntryFindsNone, Entry
<1>3. ASSUME NEW t \in Tasks, Connected(t)
      PROVE  LockHeld' /\ PrefixSet' /\ CallHasServer' /\ EntryFindsNone'
  <2>1. PICK where \in {"calling", "enteringCall", "wantCallGroup"} :
             /\ Goto(t, where)
             /\ where = "enteringCall" => group = 0 /\ lock' = lock
             /\ where # "enteringCall" => lock' = None
    BY <1>3 DEF Connected
  <2> QED BY <1>0, <1>3, <2>1 DEF Connected, Goto, LockHeld, PrefixSet, CallHasServer, EntryFindsNone, Entry
<1>4. ASSUME NEW t \in Tasks, Called(t)
      PROVE  LockHeld' /\ PrefixSet' /\ CallHasServer' /\ EntryFindsNone'
  BY <1>0, <1>4 DEF Called, Finish, Goto, manager, LockHeld, PrefixSet, CallHasServer, EntryFindsNone, Entry
<1>5. ASSUME NEW t \in Tasks, Closed(t)
      PROVE  LockHeld' /\ PrefixSet' /\ CallHasServer' /\ EntryFindsNone'
  BY <1>0, <1>5 DEF Closed, Finish, Goto, LockHeld, PrefixSet, CallHasServer, EntryFindsNone, Entry
<1>6. ASSUME NEW t \in Tasks, Fails(t)
      PROVE  LockHeld' /\ PrefixSet' /\ CallHasServer' /\ EntryFindsNone'
  BY <1>0, <1>6 DEF Fails, Finish, Goto, LockHeld, PrefixSet, CallHasServer, EntryFindsNone, Entry
<1>7. ASSUME NEW t \in Tasks, Close(t)
      PROVE  LockHeld' /\ PrefixSet' /\ CallHasServer' /\ EntryFindsNone'
  BY <1>0, <1>7 DEF Close, Goto, manager, LockHeld, PrefixSet, CallHasServer, EntryFindsNone, Entry
<1>8. ASSUME NEW s \in Servers, AddServer(s) \/ RemoveServer(s)
      PROVE  LockHeld' /\ PrefixSet' /\ CallHasServer' /\ EntryFindsNone'
  BY <1>0, <1>8 DEF AddServer, RemoveServer, LockHeld, PrefixSet, CallHasServer, EntryFindsNone
<1> QED
  BY <1>0, <1>1, <1>2, <1>3, <1>4, <1>5, <1>6, <1>7, <1>8, StepKinds

-----------------------------------------------------------------------------
(* The one group before the first close().                                 *)
LEMMA FirstGroupInit == Init => FirstGroup
BY MCPAssumption DEF Init, FirstGroup

LEMMA FirstGroupNext == IInv /\ Next => FirstGroup'
<1> SUFFICES ASSUME IInv, Next, closes' = 0 PROVE FirstGroup'
  BY DEF FirstGroup
<1>0. /\ TypeOK /\ LockHeld /\ CallHasServer /\ EntryFindsNone /\ FirstGroup
      /\ pc \in [Tasks -> PC] /\ server \in [Tasks -> Servers \cup {None}]
      /\ held \in [Tasks -> 0..MaxCloses+1] /\ groups \in Nat /\ group \in Nat
      /\ sessions \in [1..MaxCloses+1 -> [Servers -> Nat]]
      /\ connected \subseteq Servers
  BY MCPAssumption DEF IInv, TypeOK
<1> USE MCPAssumption
<1>c. closes = 0 => group \in {0, 1}
  <2>1. closes = 0 => Cardinality(Closers) = 0
    BY <1>0, FS_EmptySet DEF FirstGroup, Closers
  <2> QED BY <1>0, <2>1 DEF FirstGroup, IInv, GroupsCounted
<1>1. ASSUME NEW t \in Tasks, Moves(t) PROVE FirstGroup'
  <2>1. closes = 0 /\ UNCHANGED <<group, groups, connected, sessions>>
    BY <1>1 DEF Moves
  <2>2. CASE HasGroup(t)
    BY <1>0, <1>1, <2>1, <2>2 DEF Moves, HasGroup, Goto, FirstGroup
  <2>3. CASE Queues(t)
    BY <1>0, <1>1, <1>c, <2>1, <2>3 DEF Moves, Queues, Goto, FirstGroup
  <2>4. CASE Enters(t)
    BY <1>0, <1>1, <2>1, <2>4 DEF Moves, Enters, Entry, Goto, FirstGroup
  <2>5. CASE Connects(t)
    BY <1>0, <1>1, <1>c, <2>1, <2>5 DEF Moves, Connects, Goto, FirstGroup
  <2> QED BY <1>1, <2>2, <2>3, <2>4, <2>5 DEF Moves
<1>2. ASSUME NEW t \in Tasks, Entered(t) PROVE FirstGroup'
  <2>1. closes = 0 /\ group = 0 /\ groups = 0 /\ connected = {}
    BY <1>0, <1>2 DEF Entered, EntryFindsNone, Entry, FirstGroup
  <2>2. group' = 1 /\ groups' = 1
    BY <1>2, <2>1 DEF Entered
  <2>3. \A u \in Tasks : held[u] = 0 /\ pc[u] \notin {"closing", "wantConnect", "connecting"}
    BY <1>0, <2>1 DEF FirstGroup
  <2>4. \A g \in 1..MaxCloses+1, s \in Servers : sessions[g][s] = 0
    BY <1>0, <2>1 DEF FirstGroup
  <2> QED BY <1>0, <1>2, <2>1, <2>2, <2>3, <2>4 DEF Entered, Goto, FirstGroup
<1>3. ASSUME NEW t \in Tasks, Connected(t) PROVE FirstGroup'
  <2> DEFINE s == server[t]
  <2>1. /\ closes = 0 /\ group = 1 /\ groups = 1 /\ held[t] = 1
        /\ s \notin connected /\ s \in Servers /\ pc[t] = "connecting"
    BY <1>0, <1>3 DEF Connected, FirstGroup, CallHasServer
  <2>2. Goto(t, "calling") /\ held' = [held EXCEPT ![t] = group]
    BY <1>3, <2>1 DEF Connected
  <2>3. \A u \in Tasks \ {t} : pc[u] # "connecting"
    BY <1>0, <2>1 DEF LockHeld
  <2>4. ASSUME NEW g \in 1..MaxCloses+1, NEW r \in Servers
        PROVE  sessions'[g][r] = IF g = 1 /\ r \in connected \cup {s} THEN 1 ELSE 0
    <3>1. sessions[g][r] = IF g = 1 /\ r \in connected THEN 1 ELSE 0
      BY <1>0, <2>1 DEF FirstGroup
    <3>2. sessions' = [sessions EXCEPT ![1] = [sessions[1] EXCEPT ![s] = @ + 1]]
      BY <1>3, <2>1 DEF Connected
    <3>3. sessions'[g] = IF g = 1 THEN [sessions[1] EXCEPT ![s] = @ + 1] ELSE sessions[g]
      BY <1>0, <3>2
    <3>4. sessions'[g][r] = IF g = 1 /\ r = s THEN sessions[g][r] + 1 ELSE sessions[g][r]
      BY <1>0, <2>1, <3>3
    <3> QED BY <2>1, <3>1, <3>4
  <2>5. connected' = connected \cup {s} /\ UNCHANGED <<group, groups, server>>
    BY <1>3 DEF Connected
  <2> QED BY <1>0, <2>1, <2>2, <2>3, <2>4, <2>5 DEF Goto, FirstGroup
<1>4. ASSUME NEW t \in Tasks, Called(t) PROVE FirstGroup'
  BY <1>0, <1>4 DEF Called, Finish, Goto, manager, FirstGroup
<1>5. ASSUME NEW t \in Tasks, Closed(t) PROVE FirstGroup'
  BY <1>0, <1>5 DEF Closed, FirstGroup
<1>6. ASSUME NEW t \in Tasks, Fails(t) PROVE FirstGroup'
  BY <1>0, <1>6 DEF Fails, Finish, Goto, FirstGroup
<1>7. ASSUME NEW t \in Tasks, Close(t) PROVE FirstGroup'
  BY <1>0, <1>7 DEF Close, TypeOK
<1>8. ASSUME NEW s \in Servers, AddServer(s) \/ RemoveServer(s) PROVE FirstGroup'
  BY <1>0, <1>8 DEF AddServer, RemoveServer, FirstGroup
<1> QED
  BY <1>0, <1>1, <1>2, <1>3, <1>4, <1>5, <1>6, <1>7, <1>8, StepKinds

-----------------------------------------------------------------------------
(* The invariant is kept by every step.                                    *)
LEMMA Invariance == Spec => []IInv
<1>1. Init => IInv
  BY CountsInit, LockInit, FirstGroupInit DEF IInv
<1>2. IInv /\ [Next]_vars => IInv'
  <2>1. CASE Next
    BY <2>1, CountsNext, LockNext, FirstGroupNext DEF IInv
  <2>2. CASE UNCHANGED vars
    BY <2>2 DEF vars, IInv, TypeOK, LockHeld, PrefixSet, CallHasServer, EntryFindsNone,
                GroupsCounted, Closers, FirstGroup
  <2> QED BY <2>1, <2>2
<1> QED BY <1>1, <1>2, PTL DEF Spec

(* Every variable keeps its type, however often the manager is closed: a   *)
(* group is made for each close() and one more, and no others.             *)
THEOREM TypeCorrect == Spec => []TypeOK
<1>1. IInv => TypeOK
  BY DEF IInv
<1> QED BY <1>1, Invariance, PTL

(* Tools are filed under the server being connected: _component_prefix is  *)
(* shared by all tasks and read in a callback, and is that of the only     *)
(* task that connects whatever fails, is cancelled or is closed.           *)
THEOREM PrefixCorrect == Spec => []PrefixIsOwn
<1>1. IInv => PrefixIsOwn
  BY DEF IInv, LockHeld, PrefixSet, PrefixIsOwn
<1> QED BY <1>1, Invariance, PTL

(* A server marked as connected has its tools in the current group, until  *)
(* the first close() (_ensure_connected).                                  *)
THEOREM Aggregated == Spec => []AggregatedUntilClose
<1>1. IInv => AggregatedUntilClose
  <2> SUFFICES ASSUME IInv, closes = 0, NEW s \in connected
               PROVE  group # 0 /\ sessions[group][s] > 0
    BY DEF AggregatedUntilClose, ConnectedMeansAggregated
  <2>1. group \in 1..MaxCloses+1 /\ s \in Servers
    BY MCPAssumption DEF IInv, TypeOK, FirstGroup
  <2>2. sessions[group][s] = 1
    BY <2>1 DEF IInv, FirstGroup
  <2> QED BY <2>1, <2>2
<1> QED BY <1>1, Invariance, PTL

(* And any number of tasks that need a server at the same time start it    *)
(* once (the second check of _ensure_connected, under the lock).           *)
THEOREM ServersStartedOnce == Spec => []StartedOnce
<1>1. IInv => StartedOnce
  <2> SUFFICES ASSUME IInv, closes = 0, NEW g \in 1..groups, NEW s \in Servers
               PROVE  sessions[g][s] <= 1
    BY DEF StartedOnce
  <2>1. g \in 1..MaxCloses+1
    BY MCPAssumption DEF IInv, TypeOK
  <2>2. sessions[g][s] \in {0, 1}
    BY <2>1 DEF IInv, FirstGroup
  <2> QED BY <2>2
<1> QED BY <1>1, Invariance, PTL
=============================================================================
