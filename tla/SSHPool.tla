------------------------------ MODULE SSHPool ------------------------------
(***************************************************************************)
(* The SSH connection pool (merlya/ssh/pool.py) shared by concurrent       *)
(* asyncio tasks.  A step runs from one await to the next; the state       *)
(* between two steps of a task is where the others interleave.             *)
(*                                                                         *)
(* Each task repeatedly calls execute, disconnect or disconnect_all.  Its  *)
(* program counter names the await it is suspended at:                     *)
(*   getLock      _get_connection_lock, waiting for _pool_lock             *)
(*   waitKey      waiting for the lock of its key                          *)
(*   closeStale   closing the dead connection it found under its key       *)
(*   wantSlot     waiting for _pool_lock to check max_connections          *)
(*   evicting     closing the evicted connection, holding _pool_lock       *)
(*   connecting   in _create_connection                                    *)
(*   getSem       _get_host_run_semaphore, waiting for _pool_lock          *)
(*   waitSem      waiting for a channel of the host                        *)
(*   running      execute_command on the connection                        *)
(*   invalidate   after a transient error, waiting for _pool_lock          *)
(*   invalidating closing the popped connection, holding _pool_lock        *)
(*   backoff      sleeping before the next attempt                         *)
(*   disconnecting, sweeping   in disconnect / disconnect_all, holding     *)
(*                _pool_lock                                               *)
(*                                                                         *)
(* Locks are not variables: who holds one follows from the counters.       *)
(***************************************************************************)
EXTENDS Naturals, FiniteSets, SSHCircuitBreaker

CONSTANTS Tasks,            \* asyncio tasks sharing the pool
          Keys,             \* connection keys user@host:port
          Hosts,            \* host names (with their port)
          HostOf,           \* the host of each key
          Matching,         \* the keys whose text contains a host's name
          Conns,            \* identities of connection objects (a bound)
          None,
          MaxConnections,   \* max_connections
          MaxRetries,       \* max_retries
          MaxChannels,      \* max_channels_per_host
          MaxSweeps         \* bound on completed calls of disconnect_all

ASSUME PoolAssumption ==
    /\ IsFiniteSet(Tasks) /\ Tasks # {} /\ IsFiniteSet(Keys)
    /\ None \notin Tasks \cup Keys \cup Conns
    /\ HostOf \in [Keys -> Hosts]
    /\ Matching \in [Hosts -> SUBSET Keys]
    /\ \A k \in Keys : k \in Matching[HostOf[k]]
    /\ MaxConnections \in Nat \ {0} /\ MaxRetries \in Nat \ {0}
    /\ MaxChannels \in Nat \ {0} /\ MaxSweeps \in Nat

VARIABLES pool,      \* _connections: key -> connection object or None
          newer,     \* last_used: for a pooled key, the keys used after it
          link,      \* transport of a connection object: up, closing or down
          fresh,     \* healthy and used less than `timeout` seconds ago
          gen,       \* how often _connection_locks has been cleared
          circuit,   \* _circuit_breakers
          pc, key,   \* per task: where it waits, the key it works on
          lockGen,   \* per task: the generation of the key lock it obtained
          held,      \* per task: the connection it uses or is closing
          left,      \* per task: attempts left after the current one
          orphan,    \* per task: reset_circuit replaced the breaker it holds
          todo,      \* keys disconnect still has to pop / the sweep visited
          size0      \* size of the dictionary when the sweep began

poolVars == <<pool, newer>>
connVars == <<link, fresh>>
taskVars == <<pc, key, lockGen, held, left, orphan>>
sweepVars == <<todo, size0>>
vars == <<pool, newer, link, fresh, gen, circuit, pc, key, lockGen, held, left,
          orphan, todo, size0>>

Pooled == {k \in Keys : pool[k] # None}
IsPooled(c) == \E k \in Keys : pool[k] = c

(* Mutants are definitions named M_...: forms a bug could give the          *)
(* definition that follows them.  Here get_connection creates outside the   *)
(* lock of the key; _get_host_run_semaphore is called with _pool_lock held. *)
M_KeyLockPC == {"closeStale", "wantSlot", "evicting"}
M_PoolLockPC == {"evicting", "invalidating", "disconnecting", "sweeping", "getSem"}

PoolLockPC == {"evicting", "invalidating", "disconnecting", "sweeping"}
KeyLockPC == {"closeStale", "wantSlot", "evicting", "connecting"}

(* Inside a call of execute.                                               *)
ExecutePC == {"getLock", "waitKey", "closeStale", "wantSlot", "evicting", "connecting",
              "getSem", "waitSem", "running", "invalidate", "invalidating", "backoff"}
PC == {"idle", "disconnecting", "sweeping"} \cup ExecutePC
RetryPC == {"invalidate", "invalidating", "backoff"}

PoolLockFree == \A t \in Tasks : pc[t] \notin PoolLockPC

KeyLockFree(k, g) ==
    \A t \in Tasks : ~(pc[t] \in KeyLockPC /\ key[t] = k /\ lockGen[t] = g)

(* SSHConnection.is_alive: the transport attribute is set, the connection  *)
(* is marked healthy and its timeout has not passed.                       *)
IsAlive(c) == link[c] # "down" /\ fresh[c]

Running(h) == {t \in Tasks : pc[t] = "running" /\ HostOf[key[t]] = h}

Creators == {t \in Tasks : pc[t] \in {"evicting", "connecting"}}

(* A connection object nothing refers to any more can be allocated anew.   *)
Free(c) == link[c] # "up" /\ ~IsPooled(c) /\ \A t \in Tasks : held[t] # c

Init == /\ pool = [k \in Keys |-> None]
        /\ newer = [k \in Keys |-> {}]
        /\ link = [c \in Conns |-> "down"]
        /\ fresh = [c \in Conns |-> FALSE]
        /\ gen = 0
        /\ circuit = [h \in Hosts |-> NewBreaker]
        /\ pc = [t \in Tasks |-> "idle"]
        /\ key = [t \in Tasks |-> None]
        /\ lockGen = [t \in Tasks |-> 0]
        /\ held = [t \in Tasks |-> None]
        /\ left = [t \in Tasks |-> 0]
        /\ orphan = [t \in Tasks |-> FALSE]
        /\ todo = {}
        /\ size0 = 0

-----------------------------------------------------------------------------
(* Updates shared by the actions.                                          *)

Goto(t, where) == pc' = [pc EXCEPT ![t] = where]

(* The task's call returns or raises; its local variables die.             *)
Finish(t) == /\ Goto(t, "idle")
             /\ key' = [key EXCEPT ![t] = None]
             /\ lockGen' = [lockGen EXCEPT ![t] = 0]
             /\ held' = [held EXCEPT ![t] = None]
             /\ left' = [left EXCEPT ![t] = 0]
             /\ orphan' = [orphan EXCEPT ![t] = FALSE]

(* The connection under k becomes the most recently used one.              *)
Touched(k) == [j \in Keys |-> IF j # k /\ pool[j] # None
                              THEN newer[j] \cup {k} ELSE {}]

Popped(k) == /\ pool' = [pool EXCEPT ![k] = None]
             /\ newer' = [j \in Keys |-> IF j = k THEN {} ELSE newer[j] \ {k}]

(* SSHConnection.close up to its await; nothing to do when already closed. *)
CloseBegins(c) == link' = [link EXCEPT ![c] = IF @ = "up" THEN "closing" ELSE @]

(* The rest of close: the attribute is cleared, the connection unhealthy.  *)
CloseEnds(c) == /\ link' = [link EXCEPT ![c] = "down"]
                /\ fresh' = [fresh EXCEPT ![c] = FALSE]

(* circuit of the host of task t's command, as execute finds it.           *)
BreakerOf(t) == circuit[HostOf[key[t]]]

(* A result is recorded on the breaker object the call obtained when it    *)
(* began; if reset_circuit replaced that object nobody reads it again.     *)
Record(t, b) == circuit' = IF orphan[t] THEN circuit
                           ELSE [circuit EXCEPT ![HostOf[key[t]]] = b]

(* The except branch of execute: retry a transient error while attempts    *)
(* remain, otherwise count a failure and raise.                            *)
AttemptFails(t, transient) ==
    IF transient /\ left[t] > 0
    THEN /\ Goto(t, "invalidate")
         /\ held' = [held EXCEPT ![t] = None]
         /\ lockGen' = [lockGen EXCEPT ![t] = 0]
         /\ UNCHANGED <<key, left, orphan, circuit>>
    ELSE /\ Record(t, RecordFailure(BreakerOf(t)))
         /\ Finish(t)

-----------------------------------------------------------------------------
(* execute and get_connection.                                             *)

(* execute checks the circuit once, before the first attempt; with retry   *)
(* disabled there is a single attempt.                                     *)
Execute(t, k, retry) ==
    /\ pc[t] = "idle"
    /\ CanExecute(circuit[HostOf[k]])
    /\ Goto(t, "getLock")
    /\ key' = [key EXCEPT ![t] = k]
    /\ left' = [left EXCEPT ![t] = IF retry THEN MaxRetries - 1 ELSE 0]
    /\ UNCHANGED <<poolVars, connVars, sweepVars, gen, circuit, lockGen, held, orphan>>

(* _get_connection_lock: the lock object now in the table.                 *)
GetLock(t) ==
    /\ pc[t] = "getLock" /\ PoolLockFree
    /\ Goto(t, "waitKey")
    /\ lockGen' = [lockGen EXCEPT ![t] = gen]
    /\ UNCHANGED <<poolVars, connVars, sweepVars, gen, circuit, key, held, left, orphan>>

(* Under the key lock: reuse a live connection.                            *)
Reuse(t) ==
    LET c == pool[key[t]]
    IN /\ pc[t] = "waitKey" /\ KeyLockFree(key[t], lockGen[t])
       /\ c # None /\ IsAlive(c)
       /\ newer' = Touched(key[t])
       /\ held' = [held EXCEPT ![t] = c]
       /\ lockGen' = [lockGen EXCEPT ![t] = 0]
       /\ Goto(t, "getSem")
       /\ UNCHANGED <<pool, connVars, sweepVars, gen, circuit, key, left, orphan>>

(* Under the key lock: a dead connection is closed first.                  *)
FindStale(t) ==
    LET c == pool[key[t]]
    IN /\ pc[t] = "waitKey" /\ KeyLockFree(key[t], lockGen[t])
       /\ c # None /\ ~IsAlive(c)
       /\ CloseBegins(c)
       /\ held' = [held EXCEPT ![t] = c]
       /\ Goto(t, "closeStale")
       /\ UNCHANGED <<poolVars, fresh, sweepVars, gen, circuit, key, lockGen, left, orphan>>

(* Under the key lock: no connection.                                      *)
FindNone(t) ==
    /\ pc[t] = "waitKey" /\ KeyLockFree(key[t], lockGen[t])
    /\ pool[key[t]] = None
    /\ Goto(t, "wantSlot")
    /\ UNCHANGED <<poolVars, connVars, sweepVars, gen, circuit, key, lockGen, held,
                   left, orphan>>

(* close() returns; `del self._connections[key]` removes whatever is under *)
(* the key, and raises KeyError (not a transient error) if nothing is.     *)
StaleClosed(t) ==
    /\ pc[t] = "closeStale"
    /\ CloseEnds(held[t])
    /\ IF pool[key[t]] # None
       THEN /\ Popped(key[t])
            /\ todo' = IF \E u \in Tasks : pc[u] = "sweeping"
                       THEN todo \ {key[t]} ELSE todo
            /\ Goto(t, "wantSlot")
            /\ held' = [held EXCEPT ![t] = None]
            /\ UNCHANGED <<key, lockGen, left, orphan, circuit>>
       ELSE /\ AttemptFails(t, FALSE)
            /\ UNCHANGED <<poolVars, todo>>
    /\ UNCHANGED <<gen, size0>>

(* Mutant: the check lets a full pool through.                             *)
M_TakeSlot(t) ==
    /\ pc[t] = "wantSlot" /\ PoolLockFree
    /\ Cardinality(Pooled) <= MaxConnections
    /\ Goto(t, "connecting")
    /\ UNCHANGED <<poolVars, connVars, sweepVars, gen, circuit, key, lockGen, held,
                   left, orphan>>

(* The capacity check passes: _pool_lock is taken and released at once.    *)
TakeSlot(t) ==
    /\ pc[t] = "wantSlot" /\ PoolLockFree
    /\ Cardinality(Pooled) < MaxConnections
    /\ Goto(t, "connecting")
    /\ UNCHANGED <<poolVars, connVars, sweepVars, gen, circuit, key, lockGen, held,
                   left, orphan>>

(* Mutant: the victim is closed but stays in the dictionary.               *)
M_Evict(t) ==
    /\ pc[t] = "wantSlot" /\ PoolLockFree
    /\ Cardinality(Pooled) >= MaxConnections
    /\ \E k \in Pooled : /\ newer[k] = Pooled \ {k}
                         /\ CloseBegins(pool[k])
                         /\ held' = [held EXCEPT ![t] = pool[k]]
    /\ Goto(t, "evicting")
    /\ UNCHANGED <<poolVars, fresh, sweepVars, gen, circuit, key, lockGen, left, orphan>>

(* The pool is full: pop the least recently used connection and close it,  *)
(* keeping _pool_lock until it is closed.                                  *)
Evict(t) ==
    /\ pc[t] = "wantSlot" /\ PoolLockFree
    /\ Cardinality(Pooled) >= MaxConnections
    /\ \E k \in Pooled : /\ newer[k] = Pooled \ {k}
                         /\ Popped(k)
                         /\ CloseBegins(pool[k])
                         /\ held' = [held EXCEPT ![t] = pool[k]]
    /\ Goto(t, "evicting")
    /\ UNCHANGED <<fresh, sweepVars, gen, circuit, key, lockGen, left, orphan>>

Evicted(t) ==
    /\ pc[t] = "evicting"
    /\ CloseEnds(held[t])
    /\ held' = [held EXCEPT ![t] = None]
    /\ Goto(t, "connecting")
    /\ UNCHANGED <<poolVars, sweepVars, gen, circuit, key, lockGen, left, orphan>>

(* _create_connection returns: the new connection is stored under the key  *)
(* without looking at what the key holds now.                              *)
Connected(t) ==
    /\ pc[t] = "connecting"
    /\ \E c \in Conns : /\ Free(c)
                        /\ link' = [link EXCEPT ![c] = "up"]
                        /\ fresh' = [fresh EXCEPT ![c] = TRUE]
                        /\ pool' = [pool EXCEPT ![key[t]] = c]
                        /\ held' = [held EXCEPT ![t] = c]
    /\ newer' = Touched(key[t])
    /\ lockGen' = [lockGen EXCEPT ![t] = 0]
    /\ Goto(t, "getSem")
    /\ UNCHANGED <<sweepVars, gen, circuit, key, left, orphan>>

ConnectFails(t) ==
    /\ pc[t] = "connecting"
    /\ \E transient \in BOOLEAN : AttemptFails(t, transient)
    /\ UNCHANGED <<poolVars, connVars, sweepVars, gen>>

-----------------------------------------------------------------------------
(* _execute_once after get_connection, and the retry path.                 *)

GetSem(t) ==
    /\ pc[t] = "getSem" /\ PoolLockFree
    /\ Goto(t, "waitSem")
    /\ UNCHANGED <<poolVars, connVars, sweepVars, gen, circuit, key, lockGen, held,
                   left, orphan>>

(* A channel is free; execute_command refuses a connection closed since.   *)
AcquireSem(t) ==
    /\ pc[t] = "waitSem"
    /\ Cardinality(Running(HostOf[key[t]])) < MaxChannels
    /\ IF link[held[t]] = "down"
       THEN AttemptFails(t, FALSE)
       ELSE /\ Goto(t, "running")
            /\ UNCHANGED <<key, lockGen, held, left, orphan, circuit>>
    /\ UNCHANGED <<poolVars, connVars, sweepVars, gen>>

RunSucceeds(t) ==
    /\ pc[t] = "running" /\ link[held[t]] = "up"
    /\ Record(t, RecordSuccess(BreakerOf(t)))
    /\ Finish(t)
    /\ UNCHANGED <<poolVars, connVars, sweepVars, gen>>

(* The command times out or the transport fails, by itself or because the  *)
(* connection was closed under the command.                                *)
RunFails(t) ==
    /\ pc[t] = "running"
    /\ \E transient \in BOOLEAN : AttemptFails(t, transient)
    /\ UNCHANGED <<poolVars, connVars, sweepVars, gen>>

(* _invalidate_connection pops what is under the key now, which another    *)
(* task may have put there after the error.                                *)
Invalidate(t) ==
    LET c == pool[key[t]]
    IN /\ pc[t] = "invalidate" /\ PoolLockFree
       /\ IF c # None
          THEN /\ Popped(key[t])
               /\ fresh' = [fresh EXCEPT ![c] = FALSE]
               /\ CloseBegins(c)
               /\ held' = [held EXCEPT ![t] = c]
               /\ Goto(t, "invalidating")
          ELSE /\ Goto(t, "backoff")
               /\ UNCHANGED <<poolVars, connVars, held>>
       /\ UNCHANGED <<sweepVars, gen, circuit, key, lockGen, left, orphan>>

Invalidated(t) ==
    /\ pc[t] = "invalidating"
    /\ CloseEnds(held[t])
    /\ held' = [held EXCEPT ![t] = None]
    /\ Goto(t, "backoff")
    /\ UNCHANGED <<poolVars, sweepVars, gen, circuit, key, lockGen, left, orphan>>

NextAttempt(t) ==
    /\ pc[t] = "backoff"
    /\ left' = [left EXCEPT ![t] = @ - 1]
    /\ Goto(t, "getLock")
    /\ UNCHANGED <<poolVars, connVars, sweepVars, gen, circuit, key, lockGen, held, orphan>>

(* The task is cancelled at an await (a sub-agent timeout, Ctrl-C).        *)
(* CancelledError is no Exception: locks are released by `async with`, but *)
(* neither a failure nor a retry happens, and a close stays half done.     *)
Cancel(t) ==
    /\ pc[t] # "idle"
    /\ Finish(t)
    /\ IF pc[t] \in {"disconnecting", "sweeping"}
       THEN todo' = {} /\ size0' = 0
       ELSE UNCHANGED sweepVars
    /\ UNCHANGED <<poolVars, connVars, gen, circuit>>

-----------------------------------------------------------------------------
(* disconnect and disconnect_all.                                          *)

(* The keys to remove are those whose text contains the host's name.       *)
Disconnect(t, h) ==
    /\ pc[t] = "idle" /\ PoolLockFree
    /\ todo' = Pooled \cap Matching[h]
    /\ Goto(t, "disconnecting")
    /\ UNCHANGED <<poolVars, connVars, gen, circuit, key, lockGen, held, left,
                   orphan, size0>>

(* pop raises KeyError if the key went away meanwhile: disconnect stops.   *)
DisconnectNext(t) ==
    /\ pc[t] = "disconnecting" /\ held[t] = None
    /\ \E k \in todo :
         IF pool[k] # None
         THEN /\ Popped(k)
              /\ CloseBegins(pool[k])
              /\ held' = [held EXCEPT ![t] = pool[k]]
              /\ todo' = todo \ {k}
              /\ UNCHANGED <<pc, key, lockGen, left, orphan>>
         ELSE /\ Finish(t)
              /\ todo' = {}
              /\ UNCHANGED <<poolVars, link>>
    /\ UNCHANGED <<fresh, gen, circuit, size0>>

DisconnectDone(t) ==
    /\ pc[t] = "disconnecting" /\ held[t] = None /\ todo = {}
    /\ Finish(t)
    /\ UNCHANGED <<poolVars, connVars, sweepVars, gen, circuit>>

DisconnectAll(t) ==
    /\ pc[t] = "idle" /\ PoolLockFree /\ gen < MaxSweeps
    /\ todo' = {}
    /\ size0' = Cardinality(Pooled)
    /\ Goto(t, "sweeping")
    /\ UNCHANGED <<poolVars, connVars, gen, circuit, key, lockGen, held, left, orphan>>

(* `for conn in self._connections.values()`: the iterator first checks     *)
(* that the dictionary still has its initial size.                         *)
SweepNext(t) ==
    /\ pc[t] = "sweeping" /\ held[t] = None
    /\ Cardinality(Pooled) = size0
    /\ \E k \in Pooled \ todo :
         /\ CloseBegins(pool[k])
         /\ held' = [held EXCEPT ![t] = pool[k]]
         /\ todo' = todo \cup {k}
    /\ UNCHANGED <<poolVars, fresh, gen, circuit, pc, key, lockGen, left, orphan, size0>>

(* RuntimeError: dictionary changed size during iteration.                 *)
SweepBreaks(t) ==
    /\ pc[t] = "sweeping" /\ held[t] = None
    /\ Cardinality(Pooled) # size0
    /\ Finish(t)
    /\ todo' = {} /\ size0' = 0
    /\ UNCHANGED <<poolVars, connVars, gen, circuit>>

(* All visited: both dictionaries are cleared.                             *)
SweepDone(t) ==
    /\ pc[t] = "sweeping" /\ held[t] = None
    /\ Cardinality(Pooled) = size0 /\ Pooled \subseteq todo
    /\ pool' = [k \in Keys |-> None]
    /\ newer' = [k \in Keys |-> {}]
    /\ gen' = gen + 1
    /\ Finish(t)
    /\ todo' = {} /\ size0' = 0
    /\ UNCHANGED <<connVars, circuit>>

(* The close awaited by disconnect or disconnect_all returns.              *)
CloseReturns(t) ==
    /\ pc[t] \in {"disconnecting", "sweeping"} /\ held[t] # None
    /\ CloseEnds(held[t])
    /\ held' = [held EXCEPT ![t] = None]
    /\ UNCHANGED <<poolVars, sweepVars, gen, circuit, pc, key, lockGen, left, orphan>>

-----------------------------------------------------------------------------
(* The operator and the clock.                                             *)

ResetCircuit(h) ==
    /\ circuit[h] # NewBreaker
    /\ circuit' = [circuit EXCEPT ![h] = NewBreaker]
    /\ orphan' = [t \in Tasks |->
                    orphan[t] \/ (key[t] # None /\ HostOf[key[t]] = h)]
    /\ UNCHANGED <<poolVars, connVars, sweepVars, gen, pc, key, lockGen, held, left>>

(* A pooled connection has not been used for its timeout.                  *)
Expire(k) ==
    /\ pool[k] # None /\ fresh[pool[k]]
    /\ fresh' = [fresh EXCEPT ![pool[k]] = FALSE]
    /\ UNCHANGED <<poolVars, link, taskVars, sweepVars, gen, circuit>>

RetryTimePasses(h) ==
    /\ circuit[h].cooling
    /\ circuit' = [circuit EXCEPT ![h] = CoolDown(@)]
    /\ UNCHANGED <<poolVars, connVars, taskVars, sweepVars, gen>>

-----------------------------------------------------------------------------
GetConnection(t) ==
    \/ GetLock(t) \/ Reuse(t) \/ FindStale(t) \/ FindNone(t) \/ StaleClosed(t)
    \/ TakeSlot(t) \/ Evict(t) \/ Evicted(t) \/ Connected(t) \/ ConnectFails(t)

RunAndRetry(t) ==
    \/ GetSem(t) \/ AcquireSem(t) \/ RunSucceeds(t) \/ RunFails(t)
    \/ Invalidate(t) \/ Invalidated(t) \/ NextAttempt(t)

Disconnecting(t) ==
    \/ DisconnectNext(t) \/ DisconnectDone(t) \/ CloseReturns(t)
    \/ SweepNext(t) \/ SweepBreaks(t) \/ SweepDone(t)

Calls(t) == \/ \E k \in Keys, retry \in BOOLEAN : Execute(t, k, retry)
            \/ \E h \in Hosts : Disconnect(t, h)
            \/ DisconnectAll(t)

Environment == \/ \E h \in Hosts : ResetCircuit(h) \/ RetryTimePasses(h)
               \/ \E k \in Keys : Expire(k)

Next == \/ \E t \in Tasks : \/ Calls(t) \/ GetConnection(t) \/ RunAndRetry(t)
                            \/ Disconnecting(t) \/ Cancel(t)
        \/ Environment

Spec == Init /\ [][Next]_vars

(* asyncio runs every ready task; its locks and semaphores queue their     *)
(* waiters first come first served, so a waiter that could go on again and *)
(* again does (strong fairness); connecting, running, closing and sleeping *)
(* end by their time limits.  A task in a call has one kind of step at a   *)
(* time, so one condition covers all of them; nothing is assumed of new    *)
(* calls, cancellation or the environment.                                 *)
Fairness ==
    \A t \in Tasks : SF_vars(GetConnection(t) \/ RunAndRetry(t) \/ Disconnecting(t))

FairSpec == Spec /\ Fairness

-----------------------------------------------------------------------------
VarTypes ==
    /\ pool \in [Keys -> Conns \cup {None}]
    /\ newer \in [Keys -> SUBSET Keys]
    /\ link \in [Conns -> {"up", "closing", "down"}]
    /\ fresh \in [Conns -> BOOLEAN]
    /\ gen \in Nat
    /\ circuit \in [Hosts -> Breaker]
    /\ pc \in [Tasks -> PC]
    /\ key \in [Tasks -> Keys \cup {None}]
    /\ lockGen \in [Tasks -> Nat]
    /\ held \in [Tasks -> Conns \cup {None}]
    /\ left \in [Tasks -> 0..MaxRetries - 1]
    /\ orphan \in [Tasks -> BOOLEAN]
    /\ todo \in SUBSET Keys
    /\ size0 \in Nat

(* A task inside execute has a key; one preparing a retry has attempts     *)
(* left.                                                                   *)
TaskShape == \A t \in Tasks : /\ pc[t] \in ExecutePC => key[t] \in Keys
                              /\ pc[t] \in RetryPC => left[t] > 0

(* The variables keep their types, whichever calls are retried, cancelled  *)
(* or cut short.                                                           *)
TypeOK == VarTypes /\ TaskShape

(* The bound the capacity check really gives.  It is made before the await *)
(* of _create_connection and the insertion after it, under different       *)
(* locks, so concurrent creators overshoot max_connections, but never by   *)
(* more than one each, however often the race is repeated (get_connection  *)
(* and _evict_lru_connection).                                             *)
CapacityDrift ==
    Cardinality(Pooled) + Cardinality(Creators)
        <= MaxConnections + Cardinality(Tasks) - 1

(* No transport is lost: one that is up is in the pool, where disconnect   *)
(* and disconnect_all find it, through every retry, eviction, invalidation *)
(* and cancellation of get_connection and execute.                         *)
EveryTransportPooled == \A c \in Conns : link[c] = "up" => IsPooled(c)

(* The same until disconnect_all first replaces the table of key locks.    *)
NoLeakWhileLocksKept == gen = 0 => EveryTransportPooled

(* Why: a key's lock admits one task at a time, which finds the key free   *)
(* or holding the dead connection it closes, until it inserts a new one.   *)
KeyLockInv ==
    gen = 0 =>
       /\ \A t \in Tasks : lockGen[t] = 0
       /\ \A t, u \in Tasks : t # u /\ {pc[t], pc[u]} \subseteq KeyLockPC => key[t] # key[u]
       /\ \A t \in Tasks : pc[t] \in KeyLockPC \ {"closeStale"} => pool[key[t]] = None
       /\ \A t \in Tasks : pc[t] = "closeStale" => pool[key[t]] \in {None, held[t]}
       /\ EveryTransportPooled

(* The pool never offers a connection whose close has completed: whoever   *)
(* closes one has removed it first or holds its key lock (get_connection,  *)
(* _invalidate_connection, disconnect; disconnect_all is excepted).        *)
PooledNotClosed == \A k \in Pooled : link[pool[k]] # "down"

(* A closed circuit has counted fewer failures than the threshold and an   *)
(* open one has reached it, whatever the order in which concurrent         *)
(* commands of a host report and resets arrive (record_failure,            *)
(* record_success, reset_circuit).                                         *)
CircuitCounts ==
    \A h \in Hosts : /\ circuit[h].state = "closed" <=> circuit[h].failures < FailureThreshold
                     /\ circuit[h].state # "half_open"

(* Every call ends: no lock order, lost release or retry loop keeps a task *)
(* inside execute, disconnect or disconnect_all for ever.                  *)
CallsEnd == \A t \in Tasks : pc[t] # "idle" ~> pc[t] = "idle"
=============================================================================
