--------------------------- MODULE SSHPoolProofs ---------------------------
(***************************************************************************)
(* Theorems about SSHPool for every number of tasks, keys, hosts and       *)
(* connection objects and every value of the limits.                       *)
(***************************************************************************)
EXTENDS SSHPool, FiniteSetTheorems, TLAPS

(* The operations of a breaker yield breakers.                             *)
LEMMA BreakerOperations ==
    ASSUME NEW b \in Breaker
    PROVE  /\ RecordFailure(b) \in Breaker
           /\ RecordSuccess(b) \in Breaker
           /\ CoolDown(b) \in Breaker
           /\ NewBreaker \in Breaker
<1>1. Bump(b.failures) \in 0..FailureThreshold
  BY ThresholdAssumption DEF Breaker, Bump
<1>2. RecordFailure(b) \in Breaker
  BY <1>1 DEF RecordFailure, Breaker, CircuitState
<1>3. NewBreaker \in Breaker
  BY ThresholdAssumption DEF NewBreaker, Breaker, CircuitState
<1>4. RecordSuccess(b) \in Breaker
  <2>1. CASE b.state = "closed" /\ b.failures > 0
    BY <2>1, ThresholdAssumption DEF RecordSuccess, Breaker, CircuitState
  <2> QED BY <2>1, <1>3 DEF RecordSuccess
<1>5. CoolDown(b) \in Breaker
  BY DEF CoolDown, Breaker
<1> QED BY <1>2, <1>3, <1>4, <1>5

(* The sets counted by CapacityDrift are finite.                           *)
LEMMA Finiteness ==
    /\ IsFiniteSet(Pooled) /\ IsFiniteSet(Creators)
    /\ Cardinality(Pooled) \in Nat /\ Cardinality(Creators) \in Nat
    /\ Cardinality(Tasks) \in Nat \ {0}
<1>1. IsFiniteSet(Pooled) /\ IsFiniteSet(Creators)
  BY FS_Subset, PoolAssumption DEF Pooled, Creators
<1>2. Cardinality(Tasks) # 0
  BY FS_EmptySet, PoolAssumption
<1> QED
  BY <1>1, <1>2, FS_CardinalityType, PoolAssumption

(* A call that ends leaves its task's variables with their types.          *)
LEMMA FinishType ==
    ASSUME TypeOK, NEW t \in Tasks, Finish(t)
    PROVE  /\ pc' \in [Tasks -> PC]
           /\ key' \in [Tasks -> Keys \cup {None}]
           /\ lockGen' \in [Tasks -> Nat]
           /\ held' \in [Tasks -> Conns \cup {None}]
           /\ left' \in [Tasks -> 0..MaxRetries - 1]
           /\ orphan' \in [Tasks -> BOOLEAN]
           /\ TaskShape'
<1> USE DEF TypeOK, VarTypes, Finish, Goto
<1>1. "idle" \in PC /\ "idle" \notin ExecutePC /\ "idle" \notin RetryPC
  BY DEF PC, ExecutePC, RetryPC, KeyLockPC
<1>2. TaskShape'
  BY <1>1 DEF TaskShape
<1> QED BY <1>1, <1>2, PoolAssumption

(* So does a recorded result.                                              *)
LEMMA RecordType ==
    ASSUME TypeOK, NEW t \in Tasks, NEW b, key[t] \in Keys,
           BreakerOf(t) \in Breaker => b \in Breaker, Record(t, b)
    PROVE  circuit' \in [Hosts -> Breaker]
  BY PoolAssumption DEF TypeOK, VarTypes, Record, BreakerOf

(* And a failed attempt, whether it is retried or ends the call.           *)
LEMMA AttemptFailsType ==
    ASSUME TypeOK, NEW t \in Tasks, NEW transient \in BOOLEAN, key[t] \in Keys,
           AttemptFails(t, transient)
    PROVE  /\ pc' \in [Tasks -> PC]
           /\ key' \in [Tasks -> Keys \cup {None}]
           /\ lockGen' \in [Tasks -> Nat]
           /\ held' \in [Tasks -> Conns \cup {None}]
           /\ left' \in [Tasks -> 0..MaxRetries - 1]
           /\ orphan' \in [Tasks -> BOOLEAN]
           /\ circuit' \in [Hosts -> Breaker]
           /\ TaskShape'
<1>1. CASE transient /\ left[t] > 0
  <2> USE <1>1 DEF TypeOK, VarTypes, AttemptFails, Goto
  <2>1. "invalidate" \in PC
    BY DEF PC, ExecutePC
  <2>2. TaskShape'
    BY DEF TaskShape
  <2> QED BY <2>1, <2>2
<1>2. CASE ~(transient /\ left[t] > 0)
  <2>1. Record(t, RecordFailure(BreakerOf(t))) /\ Finish(t)
    BY <1>2 DEF AttemptFails
  <2>2. BreakerOf(t) \in Breaker => RecordFailure(BreakerOf(t)) \in Breaker
    BY BreakerOperations
  <2>3. circuit' \in [Hosts -> Breaker]
    BY <2>1, <2>2, RecordType
  <2> QED BY <2>1, <2>3, FinishType
<1> QED BY <1>1, <1>2

(* Where the steps of execute go is a place inside execute.                *)
LEMMA Places ==
    /\ \A x \in {"getLock", "waitKey", "getSem", "waitSem", "running", "backoff",
                 "invalidate", "invalidating", "closeStale", "wantSlot", "evicting",
                 "connecting"} : x \in PC /\ x \in ExecutePC
    /\ \A x \in {"disconnecting", "sweeping"} :
          x \in PC /\ x \notin ExecutePC /\ x \notin RetryPC
    /\ \A x \in {"getLock", "waitKey", "getSem", "waitSem", "running", "closeStale",
                 "wantSlot", "evicting", "connecting"} : x \notin RetryPC
  BY DEF PC, ExecutePC, RetryPC, KeyLockPC

(* A step that moves one task and keeps its key and attempts left keeps    *)
(* the shape of the tasks, if it stays inside execute.                     *)
LEMMA MoveShape ==
    ASSUME TypeOK, NEW t \in Tasks, NEW x, Goto(t, x), UNCHANGED <<key, left>>,
           pc[t] \in ExecutePC \/ x \notin ExecutePC,
           pc[t] \in RetryPC \/ x \notin RetryPC
    PROVE  TaskShape'
  BY DEF TypeOK, VarTypes, TaskShape, Goto

-----------------------------------------------------------------------------
(* The variables keep their types, every task inside execute has a key,    *)
(* and one preparing a retry has attempts left.                            *)
LEMMA InitType == Init => TypeOK
  BY PoolAssumption, BreakerOperations, ThresholdAssumption
     DEF Init, TypeOK, VarTypes, TaskShape, PC, ExecutePC, RetryPC, KeyLockPC,
         NewBreaker, Breaker, CircuitState

LEMMA NextType == TypeOK /\ [Next]_vars => TypeOK'
<1> SUFFICES ASSUME TypeOK, [Next]_vars PROVE TypeOK'
  OBVIOUS
<1>a. VarTypes /\ TaskShape
  BY DEF TypeOK
<1>1. ASSUME NEW t \in Tasks, NEW k \in Keys, NEW retry \in BOOLEAN,
         Execute(t, k, retry) PROVE TypeOK'
  <2>1. VarTypes'
    BY <1>1, <1>a, Places, PoolAssumption
       DEF Execute, VarTypes, Goto, poolVars, connVars, sweepVars
  <2>2. TaskShape'
    BY <1>1, <1>a, Places
       DEF Execute, VarTypes, TaskShape, Goto
  <2> QED BY <2>1, <2>2 DEF TypeOK
<1>2. ASSUME NEW t \in Tasks, NEW h \in Hosts, Disconnect(t, h) PROVE TypeOK'
  <2>1. VarTypes'
    BY <1>2, <1>a, Places
       DEF Disconnect, Pooled, VarTypes, Goto, poolVars, connVars, sweepVars
  <2>2. TaskShape'
    BY <1>2, Places, MoveShape
       DEF Disconnect
  <2> QED BY <2>1, <2>2 DEF TypeOK
<1>3. ASSUME NEW t \in Tasks, DisconnectAll(t) PROVE TypeOK'
  <2>1. VarTypes'
    BY <1>3, <1>a, Places, Finiteness
       DEF DisconnectAll, VarTypes, Goto, poolVars, connVars, sweepVars
  <2>2. TaskShape'
    BY <1>3, Places, MoveShape
       DEF DisconnectAll
  <2> QED BY <2>1, <2>2 DEF TypeOK
<1>4. ASSUME NEW t \in Tasks, GetLock(t) PROVE TypeOK'
  <2>1. VarTypes'
    BY <1>4, <1>a, Places
       DEF GetLock, VarTypes, Goto, poolVars, connVars, sweepVars
  <2>2. TaskShape'
    BY <1>4, Places, MoveShape
       DEF GetLock
  <2> QED BY <2>1, <2>2 DEF TypeOK
<1>5. ASSUME NEW t \in Tasks, Reuse(t) PROVE TypeOK'
  <2>0. key[t] \in Keys
    BY <1>5, <1>a, Places DEF Reuse, TaskShape
  <2>1. VarTypes'
    BY <1>5, <1>a, <2>0, Places
       DEF Reuse, Touched, VarTypes, Goto, poolVars, connVars, sweepVars
  <2>2. TaskShape'
    BY <1>5, Places, MoveShape
       DEF Reuse
  <2> QED BY <2>1, <2>2 DEF TypeOK
<1>6. ASSUME NEW t \in Tasks, FindStale(t) PROVE TypeOK'
  <2>0. key[t] \in Keys
    BY <1>6, <1>a, Places DEF FindStale, TaskShape
  <2>1. VarTypes'
    BY <1>6, <1>a, <2>0, Places
       DEF FindStale, CloseBegins, VarTypes, Goto, poolVars, connVars,
           sweepVars
  <2>2. TaskShape'
    BY <1>6, Places, MoveShape
       DEF FindStale
  <2> QED BY <2>1, <2>2 DEF TypeOK
<1>7. ASSUME NEW t \in Tasks, FindNone(t) PROVE TypeOK'
  <2>1. VarTypes'
    BY <1>7, <1>a, Places
       DEF FindNone, VarTypes, Goto, poolVars, connVars, sweepVars
  <2>2. TaskShape'
    BY <1>7, Places, MoveShape
       DEF FindNone
  <2> QED BY <2>1, <2>2 DEF TypeOK
<1>8. ASSUME NEW t \in Tasks, StaleClosed(t) PROVE TypeOK'
  <2>1. key[t] \in Keys
    BY <1>8, <1>a, Places DEF StaleClosed, TaskShape
  <2>2. link' \in [Conns -> {"up", "closing", "down"}] /\ fresh' \in [Conns -> BOOLEAN]
    BY <1>8, <1>a DEF VarTypes, StaleClosed, CloseEnds
  <2>3. CASE pool[key[t]] # None
    <3>1. VarTypes'
      BY <1>8, <1>a, <2>2, <2>3, Places DEF VarTypes, StaleClosed, Popped, Goto
    <3>2. TaskShape'
      BY <1>8, <2>3, Places, MoveShape DEF StaleClosed
    <3> QED BY <3>1, <3>2 DEF TypeOK
  <2>4. CASE pool[key[t]] = None
    <3>1. AttemptFails(t, FALSE) /\ UNCHANGED <<pool, newer, todo, gen, size0>>
      BY <1>8, <2>4 DEF StaleClosed, poolVars
    <3> QED BY <1>a, <2>1, <2>2, <3>1, AttemptFailsType DEF TypeOK, VarTypes
  <2> QED BY <2>3, <2>4
<1>9. ASSUME NEW t \in Tasks, TakeSlot(t) PROVE TypeOK'
  <2>1. VarTypes'
    BY <1>9, <1>a, Places
       DEF TakeSlot, VarTypes, Goto, poolVars, connVars, sweepVars
  <2>2. TaskShape'
    BY <1>9, Places, MoveShape
       DEF TakeSlot
  <2> QED BY <2>1, <2>2 DEF TypeOK
<1>10. ASSUME NEW t \in Tasks, Evict(t) PROVE TypeOK'
  <2>1. VarTypes'
    BY <1>10, <1>a, Places
       DEF Evict, Pooled, Popped, CloseBegins, VarTypes, Goto, poolVars,
           connVars, sweepVars
  <2>2. TaskShape'
    BY <1>10, Places, MoveShape
       DEF Evict
  <2> QED BY <2>1, <2>2 DEF TypeOK
<1>11. ASSUME NEW t \in Tasks, Evicted(t) PROVE TypeOK'
  <2>1. VarTypes'
    BY <1>11, <1>a, Places
       DEF Evicted, CloseEnds, VarTypes, Goto, poolVars, connVars, sweepVars
  <2>2. TaskShape'
    BY <1>11, Places, MoveShape
       DEF Evicted
  <2> QED BY <2>1, <2>2 DEF TypeOK
<1>12. ASSUME NEW t \in Tasks, Connected(t) PROVE TypeOK'
  <2>0. key[t] \in Keys
    BY <1>12, <1>a, Places DEF Connected, TaskShape
  <2>1. VarTypes'
    BY <1>12, <1>a, <2>0, Places
       DEF Connected, Touched, VarTypes, Goto, poolVars, connVars, sweepVars
  <2>2. TaskShape'
    BY <1>12, Places, MoveShape
       DEF Connected
  <2> QED BY <2>1, <2>2 DEF TypeOK
<1>13. ASSUME NEW t \in Tasks, ConnectFails(t) PROVE TypeOK'
  <2>1. key[t] \in Keys
    BY <1>13, <1>a, Places DEF ConnectFails, TaskShape
  <2> QED
    BY <1>13, <1>a, <2>1, AttemptFailsType
       DEF ConnectFails, TypeOK, VarTypes, poolVars, connVars, sweepVars
<1>14. ASSUME NEW t \in Tasks, GetSem(t) PROVE TypeOK'
  <2>1. VarTypes'
    BY <1>14, <1>a, Places
       DEF GetSem, VarTypes, Goto, poolVars, connVars, sweepVars
  <2>2. TaskShape'
    BY <1>14, Places, MoveShape
       DEF GetSem
  <2> QED BY <2>1, <2>2 DEF TypeOK
<1>15. ASSUME NEW t \in Tasks, AcquireSem(t) PROVE TypeOK'
  <2>1. key[t] \in Keys
    BY <1>15, <1>a, Places DEF AcquireSem, TaskShape
  <2>2. CASE AttemptFails(t, FALSE)
    BY <1>15, <1>a, <2>1, <2>2, AttemptFailsType
       DEF AcquireSem, TypeOK, VarTypes, poolVars, connVars, sweepVars
  <2>3. CASE Goto(t, "running") /\ UNCHANGED <<key, lockGen, held, left, orphan, circuit>>
    <3>1. VarTypes'
      BY <1>15, <1>a, <2>3, Places
         DEF AcquireSem, VarTypes, Goto, poolVars, connVars, sweepVars
    <3>2. TaskShape'
      BY <1>15, <2>3, Places, MoveShape DEF AcquireSem
    <3> QED BY <3>1, <3>2 DEF TypeOK
  <2> QED BY <1>15, <2>2, <2>3 DEF AcquireSem
<1>16. ASSUME NEW t \in Tasks, RunSucceeds(t) PROVE TypeOK'
  <2>1. key[t] \in Keys
    BY <1>16, <1>a, Places DEF RunSucceeds, TaskShape
  <2>2. BreakerOf(t) \in Breaker => RecordSuccess(BreakerOf(t)) \in Breaker
    BY BreakerOperations
  <2>3. circuit' \in [Hosts -> Breaker]
    BY <1>16, <2>1, <2>2, RecordType DEF RunSucceeds
  <2> QED
    BY <1>16, <1>a, <2>3, FinishType
       DEF RunSucceeds, TypeOK, VarTypes, poolVars, connVars, sweepVars
<1>17. ASSUME NEW t \in Tasks, RunFails(t) PROVE TypeOK'
  <2>1. key[t] \in Keys
    BY <1>17, <1>a, Places DEF RunFails, TaskShape
  <2> QED
    BY <1>17, <1>a, <2>1, AttemptFailsType
       DEF RunFails, TypeOK, VarTypes, poolVars, connVars, sweepVars
<1>18. ASSUME NEW t \in Tasks, Invalidate(t) PROVE TypeOK'
  <2>1. pc[t] \in RetryPC /\ key[t] \in Keys
    BY <1>18, <1>a, Places DEF Invalidate, TaskShape, RetryPC
  <2>2. CASE pool[key[t]] # None
    <3> DEFINE c == pool[key[t]]
    <3>a. c \in Conns
      BY <1>a, <2>1, <2>2 DEF VarTypes
    <3>b. /\ Popped(key[t]) /\ CloseBegins(c)
          /\ fresh' = [fresh EXCEPT ![c] = FALSE]
          /\ held' = [held EXCEPT ![t] = c]
          /\ Goto(t, "invalidating")
          /\ UNCHANGED <<sweepVars, gen, circuit, key, lockGen, left, orphan>>
      BY <1>18, <2>2 DEF Invalidate
    <3> HIDE DEF c
    <3>1. VarTypes'
      BY <1>a, <2>1, <3>a, <3>b, Places
         DEF VarTypes, Popped, CloseBegins, Goto, sweepVars
    <3>2. TaskShape'
      BY <1>18, <2>1, <2>2, Places, MoveShape DEF Invalidate
    <3> QED BY <3>1, <3>2 DEF TypeOK
  <2>3. CASE pool[key[t]] = None
    <3>1. VarTypes'
      BY <1>18, <1>a, <2>3, Places
         DEF Invalidate, VarTypes, Goto, poolVars, connVars, sweepVars
    <3>2. TaskShape'
      BY <1>18, <2>1, <2>3, Places, MoveShape DEF Invalidate
    <3> QED BY <3>1, <3>2 DEF TypeOK
  <2> QED BY <2>2, <2>3
<1>19. ASSUME NEW t \in Tasks, Invalidated(t) PROVE TypeOK'
  <2>1. VarTypes'
    BY <1>19, <1>a, Places
       DEF Invalidated, VarTypes, CloseEnds, Goto, poolVars, sweepVars
  <2>2. pc[t] \in RetryPC
    BY <1>19 DEF Invalidated, RetryPC
  <2>3. TaskShape'
    BY <1>19, <2>2, Places, MoveShape DEF Invalidated
  <2> QED BY <2>1, <2>3 DEF TypeOK
<1>20. ASSUME NEW t \in Tasks, NextAttempt(t) PROVE TypeOK'
  <2>1. left[t] > 0 /\ key[t] \in Keys
    BY <1>20, <1>a, Places DEF NextAttempt, TaskShape, RetryPC
  <2>2. VarTypes'
    BY <1>20, <1>a, <2>1, Places, PoolAssumption
       DEF NextAttempt, VarTypes, Goto, poolVars, connVars, sweepVars
  <2>3. TaskShape'
    BY <1>20, <1>a, <2>1, Places DEF NextAttempt, VarTypes, TaskShape, Goto
  <2> QED BY <2>2, <2>3 DEF TypeOK
<1>21. ASSUME NEW t \in Tasks, Cancel(t) PROVE TypeOK'
  BY <1>21, <1>a, FinishType
     DEF Cancel, TypeOK, VarTypes, poolVars, connVars, sweepVars
<1>22. ASSUME NEW t \in Tasks, DisconnectNext(t) PROVE TypeOK'
  <2> PICK k \in todo :
        IF pool[k] # None
        THEN /\ Popped(k)
             /\ CloseBegins(pool[k])
             /\ held' = [held EXCEPT ![t] = pool[k]]
             /\ todo' = todo \ {k}
             /\ UNCHANGED <<pc, key, lockGen, left, orphan>>
        ELSE /\ Finish(t)
             /\ todo' = {}
             /\ UNCHANGED <<poolVars, link>>
    BY <1>22 DEF DisconnectNext
  <2>1. UNCHANGED <<fresh, gen, circuit, size0>>
    BY <1>22 DEF DisconnectNext
  <2>2. CASE pool[k] # None
    BY <1>a, <2>1, <2>2 DEF TypeOK, VarTypes, TaskShape, Popped, CloseBegins
  <2>3. CASE pool[k] = None
    BY <1>a, <2>1, <2>3, FinishType DEF TypeOK, VarTypes, poolVars
  <2> QED BY <2>2, <2>3
<1>23. ASSUME NEW t \in Tasks, DisconnectDone(t) PROVE TypeOK'
  BY <1>23, <1>a, FinishType
     DEF DisconnectDone, TypeOK, VarTypes, poolVars, connVars, sweepVars
<1>24. ASSUME NEW t \in Tasks, CloseReturns(t) PROVE TypeOK'
  BY <1>24, <1>a
     DEF CloseReturns, CloseEnds, TypeOK, VarTypes, TaskShape, poolVars, sweepVars
<1>25. ASSUME NEW t \in Tasks, SweepNext(t) PROVE TypeOK'
  BY <1>25, <1>a
     DEF SweepNext, Pooled, CloseBegins, TypeOK, VarTypes, TaskShape, poolVars
<1>26. ASSUME NEW t \in Tasks, SweepBreaks(t) PROVE TypeOK'
  BY <1>26, <1>a, FinishType
     DEF SweepBreaks, TypeOK, VarTypes, poolVars, connVars, sweepVars
<1>27. ASSUME NEW t \in Tasks, SweepDone(t) PROVE TypeOK'
  BY <1>27, <1>a, FinishType
     DEF SweepDone, TypeOK, VarTypes, poolVars, connVars, sweepVars
<1>28. ASSUME NEW h \in Hosts, ResetCircuit(h) PROVE TypeOK'
  BY <1>28, <1>a, BreakerOperations
     DEF ResetCircuit, TypeOK, VarTypes, TaskShape, poolVars, connVars, sweepVars
<1>29. ASSUME NEW h \in Hosts, RetryTimePasses(h) PROVE TypeOK'
  BY <1>29, <1>a, BreakerOperations
     DEF RetryTimePasses, TypeOK, VarTypes, TaskShape, poolVars, connVars, taskVars,
         sweepVars
<1>30. ASSUME NEW k \in Keys, Expire(k) PROVE TypeOK'
  BY <1>30, <1>a
     DEF Expire, TypeOK, VarTypes, TaskShape, poolVars, taskVars, sweepVars
<1>31. CASE UNCHANGED vars
  BY <1>31, <1>a DEF TypeOK, VarTypes, TaskShape, vars
<1> QED
  BY <1>1, <1>2, <1>3, <1>4, <1>5, <1>6, <1>7, <1>8, <1>9, <1>10, <1>11,
     <1>12, <1>13, <1>14, <1>15, <1>16, <1>17, <1>18, <1>19, <1>20, <1>21,
     <1>22, <1>23, <1>24, <1>25, <1>26, <1>27, <1>28, <1>29, <1>30, <1>31
     DEF Next, Calls, GetConnection, RunAndRetry, Disconnecting, Environment

THEOREM TypeCorrect == Spec => []TypeOK
<1> QED BY InitType, NextType, PTL DEF Spec

-----------------------------------------------------------------------------
(* The key locks.  A step that leaves the other tasks alone keeps   *)
(* KeyLockInv if its own task respects it.                                 *)
Frame(t) ==
    /\ \A u \in Tasks \ {t} : /\ pc'[u] = pc[u] /\ key'[u] = key[u]
                             /\ held'[u] = held[u] /\ lockGen'[u] = lockGen[u]
    /\ lockGen[t] = 0 => lockGen'[t] = 0
    /\ gen' = gen

Respects(t) ==
    pc'[t] \in KeyLockPC =>
       /\ \A u \in Tasks \ {t} : pc[u] \in KeyLockPC => key'[t] # key[u]
       /\ pc'[t] # "closeStale" => pool'[key'[t]] = None
       /\ pc'[t] = "closeStale" => pool'[key'[t]] \in {None, held'[t]}

OnlyPops(t) == \A u \in Tasks \ {t} :
    pc[u] \in KeyLockPC => pool'[key[u]] \in {pool[key[u]], None}

LEMMA KeyLockStep ==
    ASSUME KeyLockInv, gen = 0, NEW t \in Tasks,
           Frame(t), Respects(t), OnlyPops(t), EveryTransportPooled'
    PROVE  KeyLockInv'
<1> USE DEF Frame, KeyLockInv
<1>1. \A u \in Tasks : lockGen'[u] = 0
  OBVIOUS
<1>2. \A u, v \in Tasks : u # v /\ {pc'[u], pc'[v]} \subseteq KeyLockPC => key'[u] # key'[v]
  BY DEF Respects
<1>3. \A u \in Tasks : pc'[u] \in KeyLockPC \ {"closeStale"} => pool'[key'[u]] = None
  BY DEF Respects, OnlyPops
<1>4. \A u \in Tasks : pc'[u] = "closeStale" => pool'[key'[u]] \in {None, held'[u]}
  BY DEF Respects, OnlyPops, KeyLockPC
<1> QED BY <1>1, <1>2, <1>3, <1>4

(* Transports that stay up stay pooled.                                    *)
LEMMA KeepPooled ==
    ASSUME EveryTransportPooled, UNCHANGED pool,
           \A c \in Conns : link'[c] = "up" => link[c] = "up"
    PROVE  EveryTransportPooled'
  BY DEF EveryTransportPooled, IsPooled

LEMMA PopClosed ==
    ASSUME VarTypes, EveryTransportPooled, NEW k \in Keys, Popped(k),
           \A c \in Conns : link'[c] = "up" => link[c] = "up" /\ c # pool[k]
    PROVE  EveryTransportPooled'
<1> SUFFICES ASSUME NEW c \in Conns, link'[c] = "up" PROVE IsPooled(c)'
  BY DEF EveryTransportPooled
<1>1. PICK j \in Keys : pool[j] = c
  BY DEF EveryTransportPooled, IsPooled
<1>2. j # k
  BY <1>1
<1> QED BY <1>1, <1>2 DEF Popped, IsPooled, VarTypes

(* A call that ends, and a failed attempt, leave the key lock.             *)
LEMMA Leaves ==
    ASSUME TypeOK, NEW t \in Tasks, gen' = gen,
           Finish(t) \/ \E transient \in BOOLEAN : AttemptFails(t, transient)
    PROVE  Frame(t) /\ Respects(t)
<1>1. \A x \in {"idle", "invalidate"} : x \notin KeyLockPC
  BY DEF KeyLockPC
<1> QED
  BY <1>1 DEF Finish, AttemptFails, Goto, Frame, Respects, TypeOK, VarTypes

LEMMA KeyLockInit == Init => KeyLockInv
<1> SUFFICES ASSUME Init PROVE KeyLockInv
  OBVIOUS
<1>1. EveryTransportPooled
  BY DEF Init, EveryTransportPooled
<1> QED BY <1>1 DEF Init, KeyLockInv, KeyLockPC

LEMMA KeyLockNext == TypeOK /\ KeyLockInv /\ [Next]_vars => KeyLockInv'
<1> SUFFICES ASSUME TypeOK, KeyLockInv, [Next]_vars, gen' = 0 PROVE KeyLockInv'
  BY DEF KeyLockInv
<1>a. VarTypes /\ TaskShape
  BY DEF TypeOK
<1> DEFINE Places4 == {"closeStale", "wantSlot", "evicting", "connecting"}
<1>b. \A x : x \in KeyLockPC <=> x \in Places4
  BY DEF KeyLockPC
<1> HIDE DEF Places4
<1>1. ASSUME NEW t \in Tasks, NEW k \in Keys, NEW retry \in BOOLEAN,
         Execute(t, k, retry) PROVE KeyLockInv'
  <2>1. gen = 0 /\ EveryTransportPooled
    BY <1>1 DEF Execute, KeyLockInv
  <2>2. Frame(t) /\ Respects(t)
    BY <1>1, <1>a, <2>1
       DEF Execute, Goto, Frame, Respects, KeyLockPC, VarTypes
  <2>3. OnlyPops(t) /\ EveryTransportPooled'
    BY <1>1, <1>a, <2>1, KeepPooled
       DEF Execute, OnlyPops, VarTypes, poolVars, connVars
  <2> QED BY <2>1, <2>2, <2>3, KeyLockStep
<1>2. ASSUME NEW t \in Tasks, NEW h \in Hosts, Disconnect(t, h) PROVE KeyLockInv'
  <2>1. gen = 0 /\ EveryTransportPooled
    BY <1>2 DEF Disconnect, KeyLockInv
  <2>2. Frame(t) /\ Respects(t)
    BY <1>2, <1>a, <2>1
       DEF Disconnect, Goto, Frame, Respects, KeyLockPC, VarTypes
  <2>3. OnlyPops(t) /\ EveryTransportPooled'
    BY <1>2, <1>a, <2>1, KeepPooled
       DEF Disconnect, OnlyPops, VarTypes, poolVars, connVars
  <2> QED BY <2>1, <2>2, <2>3, KeyLockStep
<1>3. ASSUME NEW t \in Tasks, DisconnectAll(t) PROVE KeyLockInv'
  <2>1. gen = 0 /\ EveryTransportPooled
    BY <1>3 DEF DisconnectAll, KeyLockInv
  <2>2. Frame(t) /\ Respects(t)
    BY <1>3, <1>a, <2>1
       DEF DisconnectAll, Goto, Frame, Respects, KeyLockPC, VarTypes
  <2>3. OnlyPops(t) /\ EveryTransportPooled'
    BY <1>3, <1>a, <2>1, KeepPooled
       DEF DisconnectAll, OnlyPops, VarTypes, poolVars, connVars
  <2> QED BY <2>1, <2>2, <2>3, KeyLockStep
<1>4. ASSUME NEW t \in Tasks, GetLock(t) PROVE KeyLockInv'
  <2>1. gen = 0 /\ EveryTransportPooled
    BY <1>4 DEF GetLock, KeyLockInv
  <2>2. Frame(t) /\ Respects(t)
    BY <1>4, <1>a, <2>1
       DEF GetLock, Goto, Frame, Respects, KeyLockPC, VarTypes
  <2>3. OnlyPops(t) /\ EveryTransportPooled'
    BY <1>4, <1>a, <2>1, KeepPooled
       DEF GetLock, OnlyPops, VarTypes, poolVars, connVars
  <2> QED BY <2>1, <2>2, <2>3, KeyLockStep
<1>5. ASSUME NEW t \in Tasks, Reuse(t) PROVE KeyLockInv'
  <2>1. gen = 0 /\ EveryTransportPooled
    BY <1>5 DEF Reuse, KeyLockInv
  <2>2. Frame(t) /\ Respects(t)
    BY <1>5, <1>a, <2>1
       DEF Reuse, Goto, Frame, Respects, KeyLockPC, VarTypes
  <2>3. OnlyPops(t) /\ EveryTransportPooled'
    BY <1>5, <1>a, <2>1, KeepPooled
       DEF Reuse, OnlyPops, VarTypes, poolVars, connVars
  <2> QED BY <2>1, <2>2, <2>3, KeyLockStep
<1>6. ASSUME NEW t \in Tasks, FindStale(t) PROVE KeyLockInv'
  <2>1. gen = 0 /\ EveryTransportPooled
    BY <1>6 DEF FindStale, KeyLockInv
  <2>2. \A u \in Tasks \ {t} : pc[u] \in KeyLockPC => key[t] # key[u]
    BY <1>6, <2>1 DEF FindStale, KeyLockInv, KeyLockFree
  <2>3. Frame(t) /\ Respects(t)
    BY <1>6, <1>a, <2>2
       DEF FindStale, Goto, Frame, Respects, VarTypes, poolVars
  <2>4. OnlyPops(t) /\ EveryTransportPooled'
    BY <1>6, <1>a, <2>1, KeepPooled
       DEF FindStale, OnlyPops, VarTypes, CloseBegins, poolVars, connVars
  <2> QED BY <2>1, <2>3, <2>4, KeyLockStep
<1>7. ASSUME NEW t \in Tasks, FindNone(t) PROVE KeyLockInv'
  <2>1. gen = 0 /\ EveryTransportPooled
    BY <1>7 DEF FindNone, KeyLockInv
  <2>2. \A u \in Tasks \ {t} : pc[u] \in KeyLockPC => key[t] # key[u]
    BY <1>7, <2>1 DEF FindNone, KeyLockInv, KeyLockFree
  <2>3. Frame(t) /\ Respects(t)
    BY <1>7, <1>a, <2>2
       DEF FindNone, Goto, Frame, Respects, VarTypes, poolVars
  <2>4. OnlyPops(t) /\ EveryTransportPooled'
    BY <1>7, <1>a, <2>1, KeepPooled
       DEF FindNone, OnlyPops, VarTypes, CloseBegins, poolVars, connVars
  <2> QED BY <2>1, <2>3, <2>4, KeyLockStep
<1>8. ASSUME NEW t \in Tasks, StaleClosed(t) PROVE KeyLockInv'
  <2>1. gen = 0 /\ EveryTransportPooled /\ pool[key[t]] \in {None, held[t]}
    BY <1>8 DEF StaleClosed, KeyLockInv
  <2>2. key[t] \in Keys
    BY <1>8, <1>a, Places DEF StaleClosed, TaskShape
  <2>3. \A c \in Conns : link'[c] = "up" => link[c] = "up" /\ c # held[t]
    BY <1>8, <1>a DEF StaleClosed, CloseEnds, VarTypes
  <2>4. CASE pool[key[t]] # None
    <3>1. /\ Popped(key[t]) /\ Goto(t, "wantSlot")
          /\ held' = [held EXCEPT ![t] = None]
          /\ UNCHANGED <<key, lockGen, gen>>
      BY <1>8, <2>4 DEF StaleClosed
    <3>2. EveryTransportPooled'
      BY <1>a, <2>1, <2>2, <2>3, <2>4, <3>1, PopClosed
    <3>3. \A u \in Tasks \ {t} : pc[u] \in KeyLockPC => key[t] # key[u]
      BY <1>8, <1>b, <2>1 DEF StaleClosed, KeyLockInv, KeyLockPC
    <3>4. Frame(t) /\ Respects(t) /\ OnlyPops(t)
      BY <1>a, <2>2, <3>1, <3>3
         DEF Goto, Popped, Frame, Respects, OnlyPops, VarTypes
    <3> QED BY <2>1, <3>2, <3>4, KeyLockStep
  <2>5. CASE pool[key[t]] = None
    <3>1. AttemptFails(t, FALSE) /\ UNCHANGED <<pool, gen>>
      BY <1>8, <2>5 DEF StaleClosed, poolVars
    <3>2. Frame(t) /\ Respects(t)
      BY <3>1, Leaves
    <3>3. OnlyPops(t) /\ EveryTransportPooled'
      BY <2>1, <2>3, <3>1, KeepPooled DEF OnlyPops
    <3> QED BY <2>1, <3>2, <3>3, KeyLockStep
  <2> QED BY <2>4, <2>5
<1>9. ASSUME NEW t \in Tasks, TakeSlot(t) PROVE KeyLockInv'
  <2>1. gen = 0 /\ EveryTransportPooled /\ pool[key[t]] = None
    BY <1>9, <1>b DEF TakeSlot, KeyLockInv, Places4
  <2>2. \A u \in Tasks \ {t} : pc[u] \in KeyLockPC => key[t] # key[u]
    BY <1>9, <1>b, <2>1 DEF TakeSlot, KeyLockInv, Places4
  <2>3. Frame(t) /\ Respects(t)
    BY <1>9, <1>a, <2>1, <2>2
       DEF TakeSlot, Goto, Frame, Respects, VarTypes, poolVars
  <2>4. OnlyPops(t) /\ EveryTransportPooled'
    BY <1>9, <1>a, <2>1, KeepPooled
       DEF TakeSlot, OnlyPops, VarTypes, CloseEnds, poolVars, connVars
  <2> QED BY <2>1, <2>3, <2>4, KeyLockStep
<1>10. ASSUME NEW t \in Tasks, Evict(t) PROVE KeyLockInv'
  <2>1. gen = 0 /\ EveryTransportPooled /\ pool[key[t]] = None
    BY <1>10, <1>b DEF Evict, KeyLockInv, Places4
  <2>2. \A u \in Tasks \ {t} : pc[u] \in KeyLockPC => key[t] # key[u]
    BY <1>10, <1>b, <2>1 DEF Evict, KeyLockInv, Places4
  <2>3. PICK k \in Pooled : /\ Popped(k)
                            /\ CloseBegins(pool[k])
                            /\ held' = [held EXCEPT ![t] = pool[k]]
    BY <1>10 DEF Evict
  <2>4. k \in Keys
    BY DEF Pooled
  <2>5. EveryTransportPooled'
    BY <1>a, <2>1, <2>3, <2>4, PopClosed DEF CloseBegins, VarTypes
  <2>6. key[t] \in Keys
    BY <1>10, <1>a, Places DEF Evict, TaskShape
  <2>7. \A j \in Keys : pool'[j] \in {pool[j], None}
    BY <1>a, <2>3 DEF Popped, VarTypes
  <2>8. Frame(t) /\ Respects(t)
    BY <1>10, <1>a, <2>1, <2>2, <2>3, <2>6, <2>7
       DEF Evict, Goto, Frame, Respects, VarTypes
  <2>9. OnlyPops(t)
    BY <1>a, <2>7, <1>b DEF OnlyPops, TaskShape, Places4, ExecutePC, KeyLockPC
  <2> QED BY <2>1, <2>5, <2>8, <2>9, KeyLockStep
<1>11. ASSUME NEW t \in Tasks, Evicted(t) PROVE KeyLockInv'
  <2>1. gen = 0 /\ EveryTransportPooled /\ pool[key[t]] = None
    BY <1>11, <1>b DEF Evicted, KeyLockInv, Places4
  <2>2. \A u \in Tasks \ {t} : pc[u] \in KeyLockPC => key[t] # key[u]
    BY <1>11, <1>b, <2>1 DEF Evicted, KeyLockInv, Places4
  <2>3. Frame(t) /\ Respects(t)
    BY <1>11, <1>a, <2>1, <2>2
       DEF Evicted, Goto, Frame, Respects, VarTypes, poolVars
  <2>4. OnlyPops(t) /\ EveryTransportPooled'
    BY <1>11, <1>a, <2>1, KeepPooled
       DEF Evicted, OnlyPops, VarTypes, CloseEnds, poolVars, connVars
  <2> QED BY <2>1, <2>3, <2>4, KeyLockStep
<1>12. ASSUME NEW t \in Tasks, Connected(t) PROVE KeyLockInv'
  <2>1. gen = 0 /\ EveryTransportPooled /\ pool[key[t]] = None
    BY <1>12, <1>b DEF Connected, KeyLockInv, Places4
  <2>2. \A u \in Tasks \ {t} : pc[u] \in KeyLockPC => key[t] # key[u]
    BY <1>12, <1>b, <2>1 DEF Connected, KeyLockInv, Places4
  <2>3. PICK c \in Conns : /\ link' = [link EXCEPT ![c] = "up"]
                           /\ pool' = [pool EXCEPT ![key[t]] = c]
                           /\ held' = [held EXCEPT ![t] = c]
    BY <1>12 DEF Connected
  <2>4. key[t] \in Keys
    BY <1>12, <1>a, Places DEF Connected, TaskShape
  <2>5. EveryTransportPooled'
    <3> SUFFICES ASSUME NEW d \in Conns, link'[d] = "up" PROVE IsPooled(d)'
      BY DEF EveryTransportPooled
    <3>1. CASE d = c
      BY <1>a, <2>3, <2>4, <3>1 DEF IsPooled, VarTypes
    <3>2. CASE d # c
      <4>1. PICK j \in Keys : pool[j] = d
        BY <1>a, <2>1, <2>3, <3>2 DEF EveryTransportPooled, IsPooled, VarTypes
      <4>2. j # key[t]
        BY <2>1, <4>1, PoolAssumption
      <4> QED BY <1>a, <2>3, <4>1, <4>2 DEF IsPooled, VarTypes
    <3> QED BY <3>1, <3>2
  <2>6. Frame(t) /\ Respects(t)
    BY <1>12, <1>a, <2>1, <2>3
       DEF Connected, Goto, Frame, Respects, KeyLockPC, VarTypes
  <2>7. OnlyPops(t)
    BY <1>a, <2>2, <2>3, <2>4 DEF OnlyPops, VarTypes
  <2> QED BY <2>1, <2>5, <2>6, <2>7, KeyLockStep
<1>13. ASSUME NEW t \in Tasks, ConnectFails(t) PROVE KeyLockInv'
  <2>1. gen = 0 /\ EveryTransportPooled
    BY <1>13 DEF ConnectFails, KeyLockInv
  <2>2. Frame(t) /\ Respects(t)
    BY <1>13, Leaves DEF ConnectFails
  <2>3. OnlyPops(t) /\ EveryTransportPooled'
    BY <1>13, <1>a, <2>1, KeepPooled
       DEF ConnectFails, OnlyPops, VarTypes, poolVars, connVars
  <2> QED BY <2>1, <2>2, <2>3, KeyLockStep
<1>14. ASSUME NEW t \in Tasks, GetSem(t) PROVE KeyLockInv'
  <2>1. gen = 0 /\ EveryTransportPooled
    BY <1>14 DEF GetSem, KeyLockInv
  <2>2. Frame(t) /\ Respects(t)
    BY <1>14, <1>a, <2>1
       DEF GetSem, Goto, Frame, Respects, KeyLockPC, VarTypes
  <2>3. OnlyPops(t) /\ EveryTransportPooled'
    BY <1>14, <1>a, <2>1, KeepPooled
       DEF GetSem, OnlyPops, VarTypes, poolVars, connVars
  <2> QED BY <2>1, <2>2, <2>3, KeyLockStep
<1>15. ASSUME NEW t \in Tasks, AcquireSem(t) PROVE KeyLockInv'
  <2>1. gen = 0 /\ EveryTransportPooled /\ UNCHANGED <<pool, link>>
    BY <1>15 DEF AcquireSem, KeyLockInv, poolVars, connVars
  <2>2. OnlyPops(t) /\ EveryTransportPooled'
    BY <2>1, KeepPooled DEF OnlyPops
  <2>3. CASE AttemptFails(t, FALSE)
    <3>1. Frame(t) /\ Respects(t)
      BY <1>15, <2>3, Leaves DEF AcquireSem
    <3> QED BY <2>1, <2>2, <3>1, KeyLockStep
  <2>4. CASE Goto(t, "running") /\ UNCHANGED <<key, lockGen, held, left, orphan, circuit>>
    <3>1. Frame(t) /\ Respects(t)
      BY <1>15, <1>a, <2>4
         DEF AcquireSem, Goto, Frame, Respects, KeyLockPC, VarTypes
    <3> QED BY <2>1, <2>2, <3>1, KeyLockStep
  <2> QED BY <1>15, <2>3, <2>4 DEF AcquireSem
<1>16. ASSUME NEW t \in Tasks, RunSucceeds(t) PROVE KeyLockInv'
  <2>1. gen = 0 /\ EveryTransportPooled
    BY <1>16 DEF RunSucceeds, KeyLockInv
  <2>2. Frame(t) /\ Respects(t)
    BY <1>16, Leaves DEF RunSucceeds
  <2>3. OnlyPops(t) /\ EveryTransportPooled'
    BY <1>16, <1>a, <2>1, KeepPooled
       DEF RunSucceeds, OnlyPops, VarTypes, poolVars, connVars
  <2> QED BY <2>1, <2>2, <2>3, KeyLockStep
<1>17. ASSUME NEW t \in Tasks, RunFails(t) PROVE KeyLockInv'
  <2>1. gen = 0 /\ EveryTransportPooled
    BY <1>17 DEF RunFails, KeyLockInv
  <2>2. Frame(t) /\ Respects(t)
    BY <1>17, Leaves DEF RunFails
  <2>3. OnlyPops(t) /\ EveryTransportPooled'
    BY <1>17, <1>a, <2>1, KeepPooled
       DEF RunFails, OnlyPops, VarTypes, poolVars, connVars
  <2> QED BY <2>1, <2>2, <2>3, KeyLockStep
<1>18. ASSUME NEW t \in Tasks, Invalidate(t) PROVE KeyLockInv'
  <2>1. gen = 0 /\ EveryTransportPooled
    BY <1>18 DEF Invalidate, KeyLockInv
  <2>2. key[t] \in Keys
    BY <1>18, <1>a, Places DEF Invalidate, TaskShape
  <2>3. Frame(t) /\ Respects(t)
    BY <1>18, <1>a, <2>1 DEF Invalidate, Goto, Frame, Respects, KeyLockPC, VarTypes
  <2>4. CASE pool[key[t]] # None
    <3>1. Popped(key[t]) /\ CloseBegins(pool[key[t]])
      BY <1>18, <2>4 DEF Invalidate
    <3>2. EveryTransportPooled'
      BY <1>a, <2>1, <2>2, <3>1, PopClosed DEF CloseBegins, VarTypes
    <3>3. OnlyPops(t)
      BY <1>a, <1>b, <3>1
         DEF OnlyPops, Popped, VarTypes, TaskShape, Places4, ExecutePC, KeyLockPC
    <3> QED BY <2>1, <2>3, <3>2, <3>3, KeyLockStep
  <2>5. CASE pool[key[t]] = None
    <3>1. OnlyPops(t) /\ EveryTransportPooled'
      BY <1>18, <2>1, <2>5, KeepPooled DEF Invalidate, OnlyPops, poolVars, connVars
    <3> QED BY <2>1, <2>3, <3>1, KeyLockStep
  <2> QED BY <2>4, <2>5
<1>19. ASSUME NEW t \in Tasks, Invalidated(t) PROVE KeyLockInv'
  <2>1. gen = 0 /\ EveryTransportPooled
    BY <1>19 DEF Invalidated, KeyLockInv
  <2>2. Frame(t) /\ Respects(t)
    BY <1>19, <1>a, <2>1
       DEF Invalidated, Goto, Frame, Respects, KeyLockPC, VarTypes
  <2>3. OnlyPops(t) /\ EveryTransportPooled'
    BY <1>19, <1>a, <2>1, KeepPooled
       DEF Invalidated, OnlyPops, VarTypes, CloseBegins, CloseEnds, poolVars,
           connVars
  <2> QED BY <2>1, <2>2, <2>3, KeyLockStep
<1>20. ASSUME NEW t \in Tasks, NextAttempt(t) PROVE KeyLockInv'
  <2>1. gen = 0 /\ EveryTransportPooled
    BY <1>20 DEF NextAttempt, KeyLockInv
  <2>2. Frame(t) /\ Respects(t)
    BY <1>20, <1>a, <2>1
       DEF NextAttempt, Goto, Frame, Respects, KeyLockPC, VarTypes
  <2>3. OnlyPops(t) /\ EveryTransportPooled'
    BY <1>20, <1>a, <2>1, KeepPooled
       DEF NextAttempt, OnlyPops, VarTypes, poolVars, connVars
  <2> QED BY <2>1, <2>2, <2>3, KeyLockStep
<1>21. ASSUME NEW t \in Tasks, Cancel(t) PROVE KeyLockInv'
  <2>1. gen = 0 /\ EveryTransportPooled
    BY <1>21 DEF Cancel, KeyLockInv
  <2>2. Frame(t) /\ Respects(t)
    BY <1>21, Leaves DEF Cancel
  <2>3. OnlyPops(t) /\ EveryTransportPooled'
    BY <1>21, <1>a, <2>1, KeepPooled
       DEF Cancel, OnlyPops, VarTypes, poolVars, connVars
  <2> QED BY <2>1, <2>2, <2>3, KeyLockStep
<1>22. ASSUME NEW t \in Tasks, DisconnectNext(t) PROVE KeyLockInv'
  <2>1. gen = 0 /\ gen' = gen /\ EveryTransportPooled /\ pc[t] \notin KeyLockPC
    BY <1>22 DEF DisconnectNext, KeyLockInv, KeyLockPC
  <2>2. PICK k \in todo :
        IF pool[k] # None
        THEN /\ Popped(k)
             /\ CloseBegins(pool[k])
             /\ held' = [held EXCEPT ![t] = pool[k]]
             /\ todo' = todo \ {k}
             /\ UNCHANGED <<pc, key, lockGen, left, orphan>>
        ELSE /\ Finish(t)
             /\ todo' = {}
             /\ UNCHANGED <<poolVars, link>>
    BY <1>22 DEF DisconnectNext
  <2>3. k \in Keys
    BY <1>a DEF VarTypes
  <2>4. CASE pool[k] # None
    <3>1. EveryTransportPooled'
      BY <1>a, <2>1, <2>2, <2>3, <2>4, PopClosed DEF CloseBegins, VarTypes
    <3>2. Frame(t) /\ Respects(t)
      BY <1>a, <2>1, <2>2, <2>4 DEF Frame, Respects, VarTypes
    <3>3. OnlyPops(t)
      BY <1>a, <1>b, <2>2, <2>4
         DEF OnlyPops, Popped, VarTypes, TaskShape, Places4, ExecutePC, KeyLockPC
    <3> QED BY <2>1, <3>1, <3>2, <3>3, KeyLockStep
  <2>5. CASE pool[k] = None
    <3>1. Frame(t) /\ Respects(t)
      BY <2>1, <2>2, <2>5, Leaves
    <3>2. OnlyPops(t) /\ EveryTransportPooled'
      BY <2>1, <2>2, <2>5, KeepPooled DEF OnlyPops, poolVars
    <3> QED BY <2>1, <3>1, <3>2, KeyLockStep
  <2> QED BY <2>4, <2>5
<1>23. ASSUME NEW t \in Tasks, DisconnectDone(t) PROVE KeyLockInv'
  <2>1. gen = 0 /\ EveryTransportPooled
    BY <1>23 DEF DisconnectDone, KeyLockInv
  <2>2. Frame(t) /\ Respects(t)
    BY <1>23, Leaves DEF DisconnectDone
  <2>3. OnlyPops(t) /\ EveryTransportPooled'
    BY <1>23, <1>a, <2>1, KeepPooled
       DEF DisconnectDone, OnlyPops, VarTypes, poolVars, connVars
  <2> QED BY <2>1, <2>2, <2>3, KeyLockStep
<1>24. ASSUME NEW t \in Tasks, CloseReturns(t) PROVE KeyLockInv'
  <2>1. gen = 0 /\ EveryTransportPooled
    BY <1>24 DEF CloseReturns, KeyLockInv
  <2>2. Frame(t) /\ Respects(t)
    BY <1>24, <1>a, <2>1
       DEF CloseReturns, Goto, Frame, Respects, KeyLockPC, VarTypes
  <2>3. OnlyPops(t) /\ EveryTransportPooled'
    BY <1>24, <1>a, <2>1, KeepPooled
       DEF CloseReturns, OnlyPops, VarTypes, CloseBegins, CloseEnds,
           poolVars, connVars
  <2> QED BY <2>1, <2>2, <2>3, KeyLockStep
<1>25. ASSUME NEW t \in Tasks, SweepNext(t) PROVE KeyLockInv'
  <2>1. gen = 0 /\ EveryTransportPooled
    BY <1>25 DEF SweepNext, KeyLockInv
  <2>2. Frame(t) /\ Respects(t)
    BY <1>25, <1>a, <2>1
       DEF SweepNext, Goto, Frame, Respects, KeyLockPC, VarTypes
  <2>3. OnlyPops(t) /\ EveryTransportPooled'
    BY <1>25, <1>a, <2>1, KeepPooled
       DEF SweepNext, OnlyPops, VarTypes, CloseBegins, CloseEnds, poolVars,
           connVars
  <2> QED BY <2>1, <2>2, <2>3, KeyLockStep
<1>26. ASSUME NEW t \in Tasks, SweepBreaks(t) PROVE KeyLockInv'
  <2>1. gen = 0 /\ EveryTransportPooled
    BY <1>26 DEF SweepBreaks, KeyLockInv
  <2>2. Frame(t) /\ Respects(t)
    BY <1>26, Leaves DEF SweepBreaks
  <2>3. OnlyPops(t) /\ EveryTransportPooled'
    BY <1>26, <1>a, <2>1, KeepPooled
       DEF SweepBreaks, OnlyPops, VarTypes, poolVars, connVars
  <2> QED BY <2>1, <2>2, <2>3, KeyLockStep
<1>27. ASSUME NEW t \in Tasks, SweepDone(t) PROVE KeyLockInv'
  BY <1>27, <1>a DEF SweepDone, VarTypes
<1>28. ASSUME NEW h \in Hosts, ResetCircuit(h) PROVE KeyLockInv'
  BY <1>28
     DEF ResetCircuit, KeyLockInv, EveryTransportPooled, IsPooled, poolVars, connVars, taskVars
<1>29. ASSUME NEW h \in Hosts, RetryTimePasses(h) PROVE KeyLockInv'
  BY <1>29
     DEF RetryTimePasses, KeyLockInv, EveryTransportPooled, IsPooled, poolVars, connVars, taskVars
<1>30. ASSUME NEW k \in Keys, Expire(k) PROVE KeyLockInv'
  BY <1>30
     DEF Expire, KeyLockInv, EveryTransportPooled, IsPooled, poolVars, connVars, taskVars
<1>31. CASE UNCHANGED vars
  BY <1>31 DEF KeyLockInv, EveryTransportPooled, IsPooled, vars
<1> QED
  BY <1>1, <1>2, <1>3, <1>4, <1>5, <1>6, <1>7, <1>8, <1>9, <1>10, <1>11,
     <1>12, <1>13, <1>14, <1>15, <1>16, <1>17, <1>18, <1>19, <1>20, <1>21,
     <1>22, <1>23, <1>24, <1>25, <1>26, <1>27, <1>28, <1>29, <1>30, <1>31
     DEF Next, Calls, GetConnection, RunAndRetry, Disconnecting, Environment

(* No open transport is ever outside the pool while the table of key locks *)
(* is the one the pool began with.                                         *)
THEOREM NoLeak == Spec => []NoLeakWhileLocksKept
<1>1. Spec => []KeyLockInv
  BY KeyLockInit, KeyLockNext, TypeCorrect, PTL DEF Spec
<1>2. KeyLockInv => NoLeakWhileLocksKept
  BY DEF KeyLockInv, NoLeakWhileLocksKept
<1> QED BY <1>1, <1>2, PTL

-----------------------------------------------------------------------------
(* The capacity bound.  Except for the three steps that pass the capacity  *)
(* check or insert a connection, no step adds a pooled key or a creator.   *)
LEMMA NoGrowth ==
    ASSUME CapacityDrift, Pooled' \subseteq Pooled, Creators' \subseteq Creators
    PROVE  CapacityDrift'
<1>1. /\ Cardinality(Pooled') \in Nat /\ Cardinality(Pooled') <= Cardinality(Pooled)
      /\ Cardinality(Creators') \in Nat /\ Cardinality(Creators') <= Cardinality(Creators)
  BY Finiteness, FS_Subset, FS_CardinalityType
<1> QED BY <1>1, Finiteness, PoolAssumption DEF CapacityDrift

(* A task moved from `from` to `x`.                                        *)
LEMMA CreatorsAfter ==
    ASSUME VarTypes, NEW t \in Tasks, NEW x, Goto(t, x)
    PROVE  Creators' = IF x \in {"evicting", "connecting"} THEN Creators \cup {t}
                       ELSE Creators \ {t}
  BY DEF VarTypes, Goto, Creators

LEMMA PooledAfterPop ==
    ASSUME VarTypes, NEW k \in Keys, Popped(k)
    PROVE  Pooled' = Pooled \ {k}
  BY DEF VarTypes, Popped, Pooled

LEMMA TaskPopsOrKeeps ==
    ASSUME TypeOK, NEW t \in Tasks,
           \/ \E k \in Keys, retry \in BOOLEAN : Execute(t, k, retry)
           \/ \E h \in Hosts : Disconnect(t, h)
           \/ DisconnectAll(t) \/ GetLock(t) \/ Reuse(t) \/ FindStale(t)
           \/ FindNone(t) \/ StaleClosed(t) \/ Evicted(t) \/ ConnectFails(t)
           \/ RunAndRetry(t) \/ Disconnecting(t) \/ Cancel(t)
    PROVE  Pooled' \subseteq Pooled /\ Creators' \subseteq Creators
<1>a. VarTypes /\ TaskShape
  BY DEF TypeOK
<1>b. ASSUME Finish(t) \/ \E transient \in BOOLEAN : AttemptFails(t, transient)
      PROVE  Creators' \subseteq Creators
  BY <1>b, <1>a, CreatorsAfter DEF Finish, AttemptFails
<1>c. ASSUME NEW x, Goto(t, x), x \notin {"evicting", "connecting"}
      PROVE  Creators' \subseteq Creators
  BY <1>c, <1>a, CreatorsAfter
<1>d. ASSUME UNCHANGED pc PROVE Creators' \subseteq Creators
  BY <1>d DEF Creators
<1>e. ASSUME UNCHANGED pool PROVE Pooled' \subseteq Pooled
  BY <1>e DEF Pooled
<1>1. ASSUME NEW k \in Keys, NEW retry \in BOOLEAN, Execute(t, k, retry)
      PROVE  Pooled' \subseteq Pooled /\ Creators' \subseteq Creators
  BY <1>1, <1>c, <1>e DEF Execute, poolVars
<1>2. ASSUME NEW h \in Hosts, Disconnect(t, h)
      PROVE  Pooled' \subseteq Pooled /\ Creators' \subseteq Creators
  BY <1>2, <1>c, <1>e DEF Disconnect, poolVars
<1>3. CASE DisconnectAll(t)
  BY <1>3, <1>c, <1>e DEF DisconnectAll, poolVars
<1>4. CASE GetLock(t) \/ Reuse(t) \/ FindStale(t) \/ FindNone(t)
  BY <1>4, <1>c, <1>e DEF GetLock, Reuse, FindStale, FindNone, poolVars
<1>5. CASE StaleClosed(t)
  <2>1. key[t] \in Keys
    BY <1>5, <1>a, Places DEF StaleClosed, TaskShape
  <2> QED
    BY <1>5, <2>1, <1>a, <1>b, <1>c, <1>e, PooledAfterPop DEF StaleClosed, poolVars
<1>6. CASE Evicted(t)
  <2>1. t \in Creators
    BY <1>6 DEF Evicted, Creators
  <2> QED BY <1>6, <2>1, <1>a, <1>e, CreatorsAfter DEF Evicted, poolVars
<1>7. CASE ConnectFails(t)
  BY <1>7, <1>b, <1>e DEF ConnectFails, poolVars
<1>8. CASE RunAndRetry(t)
  <2>1. CASE GetSem(t) \/ NextAttempt(t) \/ Invalidated(t)
    BY <2>1, <1>c, <1>e DEF GetSem, NextAttempt, Invalidated, poolVars
  <2>2. CASE AcquireSem(t) \/ RunSucceeds(t) \/ RunFails(t)
    BY <2>2, <1>b, <1>c, <1>e DEF AcquireSem, RunSucceeds, RunFails, poolVars
  <2>3. CASE Invalidate(t)
    <3>1. key[t] \in Keys
      BY <2>3, <1>a, Places DEF Invalidate, TaskShape
    <3> QED
      BY <2>3, <3>1, <1>a, <1>c, <1>e, PooledAfterPop DEF Invalidate, poolVars
  <2> QED BY <1>8, <2>1, <2>2, <2>3 DEF RunAndRetry
<1>9. CASE Disconnecting(t)
  <2>1. CASE DisconnectNext(t)
    <3>1. PICK k \in todo : \/ Popped(k) /\ UNCHANGED pc
                            \/ Finish(t) /\ UNCHANGED pool
      BY <2>1 DEF DisconnectNext, poolVars
    <3>2. k \in Keys
      BY <1>a DEF VarTypes
    <3> QED BY <3>1, <3>2, <1>a, <1>b, <1>d, <1>e, PooledAfterPop
  <2>2. CASE DisconnectDone(t) \/ SweepBreaks(t)
    BY <2>2, <1>b, <1>e DEF DisconnectDone, SweepBreaks, poolVars
  <2>3. CASE CloseReturns(t) \/ SweepNext(t)
    BY <2>3, <1>d, <1>e DEF CloseReturns, SweepNext, poolVars
  <2>4. CASE SweepDone(t)
    BY <2>4, <1>b DEF SweepDone, Pooled
  <2> QED BY <1>9, <2>1, <2>2, <2>3, <2>4 DEF Disconnecting
<1>10. CASE Cancel(t)
  BY <1>10, <1>b, <1>e DEF Cancel, poolVars
<1> QED BY <1>1, <1>2, <1>3, <1>4, <1>5, <1>6, <1>7, <1>8, <1>9, <1>10

LEMMA CapacityInit == Init => CapacityDrift
<1> SUFFICES ASSUME Init PROVE CapacityDrift
  OBVIOUS
<1>1. Pooled = {} /\ Creators = {}
  BY DEF Init, Pooled, Creators
<1> QED BY <1>1, FS_EmptySet, Finiteness, PoolAssumption DEF CapacityDrift

LEMMA CapacityNext == TypeOK /\ CapacityDrift /\ [Next]_vars => CapacityDrift'
<1> SUFFICES ASSUME TypeOK, CapacityDrift, [Next]_vars PROVE CapacityDrift'
  OBVIOUS
<1>a. VarTypes /\ TaskShape
  BY DEF TypeOK
<1>b. CapacityDrift /\ PoolAssumption
  BY PoolAssumption
(* Passing the check below the limit leaves room for every task but one.   *)
<1>1. ASSUME NEW t \in Tasks, TakeSlot(t) PROVE CapacityDrift'
  <2>1. Pooled' = Pooled /\ Cardinality(Pooled) < MaxConnections
    BY <1>1 DEF TakeSlot, Pooled, poolVars
  <2>2. IsFiniteSet(Creators') /\ Cardinality(Creators') \in Nat
        /\ Cardinality(Creators') <= Cardinality(Tasks)
    BY FS_Subset, FS_CardinalityType, PoolAssumption DEF Creators
  <2> QED BY <2>1, <2>2, Finiteness, PoolAssumption DEF CapacityDrift
(* An eviction trades a connection for a creator.                          *)
<1>2. ASSUME NEW t \in Tasks, Evict(t) PROVE CapacityDrift'
  <2>1. PICK k \in Pooled : Popped(k)
    BY <1>2 DEF Evict
  <2>2. Pooled' = Pooled \ {k}
    BY <2>1, <1>a, PooledAfterPop DEF Pooled
  <2>3. Creators' = Creators \cup {t}
    BY <1>2, <1>a, CreatorsAfter DEF Evict
  <2>4. Cardinality(Pooled') = Cardinality(Pooled) - 1
    BY <2>2, FS_RemoveElement, Finiteness
  <2>5. /\ Cardinality(Creators') <= Cardinality(Creators) + 1
        /\ Cardinality(Creators') \in Nat
    <3> DEFINE C == Creators \cup {t}
    <3>1. IsFiniteSet(C) /\ Cardinality(C) <= Cardinality(Creators) + 1
      <4>1. IsFiniteSet(Creators) /\ Cardinality(Creators) \in Nat
        BY Finiteness
      <4>2. /\ IsFiniteSet(C)
            /\ Cardinality(C) = IF t \in Creators THEN Cardinality(Creators)
                                ELSE Cardinality(Creators) + 1
        BY <4>1, FS_AddElement
      <4> HIDE DEF C
      <4> QED BY <4>1, <4>2
    <3> HIDE DEF C
    <3>2. Cardinality(C) \in Nat
      BY <3>1, FS_CardinalityType
    <3> QED BY <2>3, <3>1, <3>2 DEF C
  <2> QED BY <1>b, <2>4, <2>5, Finiteness DEF CapacityDrift, PoolAssumption
(* An insertion turns a creator into at most one connection.               *)
<1>3. ASSUME NEW t \in Tasks, Connected(t) PROVE CapacityDrift'
  <2>1. PICK c \in Conns : pool' = [pool EXCEPT ![key[t]] = c]
    BY <1>3 DEF Connected
  <2>2. Pooled' \subseteq Pooled \cup {key[t]}
    BY <1>a, <2>1 DEF Pooled, VarTypes
  <2>3. t \in Creators /\ Creators' = Creators \ {t}
    BY <1>3, <1>a, CreatorsAfter DEF Connected, Creators
  <2>4. Cardinality(Creators') = Cardinality(Creators) - 1
    BY <2>3, FS_RemoveElement, Finiteness
  <2>5. /\ Cardinality(Pooled') <= Cardinality(Pooled) + 1
        /\ Cardinality(Pooled') \in Nat
    <3>1. /\ IsFiniteSet(Pooled \cup {key[t]})
          /\ Cardinality(Pooled \cup {key[t]}) <= Cardinality(Pooled) + 1
      BY FS_AddElement, Finiteness
    <3>2. /\ IsFiniteSet(Pooled')
          /\ Cardinality(Pooled') <= Cardinality(Pooled \cup {key[t]})
      BY <2>2, <3>1, FS_Subset
    <3>3. Cardinality(Pooled') \in Nat /\ Cardinality(Pooled \cup {key[t]}) \in Nat
      BY <3>1, <3>2, FS_CardinalityType
    <3> QED BY <3>1, <3>2, <3>3, Finiteness
  <2> QED BY <1>b, <2>4, <2>5, Finiteness DEF CapacityDrift, PoolAssumption
<1>4. ASSUME Environment PROVE CapacityDrift'
  <2>1. UNCHANGED <<pool, pc>>
    BY <1>4 DEF Environment, ResetCircuit, RetryTimePasses, Expire, poolVars, taskVars
  <2> QED BY <2>1, NoGrowth DEF Pooled, Creators
<1>5. CASE UNCHANGED vars
  BY <1>5, NoGrowth DEF vars, Pooled, Creators
<1> QED
  BY <1>1, <1>2, <1>3, <1>4, <1>5, TaskPopsOrKeeps, NoGrowth
     DEF Next, Calls, GetConnection

(* However many tasks race through get_connection, the pool exceeds its    *)
(* limit by fewer connections than there are tasks.                        *)
THEOREM CapacityBounded == Spec => []CapacityDrift
<1> QED BY CapacityInit, CapacityNext, TypeCorrect, PTL DEF Spec

-----------------------------------------------------------------------------
(* The circuit of each host.                                               *)
Counts(b) == /\ b.state = "closed" <=> b.failures < FailureThreshold
             /\ b.state # "half_open"

LEMMA CountsKept ==
    ASSUME NEW b \in Breaker, Counts(b)
    PROVE  /\ Counts(RecordFailure(b)) /\ Counts(RecordSuccess(b))
           /\ Counts(CoolDown(b)) /\ Counts(NewBreaker)
<1> USE ThresholdAssumption DEF Breaker, CircuitState, Counts
<1>1. Counts(RecordFailure(b))
  BY DEF RecordFailure, OpensOnFailure, Bump
<1>2. Counts(RecordSuccess(b))
  BY DEF RecordSuccess
<1>3. Counts(CoolDown(b)) /\ Counts(NewBreaker)
  BY DEF CoolDown, NewBreaker
<1> QED BY <1>1, <1>2, <1>3

(* Every step leaves a circuit alone, resets it, lets it cool or records   *)
(* one result on it.                                                       *)
CircuitStep(h) == circuit'[h] \in {circuit[h], NewBreaker, CoolDown(circuit[h]),
                                  RecordFailure(circuit[h]), RecordSuccess(circuit[h])}

LEMMA CircuitSteps ==
    TypeOK /\ [Next]_vars => \A h \in Hosts : CircuitStep(h)
<1> SUFFICES ASSUME TypeOK, [Next]_vars, NEW h \in Hosts PROVE CircuitStep(h)
  OBVIOUS
<1>a. VarTypes /\ TaskShape
  BY DEF TypeOK
<1>b. ASSUME UNCHANGED circuit PROVE CircuitStep(h)
  BY <1>b DEF CircuitStep
<1>c. ASSUME NEW t \in Tasks, NEW transient \in BOOLEAN, AttemptFails(t, transient)
      PROVE  CircuitStep(h)
  BY <1>a, <1>c DEF AttemptFails, Record, BreakerOf, CircuitStep, VarTypes
<1>1. ASSUME NEW t \in Tasks, Calls(t) \/ Disconnecting(t) \/ Cancel(t)
      PROVE  CircuitStep(h)
  BY <1>1, <1>b DEF Calls, Execute, Disconnect, DisconnectAll, Disconnecting, Cancel,
       DisconnectNext, DisconnectDone, CloseReturns, SweepNext, SweepBreaks, SweepDone
<1>2. ASSUME NEW t \in Tasks, GetConnection(t) PROVE CircuitStep(h)
  <2>1. CASE StaleClosed(t) \/ ConnectFails(t)
    BY <2>1, <1>b, <1>c, FALSE \in BOOLEAN DEF StaleClosed, ConnectFails
  <2>2. CASE ~(StaleClosed(t) \/ ConnectFails(t))
    BY <1>2, <2>2, <1>b DEF GetConnection, GetLock, Reuse, FindStale, FindNone,
         TakeSlot, Evict, Evicted, Connected
  <2> QED BY <2>1, <2>2
<1>3. ASSUME NEW t \in Tasks, RunAndRetry(t) PROVE CircuitStep(h)
  <2>1. CASE RunSucceeds(t)
    BY <1>a, <2>1 DEF RunSucceeds, Record, BreakerOf, CircuitStep, VarTypes
  <2>2. CASE AcquireSem(t) \/ RunFails(t)
    BY <2>2, <1>b, <1>c, FALSE \in BOOLEAN DEF AcquireSem, RunFails
  <2>3. CASE GetSem(t) \/ Invalidate(t) \/ Invalidated(t) \/ NextAttempt(t)
    BY <2>3, <1>b DEF GetSem, Invalidate, Invalidated, NextAttempt
  <2> QED BY <1>3, <2>1, <2>2, <2>3 DEF RunAndRetry
<1>4. ASSUME Environment PROVE CircuitStep(h)
  BY <1>a, <1>4
     DEF Environment, ResetCircuit, RetryTimePasses, Expire, CircuitStep, VarTypes
<1>5. CASE UNCHANGED vars
  BY <1>5, <1>b DEF vars
<1> QED BY <1>1, <1>2, <1>3, <1>4, <1>5 DEF Next

(* A circuit is closed exactly while it counts fewer failures than the     *)
(* threshold; half_open is never reached.                                  *)
THEOREM CircuitsCount == Spec => []CircuitCounts
<1>1. Init => CircuitCounts
  BY ThresholdAssumption DEF Init, CircuitCounts, NewBreaker
<1>2. TypeOK /\ CircuitCounts /\ [Next]_vars => CircuitCounts'
  <2> SUFFICES ASSUME TypeOK, CircuitCounts, [Next]_vars, NEW h \in Hosts
               PROVE  Counts(circuit'[h])
    BY DEF CircuitCounts, Counts
  <2>1. circuit[h] \in Breaker /\ Counts(circuit[h])
    BY DEF TypeOK, VarTypes, CircuitCounts, Counts
  <2> QED BY <2>1, CircuitSteps, CountsKept DEF CircuitStep
<1> QED BY <1>1, <1>2, TypeCorrect, PTL DEF Spec

-----------------------------------------------------------------------------
(* Closing.  While nobody sweeps, every connection is pooled once; who     *)
(* closes one has popped it, or holds the lock of the one key it is under. *)
ClosingPC == {"evicting", "invalidating", "disconnecting"}
ClosingBy(t) ==
    /\ pc[t] # "sweeping"
    /\ pc[t] = "idle" => held[t] = None
    /\ pc[t] \in ClosingPC /\ held[t] # None => \A k \in Keys : pool[k] # held[t]
    /\ pc[t] = "closeStale" => held[t] # None /\ \A k \in Keys : pool[k] = held[t] => k = key[t]
PooledOnce == \A j, k \in Keys : pool[j] # None /\ pool[j] = pool[k] => j = k
ClosingInv == PooledOnce /\ PooledNotClosed /\ \A t \in Tasks : ClosingBy(t)

Apart(t) == \A u \in Tasks \ {t} : pc'[u] = pc[u] /\ key'[u] = key[u] /\ held'[u] = held[u]
Shrinks == \A k \in Keys : pool'[k] \in {pool[k], None}

LEMMA ClosingStep ==
    ASSUME VarTypes, ClosingInv, NEW t \in Tasks, Apart(t), Shrinks, ClosingBy(t)', PooledNotClosed'
    PROVE  ClosingInv'
<1>1. PooledOnce'
  BY DEF ClosingInv, PooledOnce, Shrinks
<1>2. ASSUME NEW u \in Tasks \ {t} PROVE ClosingBy(u)'
  <2>1. ClosingBy(u) /\ pc'[u] = pc[u] /\ key'[u] = key[u] /\ held'[u] = held[u]
    BY DEF ClosingInv, Apart
  <2> QED BY <2>1 DEF ClosingBy, Shrinks
<1> QED BY <1>1, <1>2 DEF ClosingInv

(* A close that only begins, or of a connection that is not pooled.        *)
LEMMA StaysOpen ==
    ASSUME VarTypes, PooledNotClosed, Shrinks,
           \A c \in Conns : link'[c] = "down" => link[c] = "down" \/ \A k \in Keys : pool'[k] # c
    PROVE  PooledNotClosed'
<1> SUFFICES ASSUME NEW k \in Keys, pool'[k] # None PROVE link'[pool'[k]] # "down"
  BY DEF PooledNotClosed, Pooled
<1>1. pool'[k] = pool[k] /\ pool[k] \in Conns
  BY DEF Shrinks, VarTypes
<1>2. link[pool[k]] # "down"
  BY <1>1 DEF PooledNotClosed, Pooled
<1> QED BY <1>1, <1>2

LEMMA Popping == ASSUME VarTypes, NEW k \in Keys, Popped(k)
                 PROVE  Shrinks /\ pool'[k] = None
BY DEF VarTypes, Popped, Shrinks

(* Where no connection is being closed.                                    *)
LEMMA MovesOn ==
    ASSUME VarTypes, ClosingInv, NEW t \in Tasks, Apart(t), UNCHANGED <<pool, link>>,
           pc'[t] \notin ClosingPC \cup {"sweeping", "closeStale"}, pc'[t] = "idle" => held'[t] = None
    PROVE  ClosingInv'
<1>1. ClosingBy(t)' /\ Shrinks
  BY DEF ClosingBy, Shrinks
<1>2. PooledNotClosed'
  BY <1>1, StaysOpen DEF ClosingInv
<1> QED BY <1>1, <1>2, ClosingStep

LEMMA ClosingNext ==
    ASSUME MaxSweeps = 0, TypeOK, KeyLockInv, gen = 0, ClosingInv, [Next]_vars
    PROVE  ClosingInv'
<1>a. VarTypes /\ TaskShape
  BY DEF TypeOK
<1>b. ASSUME NEW t \in Tasks PROVE ClosingBy(t)
  BY DEF ClosingInv
<1>c. PooledOnce /\ PooledNotClosed
  BY DEF ClosingInv
<1>d. ASSUME NEW t \in Tasks, NEW where, Goto(t, where) PROVE pc'[t] = where
  BY <1>a, <1>d DEF Goto, VarTypes
<1>e. ASSUME NEW t \in Tasks, NEW c, held' = [held EXCEPT ![t] = c] PROVE held'[t] = c
  BY <1>a, <1>e DEF VarTypes
<1>f. ASSUME NEW c \in Conns, CloseBegins(c)
      PROVE  \A d \in Conns : link'[d] = "down" => link[d] = "down"
  BY <1>a, <1>f DEF CloseBegins, VarTypes
<1>g. ASSUME NEW c, CloseEnds(c)
      PROVE  \A d \in Conns : link'[d] = "down" => link[d] = "down" \/ d = c
  BY <1>a, <1>g DEF CloseEnds, VarTypes
<1>h. ASSUME NEW t \in Tasks, Finish(t) \/ \E transient \in BOOLEAN : AttemptFails(t, transient)
      PROVE  /\ Apart(t) /\ pc'[t] \in {"idle", "invalidate"} /\ held'[t] = None
  BY <1>a, <1>h DEF Finish, AttemptFails, Goto, Apart, VarTypes
<1>1. ASSUME NEW t \in Tasks, NEW k \in Keys, NEW retry \in BOOLEAN, Execute(t, k, retry)
      PROVE  ClosingInv'
  <2>1. Apart(t) /\ pc'[t] = "getLock" /\ UNCHANGED <<pool, link>>
    BY <1>1, <1>a, <1>d DEF Execute, Goto, Apart, VarTypes, poolVars, connVars
  <2> QED BY <2>1, <1>a, MovesOn DEF ClosingPC
<1>2. ASSUME NEW t \in Tasks, NEW h \in Hosts, Disconnect(t, h)
      PROVE  ClosingInv'
  <2>1. Apart(t) /\ pc[t] = "idle" /\ pc'[t] = "disconnecting" /\ UNCHANGED <<pool, link, held>>
    BY <1>2, <1>a, <1>d DEF Disconnect, Goto, Apart, VarTypes, poolVars, connVars
  <2>2. ClosingBy(t)'
    BY <2>1, <1>b DEF ClosingBy
  <2>3. Shrinks
    BY <2>1 DEF Shrinks
  <2>4. PooledNotClosed'
    BY <1>a, <1>c, <2>1, <2>3, StaysOpen
  <2> QED BY <1>a, <2>1, <2>2, <2>3, <2>4, ClosingStep
<1>3. ASSUME NEW t \in Tasks, DisconnectAll(t) PROVE FALSE
  BY <1>3 DEF DisconnectAll
<1>4. ASSUME NEW t \in Tasks, SweepNext(t) \/ SweepBreaks(t) \/ SweepDone(t) PROVE FALSE
  BY <1>4, <1>b DEF SweepNext, SweepBreaks, SweepDone, ClosingBy
<1>5. ASSUME NEW t \in Tasks,
             GetLock(t) \/ Reuse(t) \/ FindNone(t) \/ TakeSlot(t) \/ GetSem(t) \/ NextAttempt(t)
      PROVE  ClosingInv'
  <2>1. Apart(t) /\ UNCHANGED <<pool, link>> /\ pc'[t] \in {"waitKey", "getSem", "wantSlot", "connecting", "waitSem", "getLock"}
    BY <1>5, <1>a DEF GetLock, Reuse, FindNone, TakeSlot, GetSem, NextAttempt, Goto, Apart, VarTypes,
                      poolVars, connVars
  <2> QED BY <2>1, <1>a, MovesOn DEF ClosingPC
<1>6. ASSUME NEW t \in Tasks, ConnectFails(t) \/ RunFails(t) \/ RunSucceeds(t) \/ Cancel(t) \/ DisconnectDone(t)
      PROVE  ClosingInv'
  <2>1. UNCHANGED <<pool, link>> /\ (Finish(t) \/ \E transient \in BOOLEAN : AttemptFails(t, transient))
    BY <1>6 DEF ConnectFails, RunFails, RunSucceeds, Cancel, DisconnectDone, poolVars, connVars
  <2> QED BY <2>1, <1>a, <1>h, MovesOn DEF ClosingPC
<1>7. ASSUME NEW t \in Tasks, AcquireSem(t) PROVE ClosingInv'
  <2>1. UNCHANGED <<pool, link>>
    BY <1>7 DEF AcquireSem, poolVars, connVars
  <2>2. CASE AttemptFails(t, FALSE)
    BY <2>1, <2>2, <1>a, <1>h, MovesOn, FALSE \in BOOLEAN DEF ClosingPC
  <2>3. CASE Goto(t, "running") /\ UNCHANGED <<key, held>>
    <3>1. Apart(t) /\ pc'[t] = "running"
      BY <2>3, <1>a DEF Goto, Apart, VarTypes
    <3> QED BY <2>1, <3>1, <1>a, MovesOn DEF ClosingPC
  <2> QED BY <1>7, <2>2, <2>3 DEF AcquireSem
<1>8. ASSUME NEW t \in Tasks, FindStale(t) PROVE ClosingInv'
  <2>1. /\ key[t] \in Keys /\ pool[key[t]] \in Conns
        /\ Apart(t) /\ pc'[t] = "closeStale" /\ held'[t] = pool[key[t]] /\ key'[t] = key[t]
        /\ UNCHANGED pool /\ CloseBegins(pool[key[t]])
    BY <1>8, <1>a, Places DEF FindStale, Goto, Apart, VarTypes, TaskShape, poolVars
  <2>2. pool[key[t]] # None
    BY <2>1, PoolAssumption
  <2>3. ClosingBy(t)'
    BY <2>1, <2>2, <1>c DEF ClosingBy, PooledOnce, ClosingPC
  <2>4. Shrinks
    BY <2>1 DEF Shrinks
  <2>5. PooledNotClosed'
    BY <1>a, <1>c, <1>f, <2>1, <2>4, StaysOpen
  <2> QED BY <1>a, <2>1, <2>3, <2>4, <2>5, ClosingStep
<1>9. ASSUME NEW t \in Tasks, StaleClosed(t) PROVE ClosingInv'
  <2>1. key[t] \in Keys /\ pc[t] = "closeStale" /\ CloseEnds(held[t])
    BY <1>9, <1>a, Places DEF StaleClosed, TaskShape
  <2>2. held[t] # None /\ \A k \in Keys : pool[k] = held[t] => k = key[t]
    BY <2>1, <1>b DEF ClosingBy
  <2>3. CASE pool[key[t]] # None
    <3>1. Popped(key[t]) /\ Apart(t) /\ pc'[t] = "wantSlot"
      BY <1>9, <2>3, <1>a DEF StaleClosed, Goto, Apart, VarTypes
    <3>2. Shrinks /\ pool'[key[t]] = None
      BY <1>a, <2>1, <3>1, Popping
    <3>3. \A k \in Keys : pool'[k] # held[t]
      BY <2>2, <3>2 DEF Shrinks
    <3>4. PooledNotClosed'
      BY <1>a, <1>c, <1>g, <2>1, <3>2, <3>3, StaysOpen
    <3>5. ClosingBy(t)'
      BY <3>1 DEF ClosingBy, ClosingPC
    <3> QED BY <1>a, <3>1, <3>2, <3>4, <3>5, ClosingStep
  <2>4. CASE pool[key[t]] = None
    <3>1. AttemptFails(t, FALSE) /\ UNCHANGED pool
      BY <1>9, <2>4 DEF StaleClosed, poolVars
    <3>2. Apart(t) /\ pc'[t] \in {"idle", "invalidate"} /\ held'[t] = None
      BY <3>1, <1>h, FALSE \in BOOLEAN
    <3>3. Shrinks /\ \A k \in Keys : pool'[k] # held[t]
      BY <2>2, <2>4, <3>1 DEF Shrinks
    <3>4. PooledNotClosed'
      BY <1>a, <1>c, <1>g, <2>1, <3>3, StaysOpen
    <3>5. ClosingBy(t)'
      BY <3>2 DEF ClosingBy, ClosingPC
    <3> QED BY <1>a, <3>2, <3>3, <3>4, <3>5, ClosingStep
  <2> QED BY <2>3, <2>4
<1>10. ASSUME NEW t \in Tasks, NEW k \in Keys, pool[k] # None, Popped(k), CloseBegins(pool[k]),
              held' = [held EXCEPT ![t] = pool[k]], Apart(t), pc'[t] \in ClosingPC
       PROVE  ClosingInv'
  <2>1. Shrinks /\ pool'[k] = None
    BY <1>a, <1>10, Popping
  <2>2. held'[t] = pool[k] /\ pool[k] \in Conns
    BY <1>a, <1>10 DEF VarTypes
  <2>3. \A j \in Keys : pool'[j] # held'[t]
    BY <1>10, <1>c, <2>1, <2>2 DEF Shrinks, PooledOnce
  <2>4. PooledNotClosed'
    BY <1>a, <1>c, <1>f, <1>10, <2>1, <2>2, StaysOpen
  <2>5. ClosingBy(t)'
    BY <1>10, <2>3 DEF ClosingBy, ClosingPC
  <2> QED BY <1>a, <1>10, <2>1, <2>4, <2>5, ClosingStep
<1>11. ASSUME NEW t \in Tasks, Evict(t) PROVE ClosingInv'
  <2>1. PICK k \in Pooled : Popped(k) /\ CloseBegins(pool[k]) /\ held' = [held EXCEPT ![t] = pool[k]]
    BY <1>11 DEF Evict
  <2>2. Apart(t) /\ pc'[t] \in ClosingPC
    BY <1>11, <1>a, <2>1 DEF Evict, Goto, Apart, VarTypes, ClosingPC
  <2> QED BY <2>1, <2>2, <1>10 DEF Pooled
<1>12. ASSUME NEW t \in Tasks, Invalidate(t) PROVE ClosingInv'
  <2>1. key[t] \in Keys
    BY <1>12, <1>a, Places DEF Invalidate, TaskShape
  <2>2. CASE pool[key[t]] # None
    <3>1. /\ Popped(key[t]) /\ CloseBegins(pool[key[t]]) /\ held' = [held EXCEPT ![t] = pool[key[t]]]
          /\ Apart(t) /\ pc'[t] \in ClosingPC
      BY <1>12, <1>a, <2>2 DEF Invalidate, Goto, Apart, VarTypes, ClosingPC
    <3> QED BY <2>1, <2>2, <3>1, <1>10
  <2>3. CASE pool[key[t]] = None
    <3>1. UNCHANGED <<pool, link>> /\ Apart(t) /\ pc'[t] = "backoff"
      BY <1>12, <1>a, <2>3 DEF Invalidate, Goto, Apart, VarTypes, poolVars, connVars
    <3> QED BY <3>1, <1>a, MovesOn DEF ClosingPC
  <2> QED BY <2>2, <2>3
<1>13. ASSUME NEW t \in Tasks, Evicted(t) \/ Invalidated(t) \/ CloseReturns(t) PROVE ClosingInv'
  <2>1. /\ pc[t] \in ClosingPC /\ CloseEnds(held[t]) /\ UNCHANGED pool
        /\ Apart(t) /\ held'[t] = None /\ pc'[t] \in {"connecting", "backoff", "disconnecting"}
    BY <1>13, <1>a, <1>b DEF Evicted, Invalidated, CloseReturns, Goto, Apart, VarTypes, ClosingPC,
                             ClosingBy, poolVars
  <2>2. held[t] # None => \A k \in Keys : pool[k] # held[t]
    BY <2>1, <1>b DEF ClosingBy
  <2>3. Shrinks
    BY <2>1 DEF Shrinks
  <2>4. PooledNotClosed'
    BY <1>a, <1>c, <1>g, <2>1, <2>2, <2>3, StaysOpen, PoolAssumption
  <2>5. ClosingBy(t)'
    BY <2>1 DEF ClosingBy
  <2> QED BY <1>a, <2>1, <2>3, <2>4, <2>5, ClosingStep
<1>14. ASSUME NEW t \in Tasks, DisconnectNext(t) PROVE ClosingInv'
  <2>1. PICK k \in todo :
          IF pool[k] # None
          THEN /\ Popped(k) /\ CloseBegins(pool[k]) /\ held' = [held EXCEPT ![t] = pool[k]]
               /\ UNCHANGED <<pc, key>>
          ELSE Finish(t) /\ UNCHANGED <<poolVars, link>>
    BY <1>14 DEF DisconnectNext
  <2>2. k \in Keys
    BY <1>a DEF VarTypes
  <2>3. CASE pool[k] # None
    <3>1. Apart(t) /\ pc'[t] \in ClosingPC
      BY <1>14, <1>a, <2>1, <2>3 DEF DisconnectNext, Apart, VarTypes, ClosingPC
    <3> QED BY <2>1, <2>2, <2>3, <3>1, <1>10
  <2>4. CASE pool[k] = None
    BY <2>1, <2>4, <1>a, <1>h, MovesOn DEF ClosingPC, poolVars
  <2> QED BY <2>3, <2>4
<1>15. ASSUME NEW t \in Tasks, Connected(t) PROVE ClosingInv'
  <2>1. key[t] \in Keys
    BY <1>15, <1>a, Places DEF Connected, TaskShape
  <2>2. PICK c \in Conns : /\ Free(c)
                           /\ link' = [link EXCEPT ![c] = "up"]
                           /\ pool' = [pool EXCEPT ![key[t]] = c]
                           /\ held' = [held EXCEPT ![t] = c]
    BY <1>15 DEF Connected
  <2>3. (\A k \in Keys : pool[k] # c) /\ \A u \in Tasks : held[u] # c
    BY <2>2 DEF Free, IsPooled
  <2>4. /\ \A k \in Keys : pool'[k] = IF k = key[t] THEN c ELSE pool[k]
        /\ \A d \in Conns : link'[d] = IF d = c THEN "up" ELSE link[d]
    BY <1>a, <2>1, <2>2 DEF VarTypes
  <2>5. PooledOnce'
    BY <1>c, <2>3, <2>4 DEF PooledOnce
  <2>6. PooledNotClosed'
    BY <1>a, <1>c, <2>4 DEF PooledNotClosed, Pooled, VarTypes
  <2>7. pc'[t] = "getSem" /\ Apart(t)
    BY <1>15, <1>a, <2>2 DEF Connected, Goto, Apart, VarTypes
  <2>8. ASSUME NEW u \in Tasks \ {t} PROVE ClosingBy(u)'
    <3>1. ClosingBy(u) /\ pc'[u] = pc[u] /\ key'[u] = key[u] /\ held'[u] = held[u]
      BY <1>b, <2>7 DEF Apart
    <3>2. \A k \in Keys : pool'[k] = held[u] => pool[k] = held[u]
      BY <2>3, <2>4
    <3> QED BY <3>1, <3>2 DEF ClosingBy
  <2>9. ClosingBy(t)'
    BY <2>7 DEF ClosingBy, ClosingPC
  <2> QED BY <2>5, <2>6, <2>8, <2>9 DEF ClosingInv
<1>16. ASSUME UNCHANGED <<pool, link, pc, key, held>> PROVE ClosingInv'
  BY <1>16 DEF ClosingInv, PooledOnce, PooledNotClosed, Pooled, ClosingBy
<1>17. CASE Environment \/ UNCHANGED vars
  BY <1>17, <1>16 DEF Environment, ResetCircuit, RetryTimePasses, Expire, poolVars, connVars, taskVars, vars
<1>18. ASSUME NEW t \in Tasks, Calls(t) \/ Cancel(t) PROVE ClosingInv'
  BY <1>18, <1>1, <1>2, <1>3, <1>6 DEF Calls
<1>19. ASSUME NEW t \in Tasks, GetConnection(t) PROVE ClosingInv'
  BY <1>19, <1>5, <1>6, <1>8, <1>9, <1>11, <1>13, <1>15 DEF GetConnection
<1>20. ASSUME NEW t \in Tasks, RunAndRetry(t) \/ Disconnecting(t) PROVE ClosingInv'
  BY <1>20, <1>4, <1>5, <1>6, <1>7, <1>12, <1>13, <1>14 DEF RunAndRetry, Disconnecting
<1> QED BY <1>17, <1>18, <1>19, <1>20 DEF Next

Unswept == gen = 0 /\ ClosingInv

LEMMA NoSweeps == ASSUME MaxSweeps = 0 PROVE Spec => []Unswept
<1>1. Init => Unswept
  BY DEF Unswept, Init, ClosingInv, PooledOnce, PooledNotClosed, Pooled, ClosingBy, ClosingPC
<1>2. TypeOK /\ KeyLockInv /\ Unswept /\ [Next]_vars => Unswept'
  <2> SUFFICES ASSUME TypeOK, KeyLockInv, gen = 0, ClosingInv, [Next]_vars PROVE gen' = 0
    BY ClosingNext DEF Unswept
  <2>1. ASSUME NEW t \in Tasks PROVE ~SweepDone(t)
    BY DEF SweepDone, ClosingInv, ClosingBy
  <2>2. ASSUME NEW t \in Tasks, Calls(t) \/ Cancel(t) PROVE gen' = gen
    BY <2>2 DEF Calls, Execute, Disconnect, DisconnectAll, Cancel
  <2>3. ASSUME NEW t \in Tasks, GetConnection(t) PROVE gen' = gen
    BY <2>3 DEF GetConnection, GetLock, Reuse, FindStale, FindNone, StaleClosed, TakeSlot, Evict, Evicted,
                Connected, ConnectFails
  <2>4. ASSUME NEW t \in Tasks, RunAndRetry(t) \/ Disconnecting(t) PROVE gen' = gen
    BY <2>1, <2>4 DEF RunAndRetry, Disconnecting, GetSem, AcquireSem, RunSucceeds, RunFails, Invalidate, Invalidated,
                NextAttempt, DisconnectNext, DisconnectDone, CloseReturns, SweepNext, SweepBreaks
  <2>5. CASE Environment \/ UNCHANGED vars
    BY <2>5 DEF Environment, ResetCircuit, RetryTimePasses, Expire, vars
  <2> QED BY <2>2, <2>3, <2>4, <2>5 DEF Next
<1>3. Spec => []KeyLockInv
  BY KeyLockInit, KeyLockNext, TypeCorrect, PTL DEF Spec
<1> QED BY <1>1, <1>2, <1>3, TypeCorrect, PTL DEF Spec

(* Where disconnect_all is not called, the pool never offers a connection  *)
(* whose close has completed, however many tasks evict, invalidate,        *)
(* disconnect, retry and are cancelled in the middle of a close.           *)
THEOREM NoneOfferedClosed == ASSUME MaxSweeps = 0 PROVE Spec => []PooledNotClosed
<1>1. Unswept => PooledNotClosed
  BY DEF Unswept, ClosingInv
<1> QED BY <1>1, NoSweeps, PTL
=============================================================================
