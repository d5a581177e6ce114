-------------------------- MODULE ResilienceProofs --------------------------
(***************************************************************************)
(* Theorems about Resilience for any set of callers and any thresholds.    *)
(***************************************************************************)
EXTENDS Resilience, TLAPS

Inv == TypeOK /\ CountersMatchState /\ CountIsStreak

LEMMA RaisedType ==
    ASSUME TypeOK, NEW t \in Tasks, pc[t] # "idle", Raised(t) \/ Finish(t)
    PROVE  /\ pc' \in [Tasks -> {"idle", "ready", "running", "backoff"}]
           /\ attempt' \in [Tasks -> 0..MaxAttempts]
           /\ \A u \in Tasks : /\ pc'[u] = "idle" => attempt'[u] = 0
                               /\ pc'[u] = "backoff" => attempt'[u] < MaxAttempts
<1> USE ResilienceAssumption DEF TypeOK, Goto
<1>1. CASE Finish(t)
  BY <1>1 DEF Finish
<1>2. CASE attempt[t] < MaxAttempts /\ Goto(t, "backoff") /\ UNCHANGED attempt
  BY <1>2
<1> QED BY <1>1, <1>2 DEF Raised

LEMMA InitInv == Init => Inv
<1> SUFFICES ASSUME Init PROVE Inv
  OBVIOUS
<1>1. cooling \in BOOLEAN
  BY DEF Init
<1>2. CountersMatchState /\ CountIsStreak
  BY ResilienceAssumption DEF Init, CountersMatchState, CountIsStreak
<1>3. TypeOK
  BY <1>1, ResilienceAssumption DEF Init, TypeOK
<1> QED BY <1>2, <1>3 DEF Inv

(* A report on the breaker keeps the counters in step with the state.      *)
LEMMA ReportInv ==
    ASSUME Inv, OnSuccess \/ OnFailure
    PROVE  /\ state' \in {"closed", "open", "half_open"}
           /\ failures' \in 0..FailureThreshold /\ successes' \in 0..SuccessThreshold
           /\ cooling' \in BOOLEAN /\ streak' \in 0..FailureThreshold
           /\ CountersMatchState' /\ CountIsStreak'
<1> USE ResilienceAssumption DEF Inv, TypeOK, CountersMatchState, CountIsStreak
<1>1. CASE OnSuccess
  BY <1>1 DEF OnSuccess
<1>2. CASE OnFailure
  <2>1. CASE state = "half_open"
    BY <1>2, <2>1 DEF OnFailure, Bump
  <2>2. CASE state # "half_open"
    BY <1>2, <2>2 DEF OnFailure, Bump
  <2> QED BY <2>1, <2>2
<1> QED BY <1>1, <1>2

LEMMA NextInv == Inv /\ [Next]_vars => Inv'
<1> SUFFICES ASSUME Inv, [Next]_vars PROVE Inv'
  OBVIOUS
<1> USE DEF Inv
<1>1. ASSUME NEW t \in Tasks, Attempt(t) PROVE Inv'
  BY <1>1, ResilienceAssumption
     DEF Attempt, Goto, breaker, TypeOK, CountersMatchState, CountIsStreak
<1>2. ASSUME NEW t \in Tasks, Admit(t) PROVE Inv'
  BY <1>2, ResilienceAssumption
     DEF Admit, Goto, TypeOK, CountersMatchState, CountIsStreak
<1>3. ASSUME NEW t \in Tasks, Reject(t) \/ Cancel(t) PROVE Inv'
  BY <1>3, RaisedType
     DEF Reject, Cancel, breaker, TypeOK, CountersMatchState, CountIsStreak
<1>4. ASSUME NEW t \in Tasks, Succeeds(t) \/ Fails(t) PROVE Inv'
  <2>1. (OnSuccess \/ OnFailure) /\ pc[t] # "idle" /\ (Raised(t) \/ Finish(t))
    BY <1>4 DEF Succeeds, Fails
  <2> QED BY <2>1, RaisedType, ReportInv DEF TypeOK
<1>5. ASSUME TimePasses \/ Reset PROVE Inv'
  <2>1. cooling' \in BOOLEAN
    BY <1>5 DEF TimePasses, Reset
  <2>2. CASE UNCHANGED <<state, failures, successes, streak, pc, attempt>>
    BY <2>1, <2>2 DEF TypeOK, CountersMatchState, CountIsStreak
  <2>3. CASE Reset
    BY <2>1, <2>3, ResilienceAssumption
       DEF Reset, TypeOK, CountersMatchState, CountIsStreak
  <2> QED BY <1>5, <2>2, <2>3 DEF TimePasses
<1>6. CASE UNCHANGED vars
  BY <1>6 DEF vars, TypeOK, CountersMatchState, CountIsStreak
<1> QED BY <1>1, <1>2, <1>3, <1>4, <1>5, <1>6 DEF Next

LEMMA Invariance == Spec => []Inv
<1> QED BY InitInv, NextInv, PTL DEF Spec

(* The counters match the state of the circuit, for every interleaving of  *)
(* admissions, late reports and resets.                                    *)
THEOREM CountersCorrect == Spec => [](TypeOK /\ CountersMatchState /\ CountIsStreak)
<1> QED BY Invariance, PTL DEF Inv

(* A closed circuit opens only after failure_threshold consecutive         *)
(* failures.                                                               *)
THEOREM OpensOnlyAfterConsecutiveFailures == Spec => OpensAfterConsecutiveFailures
<1>1. Inv /\ [Next]_vars
        => [state = "closed" /\ state' = "open" => streak' = FailureThreshold]_vars
  <2> SUFFICES ASSUME Inv, Next, state = "closed", state' = "open"
               PROVE  streak' = FailureThreshold
    OBVIOUS
  <2>1. OnFailure
    BY DEF Next, Attempt, Admit, Reject, Succeeds, Fails, Cancel, TimePasses, Reset,
         OnSuccess, breaker
  <2> QED
    BY <2>1, ResilienceAssumption
       DEF OnFailure, Bump, Inv, TypeOK, CountersMatchState, CountIsStreak
<1> QED BY <1>1, Invariance, PTL DEF Spec, OpensAfterConsecutiveFailures
=============================================================================
