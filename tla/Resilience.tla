----------------------------- MODULE Resilience -----------------------------
(***************************************************************************)
(* The circuit breaker and retry decorators of merlya/core/resilience.py   *)
(* around one function, called by concurrent tasks: @retry outside,        *)
(* @circuit_breaker inside.  The breaker's lock is released while the      *)
(* function runs, so a call may be admitted in one state of the circuit    *)
(* and report in another.                                                  *)
(***************************************************************************)
EXTENDS Naturals

CONSTANTS Tasks,              \* callers of the decorated function
          FailureThreshold,   \* failure_threshold
          SuccessThreshold,   \* success_threshold
          MaxAttempts         \* max_attempts of the retry decorator

ASSUME ResilienceAssumption ==
    /\ FailureThreshold \in Nat \ {0}
    /\ SuccessThreshold \in Nat \ {0}
    /\ MaxAttempts \in Nat \ {0}

VARIABLES state,      \* closed, open or half_open
          failures,   \* failure_count, saturated at the threshold
          successes,  \* success_count
          cooling,    \* less than recovery_timeout since last_failure_time
          pc,         \* per task: idle, ready, running or backoff
          attempt,    \* per task: attempts begun by the retry loop
          streak      \* history: how many calls in a row have failed, in the
                      \* order they reported (saturated at the threshold)

breaker == <<state, failures, successes, cooling, streak>>
vars == <<state, failures, successes, cooling, streak, pc, attempt>>

Bump(n) == IF n < FailureThreshold THEN n + 1 ELSE n

Init == /\ state = "closed" /\ failures = 0 /\ successes = 0
        /\ cooling = FALSE /\ streak = 0
        /\ pc = [t \in Tasks |-> "idle"]
        /\ attempt = [t \in Tasks |-> 0]

Goto(t, where) == pc' = [pc EXCEPT ![t] = where]

Finish(t) == Goto(t, "idle") /\ attempt' = [attempt EXCEPT ![t] = 0]

(* The wrapper of retry catches an exception: sleep and try again, or let  *)
(* the last one through.                                                   *)
Raised(t) == IF attempt[t] < MaxAttempts
             THEN Goto(t, "backoff") /\ UNCHANGED attempt
             ELSE Finish(t)

(* Mutant: every attempt is taken for the first.                           *)
M_Attempt(t) == /\ pc[t] \in {"idle", "backoff"}
                /\ Goto(t, "ready")
                /\ attempt' = [attempt EXCEPT ![t] = 1]
                /\ UNCHANGED breaker

(* A call of the decorated function, or the end of a backoff.              *)
Attempt(t) == /\ pc[t] \in {"idle", "backoff"}
              /\ Goto(t, "ready")
              /\ attempt' = [attempt EXCEPT ![t] = @ + 1]
              /\ UNCHANGED breaker

(* CircuitBreaker.call up to the await: the call is admitted; an open      *)
(* circuit whose timeout has passed becomes half-open.                     *)
Admit(t) ==
    /\ pc[t] = "ready"
    /\ state = "open" => ~cooling
    /\ state' = IF state = "open" THEN "half_open" ELSE state
    /\ successes' = IF state = "open" THEN 0 ELSE successes
    /\ Goto(t, "running")
    /\ UNCHANGED <<failures, cooling, streak, attempt>>

(* CircuitBreakerOpenError.                                                *)
Reject(t) == /\ pc[t] = "ready" /\ state = "open" /\ cooling
             /\ Raised(t)
             /\ UNCHANGED breaker

(* Mutant: a success leaves failure_count alone in the closed state.       *)
M_OnSuccess ==
    /\ LET closes == state = "half_open" /\ successes + 1 >= SuccessThreshold
       IN /\ state' = IF closes THEN "closed" ELSE state
          /\ failures' = IF closes THEN 0 ELSE failures
          /\ successes' = IF closes THEN 0
                          ELSE IF state = "half_open" THEN successes + 1 ELSE successes
    /\ streak' = 0
    /\ UNCHANGED cooling

(* _on_success.                                                            *)
OnSuccess ==
    /\ LET closes == state = "half_open" /\ successes + 1 >= SuccessThreshold
       IN /\ state' = IF closes THEN "closed" ELSE state
          /\ failures' = IF closes \/ state = "closed" THEN 0 ELSE failures
          /\ successes' = IF closes THEN 0
                          ELSE IF state = "half_open" THEN successes + 1 ELSE successes
    /\ streak' = 0
    /\ UNCHANGED cooling

(* Mutant: reopening forgets to reset success_count.                       *)
M_OnFailure ==
    /\ failures' = Bump(failures)
    /\ cooling' = TRUE
    /\ state' = IF state = "half_open" \/ (state = "closed" /\ failures' = FailureThreshold)
                THEN "open" ELSE state
    /\ UNCHANGED successes
    /\ streak' = Bump(streak)

(* _on_failure.                                                            *)
OnFailure ==
    /\ failures' = Bump(failures)
    /\ cooling' = TRUE
    /\ state' = IF state = "half_open" \/ (state = "closed" /\ failures' = FailureThreshold)
                THEN "open" ELSE state
    /\ successes' = IF state = "half_open" THEN 0 ELSE successes
    /\ streak' = Bump(streak)

Succeeds(t) == pc[t] = "running" /\ OnSuccess /\ Finish(t)

Fails(t) == pc[t] = "running" /\ OnFailure /\ Raised(t)

(* CancelledError passes both decorators uncaught and is not counted.      *)
Cancel(t) == pc[t] # "idle" /\ Finish(t) /\ UNCHANGED breaker

(* Mutant: an open circuit has to be reset by hand.                        *)
M_TimePasses == cooling /\ state # "open" /\ cooling' = FALSE
                /\ UNCHANGED <<state, failures, successes, streak, pc, attempt>>

TimePasses == cooling /\ cooling' = FALSE
              /\ UNCHANGED <<state, failures, successes, streak, pc, attempt>>

(* reset(); the calls in progress will report to the reset breaker.        *)
Reset == /\ state' = "closed" /\ failures' = 0 /\ successes' = 0 /\ cooling' = FALSE
         /\ UNCHANGED <<streak, pc, attempt>>

Next == \/ \E t \in Tasks : \/ Attempt(t) \/ Admit(t) \/ Reject(t)
                            \/ Succeeds(t) \/ Fails(t) \/ Cancel(t)
        \/ TimePasses \/ Reset

Spec == Init /\ [][Next]_vars

(* A task in a call is scheduled, its function and its sleep end, and the  *)
(* clock advances; nobody has to call again.                               *)
Fairness ==
    /\ WF_vars(TimePasses)
    /\ \A t \in Tasks :
          WF_vars(Admit(t) \/ Reject(t) \/ Succeeds(t) \/ Fails(t)
                  \/ (pc[t] = "backoff" /\ Attempt(t)))

FairSpec == Spec /\ Fairness

-----------------------------------------------------------------------------
TypeOK == /\ state \in {"closed", "open", "half_open"}
          /\ failures \in 0..FailureThreshold
          /\ successes \in 0..SuccessThreshold
          /\ cooling \in BOOLEAN
          /\ streak \in 0..FailureThreshold
          /\ pc \in [Tasks -> {"idle", "ready", "running", "backoff"}]
          /\ attempt \in [Tasks -> 0..MaxAttempts]
          /\ \A t \in Tasks : /\ pc[t] = "idle" => attempt[t] = 0
                              /\ pc[t] = "backoff" => attempt[t] < MaxAttempts

(* The counters mean what the state says, although calls admitted in one   *)
(* state report in another and a reset may come between (_on_success,      *)
(* _on_failure): closed is below the failure threshold, open and half-open *)
(* are at it, and successes are counted in half-open only.                 *)
CountersMatchState ==
    /\ state = "closed" <=> failures < FailureThreshold
    /\ state # "half_open" => successes = 0
    /\ successes < SuccessThreshold

(* The documented rule "open circuit after 5 consecutive failures": a      *)
(* closed circuit opens only when the last failure_threshold calls to      *)
(* report have all failed, however many tasks call at once.                *)
OpensAfterConsecutiveFailures ==
    [][state = "closed" /\ state' = "open" => streak' = FailureThreshold]_vars

(* Why: in the closed state the count never exceeds the failures in a row. *)
CountIsStreak == state = "closed" => failures <= streak

(* The documented "auto-recovers": if from some point on no call fails or  *)
(* is cancelled and calls keep coming, the circuit ends up closed.  (A     *)
(* last attempt that is rejected changes what a cancellation would.)       *)
Recovers ==
    (/\ <>[][\A t \in Tasks : Fails(t) \/ Cancel(t) => Succeeds(t) \/ Reject(t)]_vars
     /\ []<>(\E t \in Tasks : pc[t] = "ready"))
    => <>[](state = "closed")

(* Every call of the decorated function returns or raises.                 *)
CallsEnd == \A t \in Tasks : pc[t] # "idle" ~> pc[t] = "idle"
=============================================================================
