------------------------- MODULE SSHCircuitBreaker -------------------------
(***************************************************************************)
(* The circuit breaker the connection pool keeps for each host             *)
(* (merlya/ssh/circuit_breaker.py), as operators on one breaker object.    *)
(*                                                                         *)
(* A breaker is a record:                                                  *)
(*   state     CircuitState; "half_open" is a state of the code's type     *)
(*   failures  failure_count, saturated at the threshold: once the circuit *)
(*             is open the code reads the count only to display it         *)
(*   cooling   the last recorded failure is less than `timeout` seconds    *)
(*             old; it stands for last_failure_time and the clock          *)
(***************************************************************************)
EXTENDS Naturals

CONSTANT FailureThreshold

ASSUME ThresholdAssumption == FailureThreshold \in Nat \ {0}

CircuitState == {"closed", "open", "half_open"}

Breaker == [state: CircuitState, failures: 0..FailureThreshold, cooling: BOOLEAN]

NewBreaker == [state |-> "closed", failures |-> 0, cooling |-> FALSE]

(* An open circuit lets a command through once the timeout has elapsed.    *)
CanExecute(b) == b.state # "open" \/ ~b.cooling

Bump(n) == IF n < FailureThreshold THEN n + 1 ELSE n

(* Mutant: the count is compared before it is incremented.                 *)
M_OpensOnFailure(b) == \/ b.state = "closed" /\ b.failures = FailureThreshold
                       \/ b.state = "half_open"

OpensOnFailure(b) == \/ b.state = "closed" /\ Bump(b.failures) = FailureThreshold
                     \/ b.state = "half_open"

RecordFailure(b) == [state    |-> IF OpensOnFailure(b) THEN "open" ELSE b.state,
                     failures |-> Bump(b.failures),
                     cooling  |-> TRUE]

(* The branches of record_success: half-open closes, closed forgets one    *)
(* failure, and an open circuit is left as it is.                          *)
RecordSuccess(b) ==
    IF b.state = "half_open" THEN NewBreaker
    ELSE IF b.state = "closed" /\ b.failures > 0
         THEN [b EXCEPT !.failures = @ - 1]
         ELSE b

(* The clock passes last_failure_time + timeout.                           *)
CoolDown(b) == [b EXCEPT !.cooling = FALSE]
=============================================================================
