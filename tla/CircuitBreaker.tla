--------------------------- MODULE CircuitBreaker ---------------------------
(***************************************************************************)
(* internal/circuitbreaker: the breaker every API call of the process goes *)
(* through.  cb.mu makes allowRequest, getError, recordResult and Reset    *)
(* one atomic step each; Execute is NOT atomic: the function it guards     *)
(* runs, and a refused caller fetches its error, outside the lock.         *)
(*                                                                         *)
(* Time is abstracted to `age`, the ticks since lastFailureTime, which     *)
(* stops counting once it has passed Timeout: the code only ever compares  *)
(* the two.  For the same reason `failures` stops at MaxFailures.          *)
(***************************************************************************)
EXTENDS Naturals

CONSTANTS
  Callers,      \* the goroutines that call Execute, each one call at a time
  MaxFailures,  \* Config.MaxFailures
  MaxRequests,  \* Config.MaxRequests
  Timeout       \* Config.Timeout, in ticks of the clock

ASSUME ConfigAssumption ==
  /\ MaxFailures \in Nat \ {0}
  /\ MaxRequests \in Nat \ {0}
  /\ Timeout \in Nat

VARIABLES
  state,      \* cb.state
  failures,   \* cb.failures, counted up to MaxFailures
  requests,   \* cb.requests: successes recorded while half-open
  age,        \* ticks since cb.lastFailureTime, counted up to Timeout + 1
  pc,         \* where each caller stands in Execute
  result,     \* what its last Execute returned
  streak      \* history: the outcomes recorded last, successes and failures in a row

breaker == <<state, failures, requests, age>>
vars == <<state, failures, requests, age, pc, result, streak>>

Results == {"none", "nil", "error", "ErrCircuitOpen", "ErrTooManyRequests"}

TypeOK ==
  /\ state \in {"CLOSED", "HALF_OPEN", "OPEN"}
  /\ failures \in 0..MaxFailures
  /\ requests \in 0..MaxRequests
  /\ age \in 0..(Timeout + 1)
  /\ pc \in [Callers -> {"idle", "running", "denied"}]
  /\ result \in [Callers -> Results]
  /\ streak \in [ok : 0..MaxRequests, bad : 0..MaxFailures]

UpTo(limit, n) == IF n < limit THEN n ELSE limit

Expired == Timeout + 1

\* New: closed, nothing counted, and the zero time as lastFailureTime.
Init ==
  /\ state = "CLOSED"
  /\ failures = 0
  /\ requests = 0
  /\ age = Expired
  /\ pc = [c \in Callers |-> "idle"]
  /\ result = [c \in Callers |-> "none"]
  /\ streak = [ok |-> 0, bad |-> 0]

-----------------------------------------------------------------------------
(* Execute, one step per critical section.                                 *)

\* allowRequest's verdict.
Admits ==
  \/ state = "CLOSED"
  \/ state = "OPEN" /\ age > Timeout
  \/ state = "HALF_OPEN" /\ requests < MaxRequests

\* Mutant: the probe counter survives from the previous half-open period.
AllowRequestKeepsRequests(c) ==
  /\ pc[c] = "idle"
  /\ Admits
  /\ pc' = [pc EXCEPT ![c] = "running"]
  /\ result' = [result EXCEPT ![c] = "none"]
  /\ state' = IF state = "OPEN" THEN "HALF_OPEN" ELSE state
  /\ UNCHANGED <<requests, failures, age, streak>>

\* allowRequest returns true: the first call after the timeout turns an open
\* breaker half-open and restarts the count of probes.
AllowRequest(c) ==
  /\ pc[c] = "idle"
  /\ Admits
  /\ pc' = [pc EXCEPT ![c] = "running"]
  /\ result' = [result EXCEPT ![c] = "none"]
  /\ IF state = "OPEN"
       THEN state' = "HALF_OPEN" /\ requests' = 0
       ELSE UNCHANGED <<state, requests>>
  /\ UNCHANGED <<failures, age, streak>>

\* allowRequest returns false; the lock is released before getError takes it.
DenyRequest(c) ==
  /\ pc[c] = "idle"
  /\ ~Admits
  /\ pc' = [pc EXCEPT ![c] = "denied"]
  /\ result' = [result EXCEPT ![c] = "none"]
  /\ UNCHANGED <<state, failures, requests, age, streak>>

\* getError reads the state as it is by now.
ErrorFor(s) ==
  CASE s = "OPEN"      -> "ErrCircuitOpen"
    [] s = "HALF_OPEN" -> "ErrTooManyRequests"
    [] s = "CLOSED"    -> "nil"

GetError(c) ==
  /\ pc[c] = "denied"
  /\ pc' = [pc EXCEPT ![c] = "idle"]
  /\ result' = [result EXCEPT ![c] = ErrorFor(state)]
  /\ UNCHANGED <<state, failures, requests, age, streak>>

\* recordSuccess on the fields.  A success while open, from a call admitted
\* before the breaker opened, counts for nothing.
CountSuccess ==
  \/ /\ state = "HALF_OPEN"
     /\ requests' = requests + 1
     /\ IF requests + 1 >= MaxRequests
          THEN state' = "CLOSED" /\ failures' = 0
          ELSE UNCHANGED <<state, failures>>
  \/ state = "CLOSED" /\ failures' = 0 /\ UNCHANGED <<state, requests>>
  \/ state = "OPEN" /\ UNCHANGED <<state, failures, requests>>

\* Mutant: a success leaves the failures of a closed breaker counted.
RecordSuccessKeepsFailures(c) ==
  /\ pc[c] = "running"
  /\ pc' = [pc EXCEPT ![c] = "idle"]
  /\ result' = [result EXCEPT ![c] = "nil"]
  /\ streak' = [ok |-> UpTo(MaxRequests, streak.ok + 1), bad |-> 0]
  /\ IF state = "CLOSED" THEN UNCHANGED <<state, failures, requests>> ELSE CountSuccess
  /\ UNCHANGED age

\* Mutant: a success is only counted in a closed breaker.
RecordSuccessIgnoresProbes(c) ==
  /\ pc[c] = "running"
  /\ pc' = [pc EXCEPT ![c] = "idle"]
  /\ result' = [result EXCEPT ![c] = "nil"]
  /\ streak' = [ok |-> UpTo(MaxRequests, streak.ok + 1), bad |-> 0]
  /\ failures' = IF state = "CLOSED" THEN 0 ELSE failures
  /\ UNCHANGED <<state, requests, age>>

RecordSuccess(c) ==
  /\ pc[c] = "running"
  /\ pc' = [pc EXCEPT ![c] = "idle"]
  /\ result' = [result EXCEPT ![c] = "nil"]
  /\ streak' = [ok |-> UpTo(MaxRequests, streak.ok + 1), bad |-> 0]
  /\ CountSuccess
  /\ UNCHANGED age

\* Mutant: the threshold is passed, not reached.
RecordFailureOffByOne(c) ==
  /\ pc[c] = "running"
  /\ pc' = [pc EXCEPT ![c] = "idle"]
  /\ result' = [result EXCEPT ![c] = "error"]
  /\ streak' = [ok |-> 0, bad |-> UpTo(MaxFailures, streak.bad + 1)]
  /\ failures' = UpTo(MaxFailures, failures + 1)
  /\ age' = 0
  /\ state' = IF state = "CLOSED" /\ failures < MaxFailures THEN "CLOSED" ELSE "OPEN"
  /\ UNCHANGED requests

\* Mutant: the failure is counted on entry and again on the way out.
RecordFailureTwice(c) ==
  /\ pc[c] = "running"
  /\ pc' = [pc EXCEPT ![c] = "idle"]
  /\ result' = [result EXCEPT ![c] = "error"]
  /\ streak' = [ok |-> 0, bad |-> UpTo(MaxFailures, streak.bad + 1)]
  /\ failures' = UpTo(MaxFailures, failures + 2)
  /\ age' = 0
  /\ state' = IF state = "CLOSED" /\ failures + 2 < MaxFailures THEN "CLOSED" ELSE "OPEN"
  /\ UNCHANGED requests

\* recordFailure.  A failure while open comes from a call admitted earlier:
\* it is counted and restarts the timeout.
RecordFailure(c) ==
  /\ pc[c] = "running"
  /\ pc' = [pc EXCEPT ![c] = "idle"]
  /\ result' = [result EXCEPT ![c] = "error"]
  /\ streak' = [ok |-> 0, bad |-> UpTo(MaxFailures, streak.bad + 1)]
  /\ failures' = UpTo(MaxFailures, failures + 1)
  /\ age' = 0
  /\ state' = IF state = "CLOSED" /\ failures + 1 < MaxFailures THEN "CLOSED" ELSE "OPEN"
  /\ UNCHANGED requests

-----------------------------------------------------------------------------
Reset ==
  /\ state' = "CLOSED"
  /\ failures' = 0
  /\ requests' = 0
  /\ age' = Expired
  /\ UNCHANGED <<pc, result, streak>>

Tick ==
  /\ age < Expired
  /\ age' = age + 1
  /\ UNCHANGED <<state, failures, requests, pc, result, streak>>

Calls ==
  \/ \E c \in Callers : AllowRequest(c)
  \/ \E c \in Callers : DenyRequest(c)
  \/ \E c \in Callers : GetError(c)
  \/ \E c \in Callers : RecordSuccess(c)
  \/ \E c \in Callers : RecordFailure(c)

Next == Calls \/ Reset \/ Tick

\* The breaker as the program uses it: nothing outside the tests calls Reset.
SpecInUse == Init /\ [][Calls \/ Tick]_vars

Spec == Init /\ [][Next]_vars

\* Time passes, the guarded function returns (the HTTP client has a timeout)
\* and a goroutine that is refused goes on to fetch its error.  Nobody is
\* obliged to call Execute or Reset.
Fairness ==
  /\ WF_vars(Tick)
  /\ \A c \in Callers : WF_vars(RecordSuccess(c) \/ RecordFailure(c))
  /\ \A c \in Callers : WF_vars(GetError(c))

FairSpec == Spec /\ Fairness

-----------------------------------------------------------------------------
\* A half-open breaker has a probe left to grant: if the counter could reach
\* its limit without closing the breaker, every later call would be refused
\* for ever, since only an admitted call can move it on (allowRequest:107).
HalfOpenStillAdmits == state = "HALF_OPEN" => requests < MaxRequests

\* The counters and the state agree: only a full count of failures keeps the
\* breaker away from CLOSED, and a closed breaker has room for one more.
CountersMatchState == (state = "CLOSED") <=> (failures < MaxFailures)

\* The breaker trips only at the end of MaxFailures failures in a row: a
\* success in between, by whichever goroutine, starts the count again.
TripsOnFailuresInARow ==
  [][state = "CLOSED" /\ state' = "OPEN" => streak'.bad = MaxFailures]_vars

\* Short of Reset the breaker closes only at the end of MaxRequests successes
\* in a row: successes of an earlier half-open period never count.
ClosesOnProbesInARow ==
  [][state # "CLOSED" /\ state' = "CLOSED" => Reset \/ streak'.ok = MaxRequests]_vars

\* If from some time on no call fails and calls keep arriving, the breaker
\* closes and stays closed: no interleaving of late results wedges it.
Recovers ==
  /\ <>[][\A c \in Callers : ~RecordFailure(c)]_vars
  /\ []<><<\E c \in Callers : AllowRequest(c) \/ DenyRequest(c)>>_vars
  => <>[](state = "CLOSED")

\* Every refused caller is told so: Execute returns nil only for a function it
\* ran ("Execute runs the given function through the circuit breaker").  The
\* code does NOT keep this: allowRequest and getError are two critical
\* sections, and by the second the breaker may have closed.
DeniedCallsReturnErrors ==
  [][\A c \in Callers : pc[c] = "denied" /\ pc'[c] = "idle" => result'[c] # "nil"]_vars
=============================================================================
