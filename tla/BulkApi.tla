------------------------------ MODULE BulkApi ------------------------------
(***************************************************************************)
(* A bulk command on the network: the workers of Processor share the one   *)
(* circuit breaker of the process, and the operation on a repository is    *)
(* one API call (executeRequestWithRetry) whose final error, a 404 as much *)
(* as a 500, both fails the repository and counts as a breaker failure.    *)
(***************************************************************************)
EXTENDS Processor

CONSTANTS MaxFailures, MaxRequests, Timeout   \* circuitbreaker.Config

ASSUME BreakerAssumption ==
  MaxFailures \in Nat \ {0} /\ MaxRequests \in Nat \ {0} /\ Timeout \in Nat

VARIABLES state, failures, requests, age, pc, result, streak,   \* CircuitBreaker's
          failing,   \* the repositories on which the call itself fails
          refused,   \* history: jobs that failed because the breaker refused them
          crashed    \* a worker went on without a response to read

CB == INSTANCE CircuitBreaker WITH Callers <- Workers

cb == <<state, failures, requests, age, pc, result, streak>>
extra == <<failing, refused, crashed>>
bulkVars == <<vars, cb, extra>>

BulkTypeOK ==
  /\ TypeOK
  /\ CB!TypeOK
  /\ failing \subseteq Jobs /\ refused \subseteq Jobs
  /\ crashed \in BOOLEAN

BulkInit ==
  /\ Init
  /\ CB!Init
  /\ failing \in SUBSET Jobs
  /\ refused = {}
  /\ crashed = FALSE

-----------------------------------------------------------------------------
(* The operation handler: one call through Execute.                        *)

CallAdmitted(w) ==
  /\ wpc[w] = "handling"
  /\ CB!AllowRequest(w)
  /\ UNCHANGED <<vars, extra>>

CallRefused(w) ==
  /\ wpc[w] = "handling"
  /\ CB!DenyRequest(w)
  /\ UNCHANGED <<vars, extra>>

\* Mutant: a refused call is tried again, as if it had met a transient error.
RefusalRetried(w) ==
  /\ CB!GetError(w)
  /\ UNCHANGED <<vars, extra>>

\* The refused repository fails with the breaker's error.  Without an error
\* there is no response either, and reading it takes the process down.
RefusalReturned(w) ==
  /\ CB!GetError(w)
  /\ UNCHANGED failing
  /\ IF CB!ErrorFor(state) = "nil"
       THEN crashed' = TRUE /\ UNCHANGED <<vars, refused>>
       ELSE /\ Operate(w, "error")
            /\ refused' = refused \cup {wjob[w]}
            /\ UNCHANGED crashed

CallFailed(w) ==
  /\ CB!RecordFailure(w)
  /\ wjob[w] \in failing
  /\ Operate(w, "error")
  /\ UNCHANGED extra

CallSucceeded(w) ==
  /\ CB!RecordSuccess(w)
  /\ wjob[w] \notin failing
  /\ Operate(w, "ok")
  /\ UNCHANGED extra

-----------------------------------------------------------------------------
OperateStep(w) ==
  CallAdmitted(w) \/ CallRefused(w) \/ RefusalReturned(w) \/ CallFailed(w) \/ CallSucceeded(w)

PoolStep(w) == (TakeJob(w) \/ Exit(w) \/ Send(w)) /\ UNCHANGED <<cb, extra>>

BulkStep ==
  \/ (\E j \in Jobs : AddJob(j)) /\ UNCHANGED <<cb, extra>>
  \/ MainStep /\ UNCHANGED <<cb, extra>>
  \/ DrainStep /\ UNCHANGED <<cb, extra>>
  \/ CB!Tick /\ UNCHANGED <<vars, extra>>
  \/ \E w \in Workers : OperateStep(w) \/ PoolStep(w)

\* A panic in any goroutine ends the process.
BulkNext ==
  \/ ~crashed /\ BulkStep
  \/ (crashed \/ main = "done") /\ UNCHANGED bulkVars

BulkSpec == BulkInit /\ [][BulkNext]_bulkVars

BulkFairness ==
  /\ WF_bulkVars(~crashed /\ \E j \in Jobs : AddJob(j) /\ UNCHANGED <<cb, extra>>)
  /\ WF_bulkVars(~crashed /\ MainStep /\ UNCHANGED <<cb, extra>>)
  /\ WF_bulkVars(~crashed /\ DrainStep /\ UNCHANGED <<cb, extra>>)
  /\ \A w \in Workers : WF_bulkVars(~crashed /\ (OperateStep(w) \/ PoolStep(w)))

FairBulkSpec == BulkSpec /\ BulkFairness

-----------------------------------------------------------------------------
\* Failures on fewer repositories than the breaker tolerates stay where they
\* are: every other repository is done, and nothing crashes.
FewFailuresContained ==
  Cardinality(failing) < MaxFailures =>
    /\ \A j \in Jobs \ failing : outcome[j] # "error"
    /\ ~crashed

\* The command returns whatever the breaker does to its repositories.
BulkTerminates == <>(main = "done" \/ crashed)

\* Only an endpoint that is failing is spared
\* (docs/development.md:153 "stops hammering an endpoint that is consistently
\* failing").  The code does not keep this: one breaker serves all endpoints.
OnlyFailingRefused == refused \subseteq failing
=============================================================================
