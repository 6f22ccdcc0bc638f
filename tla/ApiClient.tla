----------------------------- MODULE ApiClient -----------------------------
(***************************************************************************)
(* internal/client over internal/retry, internal/ratelimit and the circuit *)
(* breaker: what happens to one API call.  SendWithContext waits for the   *)
(* quota, asks the breaker, and inside it attempts the request up to       *)
(* MaxAttempts times; GraphQL calls take the same way through retry.Do.    *)
(*                                                                         *)
(* GitHub is modelled from the way it is used: it may carry a request out  *)
(* and have its answer lost, and answers of one quota window can arrive in *)
(* any order, or after the window.  The service layer passes no context    *)
(* that is ever cancelled, so the ctx.Done() branches are left out.        *)
(***************************************************************************)
EXTENDS CircuitBreaker

CONSTANTS
  Kinds,         \* the kinds of request the callers make, a subset of AllKinds
  MaxAttempts,   \* RetryConfig.MaxAttempts
  Quota          \* requests GitHub grants per window and resource

\* A request without a body (GET, DELETE, a rerun's POST), one with a JSON
\* body (POST, PUT, PATCH), a GraphQL query, whose body is built anew for each
\* attempt, and a GET of the path "/search" itself, which the client knows and no
\* caller asks for: the searches of this program are GraphQL queries.
AllKinds == {"plain", "body", "graphql", "search"}

ASSUME ClientAssumption ==
  /\ Kinds \subseteq AllKinds
  /\ MaxAttempts \in Nat \ {0}
  /\ Quota \in Nat \ {0}

VARIABLES
  phase,     \* where each caller stands in its call
  kind,      \* the kind of its request
  attempt,   \* DoHTTP's attempt
  spent,     \* the request's body reader has been read to its end
  reply,     \* the answer on its way to the caller
  verdict,   \* what DoHTTP or Do has returned
  outcome,   \* what the whole call returned
  effects,   \* history: how often GitHub has carried this call's request out,
             \* counted up to MaxAttempts
  quota,     \* GitHub: requests left in the current window, per resource
  limits     \* rl.limits, per resource

call == <<phase, kind, attempt, spent, reply, verdict, outcome, effects>>
rate == <<quota, limits>>
clientVars == <<vars, call, rate>>

Resources == {"core", "graphql", "search"}

\* determineResource.
Resource(k) == IF k \in {"graphql", "search"} THEN k ELSE "core"

\* What a response's quota headers say: the requests left, and whether the
\* window they speak of is still the current one (ResetTime in the future).
Info == [left : 0..Quota, fresh : BOOLEAN]

Unknown == [left |-> Quota, fresh |-> FALSE]

\* Headers that are not there: nothing left, until 1970.
Headless == [left |-> 0, fresh |-> FALSE]

Statuses == {"ok", "refusal", "unavailable", "network"}

Phases == {"none", "limited", "ready", "sending", "inflight", "replied", "backoff", "done"}

ClientTypeOK ==
  /\ TypeOK
  /\ phase \in [Callers -> Phases]
  /\ kind \in [Callers -> AllKinds]
  /\ attempt \in [Callers -> 0..MaxAttempts]
  /\ spent \in [Callers -> BOOLEAN]
  /\ reply \in [Callers -> [status : Statuses, info : Info]]
  /\ verdict \in [Callers -> {"ok", "error"}]
  /\ outcome \in [Callers -> {"none", "ok", "error", "refused", "panic"}]
  /\ effects \in [Callers -> 0..MaxAttempts]
  /\ quota \in [Resources -> 0..Quota]
  /\ limits \in [Resources -> Info]

NoReply == [status |-> "network", info |-> Unknown]

ClientInit ==
  /\ Init
  /\ phase = [c \in Callers |-> "none"]
  /\ kind = [c \in Callers |-> "plain"]
  /\ attempt = [c \in Callers |-> 0]
  /\ spent = [c \in Callers |-> FALSE]
  /\ reply = [c \in Callers |-> NoReply]
  /\ verdict = [c \in Callers |-> "error"]
  /\ outcome = [c \in Callers |-> "none"]
  /\ effects = [c \in Callers |-> 0]
  /\ quota = [r \in Resources |-> Quota]
  /\ limits = [r \in Resources |-> Unknown]

Running == \A c \in Callers : outcome[c] # "panic"

Goto(c, p) == phase' = [phase EXCEPT ![c] = p]

\* The call returns o; what it held on its stack is gone.
EndCall(c, o) ==
  /\ Goto(c, "none")
  /\ outcome' = [outcome EXCEPT ![c] = o]
  /\ attempt' = [attempt EXCEPT ![c] = 0]
  /\ spent' = [spent EXCEPT ![c] = FALSE]
  /\ verdict' = [verdict EXCEPT ![c] = "error"]
  /\ kind' = [kind EXCEPT ![c] = "plain"]
  /\ effects' = [effects EXCEPT ![c] = 0]
  /\ UNCHANGED reply

-----------------------------------------------------------------------------
(* The rate limiter and the breaker, in front of the attempts.             *)

\* Mutant: WaitIfNeeded looks at Remaining and not at ResetTime.
ExhaustedForever(r) == limits[r].left = 0

Exhausted(r) == limits[r].left = 0 /\ limits[r].fresh

\* WaitIfNeeded reads the limits once; what they become later, the caller does
\* not look at again.
BeginCall(c, k) ==
  /\ phase[c] = "none"
  /\ Goto(c, IF Exhausted(Resource(k)) THEN "limited" ELSE "ready")
  /\ kind' = [kind EXCEPT ![c] = k]
  /\ outcome' = [outcome EXCEPT ![c] = "none"]
  /\ UNCHANGED <<vars, attempt, spent, reply, verdict, effects, rate>>

\* A new window at GitHub: every reset time known so far is in the past, and
\* the timers of those who waited for it fire.
WindowReset(r) ==
  LET waiting == {c \in Callers : phase[c] = "limited" /\ Resource(kind[c]) = r}
      replies == {c \in Callers : Resource(kind[c]) = r}
  IN /\ quota' = [quota EXCEPT ![r] = Quota]
     /\ limits' = [limits EXCEPT ![r].fresh = FALSE]
     /\ reply' = [c \in Callers |-> IF c \in replies
                    THEN [reply[c] EXCEPT !.info.fresh = FALSE] ELSE reply[c]]
     /\ phase' = [c \in Callers |-> IF c \in waiting THEN "ready" ELSE phase[c]]
     /\ UNCHANGED <<vars, kind, attempt, spent, verdict, outcome, effects>>

Admit(c) ==
  /\ phase[c] = "ready"
  /\ AllowRequest(c)
  /\ Goto(c, "sending")
  /\ attempt' = [attempt EXCEPT ![c] = 1]
  /\ UNCHANGED <<kind, spent, reply, verdict, outcome, effects, rate>>

Refuse(c) ==
  /\ phase[c] = "ready"
  /\ DenyRequest(c)
  /\ UNCHANGED <<call, rate>>

\* Execute returns getError's verdict.  When that is nil although nothing ran,
\* a REST call goes on to read the body of a response it does not have, and a
\* GraphQL call reports success.
ReturnRefusal(c) ==
  /\ phase[c] = "ready"
  /\ GetError(c)
  /\ EndCall(c, IF ErrorFor(state) # "nil" THEN "refused"
                ELSE IF kind[c] = "graphql" THEN "ok" ELSE "panic")
  /\ UNCHANGED rate

-----------------------------------------------------------------------------
(* DoHTTP and Do: one attempt after the other.                             *)

\* isRetryableError: the status codes of RetryableErrors and every transport
\* error; the error of the GraphQL library hides the status code.
Retryable(k, status) ==
  status = "network" \/ (status = "unavailable" /\ k # "graphql")

AttemptEnded(c, status) ==
  /\ Goto(c, IF status # "ok" /\ Retryable(kind[c], status) /\ attempt[c] < MaxAttempts
               THEN "backoff" ELSE "done")
  /\ verdict' = [verdict EXCEPT ![c] = IF status = "ok" THEN "ok" ELSE "error"]

\* Mutant: each attempt sends the body from its beginning.
SendRewound(c) ==
  /\ phase[c] = "sending"
  /\ Goto(c, "inflight")
  /\ UNCHANGED <<vars, kind, attempt, spent, reply, verdict, outcome, effects, rate>>

\* req.Clone shares the body's reader: what an earlier attempt has read is gone,
\* and the transport fails such a request before GitHub gets the whole of it.
Send(c) ==
  /\ phase[c] = "sending"
  /\ ~spent[c]
  /\ Goto(c, "inflight")
  /\ spent' = [spent EXCEPT ![c] = kind[c] = "body"]
  /\ UNCHANGED <<vars, kind, attempt, reply, verdict, outcome, effects, rate>>

\* The attempt fails before GitHub has the request.
FailToSend(c) ==
  /\ phase[c] = "sending"
  /\ AttemptEnded(c, "network")
  /\ UNCHANGED <<vars, kind, attempt, spent, reply, outcome, effects, rate>>

\* GitHub answers (external): it has carried the request out when it says so,
\* and it may have done so too when a gateway answers in its place.
Serve(c, status, carriedOut) ==
  LET r == Resource(kind[c]) IN
  /\ phase[c] = "inflight"
  /\ IF quota[r] = 0 THEN status \in {"refusal", "unavailable"} /\ ~carriedOut
                     ELSE /\ status = "ok" => carriedOut
                          /\ status = "refusal" => ~carriedOut
  /\ quota' = [quota EXCEPT ![r] = IF @ = 0 THEN 0 ELSE @ - 1]
  /\ reply' = [reply EXCEPT ![c] =
       [status |-> status, info |-> [left |-> quota'[r], fresh |-> TRUE]]]
  /\ effects' = [effects EXCEPT ![c] =
       IF carriedOut THEN UpTo(MaxAttempts, @ + 1) ELSE @]
  /\ Goto(c, "replied")
  /\ UNCHANGED <<vars, kind, attempt, spent, verdict, outcome, limits>>

\* The client's timeout, or a broken connection: with or without the request
\* having been carried out.
Lose(c) ==
  /\ phase[c] \in {"inflight", "replied"}
  /\ AttemptEnded(c, "network")
  /\ reply' = [reply EXCEPT ![c] = NoReply]
  /\ UNCHANGED <<vars, kind, attempt, spent, outcome, effects, rate>>

\* RoundTrip stores what the headers say, whatever it knew before; an answer
\* without them, a gateway's say, counts for core.  The status decides about
\* another attempt.
Receive(c, headers) ==
  /\ phase[c] = "replied"
  /\ limits' = IF headers THEN [limits EXCEPT ![Resource(kind[c])] = reply[c].info]
                          ELSE [limits EXCEPT !["core"] = Headless]
  /\ AttemptEnded(c, reply[c].status)
  /\ reply' = [reply EXCEPT ![c] = NoReply]
  /\ UNCHANGED <<vars, kind, attempt, spent, outcome, effects, quota>>

\* Mutant: an attempt that is repeated does not count.
RetryUncounted(c) ==
  /\ phase[c] = "backoff"
  /\ Goto(c, "sending")
  /\ UNCHANGED <<vars, kind, attempt, spent, reply, verdict, outcome, effects, rate>>

\* The delay is over.  The limiter is not asked again.
Retry(c) ==
  /\ phase[c] = "backoff"
  /\ Goto(c, "sending")
  /\ attempt' = [attempt EXCEPT ![c] = @ + 1]
  /\ UNCHANGED <<vars, kind, spent, reply, verdict, outcome, effects, rate>>

-----------------------------------------------------------------------------
\* Mutant: the error of the last attempt does not leave Execute.
CallFailsSilently(c) ==
  /\ phase[c] = "done" /\ verdict[c] = "error"
  /\ RecordFailure(c)
  /\ EndCall(c, "ok")
  /\ UNCHANGED rate

CallFails(c) ==
  /\ phase[c] = "done" /\ verdict[c] = "error"
  /\ RecordFailure(c)
  /\ EndCall(c, "error")
  /\ UNCHANGED rate

\* invokeAPIFull still has the body of the response to read, which can fail.
CallSucceeds(c, o) ==
  /\ phase[c] = "done" /\ verdict[c] = "ok"
  /\ RecordSuccess(c)
  /\ EndCall(c, o)
  /\ UNCHANGED rate

-----------------------------------------------------------------------------
CallStep(c) ==
  \/ Admit(c) \/ Refuse(c) \/ ReturnRefusal(c)
  \/ Send(c) \/ FailToSend(c) \/ (\E h \in BOOLEAN : Receive(c, h)) \/ Lose(c) \/ Retry(c)
  \/ CallFails(c)
  \/ \E o \in {"ok", "error"} : CallSucceeds(c, o)

Github ==
  \/ \E r \in Resources : WindowReset(r)
  \/ \E c \in Callers, s \in {"ok", "refusal", "unavailable"}, b \in BOOLEAN : Serve(c, s, b)

ClockTick == Tick /\ UNCHANGED <<call, rate>>

ClientNext ==
  /\ Running
  /\ \/ \E c \in Callers, k \in Kinds : BeginCall(c, k)
     \/ \E c \in Callers : CallStep(c)
     \/ Github
     \/ ClockTick

ClientSpec == ClientInit /\ [][ClientNext]_clientVars

\* Every caller goes on: the timeout of the HTTP client ends each attempt.
\* Each window ends some time.  GitHub owes nobody an answer.
ClientFairness ==
  /\ \A c \in Callers : WF_clientVars(Running /\ CallStep(c))
  /\ \A r \in Resources : WF_clientVars(Running /\ WindowReset(r))

FairClientSpec == ClientSpec /\ ClientFairness

-----------------------------------------------------------------------------
\* A request with a body is carried out at most once, however many attempts are
\* made and wherever answers are lost: no branch, tag or pull request is made
\* twice.  (The spent body is all that keeps it so: doSingleRequest.)
BodyAtMostOnce == \A c \in Callers : kind[c] = "body" => effects[c] <= 1

\* A REST call that reports success was carried out by GitHub in this very call.
SuccessIsCarriedOut ==
  [][\A c \in Callers :
       phase[c] # "none" /\ phase'[c] = "none" /\ outcome'[c] = "ok" /\ kind[c] # "graphql"
         => effects[c] > 0]_clientVars

\* Nobody waits for a window to end that still has requests to give: answers
\* that come late or out of order never hold back a call for nothing.
WaitsForGoodReason ==
  \A c \in Callers : phase[c] = "limited" => quota[Resource(kind[c])] = 0

\* Every call comes to an end, unless the process does.
CallsReturn ==
  \A c \in Callers : phase[c] # "none" ~> (phase[c] = "none" \/ ~Running)

\* No request leaves while the client knows that the quota is used up
\* (docs/development.md:153 "reads GitHub's quota headers and paces requests").
\* The code does not keep this: the limiter is asked once per call, before the
\* breaker and outside the attempts.
PacesRequests ==
  [][\A c \in Callers : Send(c) => ~Exhausted(Resource(kind[c]))]_clientVars
=============================================================================
