-------------------------- MODULE ApiClientProofs --------------------------
(***************************************************************************)
(* Theorems about the circuit breaker, for any number of callers and any   *)
(* thresholds, and about the API calls that go through it, for any number  *)
(* of attempts and any quota: the client uses the breaker as it is meant   *)
(* to be used, a request with a body is carried out at most once, and      *)
(* nobody waits for a window that still has requests to give.              *)
(***************************************************************************)
EXTENDS ApiClient, TLAPS

-----------------------------------------------------------------------------
(* The breaker alone.                                                      *)

\* What the thresholds need to be inductive: the failures a closed breaker has
\* counted are the last outcomes recorded, and so are the probes of a half-open
\* one, so a full count is a full streak.
CountsAreStreaks ==
  /\ state = "CLOSED" => failures <= streak.bad
  /\ state = "HALF_OPEN" => requests <= streak.ok

IInv ==
  /\ TypeOK
  /\ HalfOpenStillAdmits
  /\ CountersMatchState
  /\ CountsAreStreaks

\* Counting up to a limit stays within it and never loses a comparison with it.
LEMMA UpToBounds ==
  ASSUME NEW limit \in Nat \ {0}, NEW n \in 0..limit
  PROVE  /\ UpTo(limit, n + 1) \in 1..limit
         /\ n + 1 <= limit => UpTo(limit, n + 1) = n + 1
         /\ n + 1 >= limit => UpTo(limit, n + 1) = limit
  BY DEF UpTo

\* A new breaker satisfies the inductive invariant.
LEMMA InitIInv == Init => IInv
  BY ConfigAssumption DEF Init, IInv, TypeOK, HalfOpenStillAdmits, CountersMatchState,
     CountsAreStreaks, Expired, Results

\* Every step of the breaker keeps the inductive invariant.
LEMMA StepIInv == IInv /\ [Next]_vars => IInv'
<1> SUFFICES ASSUME IInv, [Next]_vars PROVE IInv'
  OBVIOUS
<1> USE ConfigAssumption DEF IInv, TypeOK, HalfOpenStillAdmits, CountersMatchState,
        CountsAreStreaks, Expired, Results
<1>1. ASSUME NEW c \in Callers, AllowRequest(c) PROVE IInv'
  BY <1>1 DEF AllowRequest, Admits
<1>2. ASSUME NEW c \in Callers, DenyRequest(c) PROVE IInv'
  BY <1>2 DEF DenyRequest
<1>3. ASSUME NEW c \in Callers, GetError(c) PROVE IInv'
  BY <1>3 DEF GetError, ErrorFor
<1>4. ASSUME NEW c \in Callers, RecordSuccess(c) PROVE IInv'
  <2>1. /\ streak' = [ok |-> UpTo(MaxRequests, streak.ok + 1), bad |-> 0]
        /\ CountSuccess
        /\ UNCHANGED age
        /\ pc' \in [Callers -> {"idle", "running", "denied"}]
        /\ result' \in [Callers -> Results]
    BY <1>4 DEF RecordSuccess
  <2>2. /\ UpTo(MaxRequests, streak.ok + 1) \in 1..MaxRequests
        /\ streak.ok + 1 <= MaxRequests => UpTo(MaxRequests, streak.ok + 1) = streak.ok + 1
        /\ streak.ok + 1 >= MaxRequests => UpTo(MaxRequests, streak.ok + 1) = MaxRequests
    BY UpToBounds
  <2>3. CASE state = "CLOSED"
    BY <2>1, <2>2, <2>3 DEF CountSuccess
  <2>4. CASE state = "HALF_OPEN"
    BY <2>1, <2>2, <2>4 DEF CountSuccess
  <2>5. CASE state = "OPEN"
    BY <2>1, <2>2, <2>5 DEF CountSuccess
  <2> QED BY <2>3, <2>4, <2>5
<1>5. ASSUME NEW c \in Callers, RecordFailure(c) PROVE IInv'
  <2>1. /\ UpTo(MaxFailures, streak.bad + 1) \in 1..MaxFailures
        /\ streak.bad + 1 <= MaxFailures => UpTo(MaxFailures, streak.bad + 1) = streak.bad + 1
        /\ streak.bad + 1 >= MaxFailures => UpTo(MaxFailures, streak.bad + 1) = MaxFailures
    BY UpToBounds
  <2>2. /\ UpTo(MaxFailures, failures + 1) \in 1..MaxFailures
        /\ failures + 1 <= MaxFailures => UpTo(MaxFailures, failures + 1) = failures + 1
        /\ failures + 1 >= MaxFailures => UpTo(MaxFailures, failures + 1) = MaxFailures
    BY UpToBounds
  <2> QED BY <1>5, <2>1, <2>2 DEF RecordFailure
<1>6. CASE Reset
  BY <1>6 DEF Reset
<1>7. CASE Tick
  BY <1>7 DEF Tick
<1>8. CASE UNCHANGED vars
  BY <1>8 DEF vars
<1> QED BY <1>1, <1>2, <1>3, <1>4, <1>5, <1>6, <1>7, <1>8 DEF Next, Calls

\* The inductive invariant holds throughout.
THEOREM Invariance == Spec => []IInv
  BY InitIInv, StepIInv, PTL DEF Spec

\* Every variable keeps its type, for every set of callers.
THEOREM TypeCorrect == Spec => []TypeOK
<1>1. IInv => TypeOK
  BY DEF IInv
<1> QED BY <1>1, Invariance, PTL

\* A half-open breaker always admits: it cannot wedge with its probe counter full.
THEOREM NeverWedged == Spec => []HalfOpenStillAdmits
<1>1. IInv => HalfOpenStillAdmits
  BY DEF IInv
<1> QED BY <1>1, Invariance, PTL

\* The breaker is away from CLOSED exactly while its failure count is full.
THEOREM CountersAgree == Spec => []CountersMatchState
<1>1. IInv => CountersMatchState
  BY DEF IInv
<1> QED BY <1>1, Invariance, PTL

\* Only MaxFailures failures in a row trip the breaker.
THEOREM TripsOnlyInARow == Spec => TripsOnFailuresInARow
<1>1. IInv /\ [Next]_vars
        => [state = "CLOSED" /\ state' = "OPEN" => streak'.bad = MaxFailures]_vars
  <2> SUFFICES ASSUME IInv, Next, state = "CLOSED", state' = "OPEN"
               PROVE  streak'.bad = MaxFailures
    BY DEF vars
  <2>1. PICK c \in Callers : RecordFailure(c)
    BY DEF Next, Calls, AllowRequest, DenyRequest, GetError, RecordSuccess, CountSuccess,
       Reset, Tick
  <2>2. failures + 1 >= MaxFailures /\ failures <= streak.bad /\ streak.bad \in 0..MaxFailures
    BY <2>1, ConfigAssumption DEF RecordFailure, IInv, TypeOK, CountsAreStreaks
  <2>3. UpTo(MaxFailures, streak.bad + 1) = MaxFailures
    BY <2>2, UpToBounds, ConfigAssumption DEF IInv, TypeOK
  <2> QED BY <2>1, <2>3 DEF RecordFailure
<1> QED BY <1>1, Invariance, PTL DEF Spec, TripsOnFailuresInARow

\* Short of Reset, only MaxRequests successes in a row close it again.
THEOREM ClosesOnlyInARow == Spec => ClosesOnProbesInARow
<1>1. IInv /\ [Next]_vars
        => [state # "CLOSED" /\ state' = "CLOSED" => Reset \/ streak'.ok = MaxRequests]_vars
  <2> SUFFICES ASSUME IInv, Next, state # "CLOSED", state' = "CLOSED", ~Reset
               PROVE  streak'.ok = MaxRequests
    BY DEF vars
  <2>1. PICK c \in Callers : RecordSuccess(c)
    BY DEF Next, Calls, AllowRequest, DenyRequest, GetError, RecordFailure, Tick
  <2>2. /\ requests + 1 >= MaxRequests /\ requests <= streak.ok
        /\ streak.ok \in 0..MaxRequests /\ requests \in 0..MaxRequests
    BY <2>1, ConfigAssumption DEF RecordSuccess, CountSuccess, IInv, TypeOK, CountsAreStreaks
  <2>3. UpTo(MaxRequests, streak.ok + 1) = MaxRequests
    BY <2>2, UpToBounds, ConfigAssumption
  <2> QED BY <2>1, <2>3 DEF RecordSuccess
<1> QED BY <1>1, Invariance, PTL DEF Spec, ClosesOnProbesInARow

-----------------------------------------------------------------------------
(* The breaker inside the client.                                          *)

\* What a call does to the breaker is a step of the breaker, or nothing.
LEMMA CallStepIsBreakerStep ==
  ASSUME NEW c \in Callers, CallStep(c)
  PROVE  [Calls]_vars
<1>1. CASE Admit(c)
  BY <1>1 DEF Admit, Calls
<1>2. CASE Refuse(c)
  BY <1>2 DEF Refuse, Calls
<1>3. CASE ReturnRefusal(c)
  BY <1>3 DEF ReturnRefusal, Calls
<1>4. CASE CallFails(c)
  BY <1>4 DEF CallFails, Calls
<1>5. CASE \E o \in {"ok", "error"} : CallSucceeds(c, o)
  BY <1>5 DEF CallSucceeds, Calls
<1>6. CASE Send(c) \/ FailToSend(c) \/ (\E h \in BOOLEAN : Receive(c, h)) \/ Lose(c) \/ Retry(c)
  BY <1>6 DEF Send, FailToSend, Receive, Lose, Retry
<1> QED
  BY <1>1, <1>2, <1>3, <1>4, <1>5, <1>6 DEF CallStep

\* SendWithContext and the GraphQL calls take every critical section of Execute
\* in its order: the client is one of the breaker's environments, and one that
\* never calls Reset.
THEOREM BreakerInClient == ClientSpec => SpecInUse
<1>1. ClientInit => Init
  BY DEF ClientInit
<1>2. [ClientNext]_clientVars => [Calls \/ Tick]_vars
  <2> SUFFICES ASSUME [ClientNext]_clientVars PROVE [Calls \/ Tick]_vars
    OBVIOUS
  <2>1. CASE \E c \in Callers, k \in Kinds : BeginCall(c, k)
    BY <2>1 DEF BeginCall
  <2>2. CASE \E c \in Callers : CallStep(c)
    BY <2>2, CallStepIsBreakerStep
  <2>3. CASE Github
    BY <2>3 DEF Github, WindowReset, Serve
  <2>4. CASE ClockTick
    BY <2>4 DEF ClockTick
  <2>5. CASE UNCHANGED clientVars
    BY <2>5 DEF clientVars
  <2> QED
    BY <2>1, <2>2, <2>3, <2>4, <2>5 DEF ClientNext
<1> QED
  BY <1>1, <1>2, PTL DEF ClientSpec, SpecInUse

\* So whatever is promised of the breaker is kept while API calls interleave:
\* it never wedges half-open, its counters match its state, and only failures
\* in a row trip it.
THEOREM BreakerKeepsItsPromises ==
  ClientSpec => /\ [](TypeOK /\ HalfOpenStillAdmits /\ CountersMatchState)
                /\ TripsOnFailuresInARow /\ ClosesOnProbesInARow
<1>1. [Calls \/ Tick]_vars => [Next]_vars
  BY DEF Next
<1>2. SpecInUse => Spec
  BY <1>1, PTL DEF SpecInUse, Spec
<1> QED
  BY <1>2, BreakerInClient, TypeCorrect, NeverWedged, CountersAgree, TripsOnlyInARow,
     ClosesOnlyInARow, PTL

-----------------------------------------------------------------------------
(* BodyAtMostOnce.                                                         *)

\* The parts of the state that are about one call.
CallTypes ==
  /\ DOMAIN phase = Callers /\ DOMAIN kind = Callers /\ DOMAIN spent = Callers
  /\ effects \in [Callers -> Nat]

\* A body that can still be sent has not been, and one under way has been read.
BodyInv ==
  /\ CallTypes
  /\ \A c \in Callers :
       /\ phase[c] = "none" => ~spent[c] /\ effects[c] = 0
       /\ kind[c] = "body" =>
            /\ effects[c] <= 1
            /\ ~spent[c] => effects[c] = 0
            /\ phase[c] = "inflight" => spent[c] /\ effects[c] = 0

LEMMA UpToIsNat == ASSUME NEW m \in Nat, NEW n \in Nat PROVE UpTo(m, n) \in 0..n
BY DEF UpTo

\* The call of c ends, whatever it returns.
LEMMA EndKeepsBody ==
  ASSUME BodyInv, NEW c \in Callers, NEW o, EndCall(c, o)
  PROVE  BodyInv'
BY DEF BodyInv, CallTypes, EndCall, Goto

\* What the limiter, the breaker and the delays do to the calls.
LEMMA GoKeepsBody ==
  ASSUME BodyInv, NEW c \in Callers, NEW p, p \notin {"none", "inflight"}, phase[c] # "none",
         phase' = [phase EXCEPT ![c] = p], UNCHANGED <<kind, spent, effects>>
  PROVE  BodyInv'
BY DEF BodyInv, CallTypes

LEMMA BeginKeepsBody ==
  ASSUME BodyInv, NEW c \in Callers, NEW k \in Kinds, BeginCall(c, k)
  PROVE  BodyInv'
<1>1. PICK p \in {"limited", "ready"} : phase' = [phase EXCEPT ![c] = p]
  BY DEF BeginCall, Goto
<1>2. kind' = [kind EXCEPT ![c] = k] /\ UNCHANGED <<spent, effects>> /\ phase[c] = "none"
  BY DEF BeginCall
<1> QED
  BY <1>1, <1>2 DEF BodyInv, CallTypes

LEMMA SendKeepsBody == ASSUME BodyInv, NEW c \in Callers, Send(c) PROVE BodyInv'
<1>1. /\ phase' = [phase EXCEPT ![c] = "inflight"] /\ spent' = [spent EXCEPT ![c] = kind[c] = "body"]
      /\ UNCHANGED <<kind, effects>> /\ phase[c] = "sending" /\ ~spent[c]
  BY DEF Send, Goto
<1>2. \A d \in Callers : d # c => phase'[d] = phase[d] /\ spent'[d] = spent[d]
  BY <1>1 DEF BodyInv, CallTypes
<1>3. phase'[c] = "inflight" /\ (kind[c] = "body" => spent'[c])
  BY <1>1 DEF BodyInv, CallTypes
<1>4. DOMAIN phase' = Callers /\ DOMAIN spent' = Callers
  BY <1>1 DEF BodyInv, CallTypes
<1> QED
  BY <1>1, <1>2, <1>3, <1>4 DEF BodyInv, CallTypes

LEMMA ServeKeepsBody ==
  ASSUME BodyInv, NEW c \in Callers, NEW status, NEW carriedOut \in BOOLEAN, Serve(c, status, carriedOut)
  PROVE  BodyInv'
<1>1. /\ phase' = [phase EXCEPT ![c] = "replied"] /\ UNCHANGED <<kind, spent>> /\ phase[c] = "inflight"
      /\ effects' = [effects EXCEPT ![c] = IF carriedOut THEN UpTo(MaxAttempts, @ + 1) ELSE @]
  BY DEF Serve, Goto
<1>2. UpTo(MaxAttempts, effects[c] + 1) \in 0..(effects[c] + 1)
  BY ClientAssumption, UpToIsNat DEF BodyInv, CallTypes
<1>3. /\ effects' \in [Callers -> Nat] /\ effects'[c] \in 0..(effects[c] + 1)
      /\ \A d \in Callers : d # c => effects'[d] = effects[d]
  BY <1>1, <1>2 DEF BodyInv, CallTypes
<1> QED
  BY <1>1, <1>3 DEF BodyInv, CallTypes

LEMMA StepKeepsBody == ASSUME BodyInv, NEW c \in Callers, CallStep(c) PROVE BodyInv'
<1>1. CASE Admit(c) \/ Retry(c)
  BY <1>1, GoKeepsBody DEF Admit, Retry, Goto
<1>2. CASE Refuse(c)
  BY <1>2 DEF Refuse, call, BodyInv, CallTypes
<1>3. CASE FailToSend(c) \/ (\E h \in BOOLEAN : Receive(c, h)) \/ Lose(c)
  <2>1. PICK p \in {"backoff", "done"} : phase' = [phase EXCEPT ![c] = p]
    BY <1>3 DEF FailToSend, Receive, Lose, AttemptEnded, Goto
  <2> QED
    BY <1>3, <2>1, GoKeepsBody DEF FailToSend, Receive, Lose
<1>4. CASE ReturnRefusal(c) \/ CallFails(c) \/ (\E o \in {"ok", "error"} : CallSucceeds(c, o))
  BY <1>4, EndKeepsBody DEF ReturnRefusal, CallFails, CallSucceeds
<1> QED
  BY <1>1, <1>2, <1>3, <1>4, SendKeepsBody DEF CallStep

LEMMA WindowKeepsBody == ASSUME BodyInv, NEW r \in Resources, WindowReset(r) PROVE BodyInv'
<1>1. /\ UNCHANGED <<kind, spent, effects>> /\ DOMAIN phase' = Callers
      /\ \A c \in Callers : phase'[c] = phase[c] \/ (phase[c] = "limited" /\ phase'[c] = "ready")
  BY DEF WindowReset
<1> QED
  BY <1>1 DEF BodyInv, CallTypes

\* BodyAtMostOnce: no branch, tag or pull request is made twice, however many
\* attempts DoHTTP makes and wherever answers are lost; the reader that an
\* attempt has spent (doSingleRequest) is what the proof rests on.
THEOREM NothingIsMadeTwice == ClientSpec => []BodyAtMostOnce
<1>1. ClientInit => BodyInv
  BY DEF ClientInit, BodyInv, CallTypes
<1>2. BodyInv /\ [ClientNext]_clientVars => BodyInv'
  <2> SUFFICES ASSUME BodyInv, [ClientNext]_clientVars PROVE BodyInv'
    OBVIOUS
  <2>1. CASE UNCHANGED clientVars \/ ClockTick
    BY <2>1 DEF clientVars, ClockTick, call, BodyInv, CallTypes
  <2> QED
    BY <2>1, BeginKeepsBody, StepKeepsBody, ServeKeepsBody, WindowKeepsBody DEF ClientNext, Github
<1>3. BodyInv => BodyAtMostOnce
  BY DEF BodyInv, BodyAtMostOnce
<1> QED
  BY <1>1, <1>2, <1>3, PTL DEF ClientSpec

-----------------------------------------------------------------------------
(* WaitsForGoodReason.                                                     *)

\* What is known of the current window, or on its way, is no less than GitHub
\* still has to give in it.
Covers(info, r) == info.fresh => info.left >= quota[r]

QuotaTypes ==
  /\ DOMAIN phase = Callers /\ DOMAIN kind = Callers /\ DOMAIN reply = Callers
  /\ DOMAIN limits = Resources /\ quota \in [Resources -> Nat]

IsInfo(info) == info = [left |-> info.left, fresh |-> info.fresh]
IsReply(answer) == answer = [status |-> answer.status, info |-> answer.info] /\ IsInfo(answer.info)

Records ==
  /\ \A r \in Resources : IsInfo(limits[r])
  /\ \A c \in Callers : IsReply(reply[c])

QuotaInv ==
  /\ QuotaTypes
  /\ \A r \in Resources : limits[r].left \in Nat /\ Covers(limits[r], r)
  /\ \A c \in Callers :
       /\ reply[c].info.left \in Nat
       /\ phase[c] = "replied" => Covers(reply[c].info, Resource(kind[c]))
       /\ phase[c] = "limited" => quota[Resource(kind[c])] = 0

LEMMA ResourceIsOne == ASSUME NEW k PROVE Resource(k) \in Resources
BY DEF Resource, Resources

LEMMA UnknownQuota == NoReply.info.left \in Nat /\ Unknown.left \in Nat /\ ~Unknown.fresh
BY ClientAssumption DEF NoReply, Unknown

\* Steps of c that leave the limits and the quota alone.
LEMMA GoKeepsQuota ==
  ASSUME QuotaInv, NEW c \in Callers, NEW p, p \notin {"limited", "replied"},
         phase' = [phase EXCEPT ![c] = p],
         kind' = kind \/ (\E k : kind' = [kind EXCEPT ![c] = k]),
         reply' = reply \/ reply' = [reply EXCEPT ![c] = NoReply],
         UNCHANGED rate
  PROVE  QuotaInv'
<1>1. /\ \A d \in Callers : d # c => phase'[d] = phase[d] /\ kind'[d] = kind[d] /\ reply'[d] = reply[d]
      /\ phase'[c] = p /\ reply'[c] \in {reply[c], NoReply}
      /\ DOMAIN phase' = Callers /\ DOMAIN kind' = Callers /\ DOMAIN reply' = Callers
  BY DEF QuotaInv, QuotaTypes
<1> QED
  BY <1>1, UnknownQuota DEF QuotaInv, QuotaTypes, Covers, rate

\* Who is made to wait knows of an exhausted window, and it is the current one.
LEMMA BeginKeepsQuota ==
  ASSUME QuotaInv, NEW c \in Callers, NEW k \in Kinds, BeginCall(c, k)
  PROVE  QuotaInv'
<1>1. /\ phase' = [phase EXCEPT ![c] = IF Exhausted(Resource(k)) THEN "limited" ELSE "ready"]
      /\ kind' = [kind EXCEPT ![c] = k] /\ UNCHANGED <<reply, limits, quota>>
  BY DEF BeginCall, Goto, rate
<1>2. /\ \A d \in Callers : d # c => phase'[d] = phase[d] /\ kind'[d] = kind[d]
      /\ phase'[c] \in {"limited", "ready"} /\ kind'[c] = k
      /\ phase'[c] = "limited" => Exhausted(Resource(k))
      /\ DOMAIN phase' = Callers /\ DOMAIN kind' = Callers
  BY <1>1 DEF QuotaInv, QuotaTypes
<1>3. Exhausted(Resource(k)) => quota[Resource(k)] = 0
  BY ResourceIsOne DEF QuotaInv, QuotaTypes, Covers, Exhausted
<1> QED
  BY <1>1, <1>2, <1>3 DEF QuotaInv, QuotaTypes, Covers

\* GitHub's answer tells what is left after it; the answers before it told more.
LEMMA ServeKeepsQuota ==
  ASSUME QuotaInv, NEW c \in Callers, NEW status, NEW carriedOut, Serve(c, status, carriedOut)
  PROVE  QuotaInv'
<1> DEFINE r == Resource(kind[c])
<1>1. /\ quota' = [quota EXCEPT ![r] = IF @ = 0 THEN 0 ELSE @ - 1]
      /\ reply' = [reply EXCEPT ![c] = [status |-> status, info |-> [left |-> quota'[r], fresh |-> TRUE]]]
      /\ phase' = [phase EXCEPT ![c] = "replied"] /\ UNCHANGED <<kind, limits>>
  BY DEF Serve, Goto
<1>2. /\ quota' \in [Resources -> Nat] /\ \A q \in Resources : quota'[q] <= quota[q]
      /\ \A q \in Resources : quota[q] = 0 => quota'[q] = 0
  BY <1>1, ResourceIsOne DEF QuotaInv, QuotaTypes
<1>3. /\ \A d \in Callers : d # c => phase'[d] = phase[d] /\ reply'[d] = reply[d]
      /\ phase'[c] = "replied" /\ reply'[c].info.left = quota'[r]
      /\ DOMAIN phase' = Callers /\ DOMAIN reply' = Callers
  BY <1>1 DEF QuotaInv, QuotaTypes
<1>4. r \in Resources /\ \A d \in Callers : Resource(kind[d]) \in Resources
  BY ResourceIsOne
<1> HIDE DEF r
<1>5. reply'[c].info.left \in Nat /\ reply'[c].info.left >= quota'[r]
  BY <1>2, <1>3, <1>4
<1>6. \A q \in Resources : limits'[q].left \in Nat /\ Covers(limits[q], q)'
  BY <1>1, <1>2 DEF QuotaInv, QuotaTypes, Covers
<1>7. \A d \in Callers : d # c =>
        /\ reply'[d].info.left \in Nat
        /\ phase'[d] = "replied" => Covers(reply[d].info, Resource(kind[d]))'
        /\ phase'[d] = "limited" => quota'[Resource(kind'[d])] = 0
  BY <1>1, <1>2, <1>3, <1>4 DEF QuotaInv, QuotaTypes, Covers
<1>8. Covers(reply[c].info, Resource(kind[c]))'
  BY <1>1, <1>5 DEF Covers, r
<1> QED
  BY <1>1, <1>2, <1>3, <1>5, <1>6, <1>7, <1>8 DEF QuotaInv, QuotaTypes

\* An answer is taken in whatever was known before; one without headers says
\* nothing of the current window.
LEMMA ReceiveKeepsQuota ==
  ASSUME QuotaInv, NEW c \in Callers, NEW h \in BOOLEAN, Receive(c, h) PROVE QuotaInv'
<1> DEFINE r == Resource(kind[c])
<1>1. PICK p \in {"backoff", "done"} : phase' = [phase EXCEPT ![c] = p]
  BY DEF Receive, AttemptEnded, Goto
<1>2. /\ limits' = (IF h THEN [limits EXCEPT ![r] = reply[c].info]
                         ELSE [limits EXCEPT !["core"] = Headless])
      /\ reply' = [reply EXCEPT ![c] = NoReply]
      /\ UNCHANGED <<kind, quota>> /\ phase[c] = "replied"
  BY DEF Receive
<1>3. /\ \A d \in Callers : d # c => phase'[d] = phase[d] /\ reply'[d] = reply[d]
      /\ phase'[c] = p /\ reply'[c] = NoReply
      /\ DOMAIN phase' = Callers /\ DOMAIN reply' = Callers
  BY <1>1, <1>2 DEF QuotaInv, QuotaTypes
<1>4. \A q \in Resources :
        \/ limits'[q] = limits[q] \/ (q = r /\ limits'[q] = reply[c].info)
        \/ limits'[q].left = 0 /\ ~limits'[q].fresh
  BY <1>2 DEF QuotaInv, QuotaTypes, Headless
<1>5. \A q \in Resources : limits'[q].left \in Nat /\ Covers(limits[q], q)'
  BY <1>2, <1>4 DEF QuotaInv, Covers
<1>6. DOMAIN limits' = Resources
  BY <1>2 DEF QuotaInv, QuotaTypes
<1>7. reply'[c].info.left \in Nat
  BY <1>3, UnknownQuota
<1> QED
  BY <1>2, <1>3, <1>5, <1>6, <1>7 DEF QuotaInv, QuotaTypes, Covers

LEMMA StepKeepsQuota == ASSUME QuotaInv, NEW c \in Callers, CallStep(c) PROVE QuotaInv'
<1>1. CASE Admit(c) \/ Send(c) \/ Retry(c)
  BY <1>1, GoKeepsQuota DEF Admit, Send, Retry, Goto
<1>2. CASE Refuse(c)
  BY <1>2 DEF Refuse, call, rate, QuotaInv, QuotaTypes, Covers
<1>3. CASE FailToSend(c) \/ Lose(c)
  <2>1. PICK p \in {"backoff", "done"} : phase' = [phase EXCEPT ![c] = p]
    BY <1>3 DEF FailToSend, Lose, AttemptEnded, Goto
  <2> QED
    BY <1>3, <2>1, GoKeepsQuota DEF FailToSend, Lose
<1>4. CASE ReturnRefusal(c) \/ CallFails(c) \/ (\E o \in {"ok", "error"} : CallSucceeds(c, o))
  <2>1. PICK o : EndCall(c, o)
    BY <1>4 DEF ReturnRefusal, CallFails, CallSucceeds
  <2>2. phase' = [phase EXCEPT ![c] = "none"] /\ kind' = [kind EXCEPT ![c] = "plain"] /\ reply' = reply
    BY <2>1 DEF EndCall, Goto
  <2>3. UNCHANGED rate
    BY <1>4 DEF ReturnRefusal, CallFails, CallSucceeds
  <2> QED
    BY <2>2, <2>3, GoKeepsQuota
<1> QED
  BY <1>1, <1>2, <1>3, <1>4, ReceiveKeepsQuota DEF CallStep

\* The records stay records.
LEMMA RecordsKept ==
  ASSUME QuotaTypes, Records, [ClientNext]_clientVars
  PROVE  Records'
<1>1. \A c \in Callers : IsReply(reply[c])'
  <2>1. IsReply(NoReply)
    BY DEF NoReply, Unknown, IsReply, IsInfo
  <2>2. ASSUME NEW c \in Callers, reply' = [reply EXCEPT ![c] = NoReply]
        PROVE  \A d \in Callers : IsReply(reply[d])'
    BY <2>1, <2>2 DEF QuotaTypes, Records, IsReply, IsInfo
  <2>3. ASSUME NEW c \in Callers, NEW status, NEW b, Serve(c, status, b)
        PROVE  \A d \in Callers : IsReply(reply[d])'
    <3>1. PICK q : reply' = [reply EXCEPT ![c] = [status |-> status, info |-> [left |-> q, fresh |-> TRUE]]]
      BY <2>3 DEF Serve
    <3> QED
      BY <3>1 DEF QuotaTypes, Records, IsReply, IsInfo
  <2>4. ASSUME NEW r, WindowReset(r) PROVE \A d \in Callers : IsReply(reply[d])'
    <3> SUFFICES ASSUME NEW d \in Callers PROVE IsReply(reply'[d])
      BY DEF IsReply, IsInfo
    <3>1. IsReply(reply[d])
      BY DEF Records
    <3>2. reply'[d] = [reply[d] EXCEPT !.info.fresh = FALSE] \/ reply'[d] = reply[d]
      BY <2>4 DEF WindowReset
    <3>3. IsReply([reply[d] EXCEPT !.info.fresh = FALSE])
      <4>1. /\ reply[d] = [status |-> reply[d].status, info |-> reply[d].info]
            /\ reply[d].info = [left |-> reply[d].info.left, fresh |-> reply[d].info.fresh]
        BY <3>1 DEF IsReply, IsInfo
      <4>2. PICK new : new = [reply[d] EXCEPT !.info.fresh = FALSE]
        OBVIOUS
      <4>3. new = [status |-> reply[d].status, info |-> [left |-> reply[d].info.left, fresh |-> FALSE]]
        BY <4>1, <4>2
      <4>4. IsReply(new)
        BY <4>3 DEF IsReply, IsInfo
      <4> QED
        BY <4>2, <4>4
    <3> QED
      BY <3>1, <3>2, <3>3
  <2>5. CASE reply' = reply
    BY <2>5 DEF Records, IsReply, IsInfo
  <2>6. ASSUME NEW c \in Callers, CallStep(c) PROVE reply' = reply \/ reply' = [reply EXCEPT ![c] = NoReply]
    BY <2>6 DEF CallStep, Admit, Refuse, ReturnRefusal, Send, FailToSend, Receive, Lose, Retry, CallFails,
                CallSucceeds, EndCall, call
  <2>7. CASE UNCHANGED clientVars \/ ClockTick \/ (\E c \in Callers, k \in Kinds : BeginCall(c, k))
    BY <2>5, <2>7 DEF clientVars, ClockTick, BeginCall, call
  <2> QED
    BY <2>2, <2>3, <2>4, <2>5, <2>6, <2>7 DEF ClientNext, Github
<1>2. \A r \in Resources : IsInfo(limits[r])'
  <2>1. CASE UNCHANGED limits
    BY <2>1 DEF Records, IsInfo
  <2>2. ASSUME NEW c \in Callers, NEW h \in BOOLEAN, Receive(c, h) PROVE \A r \in Resources : IsInfo(limits[r])'
    BY <2>2 DEF Receive, Headless, QuotaTypes, Records, IsReply, IsInfo
  <2>3. ASSUME NEW r, WindowReset(r) PROVE \A q \in Resources : IsInfo(limits[q])'
    BY <2>3 DEF WindowReset, QuotaTypes, Records, IsInfo
  <2>4. ASSUME NEW c \in Callers, CallStep(c), ~ \E h \in BOOLEAN : Receive(c, h) PROVE UNCHANGED limits
    BY <2>4 DEF CallStep, Admit, Refuse, ReturnRefusal, Send, FailToSend, Lose, Retry, CallFails,
                CallSucceeds, rate
  <2>5. ASSUME NEW c \in Callers, NEW status, NEW b, Serve(c, status, b) PROVE UNCHANGED limits
    BY <2>5 DEF Serve
  <2>6. CASE UNCHANGED clientVars \/ ClockTick \/ (\E c \in Callers, k \in Kinds : BeginCall(c, k))
    BY <2>1, <2>6 DEF clientVars, ClockTick, BeginCall, rate
  <2> QED
    BY <2>1, <2>2, <2>3, <2>4, <2>5, <2>6 DEF ClientNext, Github
<1> QED
  BY <1>1, <1>2 DEF Records

\* After a new window nothing that is known is about the current one.
LEMMA WindowKeepsQuota ==
  ASSUME QuotaInv, Records, NEW r \in Resources, WindowReset(r)
  PROVE  QuotaInv'
<1>1. /\ quota' = [quota EXCEPT ![r] = Quota] /\ limits' = [limits EXCEPT ![r].fresh = FALSE]
      /\ kind' = kind
  BY DEF WindowReset
<1>2. /\ quota' \in [Resources -> Nat] /\ DOMAIN limits' = Resources
      /\ \A q \in Resources : q # r => quota'[q] = quota[q] /\ limits'[q] = limits[q]
      /\ limits'[r] = [limits[r] EXCEPT !.fresh = FALSE]
  BY <1>1, ClientAssumption DEF QuotaInv, QuotaTypes
<1>3. limits'[r].left = limits[r].left /\ ~limits'[r].fresh
  BY <1>2 DEF Records, IsInfo
<1>4. /\ DOMAIN phase' = Callers /\ DOMAIN reply' = Callers
      /\ \A c \in Callers :
           /\ phase'[c] \in {phase[c], "ready"}
           /\ phase'[c] = "limited" => Resource(kind[c]) # r
  BY DEF WindowReset
<1>5. ASSUME NEW c \in Callers
      PROVE  /\ reply'[c].info.left = reply[c].info.left
             /\ Resource(kind[c]) = r => ~reply'[c].info.fresh
             /\ Resource(kind[c]) # r => reply'[c] = reply[c]
  <2>1. CASE Resource(kind[c]) = r
    <3>1. reply'[c] = [reply[c] EXCEPT !.info.fresh = FALSE]
      BY <2>1 DEF WindowReset
    <3>2. reply[c] = [status |-> reply[c].status, info |-> reply[c].info] /\ IsInfo(reply[c].info)
      BY DEF Records, IsReply
    <3>3. reply'[c].info = [reply[c].info EXCEPT !.fresh = FALSE]
      BY <3>1, <3>2
    <3> QED
      BY <2>1, <3>2, <3>3 DEF IsInfo
  <2>2. CASE Resource(kind[c]) # r
    BY <2>2 DEF WindowReset
  <2> QED
    BY <2>1, <2>2
<1>6. \A q \in Resources : limits'[q].left \in Nat /\ Covers(limits[q], q)'
  BY <1>2, <1>3 DEF QuotaInv, Covers
<1>7. ASSUME NEW c \in Callers
      PROVE  /\ reply'[c].info.left \in Nat
             /\ phase'[c] = "replied" => Covers(reply[c].info, Resource(kind[c]))'
             /\ phase'[c] = "limited" => quota'[Resource(kind'[c])] = 0
  <2>1. Resource(kind[c]) \in Resources
    BY ResourceIsOne
  <2> QED
    BY <1>1, <1>2, <1>4, <1>5, <2>1 DEF QuotaInv, Covers
<1> QED
  BY <1>1, <1>2, <1>4, <1>6, <1>7 DEF QuotaInv, QuotaTypes

LEMMA QuotaInitial == ClientInit => QuotaInv /\ Records
<1> SUFFICES ASSUME ClientInit PROVE QuotaInv /\ Records
  OBVIOUS
<1>1. /\ \A r \in Resources : limits[r] = Unknown
      /\ \A c \in Callers : reply[c] = NoReply /\ phase[c] = "none"
      /\ QuotaTypes
  BY ClientAssumption DEF ClientInit, QuotaTypes
<1>2. Records
  BY <1>1 DEF Records, IsReply, IsInfo, NoReply, Unknown
<1>3. QuotaInv
  BY <1>1, UnknownQuota DEF QuotaInv, Covers
<1> QED
  BY <1>2, <1>3

LEMMA QuotaKept == QuotaInv /\ Records /\ [ClientNext]_clientVars => QuotaInv' /\ Records'
<1> SUFFICES ASSUME QuotaInv, Records, [ClientNext]_clientVars PROVE QuotaInv'
  BY RecordsKept DEF QuotaInv
<1>1. CASE UNCHANGED clientVars \/ ClockTick
  BY <1>1 DEF clientVars, ClockTick, call, rate, QuotaInv, QuotaTypes, Covers
<1> QED
  BY <1>1, BeginKeepsQuota, StepKeepsQuota, ServeKeepsQuota, WindowKeepsQuota DEF ClientNext, Github

\* WaitsForGoodReason: WaitIfNeeded makes nobody wait for the end of a window in
\* which GitHub would still answer, in whatever order the answers were taken in.
THEOREM NobodyWaitsForNothing == ClientSpec => []WaitsForGoodReason
<1>1. QuotaInv => WaitsForGoodReason
  BY DEF QuotaInv, WaitsForGoodReason
<1> QED
  BY QuotaInitial, QuotaKept, <1>1, PTL DEF ClientSpec

-----------------------------------------------------------------------------
(* SuccessIsCarriedOut.                                                    *)

CarriedTypes ==
  /\ DOMAIN phase = Callers /\ DOMAIN kind = Callers /\ DOMAIN reply = Callers
  /\ DOMAIN verdict = Callers /\ DOMAIN outcome = Callers /\ effects \in [Callers -> Nat]

\* An answer that says "ok", and a verdict that does, have the effect behind them.
CarriedInv ==
  /\ CarriedTypes
  /\ \A c \in Callers :
       /\ phase[c] = "replied" /\ reply[c].status = "ok" => effects[c] > 0
       /\ phase[c] = "done" /\ verdict[c] = "ok" => effects[c] > 0

\* A call goes on, or ends, and neither answer nor verdict says "ok" by it.
LEMMA GoKeepsCarried ==
  ASSUME CarriedInv, NEW c \in Callers, NEW p, p \notin {"replied", "done"},
         phase' = [phase EXCEPT ![c] = p],
         \A d \in Callers : d # c => reply'[d] = reply[d] /\ verdict'[d] = verdict[d] /\ effects'[d] = effects[d],
         CarriedTypes'
  PROVE  CarriedInv'
BY DEF CarriedInv, CarriedTypes

LEMMA EndedKeepsCarried ==
  ASSUME CarriedInv, NEW c \in Callers, NEW o, EndCall(c, o)
  PROVE  CarriedInv'
<1>1. /\ phase' = [phase EXCEPT ![c] = "none"] /\ kind' = [kind EXCEPT ![c] = "plain"]
      /\ outcome' = [outcome EXCEPT ![c] = o] /\ verdict' = [verdict EXCEPT ![c] = "error"]
      /\ effects' = [effects EXCEPT ![c] = 0] /\ reply' = reply
  BY DEF EndCall, Goto
<1>2. CarriedTypes'
  BY <1>1 DEF CarriedInv, CarriedTypes
<1> QED
  BY <1>1, <1>2, GoKeepsCarried DEF CarriedInv, CarriedTypes

\* An attempt ends: only Receive has an answer that can say "ok".
LEMMA AttemptKeepsCarried ==
  ASSUME CarriedInv, NEW c \in Callers, FailToSend(c) \/ Lose(c) \/ \E h \in BOOLEAN : Receive(c, h)
  PROVE  CarriedInv'
<1>1. PICK status, p : /\ phase' = [phase EXCEPT ![c] = p]
                       /\ verdict' = [verdict EXCEPT ![c] = IF status = "ok" THEN "ok" ELSE "error"]
                       /\ status = "network" \/ (phase[c] = "replied" /\ status = reply[c].status)
                       /\ p \in {"backoff", "done"}
  <2>1. CASE FailToSend(c) \/ Lose(c)
    BY <2>1 DEF FailToSend, Lose, AttemptEnded, Goto
  <2>2. CASE \E h \in BOOLEAN : Receive(c, h)
    BY <2>2 DEF Receive, AttemptEnded, Goto
  <2> QED
    BY <2>1, <2>2
<1>2. /\ reply' = reply \/ reply' = [reply EXCEPT ![c] = NoReply]
      /\ UNCHANGED <<kind, outcome, effects>>
  BY DEF FailToSend, Lose, Receive
<1>3. CarriedTypes'
  BY <1>1, <1>2 DEF CarriedInv, CarriedTypes
<1>4. \A d \in Callers : d # c => reply'[d] = reply[d] /\ verdict'[d] = verdict[d] /\ phase'[d] = phase[d]
  BY <1>1, <1>2 DEF CarriedInv, CarriedTypes
<1>5. phase'[c] = p /\ (verdict'[c] = "ok" => status = "ok")
  BY <1>1 DEF CarriedInv, CarriedTypes
<1> QED
  BY <1>1, <1>2, <1>3, <1>4, <1>5 DEF CarriedInv

LEMMA ServeKeepsCarried ==
  ASSUME CarriedInv, NEW c \in Callers, NEW status, NEW carriedOut \in BOOLEAN, Serve(c, status, carriedOut)
  PROVE  CarriedInv'
<1>1. /\ phase' = [phase EXCEPT ![c] = "replied"]
      /\ UNCHANGED <<kind, verdict, outcome>>
      /\ status = "ok" => carriedOut
  BY DEF Serve, Goto
<1>2. PICK info : reply' = [reply EXCEPT ![c] = [status |-> status, info |-> info]]
  BY DEF Serve
<1>3. effects' = [effects EXCEPT ![c] = IF carriedOut THEN UpTo(MaxAttempts, effects[c] + 1) ELSE effects[c]]
  BY DEF Serve
<1>4. UpTo(MaxAttempts, effects[c] + 1) \in Nat \ {0}
  BY ClientAssumption DEF UpTo, CarriedInv, CarriedTypes
<1>5. /\ effects' \in [Callers -> Nat] /\ (carriedOut => effects'[c] > 0)
      /\ \A d \in Callers : d # c => effects'[d] = effects[d]
  BY <1>3, <1>4 DEF CarriedInv, CarriedTypes
<1>6. CarriedTypes'
  BY <1>1, <1>2, <1>5 DEF CarriedInv, CarriedTypes
<1>7. /\ phase'[c] = "replied" /\ reply'[c].status = status
      /\ \A d \in Callers : d # c => reply'[d] = reply[d] /\ phase'[d] = phase[d]
  BY <1>1, <1>2 DEF CarriedInv, CarriedTypes
<1> QED
  BY <1>1, <1>5, <1>6, <1>7 DEF CarriedInv

LEMMA WindowKeepsCarried ==
  ASSUME CarriedInv, Records, NEW r \in Resources, WindowReset(r)
  PROVE  CarriedInv'
<1>1. /\ UNCHANGED <<kind, verdict, outcome, effects>>
      /\ DOMAIN phase' = Callers /\ DOMAIN reply' = Callers
      /\ \A c \in Callers : phase'[c] \in {phase[c], "ready"}
  BY DEF WindowReset
<1>2. ASSUME NEW c \in Callers PROVE reply'[c].status = reply[c].status
  <2>1. reply'[c] = [reply[c] EXCEPT !.info.fresh = FALSE] \/ reply'[c] = reply[c]
    BY DEF WindowReset
  <2>2. reply[c] = [status |-> reply[c].status, info |-> reply[c].info]
    BY DEF Records, IsReply
  <2>3. [reply[c] EXCEPT !.info.fresh = FALSE].status = reply[c].status
    BY <2>2
  <2> QED
    BY <2>1, <2>3
<1>3. CarriedTypes'
  BY <1>1 DEF CarriedInv, CarriedTypes
<1> QED
  BY <1>1, <1>2, <1>3 DEF CarriedInv

LEMMA StepKeepsCarried == ASSUME CarriedInv, NEW c \in Callers, CallStep(c) PROVE CarriedInv'
<1>1. CASE Admit(c) \/ Send(c) \/ Retry(c)
  <2>1. PICK p \in {"sending", "inflight"} : phase' = [phase EXCEPT ![c] = p]
    BY <1>1 DEF Admit, Send, Retry, Goto
  <2>2. UNCHANGED <<kind, reply, verdict, outcome, effects>>
    BY <1>1 DEF Admit, Send, Retry
  <2>3. CarriedTypes'
    BY <2>1, <2>2 DEF CarriedInv, CarriedTypes
  <2> QED
    BY <2>1, <2>2, <2>3, GoKeepsCarried
<1>2. CASE Refuse(c)
  BY <1>2 DEF Refuse, call, CarriedInv, CarriedTypes
<1>3. CASE ReturnRefusal(c) \/ CallFails(c) \/ (\E o \in {"ok", "error"} : CallSucceeds(c, o))
  BY <1>3, EndedKeepsCarried DEF ReturnRefusal, CallFails, CallSucceeds
<1> QED
  BY <1>1, <1>2, <1>3, AttemptKeepsCarried DEF CallStep

LEMMA BeginKeepsCarried ==
  ASSUME CarriedInv, NEW c \in Callers, NEW k \in Kinds, BeginCall(c, k)
  PROVE  CarriedInv'
<1>1. PICK p \in {"limited", "ready"} : phase' = [phase EXCEPT ![c] = p]
  BY DEF BeginCall, Goto
<1>2. /\ kind' = [kind EXCEPT ![c] = k] /\ outcome' = [outcome EXCEPT ![c] = "none"]
      /\ UNCHANGED <<reply, verdict, effects>>
  BY DEF BeginCall
<1>3. CarriedTypes'
  BY <1>1, <1>2 DEF CarriedInv, CarriedTypes
<1> QED
  BY <1>1, <1>2, <1>3, GoKeepsCarried

LEMMA CarriedKept == CarriedInv /\ QuotaInv /\ Records /\ [ClientNext]_clientVars => CarriedInv'
<1> SUFFICES ASSUME CarriedInv, Records, [ClientNext]_clientVars PROVE CarriedInv'
  OBVIOUS
<1>1. CASE UNCHANGED clientVars \/ ClockTick
  BY <1>1 DEF clientVars, ClockTick, call, CarriedInv, CarriedTypes
<1> QED
  BY <1>1, BeginKeepsCarried, StepKeepsCarried, ServeKeepsCarried, WindowKeepsCarried DEF ClientNext, Github

\* The step that ends a call with success.
LEMMA SuccessHasEffect ==
  ASSUME CarriedInv, ClientNext, NEW c \in Callers,
         phase[c] # "none", phase'[c] = "none", outcome'[c] = "ok", kind[c] # "graphql"
  PROVE  effects[c] > 0
<1>1. ASSUME NEW d \in Callers, NEW o, EndCall(d, o) PROVE d = c /\ o = "ok"
  <2>1. phase' = [phase EXCEPT ![d] = "none"] /\ outcome' = [outcome EXCEPT ![d] = o]
    BY <1>1 DEF EndCall, Goto
  <2> QED
    BY <2>1 DEF CarriedInv, CarriedTypes
<1>2. ASSUME NEW d \in Callers, CallStep(d) PROVE effects[c] > 0
  <2>1. CASE ReturnRefusal(d) \/ CallFails(d)
    <3>1. PICK o : EndCall(d, o) /\ (o = "ok" => kind[d] = "graphql")
      BY <2>1 DEF ReturnRefusal, CallFails
    <3> QED
      BY <1>1, <3>1
  <2>2. ASSUME NEW o \in {"ok", "error"}, CallSucceeds(d, o) PROVE effects[c] > 0
    BY <1>1, <2>2 DEF CallSucceeds, CarriedInv
  <2>3. CASE Admit(d) \/ Send(d) \/ Retry(d) \/ FailToSend(d) \/ (\E h \in BOOLEAN : Receive(d, h)) \/ Lose(d) \/ Refuse(d)
    <3>1. phase' = phase \/ \E p : p # "none" /\ phase' = [phase EXCEPT ![d] = p]
      BY <2>3 DEF Admit, Send, Retry, FailToSend, Receive, Lose, Refuse, AttemptEnded, Goto, call
    <3> QED
      BY <3>1 DEF CarriedInv, CarriedTypes
  <2> QED
    BY <1>2, <2>1, <2>2, <2>3 DEF CallStep
<1>3. ASSUME NEW d \in Callers, NEW k \in Kinds, BeginCall(d, k) PROVE FALSE
  <2>1. PICK p \in {"limited", "ready"} : phase' = [phase EXCEPT ![d] = p]
    BY <1>3 DEF BeginCall, Goto
  <2> QED
    BY <2>1 DEF CarriedInv, CarriedTypes
<1>4. CASE Github \/ ClockTick
  <2>1. phase'[c] \in {phase[c], "ready", "replied"}
    BY <1>4 DEF Github, ClockTick, WindowReset, Serve, Goto, call, CarriedInv, CarriedTypes
  <2> QED
    BY <2>1
<1> QED
  BY <1>2, <1>3, <1>4 DEF ClientNext

\* SuccessIsCarriedOut: what a REST call reports as done GitHub has done in this
\* call, whatever was lost, refused or repeated on the way (DoHTTP, Execute).
THEOREM ReportedSuccessIsReal == ClientSpec => SuccessIsCarriedOut
<1>1. ClientInit => CarriedInv
  BY DEF ClientInit, CarriedInv, CarriedTypes
<1>2. CarriedInv /\ [ClientNext]_clientVars =>
        [\A c \in Callers :
           phase[c] # "none" /\ phase'[c] = "none" /\ outcome'[c] = "ok" /\ kind[c] # "graphql"
             => effects[c] > 0]_clientVars
  BY SuccessHasEffect
<1> QED
  BY <1>1, <1>2, CarriedKept, QuotaInitial, QuotaKept, PTL DEF ClientSpec, SuccessIsCarriedOut
=============================================================================
