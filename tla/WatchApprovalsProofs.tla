------------------------ MODULE WatchApprovalsProofs ------------------------
(***************************************************************************)
(* Theorems about `sgh workflow approve --watch`: whatever happens at      *)
(* GitHub between its requests, for any environments and any number of     *)
(* gates that open, it decides what it was told to, once, and says so.     *)
(***************************************************************************)
EXTENDS WatchApprovals, TLAPS

GateTypes ==
  /\ DOMAIN gate = Envs
  /\ asked \in [Envs -> Nat] /\ submitted \in [Envs -> Nat]
  /\ current \in Envs \cup {None}

\* Looked at for good: after that there is neither a question nor a decision.
Settled(e) == e \in seen \/ pc = "returned"

\* The gate about to be submitted has been asked about at most.
Submitting ==
  pc = "submit" =>
    /\ current \in Envs /\ current \notin seen
    /\ submitted[current] = 0
    /\ Listed(current) /\ current \in canApprove /\ (yes \/ asked[current] > 0)

UntouchedUntilSettled ==
  \A e \in Envs :
    \/ Settled(e) \/ (pc = "submit" /\ current = e)
    \/ asked[e] = 0 /\ submitted[e] = 0

\* NothingDecidedSilently, from the moment of the decision on.
DecisionsAreKnown == \A e \in Envs : gate[e] = "ours" => e \in decided \/ hadFailures

IInv ==
  /\ GateTypes /\ Submitting /\ UntouchedUntilSettled
  /\ HandledOnce /\ DecidesAsTold /\ DecisionsAreKnown

USE DEF IInv, GateTypes, Settled, Submitting, UntouchedUntilSettled, HandledOnce, DecidesAsTold,
        DecisionsAreKnown, Listed

LEMMA Initially == Init => IInv
BY DEF Init

\* Requests that read.
LEMMA FetchKeepsIInv ==
  ASSUME IInv,
         CheckContext \/ Sleep \/ (\E ok \in BOOLEAN : FetchRun(ok) \/ FetchJobs(ok) \/ FetchGates(ok))
  PROVE  IInv'
<1>1. /\ UNCHANGED <<request, gates, seen, decided, hadFailures, current, calls>>
      /\ pc # "submit" /\ pc # "returned" /\ pc' # "submit"
  BY DEF CheckContext, Sleep, FetchRun, FetchJobs, FetchGates, Return, poll, handled
<1> QED
  BY <1>1 DEF request, gates, calls

LEMMA LookKeepsIInv ==
  ASSUME IInv, NEW e \in Envs, PassOver(e) \/ NotReviewer(e)
  PROVE  IInv'
<1>1. /\ UNCHANGED <<request, gates, decided, hadFailures, current, calls, pc>>
      /\ pc = "each" /\ seen' \in {seen, seen \cup {e}}
  BY DEF PassOver, NotReviewer, Looks
<1> QED
  BY <1>1 DEF request, gates, calls

LEMMA DecideKeepsIInv ==
  ASSUME IInv, NEW e \in Envs, NEW agreed \in BOOLEAN, Decide(e, agreed)
  PROVE  IInv'
<1>1. /\ UNCHANGED <<yes, allowlist, canApprove, gate, decided, hadFailures, submitted>>
      /\ pc = "each" /\ e \notin seen /\ Listed(e) /\ e \in canApprove
      /\ asked' = IF yes THEN asked ELSE [asked EXCEPT ![e] = @ + 1]
  BY DEF Decide, Looks, request, gates
<1>2. asked[e] = 0 /\ submitted[e] = 0
  BY <1>1
<1>3. /\ asked' \in [Envs -> Nat]
      /\ \A f \in Envs : f # e => asked'[f] = asked[f]
      /\ asked'[e] \in 0..1 /\ (yes \/ asked'[e] > 0)
  BY <1>1, <1>2
<1>4. CASE agreed
  <2>1. pc' = "submit" /\ current' = e /\ seen' = seen
    BY <1>4 DEF Decide
  <2> QED
    BY <1>1, <1>2, <1>3, <2>1
<1>5. CASE ~agreed
  <2>1. pc' = pc /\ current' = current /\ seen' = seen \cup {e}
    BY <1>5 DEF Decide
  <2> QED
    BY <1>1, <1>2, <1>3, <2>1
<1> QED
  BY <1>4, <1>5

LEMMA SubmitKeepsIInv ==
  ASSUME IInv, NEW r \in {"ok", "lost", "conflict", "down", "auth"}, Submit(r)
  PROVE  IInv'
<1>1. /\ UNCHANGED <<yes, allowlist, canApprove, asked>>
      /\ pc = "submit" /\ pc' # "submit" /\ current' = None
      /\ submitted' = [submitted EXCEPT ![current] = @ + 1]
      /\ gate' = IF r \in {"ok", "lost"} THEN [gate EXCEPT ![current] = "ours"] ELSE gate
  BY DEF Submit, Answer, Return, request
<1>2. /\ submitted' \in [Envs -> Nat] /\ submitted'[current] = 1
      /\ \A e \in Envs : e # current => submitted'[e] = submitted[e]
  BY <1>1
<1>3. /\ DOMAIN gate' = Envs
      /\ \A e \in Envs : gate'[e] = "ours" => gate[e] = "ours" \/ (e = current /\ r \in {"ok", "lost"})
  BY <1>1
<1>4. CASE r = "auth"
  <2>1. pc' = "returned" /\ UNCHANGED <<seen, decided, hadFailures>>
    BY <1>4 DEF Submit, Return, handled
  <2> QED
    BY <1>1, <1>2, <1>3, <1>4, <2>1
<1>5. CASE r # "auth"
  <2>1. /\ seen' = seen \cup {current} /\ (hadFailures => hadFailures') /\ decided \subseteq decided'
        /\ r = "ok" => current \in decided'
        /\ r = "lost" => hadFailures'
    BY <1>5 DEF Submit
  <2> QED
    BY <1>1, <1>2, <1>3, <2>1
<1> QED
  BY <1>4, <1>5

LEMMA WorldKeepsIInv == ASSUME IInv, World PROVE IInv'
<1>1. /\ UNCHANGED <<request, pc, poll, handled, calls>>
      /\ DOMAIN gate' = Envs
      /\ \A e \in Envs : gate'[e] = "ours" => gate[e] = "ours"
  BY DEF World, GateOpens, OtherDecides, Interrupt, gates
<1> QED
  BY <1>1 DEF request, poll, handled, calls

THEOREM Invariance == Spec => []IInv
<1>1. IInv /\ [Next]_vars => IInv'
  <2> SUFFICES ASSUME IInv, [Next]_vars PROVE IInv'
    OBVIOUS
  <2>1. CASE UNCHANGED vars
    BY <2>1 DEF vars, request, gates, poll, handled, calls
  <2>2. CASE Poll
    BY <2>2, FetchKeepsIInv, LookKeepsIInv, DecideKeepsIInv, SubmitKeepsIInv DEF Poll
  <2> QED
    BY <2>1, <2>2, WorldKeepsIInv DEF Next
<1> QED
  BY Initially, <1>1, PTL DEF Spec

\* HandledOnce: no gate is asked about or submitted a second time in a watch,
\* however often it opens again and whatever became of the first attempt.
THEOREM GatesAreHandledOnce == Spec => []HandledOnce
BY Invariance, PTL

\* DecidesAsTold: what the watch decides is on the allowlist, may be reviewed by
\* this user, and was confirmed unless the request says Yes.
THEOREM DecisionsAreAsTold == Spec => []DecidesAsTold
BY Invariance, PTL

\* NothingDecidedSilently: a decision that stands at GitHub when the watch
\* returns, its answer lost or not, is reported or counted as a failure.
THEOREM NoDecisionIsSilent == Spec => []NothingDecidedSilently
<1>1. IInv => NothingDecidedSilently
  BY DEF NothingDecidedSilently
<1> QED
  BY Invariance, <1>1, PTL

-----------------------------------------------------------------------------
(* EndsAreReported.                                                        *)

HIDE DEF IInv, GateTypes, Settled, Submitting, UntouchedUntilSettled, HandledOnce, DecidesAsTold,
         DecisionsAreKnown, Listed

\* A run that is done stays so, and so does all of it; a poll that saw it done
\* saw that.
DoneIsAll ==
  /\ runDone => \A i \in Items : status[i] = "completed"
  /\ pc = "jobs" /\ runSeen => runDone

EndsInv ==
  /\ DoneIsAll
  /\ completed \subseteq Shown
  /\ returned # "none" => pc = "returned"
  /\ stop # "completed"
  /\ EndsAreReported

LEMMA EndsInitially == Init => EndsInv
BY DEF Init, RunInit, EndsInv, DoneIsAll, EndsAreReported

LEMMA JobsReported ==
  ASSUME EndsInv, NEW ok \in BOOLEAN, FetchJobs(ok)
  PROVE  EndsInv'
<1>1. /\ UNCHANGED <<status, runDone, runSeen, stop>> /\ pc = "jobs" /\ jobsSeen' = (ok /\ runSeen)
      /\ (pc' = "returned" /\ returned' = "completed" /\ runSeen) \/ (pc' = "gates" /\ returned' = returned)
  BY DEF FetchJobs, Return, run
<1>2. /\ completed' \subseteq Shown
      /\ ok => completed' = completed \cup {i \in Shown : status[i] = "completed"}
  BY DEF FetchJobs, Report, progress, EndsInv
<1>3. ok /\ runSeen => completed' = Shown
  BY <1>1, <1>2, RunAssumption DEF EndsInv, DoneIsAll, Shown, Items
<1>4. returned = "none"
  BY <1>1 DEF EndsInv, FetchJobs
<1> QED
  BY <1>1, <1>2, <1>3, <1>4 DEF EndsInv, DoneIsAll, EndsAreReported

LEMMA RestOfPollKept ==
  ASSUME EndsInv, Poll, \A ok \in BOOLEAN : ~FetchJobs(ok)
  PROVE  EndsInv'
<1>1. UNCHANGED <<status, runDone, completed, stop>>
  BY DEF Poll, CheckContext, FetchRun, FetchGates, PassOver, NotReviewer, Decide, Submit, Sleep, run, progress
<1>2. /\ pc # "returned"
      /\ pc' = "jobs" => runSeen' = runDone
      /\ returned' = returned \/ (pc' = "returned" /\ returned' # "completed")
  BY DEF Poll, CheckContext, FetchRun, FetchGates, PassOver, NotReviewer, Looks, Decide, Submit, Sleep, Return,
         EndsInv
<1>3. returned = "none"
  BY <1>2 DEF EndsInv
<1> QED
  BY <1>1, <1>2, <1>3 DEF EndsInv, DoneIsAll, EndsAreReported

LEMMA WorldKeepsEnds == ASSUME EndsInv, World PROVE EndsInv'
<1>1. UNCHANGED <<completed, pc, runSeen, jobsSeen, returned>> /\ (stop # "completed" => stop' # "completed")
  BY DEF World, RunMoves, ItemStarts, ItemRequeued, ItemEnds, RunEnds, GateOpens, OtherDecides, Interrupt,
         progress, poll
<1>2. \/ UNCHANGED run
      \/ ~runDone /\ runDone' = FALSE
      \/ runDone' = TRUE /\ status' = [i \in Items |-> "completed"]
  BY DEF World, RunMoves, ItemStarts, ItemRequeued, ItemEnds, RunEnds, GateOpens, OtherDecides, Interrupt
<1> QED
  BY <1>1, <1>2 DEF run, EndsInv, DoneIsAll, EndsAreReported

\* EndsAreReported: the run is read before its jobs, so the report of a watch
\* that saw the run end is complete for the page of jobs it reads, whatever of
\* the run that page holds (WatchApprovals, GetWorkflowRunJobs, diff).
THEOREM ReportOfPageIsComplete == Spec => []EndsAreReported
<1>1. EndsInv /\ [Next]_vars => EndsInv'
  <2> SUFFICES ASSUME EndsInv, [Next]_vars PROVE EndsInv'
    OBVIOUS
  <2>1. CASE UNCHANGED vars
    BY <2>1 DEF vars, run, progress, poll, EndsInv, DoneIsAll, EndsAreReported
  <2>2. CASE Poll
    BY <2>2, JobsReported, RestOfPollKept
  <2> QED
    BY <2>1, <2>2, WorldKeepsEnds DEF Next
<1>2. EndsInv => EndsAreReported
  BY DEF EndsInv
<1> QED
  BY EndsInitially, <1>1, <1>2, PTL DEF Spec
=============================================================================
