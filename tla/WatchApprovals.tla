--------------------------- MODULE WatchApprovals ---------------------------
(***************************************************************************)
(* pkg/workflow/watch.go: `sgh workflow approve --watch` stays attached to *)
(* one run, reports its progress and decides the environment gates that    *)
(* open while it runs.  Between two requests of the watcher anything can   *)
(* happen at GitHub: gates open, other reviewers decide, the run ends.     *)
(***************************************************************************)
EXTENDS WorkflowRun

CONSTANTS
  Envs,       \* the environments the run deploys to
  MaxOpens,   \* bound: how many gates open in the run
  None        \* no environment

ASSUME WatchAssumption == None \notin Envs /\ MaxOpens \in Nat \ {0}

VARIABLES
  yes, allowlist,     \* the request: Yes and Environments
  canApprove,         \* GitHub: the environments this user may review
  gate,               \* GitHub: each environment's gate
  opens,              \* GitHub: how many have opened
  pc,                 \* where WatchApprovals stands
  runSeen,            \* run.Status == "completed" in this poll
  jobsSeen,           \* history: the jobs of the poll that saw the run end could be fetched
  pending,            \* gates of this poll still to be looked at
  current,            \* the gate to be submitted
  seen,               \* the map of the same name: gates decided, declined or not ours
  decided, hadFailures,   \* WatchResult
  returned,           \* what the function has returned
  stop,               \* "cancelled": ctx is; "timeout": the deadline has passed
  asked, submitted    \* history: Confirm and ReviewPendingDeployments calls per gate

request == <<yes, allowlist, canApprove>>
gates == <<gate, opens>>
poll == <<runSeen, jobsSeen, pending, current>>
handled == <<seen, decided, hadFailures>>
calls == <<asked, submitted>>
vars == <<run, progress, request, gates, pc, poll, handled, returned, stop, calls>>

Returns == {"none", "completed", "cancelled", "timeout", "error", "auth"}

TypeOK ==
  /\ RunTypeOK
  /\ yes \in BOOLEAN /\ allowlist \subseteq Envs /\ canApprove \subseteq Envs
  /\ gate \in [Envs -> {"closed", "pending", "ours", "theirs"}]
  /\ opens \in 0..MaxOpens
  /\ pc \in {"top", "run", "jobs", "gates", "each", "submit", "returned"}
  /\ runSeen \in BOOLEAN /\ jobsSeen \in BOOLEAN
  /\ pending \subseteq Envs /\ current \in Envs \cup {None}
  /\ seen \subseteq Envs /\ decided \subseteq Envs
  /\ hadFailures \in BOOLEAN
  /\ returned \in Returns
  /\ stop \in {"none", "timeout", "cancelled"}
  /\ asked \in [Envs -> 0..MaxOpens] /\ submitted \in [Envs -> 0..MaxOpens]

\* An unattended watch is refused without an allowlist.
Init ==
  /\ RunInit
  /\ yes \in BOOLEAN /\ allowlist \in SUBSET Envs /\ canApprove \in SUBSET Envs
  /\ yes => allowlist # {}
  /\ gate = [e \in Envs |-> "closed"]
  /\ opens = 0
  /\ pc = "top"
  /\ runSeen = FALSE /\ jobsSeen = FALSE /\ pending = {} /\ current = None
  /\ seen = {} /\ decided = {} /\ hadFailures = FALSE
  /\ returned = "none"
  /\ stop = "none"
  /\ asked = [e \in Envs |-> 0] /\ submitted = [e \in Envs |-> 0]

Return(r) == pc' = "returned" /\ returned' = r

-----------------------------------------------------------------------------
(* One poll.                                                               *)

CheckContext ==
  /\ pc = "top"
  /\ IF stop # "none" THEN Return(stop) ELSE pc' = "run" /\ UNCHANGED returned
  /\ UNCHANGED <<run, progress, request, gates, poll, handled, stop, calls>>

\* GetWorkflowRun.
FetchRun(ok) ==
  /\ pc = "run"
  /\ IF ok THEN pc' = "jobs" /\ runSeen' = runDone /\ UNCHANGED returned
           ELSE Return("error") /\ UNCHANGED runSeen
  /\ UNCHANGED <<run, progress, request, gates, jobsSeen, pending, current, handled, stop,
                 calls>>

\* Mutant: a poll without the jobs is given up.
FetchJobsOrSleep(ok) ==
  /\ pc = "jobs"
  /\ jobsSeen' = (ok /\ runSeen)
  /\ IF ok THEN Report ELSE UNCHANGED progress
  /\ IF ~ok THEN pc' = "top" /\ UNCHANGED returned
     ELSE IF runSeen THEN Return("completed")
     ELSE pc' = "gates" /\ UNCHANGED returned
  /\ UNCHANGED <<run, request, gates, runSeen, pending, current, handled, stop, calls>>

\* Mutant: a run that is complete is not asked for its jobs any more.
FetchJobsUnlessDone(ok) ==
  /\ pc = "jobs"
  /\ jobsSeen' = (ok /\ runSeen)
  /\ IF ok /\ ~runSeen THEN Report ELSE UNCHANGED progress
  /\ IF runSeen THEN Return("completed") ELSE pc' = "gates" /\ UNCHANGED returned
  /\ UNCHANGED <<run, request, gates, runSeen, pending, current, handled, stop, calls>>

\* GetWorkflowRunJobs: without an answer this poll reports no progress.
FetchJobs(ok) ==
  /\ pc = "jobs"
  /\ jobsSeen' = (ok /\ runSeen)
  /\ IF ok THEN Report ELSE UNCHANGED progress
  /\ IF runSeen THEN Return("completed") ELSE pc' = "gates" /\ UNCHANGED returned
  /\ UNCHANGED <<run, request, gates, runSeen, pending, current, handled, stop, calls>>

\* ListPendingDeployments.
FetchGates(ok) ==
  /\ pc = "gates"
  /\ IF ok THEN pc' = "each" /\ pending' = {e \in Envs : gate[e] = "pending"} /\ UNCHANGED returned
           ELSE Return("error") /\ UNCHANGED pending
  /\ UNCHANGED <<run, progress, request, gates, runSeen, jobsSeen, current, handled, stop,
                 calls>>

\* The list is done: sleep, and poll again.
Sleep ==
  /\ pc = "each" /\ pending = {}
  /\ pc' = "top"
  /\ UNCHANGED <<run, progress, request, gates, poll, handled, returned, stop, calls>>

Listed(e) == allowlist = {} \/ e \in allowlist

Looks(e) == pc = "each" /\ e \in pending /\ pending' = pending \ {e}

\* Already handled, or outside the allowlist, which is reported once: left pending.
PassOver(e) ==
  /\ Looks(e)
  /\ e \in seen \/ ~Listed(e)
  /\ UNCHANGED <<run, progress, request, gates, pc, runSeen, jobsSeen, current, seen, decided,
                 hadFailures, returned, stop, calls>>

NotReviewer(e) ==
  /\ Looks(e)
  /\ e \notin seen /\ Listed(e) /\ e \notin canApprove
  /\ seen' = seen \cup {e}
  /\ UNCHANGED <<run, progress, request, gates, pc, runSeen, jobsSeen, current,
                 decided, hadFailures, returned, stop, calls>>

\* Mutant: a gate that was declined is asked about again in the next poll.
DecideAgain(e, agreed) ==
  /\ Looks(e)
  /\ e \notin seen /\ Listed(e) /\ e \in canApprove
  /\ yes => agreed
  /\ asked' = IF yes THEN asked ELSE [asked EXCEPT ![e] = @ + 1]
  /\ IF agreed THEN pc' = "submit" /\ current' = e ELSE UNCHANGED <<pc, current>>
  /\ UNCHANGED <<run, progress, request, gates, runSeen, jobsSeen, seen, decided,
                 hadFailures, returned, stop, submitted>>

\* Mutant: --yes is checked before the allowlist.
DecideUnlisted(e, agreed) ==
  /\ Looks(e)
  /\ e \notin seen /\ (yes \/ Listed(e)) /\ e \in canApprove
  /\ yes => agreed
  /\ asked' = IF yes THEN asked ELSE [asked EXCEPT ![e] = @ + 1]
  /\ IF agreed THEN pc' = "submit" /\ current' = e /\ UNCHANGED seen
               ELSE seen' = seen \cup {e} /\ UNCHANGED <<pc, current>>
  /\ UNCHANGED <<run, progress, request, gates, runSeen, jobsSeen, decided,
                 hadFailures, returned, stop, submitted>>

\* Yes decides; otherwise Confirm asks the user.
Decide(e, agreed) ==
  /\ Looks(e)
  /\ e \notin seen /\ Listed(e) /\ e \in canApprove
  /\ yes => agreed
  /\ asked' = IF yes THEN asked ELSE [asked EXCEPT ![e] = @ + 1]
  /\ IF agreed THEN pc' = "submit" /\ current' = e /\ UNCHANGED seen
               ELSE seen' = seen \cup {e} /\ UNCHANGED <<pc, current>>
  /\ UNCHANGED <<run, progress, request, gates, runSeen, jobsSeen, decided,
                 hadFailures, returned, stop, submitted>>

\* What ReviewPendingDeployments meets at GitHub and brings back: the decision
\* is taken, or taken and the answer lost; someone else was first; nothing
\* arrived; the token may not.
Answer(e, r) ==
  /\ r \in {"ok", "lost"} => gate[e] = "pending"
  /\ r = "conflict" => gate[e] # "pending"
  /\ gate' = IF r \in {"ok", "lost"} THEN [gate EXCEPT ![e] = "ours"] ELSE gate
  /\ UNCHANGED opens

\* Mutant: a failed submit is put down to another reviewer and not counted.
SubmitForgiving(r) ==
  /\ pc = "submit"
  /\ Answer(current, r)
  /\ submitted' = [submitted EXCEPT ![current] = @ + 1]
  /\ current' = None
  /\ IF r = "auth"
       THEN Return("auth") /\ UNCHANGED handled
       ELSE /\ pc' = "each" /\ UNCHANGED returned
            /\ seen' = seen \cup {current}
            /\ decided' = IF r = "ok" THEN decided \cup {current} ELSE decided
            /\ UNCHANGED hadFailures
  /\ UNCHANGED <<run, progress, request, runSeen, jobsSeen, pending, stop, asked>>

\* An error of the token ends the watch; any other marks the gate as handled.
Submit(r) ==
  /\ pc = "submit"
  /\ Answer(current, r)
  /\ submitted' = [submitted EXCEPT ![current] = @ + 1]
  /\ current' = None
  /\ IF r = "auth"
       THEN Return("auth") /\ UNCHANGED handled
       ELSE /\ pc' = "each" /\ UNCHANGED returned
            /\ seen' = seen \cup {current}
            /\ decided' = IF r = "ok" THEN decided \cup {current} ELSE decided
            /\ hadFailures' = (hadFailures \/ r # "ok")
  /\ UNCHANGED <<run, progress, request, runSeen, jobsSeen, pending, stop, asked>>

-----------------------------------------------------------------------------
(* The world around the watcher.                                           *)

GateOpens(e) ==
  /\ ~runDone /\ gate[e] # "pending" /\ opens < MaxOpens
  /\ gate' = [gate EXCEPT ![e] = "pending"]
  /\ opens' = opens + 1
  /\ UNCHANGED <<run, progress, request, pc, poll, handled, returned, stop, calls>>

OtherDecides(e) ==
  /\ gate[e] = "pending"
  /\ gate' = [gate EXCEPT ![e] = "theirs"]
  /\ UNCHANGED <<run, progress, request, opens, pc, poll, handled, returned, stop, calls>>

\* Ctrl-C, which counts more, or the deadline.
Interrupt ==
  /\ stop' \in {"timeout", "cancelled"} /\ stop # "cancelled" /\ stop' # stop
  /\ UNCHANGED <<run, progress, request, gates, pc, poll, handled, returned, calls>>

Poll ==
  \/ CheckContext
  \/ \E ok \in BOOLEAN : FetchRun(ok) \/ FetchJobs(ok) \/ FetchGates(ok)
  \/ \E e \in Envs : PassOver(e) \/ NotReviewer(e) \/ \E a \in BOOLEAN : Decide(e, a)
  \/ \E r \in {"ok", "lost", "conflict", "down", "auth"} : Submit(r)
  \/ Sleep

\* Bound: what happens after the watch has returned is nobody's concern here.
World ==
  /\ pc # "returned"
  /\ \/ RunMoves /\ UNCHANGED <<request, gates, pc, poll, handled, returned, stop, calls>>
     \/ \E e \in Envs : GateOpens(e) \/ OtherDecides(e)
     \/ Interrupt

Next == Poll \/ World

Spec == Init /\ [][Next]_vars

\* The watcher's loop runs on and the user answers; GitHub owes nothing.
FairSpec == Spec /\ WF_vars(Poll)

-----------------------------------------------------------------------------
\* A gate is asked about once and submitted once in a watch, whatever becomes
\* of it: "it is never re-asked", "never retried in a loop".
HandledOnce == \A e \in Envs : asked[e] <= 1 /\ submitted[e] <= 1

\* What this watch has decided at GitHub is what it was told to: within the
\* allowlist, as a reviewer, and confirmed by the user unless Yes.
DecidesAsTold ==
  \A e \in Envs : gate[e] = "ours" =>
    Listed(e) /\ e \in canApprove /\ (yes \/ asked[e] > 0)

\* No decision of this watch goes unmentioned: when it returns, it has either
\* reported the gate as decided or exits with a failure.
NothingDecidedSilently ==
  pc = "returned" =>
    \A e \in Envs : gate[e] = "ours" => e \in decided \/ hadFailures

\* A watch that saw the run end has reported the end of every job on the page
\* it reads and of all their steps, provided that its last look at the jobs
\* succeeded: the run is read first.
EndsAreReported ==
  returned = "completed" /\ jobsSeen => completed = Shown

\* "reporting each job/step transition" (watch.go:84).  The code does not keep
\* this of a run with more jobs than a page.
AllEndsAreReported ==
  returned = "completed" /\ jobsSeen => completed = Items

\* When the run has ended the watch ends too, whatever fails on the way.
EndsWithRun == runDone ~> pc = "returned"

\* A gate on its list, of an environment it has not handled yet, does not stay
\* pending beside a watch that goes on: it is asked about or decided, or the
\* watch ends, or it counts a failure.
NewGatesSettled ==
  \A e \in Envs :
    (gate[e] = "pending" /\ Listed(e) /\ e \in canApprove /\ e \notin seen)
      ~> (gate[e] # "pending" \/ asked[e] > 0 \/ pc = "returned" \/ hadFailures)

\* WatchApprovals stays "deciding each newly-appearing environment gate as it
\* shows up" (watch.go:83): an unattended watch leaves none pending that is on
\* its list.  The code does not keep this: `seen` never forgets an environment,
\* so a second gate on one is passed over for ever.
EveryGateSettled ==
  \A e \in Envs :
    (gate[e] = "pending" /\ yes /\ Listed(e) /\ e \in canApprove)
      ~> (gate[e] # "pending" \/ pc = "returned" \/ hadFailures)
=============================================================================
