---------------------------- MODULE WorkflowRun ----------------------------
(***************************************************************************)
(* One workflow run at GitHub, as the watchers of pkg/workflow see it      *)
(* (external), and the progress report they share: viewWatchState.diff,    *)
(* which turns successive snapshots of the run's jobs and steps into       *)
(* events, each of them at most once.                                      *)
(***************************************************************************)
EXTENDS Naturals, SequencesExt

CONSTANTS
  Jobs,      \* the run's jobs
  Steps,     \* all their steps
  JobOf,     \* the job of each step
  FirstPage  \* the jobs GitHub puts on the first page of them

ASSUME RunAssumption ==
  /\ JobOf \in [Steps -> Jobs] /\ Jobs \cap Steps = {}
  /\ IsFiniteSet(Jobs) /\ IsFiniteSet(Steps)
  /\ FirstPage \subseteq Jobs

VARIABLES
  status,       \* GitHub: status of each job and step
  runDone,      \* GitHub: the run's status is "completed"
  started,      \* viewWatchState: jobs and steps whose start has been reported
  completed,    \* viewWatchState: those whose completion has been reported
  log           \* history: the events given to Notify

run == <<status, runDone>>
progress == <<started, completed, log>>

Items == Jobs \cup Steps

StepsOf(j) == {s \in Steps : JobOf[s] = j}

\* GetWorkflowRunJobs asks for no page but the first: what it brings of a run.
Shown == FirstPage \cup {s \in Steps : JobOf[s] \in FirstPage}

Event == [kind : {"started", "completed"}, item : Items]

RunTypeOK ==
  /\ status \in [Items -> {"queued", "in_progress", "completed"}]
  /\ runDone \in BOOLEAN
  /\ started \subseteq Items /\ completed \subseteq Items
  /\ log \in Seq(Event)

RunInit ==
  /\ status = [i \in Items |-> "queued"]
  /\ runDone = FALSE
  /\ started = {} /\ completed = {}
  /\ log = <<>>

-----------------------------------------------------------------------------
(* GitHub.                                                                 *)

\* A queued job or step begins, a step in a job that has begun.
ItemStarts(i) ==
  /\ ~runDone
  /\ status[i] = "queued"
  /\ i \in Steps => status[JobOf[i]] = "in_progress"
  /\ status' = [status EXCEPT ![i] = "in_progress"]
  /\ UNCHANGED <<runDone, progress>>

\* The status of a job that waits for a runner flickers.
ItemRequeued(i) ==
  /\ ~runDone
  /\ i \in Jobs /\ status[i] = "in_progress"
  /\ \A s \in StepsOf(i) : status[s] = "queued"
  /\ status' = [status EXCEPT ![i] = "queued"]
  /\ UNCHANGED <<runDone, progress>>

\* A step ends, or is skipped, and a job ends with its last step.
ItemEnds(i) ==
  /\ ~runDone
  /\ status[i] # "completed"
  /\ i \in Jobs => \A s \in StepsOf(i) : status[s] = "completed"
  /\ status' = [status EXCEPT ![i] = "completed"]
  /\ UNCHANGED <<runDone, progress>>

\* The run ends with its last job; or it is cancelled, and all of it ends.
RunEnds ==
  /\ ~runDone
  /\ runDone' = TRUE
  /\ status' = [i \in Items |-> "completed"]
  /\ UNCHANGED progress

RunMoves ==
  \/ \E i \in Items : ItemStarts(i) \/ ItemRequeued(i) \/ ItemEnds(i)
  \/ RunEnds

-----------------------------------------------------------------------------
(* viewWatchState.diff.                                                    *)

EventIf(condition, k, i) == IF condition THEN <<[kind |-> k, item |-> i]>> ELSE <<>>

StartEvent(i) == EventIf(status[i] = "in_progress" /\ i \notin started, "started", i)
EndEvent(i) == EventIf(status[i] = "completed" /\ i \notin completed, "completed", i)

\* A job's start, then its steps, then its end.
JobEvents(j) ==
  LET steps == SetToSeq(StepsOf(j))
  IN StartEvent(j)
     \o FlattenSeq([n \in 1..Len(steps) |-> StartEvent(steps[n]) \o EndEvent(steps[n])])
     \o EndEvent(j)

RunEvents ==
  LET jobs == SetToSeq(FirstPage) IN FlattenSeq([n \in 1..Len(jobs) |-> JobEvents(jobs[n])])

\* Mutant: a status that is no longer in_progress is forgotten.
ReportForgetful ==
  /\ log' = log \o RunEvents
  /\ started' = {i \in Shown : status[i] = "in_progress"}
  /\ completed' = completed \cup {i \in Shown : status[i] = "completed"}

\* The snapshot of this poll: the status now of the jobs on the page, and their
\* steps.
Report ==
  /\ log' = log \o RunEvents
  /\ started' = started \cup {i \in Shown : status[i] = "in_progress"}
  /\ completed' = completed \cup {i \in Shown : status[i] = "completed"}

-----------------------------------------------------------------------------
\* No transition is reported twice, however the status flickers between polls; a
\* job's completion comes after everything said of its steps, and nothing is
\* said to start after it was said to be complete.
ReportedInOrder ==
  \A m, n \in 1..Len(log) : m < n =>
    /\ log[m] # log[n]
    /\ ~ /\ log[m].kind = "completed"
         /\ \/ log[n].item = log[m].item
            \/ log[n].item \in Steps /\ JobOf[log[n].item] = log[m].item
=============================================================================
