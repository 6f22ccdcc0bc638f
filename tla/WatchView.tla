----------------------------- MODULE WatchView -----------------------------
(***************************************************************************)
(* pkg/workflow/watch_view.go: WatchViewRun, the NDJSON watcher behind     *)
(* `workflow view --watch --json` and the --watch flags that follow a run. *)
(* GetWorkflowRunDetail makes two requests that matter, the run and then   *)
(* its jobs; a failure of either comes back as a detail with an error.     *)
(***************************************************************************)
EXTENDS WorkflowRun

VARIABLES
  pc,          \* where the watcher stands
  runSeen,     \* the detail's run has status "completed"
  detail,      \* what the last GetWorkflowRunDetail brought: "none", "ok", "error"
  runDoneSent, \* the conclusion of the run_done event, once it was sent
  cancelled    \* ctx is cancelled

vars == <<run, progress, pc, runSeen, detail, runDoneSent, cancelled>>

TypeOK ==
  /\ RunTypeOK
  /\ pc \in {"run", "jobs", "check", "sleep", "returned"}
  /\ runSeen \in BOOLEAN /\ cancelled \in BOOLEAN
  /\ detail \in {"none", "ok", "error"}
  /\ runDoneSent \in {"none", "empty", "conclusion"}
  /\ runDoneSent # "none" => pc = "returned"

Init ==
  /\ RunInit
  /\ pc = "run" /\ runSeen = FALSE /\ detail = "none" /\ runDoneSent = "none"
  /\ cancelled = FALSE

\* The detail is not in progress: run_done, with whatever conclusion it has.
Finish(isDone) ==
  /\ pc' = "returned"
  /\ runDoneSent' = IF isDone THEN "conclusion" ELSE "empty"

FetchRun(ok) ==
  /\ pc = "run"
  /\ IF ok THEN /\ runSeen' = runDone /\ pc' = "jobs" /\ UNCHANGED <<detail, runDoneSent>>
           ELSE /\ detail' = "error" /\ Finish(FALSE) /\ UNCHANGED runSeen
  /\ UNCHANGED <<run, progress, cancelled>>

\* The detail is complete, and diff reports what is new in it.  A detail with
\* an error counts as not in progress, whatever the run's status.
FetchJobs(ok) ==
  /\ pc = "jobs"
  /\ detail' = IF ok THEN "ok" ELSE "error"
  /\ IF ok THEN Report ELSE UNCHANGED progress
  /\ IF ok /\ ~runSeen THEN pc' = "check" /\ UNCHANGED runDoneSent ELSE Finish(runSeen)
  /\ UNCHANGED <<run, runSeen, cancelled>>

\* ctx.Err() is looked at before the sleep and after it.
CheckContext ==
  /\ pc \in {"check", "sleep"}
  /\ pc' = IF cancelled THEN "returned" ELSE IF pc = "check" THEN "sleep" ELSE "run"
  /\ UNCHANGED <<run, progress, runSeen, detail, runDoneSent, cancelled>>

Cancel ==
  /\ pc # "returned"
  /\ ~cancelled /\ cancelled' = TRUE
  /\ UNCHANGED <<run, progress, pc, runSeen, detail, runDoneSent>>

Watch ==
  \/ \E ok \in BOOLEAN : FetchRun(ok) \/ FetchJobs(ok)
  \/ CheckContext

Next ==
  \/ Watch
  \/ RunMoves /\ UNCHANGED <<pc, runSeen, detail, runDoneSent, cancelled>>
  \/ Cancel

Spec == Init /\ [][Next]_vars

-----------------------------------------------------------------------------
\* The watcher says run_done only of a run that is done ("follows the rerun
\* until it completes", docs/commands.md:114).  The code does not keep this: a
\* request that fails looks the same to it as the end of the run.
RunDoneIsTrue == runDoneSent # "none" => runDone
=============================================================================
