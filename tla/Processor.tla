----------------------------- MODULE Processor -----------------------------
(***************************************************************************)
(* internal/async and internal/processor: process() fills the job queue,   *)
(* closes it and calls Start, which runs the workers and one goroutine     *)
(* that drains the Results and Errors channels.                            *)
(*                                                                         *)
(* A buffered channel is the set of the jobs it holds: nothing below       *)
(* depends on the order in which a channel gives them back, so every order *)
(* is allowed.  Receiving from a closed channel yields "closed" only once  *)
(* it is empty.                                                            *)
(***************************************************************************)
EXTENDS Integers, FiniteSets

CONSTANTS
  Jobs,      \* the repositories left after filtering, one job each
  Workers,   \* ctx.Config.NoOfWorkers goroutines, 1 when it is 0
  Capacity,  \* jobQueueSize, the buffer of all three channels
  None       \* no job

ASSUME QueueAssumption ==
  /\ IsFiniteSet(Jobs) /\ Jobs # {}
  /\ IsFiniteSet(Workers) /\ Workers # {}
  /\ None \notin Jobs
  /\ Capacity \in Nat /\ Cardinality(Jobs) <= Capacity   \* process: len(repoNames)

VARIABLES
  main,           \* where the goroutine that runs process() and Start stands
  todo,           \* jobs process() has still to add
  jobs, jobsClosed,           \* chan q.Jobs
  results, resultsClosed,     \* chan q.Results
  errs, errsClosed,           \* chan q.Errors
  wpc, wjob,      \* per worker: where it stands and the job it holds
  drain,          \* the draining goroutine: "off", "select", "result", "error", "exit"
  djob,           \* the job whose handler it is running
  resultsNil, errsNil,        \* its local channel variables, once set to nil
  successCount, errorCount,   \* process()'s counters, under mu
  outcome,        \* history: what the operation returned for each job
  report,         \* which handler the caller saw for each job
  calls,          \* handler invocations
  hasError        \* ctx.HasError

queue == <<jobs, jobsClosed, results, resultsClosed, errs, errsClosed>>
worker == <<wpc, wjob>>
drainer == <<drain, djob, resultsNil, errsNil>>
counters == <<successCount, errorCount>>
seen == <<report, calls>>
vars == <<main, todo, queue, worker, drainer, counters, outcome, seen, hasError>>

TypeOK ==
  /\ main \in {"filling", "filled", "waiting", "closing", "draining", "done"}
  /\ todo \subseteq Jobs /\ jobs \subseteq Jobs
  /\ results \subseteq Jobs /\ errs \subseteq Jobs
  /\ jobsClosed \in BOOLEAN /\ resultsClosed \in BOOLEAN /\ errsClosed \in BOOLEAN
  /\ resultsNil \in BOOLEAN /\ errsNil \in BOOLEAN /\ hasError \in BOOLEAN
  /\ wpc \in [Workers -> {"off", "idle", "handling", "sending", "exit"}]
  /\ wjob \in [Workers -> Jobs \cup {None}]
  /\ drain \in {"off", "select", "result", "error", "exit"}
  /\ djob \in Jobs \cup {None}
  /\ successCount \in Nat /\ errorCount \in Nat /\ calls \in Nat
  /\ outcome \in [Jobs -> {"pending", "ok", "error"}]
  /\ report \in [Jobs -> {"none", "ok", "error"}]

Init ==
  /\ main = "filling"
  /\ todo = Jobs
  /\ jobs = {} /\ results = {} /\ errs = {}
  /\ jobsClosed = FALSE /\ resultsClosed = FALSE /\ errsClosed = FALSE
  /\ wpc = [w \in Workers |-> "off"] /\ wjob = [w \in Workers |-> None]
  /\ drain = "off" /\ djob = None
  /\ resultsNil = FALSE /\ errsNil = FALSE
  /\ successCount = 0 /\ errorCount = 0
  /\ outcome = [j \in Jobs |-> "pending"]
  /\ report = [j \in Jobs |-> "none"]
  /\ calls = 0
  /\ hasError = FALSE

-----------------------------------------------------------------------------
(* The goroutine that runs process() and, inside it, Start.                *)

HasRoom(channel) == Cardinality(channel) < Capacity

\* AddJob blocks while the channel is full; nobody receives before Start.
AddJob(j) ==
  /\ main = "filling" /\ j \in todo /\ HasRoom(jobs)
  /\ todo' = todo \ {j}
  /\ jobs' = jobs \cup {j}
  /\ UNCHANGED <<main, jobsClosed, results, resultsClosed, errs, errsClosed, worker,
                 drainer, counters, outcome, seen, hasError>>

Close ==
  /\ main = "filling" /\ todo = {}
  /\ main' = "filled"
  /\ jobsClosed' = TRUE
  /\ UNCHANGED <<todo, jobs, results, resultsClosed, errs, errsClosed, worker, drainer,
                 counters, outcome, seen, hasError>>

\* Start spawns the draining goroutine and the workers, then waits for q.wg.
Start ==
  /\ main = "filled"
  /\ main' = "waiting"
  /\ drain' = "select"
  /\ wpc' = [w \in Workers |-> "idle"]
  /\ UNCHANGED <<todo, queue, wjob, djob, resultsNil, errsNil, counters, outcome, seen,
                 hasError>>

\* Mutant: Start does not wait for the workers before it closes Results.
CloseResultsEarly ==
  /\ main = "waiting"
  /\ main' = "closing"
  /\ resultsClosed' = TRUE
  /\ UNCHANGED <<todo, jobs, jobsClosed, results, errs, errsClosed, worker, drainer,
                 counters, outcome, seen, hasError>>

CloseResults ==
  /\ main = "waiting" /\ \A w \in Workers : wpc[w] = "exit"   \* q.wg.Wait()
  /\ main' = "closing"
  /\ resultsClosed' = TRUE
  /\ UNCHANGED <<todo, jobs, jobsClosed, results, errs, errsClosed, worker, drainer,
                 counters, outcome, seen, hasError>>

CloseErrors ==
  /\ main = "closing"
  /\ main' = "draining"
  /\ errsClosed' = TRUE
  /\ UNCHANGED <<todo, jobs, jobsClosed, results, resultsClosed, errs, worker, drainer,
                 counters, outcome, seen, hasError>>

\* consumeWg.Wait() is over: Start returns and process() looks at errorCount.
Return ==
  /\ main = "draining" /\ drain = "exit"
  /\ main' = "done"
  /\ hasError' = (hasError \/ errorCount > 0)
  /\ UNCHANGED <<todo, queue, worker, drainer, counters, outcome, seen>>

-----------------------------------------------------------------------------
(* A worker: for job := range q.Jobs.                                      *)

\* Mutant: the job is handed out and stays in the queue.
TakeJobWithoutRemoving(w) ==
  /\ wpc[w] = "idle"
  /\ \E j \in jobs : wjob' = [wjob EXCEPT ![w] = j]
  /\ wpc' = [wpc EXCEPT ![w] = "handling"]
  /\ UNCHANGED <<main, todo, queue, drainer, counters, outcome, seen, hasError>>

TakeJob(w) ==
  /\ wpc[w] = "idle"
  /\ \E j \in jobs : wjob' = [wjob EXCEPT ![w] = j] /\ jobs' = jobs \ {j}
  /\ wpc' = [wpc EXCEPT ![w] = "handling"]
  /\ UNCHANGED <<main, todo, jobsClosed, results, resultsClosed, errs, errsClosed,
                 drainer, counters, outcome, seen, hasError>>

Exit(w) ==
  /\ wpc[w] = "idle" /\ jobsClosed /\ jobs = {}
  /\ wpc' = [wpc EXCEPT ![w] = "exit"]
  /\ UNCHANGED <<main, todo, queue, wjob, drainer, counters, outcome, seen, hasError>>

\* The job handler: operationHandler returns r and, under mu, is counted.
Operate(w, r) ==
  /\ wpc[w] = "handling"
  /\ outcome' = [outcome EXCEPT ![wjob[w]] = r]
  /\ IF r = "ok" THEN successCount' = successCount + 1 /\ UNCHANGED errorCount
                 ELSE errorCount' = errorCount + 1 /\ UNCHANGED successCount
  /\ wpc' = [wpc EXCEPT ![w] = "sending"]
  /\ UNCHANGED <<main, todo, queue, wjob, drainer, seen, hasError>>

\* The worker sends its job's outcome to the channel it belongs to.
Send(w) ==
  /\ wpc[w] = "sending"
  /\ IF outcome[wjob[w]] = "ok"
       THEN HasRoom(results) /\ results' = results \cup {wjob[w]} /\ UNCHANGED errs
       ELSE HasRoom(errs) /\ errs' = errs \cup {wjob[w]} /\ UNCHANGED results
  /\ wpc' = [wpc EXCEPT ![w] = "idle"]
  /\ wjob' = [wjob EXCEPT ![w] = None]
  /\ UNCHANGED <<main, todo, jobs, jobsClosed, resultsClosed, errsClosed, drainer,
                 counters, outcome, seen, hasError>>

-----------------------------------------------------------------------------
(* The draining goroutine: select over both channels until both are nil.   *)

ReceiveResult(j) ==
  /\ drain = "select" /\ ~resultsNil /\ j \in results
  /\ results' = results \ {j}
  /\ drain' = "result" /\ djob' = j
  /\ UNCHANGED <<main, todo, jobs, jobsClosed, resultsClosed, errs, errsClosed, worker,
                 resultsNil, errsNil, counters, outcome, seen, hasError>>

ReceiveError(j) ==
  /\ drain = "select" /\ ~errsNil /\ j \in errs
  /\ errs' = errs \ {j}
  /\ drain' = "error" /\ djob' = j
  /\ UNCHANGED <<main, todo, jobs, jobsClosed, results, resultsClosed, errsClosed, worker,
                 resultsNil, errsNil, counters, outcome, seen, hasError>>

\* resultHandler or errorHandler runs and returns to the loop.
RunHandler ==
  /\ drain \in {"result", "error"}
  /\ report' = [report EXCEPT ![djob] = IF drain = "result" THEN "ok" ELSE "error"]
  /\ calls' = calls + 1
  /\ drain' = "select" /\ djob' = None
  /\ UNCHANGED <<main, todo, queue, worker, resultsNil, errsNil, counters, outcome, hasError>>

SeeResultsClosed ==
  /\ drain = "select" /\ ~resultsNil /\ resultsClosed /\ results = {}
  /\ resultsNil' = TRUE
  /\ drain' = IF errsNil THEN "exit" ELSE "select"
  /\ UNCHANGED <<main, todo, queue, worker, djob, errsNil, counters, outcome, seen, hasError>>

SeeErrorsClosed ==
  /\ drain = "select" /\ ~errsNil /\ errsClosed /\ errs = {}
  /\ errsNil' = TRUE
  /\ drain' = IF resultsNil THEN "exit" ELSE "select"
  /\ UNCHANGED <<main, todo, queue, worker, djob, resultsNil, counters, outcome, seen, hasError>>

-----------------------------------------------------------------------------
MainStep == Close \/ Start \/ CloseResults \/ CloseErrors \/ Return

DrainStep ==
  \/ \E j \in Jobs : ReceiveResult(j) \/ ReceiveError(j)
  \/ RunHandler \/ SeeResultsClosed \/ SeeErrorsClosed

WorkerStep(w) ==
  \/ TakeJob(w) \/ Exit(w) \/ Send(w)
  \/ \E r \in {"ok", "error"} : Operate(w, r)

\* The command has returned and goes on to print.
Terminated == main = "done" /\ UNCHANGED vars

Next ==
  \/ \E j \in Jobs : AddJob(j)
  \/ MainStep
  \/ DrainStep
  \/ \E w \in Workers : WorkerStep(w)
  \/ Terminated

Spec == Init /\ [][Next]_vars

-----------------------------------------------------------------------------
\* No worker can still send when Start closes the channels: a send on a closed
\* channel panics and takes the whole command down with it.
NoSendOnClosedChannel ==
  resultsClosed \/ errsClosed => \A w \in Workers : wpc[w] \notin {"handling", "sending"}

\* A worker that holds an outcome can always deliver it at once, however slow
\* the handlers are: the buffers never fill up, so AddJob before Start and the
\* sends before the channels are drained cannot block the program.
SendNeverBlocks ==
  /\ main = "filling" /\ todo # {} => HasRoom(jobs)
  /\ \A w \in Workers : wpc[w] = "sending" => HasRoom(results) /\ HasRoom(errs)

\* When process() returns, its counters tally with what the handlers were
\* told, so the summary banner and the exit code speak of the same run.
CountsTally ==
  main = "done" =>
    /\ successCount = Cardinality({j \in Jobs : report[j] = "ok"})
    /\ errorCount = Cardinality({j \in Jobs : report[j] = "error"})

\* The worker pool keeps the bulk operation's promise (BulkOperation): one run
\* and one report per repository, and an error exactly when one of them failed.
Abstract == INSTANCE BulkOperation WITH done <- main = "done"

ImplementsBulkOperation == Abstract!Spec

=============================================================================
