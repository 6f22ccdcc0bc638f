--------------------------- MODULE BulkApiProofs ---------------------------
(***************************************************************************)
(* The worker pool is safe and keeps the bulk operation's promise, for any *)
(* finite set of repositories and any number of workers; a bulk command on *)
(* the network is such a pool over the one circuit breaker, and contains   *)
(* failures that are fewer than the breaker tolerates.                     *)
(***************************************************************************)
EXTENDS BulkApi, FiniteSetTheorems, TLAPS

\* Who has finished when: the main goroutine's place against the channels it
\* closes, the workers it waits for and the draining goroutine.
Phases ==
  /\ jobsClosed <=> main # "filling"
  /\ jobsClosed => todo = {}
  /\ resultsClosed <=> main \in {"closing", "draining", "done"}
  /\ errsClosed <=> main \in {"draining", "done"}
  /\ main \in {"filling", "filled"} <=> drain = "off"
  /\ \A w \in Workers : wpc[w] = "off" <=> main \in {"filling", "filled"}
  /\ \A w \in Workers : wpc[w] = "exit" => jobsClosed /\ jobs = {}
  /\ resultsClosed => \A w \in Workers : wpc[w] = "exit"
  /\ resultsNil => resultsClosed /\ results = {}
  /\ errsNil => errsClosed /\ errs = {}
  /\ drain = "exit" <=> resultsNil /\ errsNil
  /\ main = "done" => drain = "exit"

Busy(w) == wpc[w] \in {"handling", "sending"}

\* Every job has one custodian: the list, the queue, a worker, a channel, the
\* draining goroutine or, at the end, the caller.
WorkersHold ==
  /\ \A w \in Workers : wjob[w] # None <=> Busy(w)
  /\ \A v, w \in Workers : v # w /\ Busy(v) => wjob[v] # wjob[w]
  /\ \A w \in Workers : Busy(w) =>
       /\ wjob[w] \notin todo \cup jobs \cup results \cup errs
       /\ wjob[w] # djob
       /\ report[wjob[w]] = "none"
  /\ \A w \in Workers : wpc[w] = "handling" => outcome[wjob[w]] = "pending"
  /\ \A w \in Workers : wpc[w] = "sending" => outcome[wjob[w]] # "pending"

DrainerHolds ==
  /\ djob # None <=> drain \in {"result", "error"}
  /\ \A j \in results : outcome[j] = "ok" /\ report[j] = "none" /\ j # djob
  /\ \A j \in errs : outcome[j] = "error" /\ report[j] = "none" /\ j # djob
  /\ drain = "result" => outcome[djob] = "ok" /\ report[djob] = "none"
  /\ drain = "error" => outcome[djob] = "error" /\ report[djob] = "none"

NothingLost ==
  /\ \A j \in todo \cup jobs : outcome[j] = "pending" /\ report[j] = "none"
  /\ todo \cap jobs = {}
  /\ \A j \in Jobs : report[j] # "none" => report[j] = outcome[j]
  /\ \A j \in Jobs : report[j] = "none" =>
       \/ j \in todo \cup jobs \cup results \cup errs
       \/ j = djob
       \/ \E w \in Workers : wjob[w] = j

Ended(r) == {j \in Jobs : outcome[j] = r}

Tally ==
  /\ successCount = Cardinality(Ended("ok"))
  /\ errorCount = Cardinality(Ended("error"))
  /\ main # "done" => ~hasError

Custody == WorkersHold /\ DrainerHolds /\ NothingLost

IInv == TypeOK /\ Phases /\ Custody /\ Tally

-----------------------------------------------------------------------------
\* A channel that lacks one of the jobs has room for it.
LEMMA RoomForOneMore ==
  ASSUME NEW S, S \subseteq Jobs, NEW j \in Jobs, j \notin S
  PROVE  HasRoom(S)
<1>1. IsFiniteSet(S) /\ Cardinality(S) <= Cardinality(Jobs)
  BY FS_Subset, QueueAssumption
<1>2. Cardinality(S) # Cardinality(Jobs)
  BY FS_Subset, QueueAssumption
<1>3. Cardinality(S) \in Nat /\ Cardinality(Jobs) \in Nat
  BY <1>1, FS_CardinalityType, QueueAssumption
<1> QED BY <1>1, <1>2, <1>3, QueueAssumption DEF HasRoom

\* The first state satisfies the inductive invariant.
LEMMA InitIInv == Init => IInv
<1> SUFFICES ASSUME Init PROVE IInv
  OBVIOUS
<1>1. TypeOK
  BY DEF Init, TypeOK
<1>2. Phases
  BY DEF Init, Phases
<1>3. Custody
  BY QueueAssumption DEF Init, Custody, WorkersHold, DrainerHolds, NothingLost, Busy
<1>4. Tally
  <2>1. Ended("ok") = {} /\ Ended("error") = {}
    BY DEF Init, Ended
  <2> QED BY <2>1, FS_EmptySet DEF Init, Tally
<1> QED BY <1>1, <1>2, <1>3, <1>4 DEF IInv

\* Every step keeps the types.
LEMMA StepTypeOK == TypeOK /\ WorkersHold /\ [Next]_vars => TypeOK'
<1> SUFFICES ASSUME TypeOK, WorkersHold, [Next]_vars PROVE TypeOK'
  OBVIOUS
<1> USE DEF TypeOK, queue, worker, drainer, counters, seen
<1>1. ASSUME NEW j \in Jobs, AddJob(j) PROVE TypeOK'
  BY <1>1 DEF AddJob
<1>2. CASE MainStep
  BY <1>2 DEF MainStep, Close, Start, CloseResults, CloseErrors, Return
<1>3. CASE DrainStep
  <2>1. ASSUME NEW j \in Jobs, ReceiveResult(j) \/ ReceiveError(j) PROVE TypeOK'
    BY <2>1 DEF ReceiveResult, ReceiveError
  <2>2. CASE RunHandler
    <3>1. report' \in [Jobs -> {"none", "ok", "error"}]
      BY <2>2 DEF RunHandler
    <3> QED BY <2>2, <3>1 DEF RunHandler
  <2>3. CASE SeeResultsClosed \/ SeeErrorsClosed
    BY <2>3 DEF SeeResultsClosed, SeeErrorsClosed
  <2> QED BY <1>3, <2>1, <2>2, <2>3 DEF DrainStep
<1>4. ASSUME NEW w \in Workers, TakeJob(w) PROVE TypeOK'
  BY <1>4 DEF TakeJob
<1>5. ASSUME NEW w \in Workers, Exit(w) PROVE TypeOK'
  BY <1>5 DEF Exit
<1>6. ASSUME NEW w \in Workers, Send(w) PROVE TypeOK'
  BY <1>6 DEF Send, WorkersHold, Busy
<1>7. ASSUME NEW w \in Workers, NEW r \in {"ok", "error"}, Operate(w, r) PROVE TypeOK'
  <2>1. wjob[w] \in Jobs
    BY <1>7 DEF Operate, WorkersHold, Busy
  <2>2. outcome' \in [Jobs -> {"pending", "ok", "error"}]
    BY <1>7, <2>1 DEF Operate
  <2>3. successCount' \in Nat /\ errorCount' \in Nat
    BY <1>7 DEF Operate
  <2> QED BY <1>7, <2>2, <2>3 DEF Operate
<1>8. CASE Terminated \/ UNCHANGED vars
  BY <1>8 DEF Terminated, vars
<1> QED BY <1>1, <1>2, <1>3, <1>4, <1>5, <1>6, <1>7, <1>8 DEF Next, WorkerStep

\* Every step keeps the phases in order: the channels close behind the workers.
LEMMA StepPhases == TypeOK /\ Phases /\ [Next]_vars => Phases'
<1> SUFFICES ASSUME TypeOK, Phases, [Next]_vars PROVE Phases'
  OBVIOUS
<1> USE QueueAssumption DEF TypeOK, Phases, queue, worker, drainer, counters, seen
<1>1. ASSUME NEW j \in Jobs, AddJob(j) PROVE Phases'
  BY <1>1 DEF AddJob
<1>2. CASE MainStep
  <2>1. CASE Close
    BY <2>1 DEF Close
  <2>2. CASE Start
    BY <2>2 DEF Start
  <2>3. CASE CloseResults
    BY <2>3 DEF CloseResults
  <2>4. CASE CloseErrors
    BY <2>4 DEF CloseErrors
  <2>5. CASE Return
    BY <2>5 DEF Return
  <2> QED BY <1>2, <2>1, <2>2, <2>3, <2>4, <2>5 DEF MainStep
<1>3. CASE DrainStep
  <2>1. ASSUME NEW j \in Jobs, ReceiveResult(j) PROVE Phases'
    BY <2>1 DEF ReceiveResult
  <2>2. ASSUME NEW j \in Jobs, ReceiveError(j) PROVE Phases'
    BY <2>2 DEF ReceiveError
  <2>3. CASE RunHandler
    BY <2>3 DEF RunHandler
  <2>4. CASE SeeResultsClosed
    BY <2>4 DEF SeeResultsClosed
  <2>5. CASE SeeErrorsClosed
    BY <2>5 DEF SeeErrorsClosed
  <2> QED BY <1>3, <2>1, <2>2, <2>3, <2>4, <2>5 DEF DrainStep
<1>4. ASSUME NEW w \in Workers, TakeJob(w) PROVE Phases'
  BY <1>4 DEF TakeJob
<1>5. ASSUME NEW w \in Workers, Exit(w) PROVE Phases'
  BY <1>5 DEF Exit
<1>6. ASSUME NEW w \in Workers, Send(w) PROVE Phases'
  BY <1>6 DEF Send
<1>7. ASSUME NEW w \in Workers, NEW r \in {"ok", "error"}, Operate(w, r) PROVE Phases'
  BY <1>7 DEF Operate
<1>8. CASE Terminated \/ UNCHANGED vars
  BY <1>8 DEF Terminated, vars
<1> QED BY <1>1, <1>2, <1>3, <1>4, <1>5, <1>6, <1>7, <1>8 DEF Next, WorkerStep

\* Every step hands a job from one custodian to the next and drops none.
LEMMA StepCustody == TypeOK /\ Phases /\ Custody /\ [Next]_vars => Custody'
<1> SUFFICES ASSUME TypeOK, Phases, Custody, [Next]_vars PROVE Custody'
  OBVIOUS
<1> USE QueueAssumption DEF TypeOK, Custody, WorkersHold, DrainerHolds, NothingLost, Busy,
        queue, worker, drainer, counters, seen
<1>1. ASSUME NEW j \in Jobs, AddJob(j) PROVE Custody'
  BY <1>1 DEF AddJob
<1>2. CASE MainStep
  <2>1. CASE Start
    BY <2>1 DEF Start, Phases
  <2>2. CASE Close \/ CloseResults \/ CloseErrors \/ Return
    BY <2>2 DEF Close, CloseResults, CloseErrors, Return
  <2> QED BY <1>2, <2>1, <2>2 DEF MainStep
<1>3. CASE DrainStep
  <2>1. ASSUME NEW j \in Jobs, ReceiveResult(j) PROVE Custody'
    BY <2>1 DEF ReceiveResult
  <2>2. ASSUME NEW j \in Jobs, ReceiveError(j) PROVE Custody'
    BY <2>2 DEF ReceiveError
  <2>3. CASE RunHandler
    BY <2>3 DEF RunHandler
  <2>4. CASE SeeResultsClosed \/ SeeErrorsClosed
    BY <2>4 DEF SeeResultsClosed, SeeErrorsClosed
  <2> QED BY <1>3, <2>1, <2>2, <2>3, <2>4 DEF DrainStep
<1>4. ASSUME NEW w \in Workers, TakeJob(w) PROVE Custody'
  BY <1>4 DEF TakeJob
<1>5. ASSUME NEW w \in Workers, Exit(w) PROVE Custody'
  BY <1>5 DEF Exit
<1>6. ASSUME NEW w \in Workers, Send(w) PROVE Custody'
  BY <1>6 DEF Send
<1>7. ASSUME NEW w \in Workers, NEW r \in {"ok", "error"}, Operate(w, r) PROVE Custody'
  BY <1>7 DEF Operate
<1>8. CASE Terminated \/ UNCHANGED vars
  BY <1>8 DEF Terminated, vars
<1> QED BY <1>1, <1>2, <1>3, <1>4, <1>5, <1>6, <1>7, <1>8 DEF Next, WorkerStep

\* Finishing one more job adds one to the tally of its kind.
LEMMA OneMoreEnded ==
  ASSUME TypeOK, NEW j \in Jobs, NEW r \in {"ok", "error"}, outcome[j] = "pending",
         outcome' = [outcome EXCEPT ![j] = r]
  PROVE  \A k \in {"ok", "error"} :
           Cardinality(Ended(k)') = Cardinality(Ended(k)) + (IF k = r THEN 1 ELSE 0)
<1> SUFFICES ASSUME NEW k \in {"ok", "error"}
             PROVE  Cardinality(Ended(k)') = Cardinality(Ended(k)) + (IF k = r THEN 1 ELSE 0)
  OBVIOUS
<1>1. IsFiniteSet(Ended(k)) /\ Cardinality(Ended(k)) \in Nat
  BY FS_Subset, FS_CardinalityType, QueueAssumption DEF Ended
<1>2. CASE k = r
  <2>1. Ended(k)' = Ended(k) \cup {j}
    BY <1>2 DEF Ended, TypeOK
  <2>2. j \notin Ended(k)
    BY DEF Ended
  <2> QED BY <1>1, <1>2, <2>1, <2>2, FS_AddElement
<1>3. CASE k # r
  <2>1. Ended(k)' = Ended(k)
    BY <1>3 DEF Ended, TypeOK
  <2> QED BY <1>1, <1>3, <2>1
<1> QED BY <1>2, <1>3

\* Every step keeps the counters equal to the number of jobs of each kind.
LEMMA StepTally == IInv /\ [Next]_vars => Tally'
<1> SUFFICES ASSUME IInv, [Next]_vars PROVE Tally'
  OBVIOUS
<1>1. ASSUME NEW w \in Workers, NEW r \in {"ok", "error"}, Operate(w, r) PROVE Tally'
  <2>1. wjob[w] \in Jobs /\ outcome[wjob[w]] = "pending" /\ main # "done"
    BY <1>1, QueueAssumption
       DEF Operate, IInv, TypeOK, Custody, WorkersHold, Busy, Phases
  <2>2. \A k \in {"ok", "error"} :
          Cardinality(Ended(k)') = Cardinality(Ended(k)) + (IF k = r THEN 1 ELSE 0)
    BY <1>1, <2>1, OneMoreEnded DEF Operate, IInv
  <2>3. successCount \in Nat /\ errorCount \in Nat
    BY DEF IInv, TypeOK
  <2>4. CASE r = "ok"
    BY <1>1, <2>1, <2>2, <2>3, <2>4 DEF Operate, IInv, Tally
  <2>5. CASE r = "error"
    BY <1>1, <2>1, <2>2, <2>3, <2>5 DEF Operate, IInv, Tally
  <2> QED BY <2>4, <2>5
<1>2. CASE UNCHANGED <<outcome, counters, hasError>> /\ (main = "done" => main' = "done")
  <2>1. main' # "done" => ~hasError'
    <3>1. main # "done" => ~hasError
      BY DEF IInv, Tally
    <3>2. hasError \in BOOLEAN /\ hasError' = hasError
      BY <1>2 DEF IInv, TypeOK
    <3>3. main' # "done" => main # "done"
      BY <1>2
    <3> QED BY <3>1, <3>2, <3>3, Zenon
  <2>2. /\ successCount' = Cardinality(Ended("ok"))'
        /\ errorCount' = Cardinality(Ended("error"))'
    BY <1>2 DEF IInv, Tally, Ended, counters
  <2> QED BY <2>1, <2>2 DEF Tally
<1>3. CASE Return
  BY <1>3 DEF Return, IInv, Tally, Ended, counters
<1>4. ASSUME NEW j \in Jobs, AddJob(j) PROVE Tally'
  BY <1>2, <1>4 DEF AddJob
<1>5. CASE Close \/ Start \/ CloseResults \/ CloseErrors
  BY <1>2, <1>5 DEF Close, Start, CloseResults, CloseErrors
<1>6. CASE DrainStep
  BY <1>2, <1>6 DEF DrainStep, ReceiveResult, ReceiveError, RunHandler, SeeResultsClosed,
     SeeErrorsClosed
<1>7. ASSUME NEW w \in Workers, TakeJob(w) \/ Exit(w) \/ Send(w) PROVE Tally'
  BY <1>2, <1>7 DEF TakeJob, Exit, Send
<1>8. CASE Terminated \/ UNCHANGED vars
  BY <1>2, <1>8 DEF Terminated, vars
<1> QED BY <1>1, <1>3, <1>4, <1>5, <1>6, <1>7, <1>8 DEF Next, WorkerStep, MainStep

\* Every step keeps the inductive invariant.
LEMMA StepIInv == IInv /\ [Next]_vars => IInv'
<1> SUFFICES ASSUME IInv, [Next]_vars PROVE IInv'
  OBVIOUS
<1>1. TypeOK'
  BY StepTypeOK DEF IInv, Custody
<1>2. Phases'
  BY StepPhases DEF IInv
<1>3. Custody'
  BY StepCustody DEF IInv
<1>4. Tally'
  BY StepTally
<1> QED BY <1>1, <1>2, <1>3, <1>4 DEF IInv

\* The inductive invariant holds throughout.
THEOREM Invariance == Spec => []IInv
  BY InitIInv, StepIInv, PTL DEF Spec

-----------------------------------------------------------------------------
\* Every variable of the pool keeps its type.
THEOREM TypeCorrect == Spec => []TypeOK
<1>1. IInv => TypeOK
  BY DEF IInv
<1> QED BY <1>1, Invariance, PTL

\* No worker ever sends on a channel Start has closed.
THEOREM NoPanic == Spec => []NoSendOnClosedChannel
<1>1. IInv => NoSendOnClosedChannel
  BY DEF IInv, Phases, NoSendOnClosedChannel
<1> QED BY <1>1, Invariance, PTL

\* The buffers are large enough: no AddJob and no send ever waits for room.
THEOREM NeverBlocks == Spec => []SendNeverBlocks
<1>1. IInv => SendNeverBlocks
  <2> SUFFICES ASSUME IInv PROVE SendNeverBlocks
    OBVIOUS
  <2>1. ASSUME todo # {} PROVE HasRoom(jobs)
    <3>1. PICK j \in todo : TRUE
      BY <2>1
    <3> QED BY <3>1, RoomForOneMore DEF IInv, TypeOK, Custody, NothingLost
  <2>2. ASSUME NEW w \in Workers, wpc[w] = "sending"
        PROVE  HasRoom(results) /\ HasRoom(errs)
    <3>1. wjob[w] \in Jobs /\ wjob[w] \notin results \cup errs
      BY <2>2, QueueAssumption DEF IInv, TypeOK, Custody, WorkersHold, Busy
    <3> QED BY <3>1, RoomForOneMore DEF IInv, TypeOK
  <2> QED BY <2>1, <2>2 DEF SendNeverBlocks
<1> QED BY <1>1, Invariance, PTL

\* At the end every job has been reported, as what it was.
LEMMA AllReported ==
  ASSUME IInv, drain = "exit"
  PROVE  \A j \in Jobs : report[j] # "none" /\ report[j] = outcome[j]
<1>1. \A w \in Workers : wjob[w] = None
  BY DEF IInv, Phases, Custody, WorkersHold, Busy
<1>2. todo = {} /\ jobs = {} /\ results = {} /\ errs = {} /\ djob = None
  BY QueueAssumption DEF IInv, Phases, Custody, DrainerHolds
<1> QED BY <1>1, <1>2, QueueAssumption DEF IInv, Custody, NothingLost

\* The counters process() prints at its end are those of the reports.
THEOREM CountsAgree == Spec => []CountsTally
<1>1. IInv => CountsTally
  <2> SUFFICES ASSUME IInv, main = "done" PROVE CountsTally
    BY DEF CountsTally
  <2>1. \A j \in Jobs : report[j] = outcome[j]
    BY AllReported DEF IInv, Phases
  <2>2. \A r : {j \in Jobs : report[j] = r} = Ended(r)
    BY <2>1 DEF Ended
  <2> QED BY <2>2 DEF IInv, Tally, CountsTally
<1> QED BY <1>1, Invariance, PTL

-----------------------------------------------------------------------------
\* The detailed pool starts as the abstract operation does.
LEMMA InitAbstract == Init => Abstract!Init
  BY DEF Init, Abstract!Init

\* Every step of the pool is a step of the abstract operation or none.
LEMMA StepAbstract == IInv /\ IInv' /\ [Next]_vars => [Abstract!Next]_Abstract!vars
<1> SUFFICES ASSUME IInv, IInv', [Next]_vars PROVE [Abstract!Next]_Abstract!vars
  OBVIOUS
<1> USE DEF queue, worker, drainer, counters, seen
<1>1. CASE UNCHANGED <<outcome, report, calls, hasError>> /\ (main' = "done" <=> main = "done")
  BY <1>1 DEF Abstract!vars
<1>2. ASSUME NEW w \in Workers, NEW r \in {"ok", "error"}, Operate(w, r)
      PROVE  Abstract!Next
  <2>1. wjob[w] \in Jobs /\ outcome[wjob[w]] = "pending"
    BY <1>2, QueueAssumption DEF Operate, IInv, TypeOK, Custody, WorkersHold, Busy
  <2>2. Abstract!Perform(wjob[w])
    BY <1>2, <2>1 DEF Operate, Abstract!Perform
  <2> QED BY <2>1, <2>2 DEF Abstract!Next
<1>3. CASE RunHandler
  <2>1. djob \in Jobs /\ outcome[djob] # "pending" /\ report[djob] = "none"
        /\ outcome[djob] = IF drain = "result" THEN "ok" ELSE "error"
    BY <1>3, QueueAssumption DEF RunHandler, IInv, TypeOK, Custody, DrainerHolds
  <2>2. Abstract!Report(djob)
    BY <1>3, <2>1 DEF RunHandler, Abstract!Report
  <2> QED BY <2>1, <2>2 DEF Abstract!Next
<1>4. CASE Return
  <2>1. \A j \in Jobs : report[j] # "none"
    BY <1>4, AllReported DEF Return
  <2>2. errorCount > 0 <=> \E j \in Jobs : outcome[j] = "error"
    <3>1. IsFiniteSet(Ended("error"))
      BY FS_Subset, QueueAssumption DEF Ended
    <3>2. Cardinality(Ended("error")) \in Nat
          /\ (Cardinality(Ended("error")) = 0 <=> Ended("error") = {})
      BY <3>1, FS_EmptySet, FS_CardinalityType
    <3> QED BY <3>2 DEF Ended, IInv, Tally
  <2>3. Abstract!Finish
    BY <1>4, <2>1, <2>2 DEF Return, Abstract!Finish, IInv, Tally, TypeOK
  <2> QED BY <2>3 DEF Abstract!Next
<1>5. ASSUME NEW j \in Jobs, AddJob(j) PROVE [Abstract!Next]_Abstract!vars
  BY <1>1, <1>5 DEF AddJob
<1>6. CASE Close \/ Start \/ CloseResults \/ CloseErrors
  BY <1>1, <1>6 DEF Close, Start, CloseResults, CloseErrors
<1>7. CASE DrainStep /\ ~RunHandler
  BY <1>1, <1>7 DEF DrainStep, ReceiveResult, ReceiveError, SeeResultsClosed, SeeErrorsClosed
<1>8. ASSUME NEW w \in Workers, TakeJob(w) \/ Exit(w) \/ Send(w)
      PROVE  [Abstract!Next]_Abstract!vars
  BY <1>1, <1>8 DEF TakeJob, Exit, Send
<1>9. CASE Terminated \/ UNCHANGED vars
  BY <1>1, <1>9 DEF Terminated, vars
<1> QED BY <1>2, <1>3, <1>4, <1>5, <1>6, <1>7, <1>8, <1>9 DEF Next, WorkerStep, MainStep

\* The worker pool implements the bulk operation, for any repositories and
\* any number of workers.
THEOREM Refinement == Spec => ImplementsBulkOperation
  BY InitAbstract, StepAbstract, Invariance, PTL DEF Spec, ImplementsBulkOperation, Abstract!Spec

-----------------------------------------------------------------------------
(* The pool and the breaker inside the bulk command.                       *)

\* The operation on a repository, as the pool sees it, ends once or not at all.
LEMMA OperateStepIsPoolStep ==
  ASSUME NEW w \in Workers, OperateStep(w)
  PROVE  [Next]_vars
<1>1. ASSUME NEW r \in {"ok", "error"}, Operate(w, r) PROVE Next
  BY <1>1 DEF Next, WorkerStep
<1>2. CASE CallAdmitted(w) \/ CallRefused(w)
  BY <1>2 DEF CallAdmitted, CallRefused
<1>3. CASE RefusalReturned(w)
  BY <1>1, <1>3 DEF RefusalReturned
<1>4. CASE CallFailed(w)
  BY <1>1, <1>4 DEF CallFailed
<1>5. CASE CallSucceeded(w)
  BY <1>1, <1>5 DEF CallSucceeded
<1> QED
  BY <1>2, <1>3, <1>4, <1>5 DEF OperateStep

\* Every step of the bulk command is a step of its pool or leaves it alone.
LEMMA BulkStepIsPoolStep == [BulkNext]_bulkVars => [Next]_vars
<1> SUFFICES ASSUME [BulkNext]_bulkVars PROVE [Next]_vars
  OBVIOUS
<1>1. CASE (\E j \in Jobs : AddJob(j)) \/ MainStep \/ DrainStep
  BY <1>1 DEF Next
<1>2. CASE \E w \in Workers : OperateStep(w)
  BY <1>2, OperateStepIsPoolStep
<1>3. CASE \E w \in Workers : PoolStep(w)
  BY <1>3 DEF PoolStep, Next, WorkerStep
<1>4. CASE UNCHANGED vars
  BY <1>4
<1> QED
  BY <1>1, <1>2, <1>3, <1>4 DEF BulkNext, BulkStep, bulkVars

\* A bulk command on the network is a worker pool: what the breaker does to its
\* calls, the pool cannot tell from an operation that succeeds, fails or hangs.
THEOREM BulkIsAPool == BulkSpec => Spec
<1>1. BulkInit => Init
  BY DEF BulkInit
<1> QED
  BY <1>1, BulkStepIsPoolStep, PTL DEF BulkSpec, Spec

\* So every worker can deliver its outcome without a panic, and the command
\* reports each repository once, whatever the breaker does.
THEOREM BulkKeepsPromises ==
  BulkSpec => [](NoSendOnClosedChannel /\ CountsTally) /\ ImplementsBulkOperation
  BY BulkIsAPool, NoPanic, CountsAgree, Refinement, PTL

\* Each worker goes through Execute as the breaker expects of its callers.
THEOREM BreakerInBulk == BulkSpec => CB!SpecInUse
<1>1. BulkInit => CB!Init
  BY DEF BulkInit
<1>2. [BulkNext]_bulkVars => [CB!Calls \/ CB!Tick]_CB!vars
  <2> SUFFICES ASSUME [BulkNext]_bulkVars PROVE [CB!Calls \/ CB!Tick]_CB!vars
    OBVIOUS
  <2>1. CASE \E w \in Workers : OperateStep(w)
    BY <2>1 DEF OperateStep, CallAdmitted, CallRefused, RefusalReturned, CallFailed,
       CallSucceeded, CB!Calls
  <2>2. CASE UNCHANGED cb \/ CB!Tick
    BY <2>2 DEF cb, CB!vars
  <2> QED
    BY <2>1, <2>2 DEF BulkNext, BulkStep, PoolStep, bulkVars
<1> QED
  BY <1>1, <1>2, PTL DEF BulkSpec, CB!SpecInUse

-----------------------------------------------------------------------------
(* FewFailuresContained.                                                   *)

Few == Cardinality(failing) < MaxFailures

\* While only failing repositories have failed, each of them once, the breaker
\* has counted too few failures to open, so it has refused nobody.
ContainedInv ==
  /\ failing \subseteq Jobs
  /\ failures \in Nat
  /\ pc \in [Workers -> {"idle", "running", "denied"}]
  /\ crashed \in BOOLEAN
  /\ Few => /\ Ended("error") \subseteq failing
            /\ failures <= Cardinality(Ended("error"))
            /\ state = "CLOSED"
            /\ \A w \in Workers : pc[w] # "denied"
            /\ ~crashed

\* The failed jobs are fewer than the breaker tolerates.
LEMMA FewEnded ==
  ASSUME NEW S, S \subseteq failing, failing \subseteq Jobs
  PROVE  /\ IsFiniteSet(S) /\ Cardinality(S) \in Nat
         /\ Few => Cardinality(S) < MaxFailures
<1>1. IsFiniteSet(failing) /\ Cardinality(failing) \in Nat
  BY FS_Subset, FS_CardinalityType, QueueAssumption
<1>2. IsFiniteSet(S) /\ Cardinality(S) <= Cardinality(failing)
  BY <1>1, FS_Subset
<1>3. Cardinality(S) \in Nat
  BY <1>2, FS_CardinalityType
<1> QED
  BY <1>1, <1>2, <1>3, BreakerAssumption DEF Few

\* A call that fails is the first failure of a repository that is failing.
LEMMA FailureKeepsContained ==
  ASSUME IInv, ContainedInv, NEW w \in Workers, CallFailed(w)
  PROVE  ContainedInv'
<1>1. /\ wjob[w] \in Jobs /\ wjob[w] \in failing /\ outcome[wjob[w]] = "pending"
      /\ outcome' = [outcome EXCEPT ![wjob[w]] = "error"]
      /\ UNCHANGED <<failing, crashed>>
  BY QueueAssumption DEF CallFailed, Operate, extra, IInv, TypeOK, Custody, WorkersHold, Busy
<1>2. /\ failures' = CB!UpTo(MaxFailures, failures + 1)
      /\ state' = IF state = "CLOSED" /\ failures + 1 < MaxFailures THEN "CLOSED" ELSE "OPEN"
      /\ pc' = [pc EXCEPT ![w] = "idle"]
  BY DEF CallFailed, CB!RecordFailure
<1>3. failures' \in Nat /\ failures' <= failures + 1
  BY <1>2, BreakerAssumption DEF ContainedInv, CB!UpTo
<1>4. pc' \in [Workers -> {"idle", "running", "denied"}]
  BY <1>2 DEF ContainedInv
<1>5. ASSUME Few
      PROVE  /\ Ended("error")' \subseteq failing
             /\ failures' <= Cardinality(Ended("error")')
             /\ state' = "CLOSED"
             /\ \A v \in Workers : pc'[v] # "denied"
             /\ ~crashed
  <2>1. Ended("error")' \subseteq failing
    BY <1>1, <1>5 DEF ContainedInv, Ended, IInv, TypeOK
  <2>2. Cardinality(Ended("error")') = Cardinality(Ended("error")) + 1
    BY <1>1, OneMoreEnded DEF IInv
  <2>3. Cardinality(Ended("error")) \in Nat /\ Cardinality(Ended("error")') < MaxFailures
    BY <1>5, <2>1, FewEnded DEF ContainedInv
  <2>4. failures + 1 < MaxFailures /\ failures + 1 <= Cardinality(Ended("error")')
    BY <1>5, <2>2, <2>3, BreakerAssumption DEF ContainedInv
  <2>5. failures' <= Cardinality(Ended("error")')
    BY <1>3, <2>2, <2>3, <2>4 DEF ContainedInv
  <2>6. state' = "CLOSED"
    BY <1>2, <1>5, <2>4 DEF ContainedInv
  <2>7. (\A v \in Workers : pc'[v] # "denied") /\ ~crashed
    BY <1>2, <1>5 DEF ContainedInv
  <2> QED
    BY <2>1, <2>5, <2>6, <2>7
<1>6. Few' <=> Few
  BY <1>1 DEF Few
<1> QED
  BY <1>1, <1>3, <1>4, <1>5, <1>6 DEF ContainedInv

\* A call that succeeds takes the count of a closed breaker back to nothing.
LEMMA SuccessKeepsContained ==
  ASSUME IInv, ContainedInv, NEW w \in Workers, CallSucceeded(w)
  PROVE  ContainedInv'
<1>1. /\ wjob[w] \in Jobs /\ outcome' = [outcome EXCEPT ![wjob[w]] = "ok"]
      /\ outcome[wjob[w]] = "pending" /\ UNCHANGED <<failing, crashed>>
  BY QueueAssumption DEF CallSucceeded, Operate, extra, IInv, TypeOK, Custody, WorkersHold, Busy
<1>2. /\ failures' \in {0, failures}
      /\ state = "CLOSED" => state' = "CLOSED" /\ failures' = 0
      /\ pc' = [pc EXCEPT ![w] = "idle"]
  BY DEF CallSucceeded, CB!RecordSuccess, CB!CountSuccess
<1>3. Ended("error")' = Ended("error")
  BY <1>1 DEF Ended, IInv, TypeOK
<1>4. Few' <=> Few
  BY <1>1 DEF Few
<1>5. Few => 0 <= Cardinality(Ended("error"))
  BY FewEnded DEF ContainedInv
<1> QED
  BY <1>1, <1>2, <1>3, <1>4, <1>5 DEF ContainedInv

\* Until a call ends, nothing is counted; a closed breaker refuses nobody.
LEMMA CallKeepsContained ==
  ASSUME IInv, ContainedInv, NEW w \in Workers,
         CallAdmitted(w) \/ CallRefused(w) \/ RefusalReturned(w)
  PROVE  ContainedInv'
<1>1. CASE CallAdmitted(w)
  <2>1. /\ UNCHANGED <<failing, crashed, failures, outcome>>
        /\ pc' = [pc EXCEPT ![w] = "running"]
        /\ state = "CLOSED" => state' = "CLOSED"
    BY <1>1 DEF CallAdmitted, CB!AllowRequest, extra, vars
  <2> QED
    BY <2>1 DEF ContainedInv, Few, Ended
<1>2. CASE CallRefused(w)
  <2>1. /\ UNCHANGED <<failing, crashed, failures, outcome, state>>
        /\ pc' = [pc EXCEPT ![w] = "denied"]
        /\ state # "CLOSED"
    BY <1>2 DEF CallRefused, CB!DenyRequest, CB!Admits, extra, vars
  <2> QED
    BY <2>1 DEF ContainedInv, Few
<1>3. CASE RefusalReturned(w)
  <2>1. /\ UNCHANGED <<failing, failures>> /\ pc' = [pc EXCEPT ![w] = "idle"]
        /\ crashed' \in {TRUE, crashed} /\ pc[w] = "denied"
    BY <1>3 DEF RefusalReturned, CB!GetError
  <2>2. crashed' \in BOOLEAN
    BY <2>1 DEF ContainedInv
  <2> QED
    BY <2>1, <2>2 DEF ContainedInv, Few
<1> QED
  BY <1>1, <1>2, <1>3

\* What happens around the calls changes no outcome and does not touch the breaker.
LEMMA RestKeepsContained ==
  ASSUME ContainedInv, UNCHANGED <<outcome, state, failures, pc, extra>>
  PROVE  ContainedInv'
BY DEF ContainedInv, Few, Ended, extra

LEMMA PoolLeavesOutcomes ==
  ASSUME (\E j \in Jobs : AddJob(j)) \/ MainStep \/ DrainStep
           \/ \E w \in Workers : TakeJob(w) \/ Exit(w) \/ Send(w)
  PROVE  UNCHANGED outcome
BY DEF AddJob, MainStep, Close, Start, CloseResults, CloseErrors, Return, DrainStep,
   ReceiveResult, ReceiveError, RunHandler, SeeResultsClosed, SeeErrorsClosed, TakeJob,
   Exit, Send

LEMMA StepKeepsContained ==
  IInv /\ ContainedInv /\ [BulkNext]_bulkVars => ContainedInv'
<1> SUFFICES ASSUME IInv, ContainedInv, [BulkNext]_bulkVars PROVE ContainedInv'
  OBVIOUS
<1>1. ASSUME NEW w \in Workers, OperateStep(w) PROVE ContainedInv'
  BY <1>1, CallKeepsContained, FailureKeepsContained, SuccessKeepsContained DEF OperateStep
<1>2. CASE \/ (\E j \in Jobs : AddJob(j)) /\ UNCHANGED <<cb, extra>>
           \/ MainStep /\ UNCHANGED <<cb, extra>>
           \/ DrainStep /\ UNCHANGED <<cb, extra>>
           \/ \E w \in Workers : PoolStep(w)
  BY <1>2, PoolLeavesOutcomes, RestKeepsContained DEF PoolStep, cb
<1>3. CASE CB!Tick /\ UNCHANGED <<vars, extra>>
  BY <1>3, RestKeepsContained DEF CB!Tick, vars
<1>4. CASE UNCHANGED bulkVars
  BY <1>4, RestKeepsContained DEF bulkVars, vars, cb
<1> QED
  BY <1>1, <1>2, <1>3, <1>4 DEF BulkNext, BulkStep

\* Failures on fewer repositories than the breaker tolerates stay where they
\* are, however many repositories and workers there are and however the calls
\* interleave: the shared breaker stays closed and refuses no other repository.
THEOREM FewContained == BulkSpec => []FewFailuresContained
<1>1. BulkInit => ContainedInv
  <2> SUFFICES ASSUME BulkInit PROVE ContainedInv
    OBVIOUS
  <2>1. Ended("error") = {} /\ Cardinality(Ended("error")) = 0
    BY FS_EmptySet DEF BulkInit, Init, Ended
  <2>2. /\ failing \subseteq Jobs /\ failures = 0 /\ state = "CLOSED"
        /\ pc = [w \in Workers |-> "idle"]
    BY DEF BulkInit, CB!Init
  <2>3. crashed \in BOOLEAN /\ ~crashed
    BY DEF BulkInit
  <2>4. failures <= Cardinality(Ended("error"))
    BY <2>1, <2>2
  <2> QED
    BY <2>1, <2>2, <2>3, <2>4 DEF ContainedInv
<1>2. ContainedInv => FewFailuresContained
  BY DEF ContainedInv, FewFailuresContained, Few, Ended
<1> QED
  BY <1>1, <1>2, StepKeepsContained, BulkIsAPool, Invariance, PTL DEF BulkSpec
=============================================================================
