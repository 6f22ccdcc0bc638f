----------------------- MODULE WorkflowCommandsProofs -----------------------
(***************************************************************************)
(* Theorems about the commands that follow workflow runs: what is said of  *)
(* a rerun is never said of the attempt before it, all runs of a push that *)
(* were found are followed, an exit code of 0 is honest, and progress comes in order.     *)
(***************************************************************************)
EXTENDS WorkflowCommands, FiniteSetTheorems, WellFoundedInduction, TLAPS

-----------------------------------------------------------------------------
(* Sequences.                                                              *)

\* Of some numbers one is the least: what holds of none of the sequences a fold
\* goes through fails at a first one.
LEMMA LeastNatural ==
  ASSUME NEW T, T \subseteq Nat, T # {}
  PROVE  \E n \in T : \A m \in T : n <= m
<1>1. PICK n \in T : \A m \in T : ~ (<<m, n>> \in OpToRel(<, Nat))
  <2> DEFINE R == OpToRel(<, Nat)
  <2>1. IsWellFoundedOn(R, Nat)
    BY NatLessThanWellFounded
  <2> HIDE DEF R
  <2>2. \E n \in T : \A m \in T : ~ (<<m, n>> \in R)
    BY <2>1, WFMin, Zenon
  <2> QED BY <2>2 DEF R
<1>2. \A m \in T : ~ (m < n)
  BY <1>1 DEF OpToRel
<1> QED BY <1>2

\* F has its elements in an order R allows.
Ordered(F, R) == \A m, n \in 1..Len(F) : m < n => <<F[m], F[n]>> \in R

\* What stands in F, and what stands in the first n of some sequences.
Said(F) == {F[m] : m \in 1..Len(F)}
SaidBefore(seqs, n) == UNION {Said(seqs[k]) : k \in 1..n}

LEMMA OrderedConcat ==
  ASSUME NEW E, NEW R, NEW F \in Seq(E), NEW G \in Seq(E), Ordered(F, R), Ordered(G, R),
         \A x \in Said(F), y \in Said(G) : <<x, y>> \in R
  PROVE  F \o G \in Seq(E) /\ Ordered(F \o G, R) /\ Said(F \o G) = Said(F) \cup Said(G)
<1> DEFINE H == F \o G
<1>1. /\ H \in Seq(E) /\ Len(H) = Len(F) + Len(G)
      /\ \A n \in 1..Len(H) : H[n] = IF n <= Len(F) THEN F[n] ELSE G[n - Len(F)]
  OBVIOUS
<1>2. Len(F) \in Nat /\ Len(G) \in Nat
  OBVIOUS
<1> HIDE DEF H
<1>3. ASSUME NEW m \in 1..Len(H), NEW n \in 1..Len(H), m < n PROVE <<H[m], H[n]>> \in R
  <2>1. CASE n <= Len(F)
    BY <1>1, <1>2, <1>3, <2>1 DEF Ordered
  <2>2. CASE ~(n <= Len(F)) /\ m <= Len(F)
    <3>1. m \in 1..Len(F) /\ n - Len(F) \in 1..Len(G)
      BY <1>1, <1>2, <2>2
    <3>2. F[m] \in Said(F) /\ G[n - Len(F)] \in Said(G)
      BY <3>1 DEF Said
    <3> QED
      BY <1>1, <2>2, <3>2
  <2>3. CASE ~(n <= Len(F)) /\ ~(m <= Len(F))
    <3>1. m - Len(F) \in 1..Len(G) /\ n - Len(F) \in 1..Len(G) /\ m - Len(F) < n - Len(F)
      BY <1>1, <1>2, <1>3, <2>3
    <3> QED
      BY <1>1, <2>3, <3>1 DEF Ordered
  <2> QED
    BY <2>1, <2>2, <2>3
<1>4. Said(H) \subseteq Said(F) \cup Said(G)
  <2> SUFFICES ASSUME NEW n \in 1..Len(H) PROVE H[n] \in Said(F) \cup Said(G)
    BY DEF Said
  <2>1. CASE n <= Len(F)
    BY <1>1, <1>2, <2>1 DEF Said
  <2>2. CASE ~(n <= Len(F))
    <3>1. n - Len(F) \in 1..Len(G)
      BY <1>1, <1>2, <2>2
    <3> QED
      BY <1>1, <2>2, <3>1 DEF Said
  <2> QED
    BY <2>1, <2>2
<1>5. Said(F) \subseteq Said(H)
  <2> SUFFICES ASSUME NEW n \in 1..Len(F) PROVE F[n] \in Said(H)
    BY DEF Said
  <2>1. n \in 1..Len(H) /\ H[n] = F[n]
    BY <1>1, <1>2
  <2> QED
    BY <2>1 DEF Said
<1>6. Said(G) \subseteq Said(H)
  <2> SUFFICES ASSUME NEW n \in 1..Len(G) PROVE G[n] \in Said(H)
    BY DEF Said
  <2>1. n + Len(F) \in 1..Len(H) /\ H[n + Len(F)] = G[n]
    BY <1>1, <1>2
  <2> QED
    BY <2>1 DEF Said
<1>7. H \in Seq(E) /\ Ordered(H, R) /\ Said(H) = Said(F) \cup Said(G)
  BY <1>1, <1>3, <1>4, <1>5, <1>6 DEF Ordered
<1> QED
  BY <1>7 DEF H

\* f is FlattenSeq's recursive function on the first n of the sequences.
IsFlattening(f, seqs, n) == f = [i \in 1..n |-> IF i = 1 THEN seqs[i] ELSE f[i - 1] \o seqs[i]]

LEMMA FlatteningExists == ASSUME NEW seqs, NEW N \in Nat PROVE \E f : IsFlattening(f, seqs, N)
<1> DEFINE Bad == {n \in Nat : ~ \E f : IsFlattening(f, seqs, n)}
<1> SUFFICES ASSUME Bad # {} PROVE FALSE
  OBVIOUS
<1>1. Bad \subseteq Nat
  OBVIOUS
<1> HIDE DEF Bad
<1>2. PICK n \in Bad : \A m \in Bad : n <= m
  BY <1>1, LeastNatural
<1>3. n \in Nat /\ ~ \E f : IsFlattening(f, seqs, n)
  BY <1>2 DEF Bad
<1>4. CASE n = 0
  <2>1. IsFlattening([i \in 1..0 |-> i], seqs, 0)
    BY DEF IsFlattening
  <2> QED
    BY <1>3, <1>4, <2>1
<1>5. CASE n # 0
  <2>1. n - 1 \in Nat /\ ~(n <= n - 1)
    BY <1>3, <1>5
  <2>2. n - 1 \notin Bad
    BY <1>2, <2>1
  <2>3. PICK f : IsFlattening(f, seqs, n - 1)
    BY <2>1, <2>2 DEF Bad
  <2> DEFINE g == [i \in 1..n |-> IF i = n THEN (IF n = 1 THEN seqs[1] ELSE f[n - 1] \o seqs[n]) ELSE f[i]]
  <2>4. \A i \in 1..(n - 1) : i \in 1..n /\ i # n /\ g[i] = f[i]
    BY <1>3, <2>1
  <2>5. IsFlattening(g, seqs, n)
    <3> SUFFICES ASSUME NEW i \in 1..n
                 PROVE  g[i] = IF i = 1 THEN seqs[i] ELSE g[i - 1] \o seqs[i]
      BY DEF IsFlattening
    <3>1. CASE i = n
      <4>1. n # 1 => n - 1 \in 1..(n - 1)
        BY <1>3, <2>1
      <4> QED
        BY <2>4, <3>1, <4>1
    <3>2. CASE i # n
      <4>1. i \in 1..(n - 1) /\ (i # 1 => i - 1 \in 1..(n - 1))
        BY <1>3, <2>1, <3>2
      <4>2. f[i] = IF i = 1 THEN seqs[i] ELSE f[i - 1] \o seqs[i]
        BY <2>3, <4>1 DEF IsFlattening
      <4> QED
        BY <2>4, <4>1, <4>2
    <3> QED
      BY <3>1, <3>2
  <2> QED
    BY <1>3, <2>5
<1> QED
  BY <1>4, <1>5

LEMMA FlattenUnfolds ==
  ASSUME NEW seqs, Len(seqs) \in Nat \ {0}
  PROVE  \E f : IsFlattening(f, seqs, Len(seqs)) /\ FlattenSeq(seqs) = f[Len(seqs)]
<1>1. \E f : IsFlattening(f, seqs, Len(seqs))
  BY FlatteningExists
<1> QED
  BY <1>1 DEF FlattenSeq, IsFlattening

\* What FlattenSeq returns is in order if each sequence is and, of any two, all
\* the first says may come before all the second says.
LEMMA FlattenOrdered ==
  ASSUME NEW E, NEW R, NEW seqs \in Seq(Seq(E)),
         \A k \in 1..Len(seqs) : Ordered(seqs[k], R),
         \A k, l \in 1..Len(seqs) : k < l => \A x \in Said(seqs[k]), y \in Said(seqs[l]) : <<x, y>> \in R
  PROVE  /\ FlattenSeq(seqs) \in Seq(E) /\ Ordered(FlattenSeq(seqs), R)
         /\ Said(FlattenSeq(seqs)) = SaidBefore(seqs, Len(seqs))
<1> DEFINE N == Len(seqs)
           Good(n, s) == s \in Seq(E) /\ Ordered(s, R) /\ Said(s) = SaidBefore(seqs, n)
<1>1. N \in Nat /\ \A k \in 1..N : seqs[k] \in Seq(E)
  OBVIOUS
<1>2. CASE N = 0
  <2>1. seqs = <<>> /\ FlattenSeq(seqs) = <<>>
    BY <1>2 DEF FlattenSeq
  <2>2. Len(<<>>) = 0 /\ <<>> \in Seq(E) /\ 1..0 = {}
    OBVIOUS
  <2> QED
    BY <2>1, <2>2 DEF Ordered, Said, SaidBefore
<1>3. ASSUME N # 0 PROVE Good(N, FlattenSeq(seqs))
  <2>1. PICK f : IsFlattening(f, seqs, N) /\ FlattenSeq(seqs) = f[N]
    BY <1>1, <1>3, FlattenUnfolds
  <2> DEFINE Bad == {n \in 1..N : ~Good(n, f[n])}
  <2>2. Bad \subseteq 1..N /\ Bad \subseteq Nat
    OBVIOUS
  <2>3. \A n \in 1..N : n \notin Bad => Good(n, f[n])
    OBVIOUS
  <2> SUFFICES ASSUME Bad # {} PROVE FALSE
    BY <1>1, <1>3, <2>1
  <2> HIDE DEF Bad
  <2>4. PICK n \in Bad : \A m \in Bad : n <= m
    BY <2>2, LeastNatural
  <2>5. n \in 1..N /\ ~Good(n, f[n])
    BY <2>4 DEF Bad
  <2>6. f[n] = IF n = 1 THEN seqs[n] ELSE f[n - 1] \o seqs[n]
    BY <2>1, <2>5 DEF IsFlattening
  <2>7. CASE n = 1
    <3>1. SaidBefore(seqs, 1) = Said(seqs[1])
      <4>1. 1..1 = {1}
        OBVIOUS
      <4> QED
        BY <4>1 DEF SaidBefore
    <3> QED
      BY <1>1, <2>5, <2>6, <2>7, <3>1
  <2>8. CASE n # 1
    <3>1. n - 1 \in 1..N /\ ~(n <= n - 1)
      BY <1>1, <2>5, <2>8
    <3>2. n - 1 \notin Bad
      BY <2>4, <3>1
    <3>3. Good(n - 1, f[n - 1])
      BY <2>3, <3>1, <3>2
    <3>4. SaidBefore(seqs, n) = SaidBefore(seqs, n - 1) \cup Said(seqs[n])
      <4>1. 1..n = (1..(n - 1)) \cup {n}
        BY <1>1, <2>5
      <4> QED
        BY <4>1 DEF SaidBefore
    <3>5. ASSUME NEW x \in Said(f[n - 1]), NEW y \in Said(seqs[n]) PROVE <<x, y>> \in R
      <4>1. PICK k \in 1..(n - 1) : x \in Said(seqs[k])
        BY <3>3 DEF SaidBefore
      <4>2. k \in 1..N /\ k < n
        BY <1>1, <2>5, <4>1
      <4> QED
        BY <2>5, <4>1, <4>2
    <3>6. Good(n, f[n - 1] \o seqs[n])
      BY <1>1, <2>5, <3>3, <3>4, <3>5, OrderedConcat
    <3> QED
      BY <2>5, <2>6, <2>8, <3>6
  <2> QED
    BY <2>7, <2>8
<1> QED
  BY <1>2, <1>3

LEMMA SetAsSequence ==
  ASSUME NEW S, IsFiniteSet(S)
  PROVE  /\ SetToSeq(S) \in Seq(S) /\ Said(SetToSeq(S)) \subseteq S
         /\ \A m, n \in 1..Len(SetToSeq(S)) : SetToSeq(S)[m] = SetToSeq(S)[n] => m = n
<1>1. Cardinality(S) \in Nat /\ ExistsBijection(1..Cardinality(S), S)
  BY FS_CardinalityType
<1>2. PICK f \in [1..Cardinality(S) -> S] : IsInjective(f)
  BY <1>1 DEF ExistsBijection, Bijection, Injection
<1>3. SetToSeq(S) \in [1..Cardinality(S) -> S] /\ IsInjective(SetToSeq(S))
  BY <1>2 DEF SetToSeq
<1>4. SetToSeq(S) \in Seq(S) /\ Len(SetToSeq(S)) = Cardinality(S)
  BY <1>1, <1>3
<1> QED
  BY <1>3, <1>4 DEF Said, IsInjective

-----------------------------------------------------------------------------
(* FollowsTheRerun.                                                        *)

\* What every step keeps of the parts that attempts depend on.
AttemptTypes ==
  /\ attempt \in 1..2 /\ prevAttempt \in 0..1 /\ attemptSeen \in 0..2
  /\ attemptSeen <= attempt

\* A rerun looks for no other runs and queues none, and before it is requested there is neither a new
\* attempt nor anything followed.
RerunAlone ==
  /\ queue = <<>> /\ step \notin {"look", "again"}
  /\ step \in {"begin", "send"} => ended = {} /\ ~sent
  /\ ~sent => attempt = 1

\* GitHub shows the first attempt as completed, and so does a detail of it.
OldAttemptIsDone ==
  /\ attempt = 1 => runDone
  /\ pc = "jobs" /\ attemptSeen <= 1 => attemptSeen = 1 /\ runSeen

\* What is followed is the new attempt, or a detail with an error.
NewAttempt ==
  step = "follow" =>
    \/ attemptSeen > prevAttempt /\ attempt > prevAttempt
    \/ detail = "error" /\ pc = "returned"

ToldIsNew == \A e \in ended : e.told => e.attempt > prevAttempt

RerunInv ==
  /\ AttemptTypes
  /\ kind = "rerun" =>
       /\ RerunAlone /\ OldAttemptIsDone
       /\ prevAttempt # 0 => NewAttempt /\ ToldIsNew

LEMMA RerunInitial == CommandInit => RerunInv
<1> SUFFICES ASSUME CommandInit PROVE RerunInv
  OBVIOUS
<1>1. /\ attempt = 1 /\ prevAttempt = 0 /\ attemptSeen = 0
      /\ queue = <<>> /\ ended = {} /\ pc = "run" /\ sent = FALSE /\ step \in {"begin", "send"}
  BY DEF CommandInit
<1>2. kind = "rerun" => runDone
  BY DEF CommandInit
<1>3. AttemptTypes
  BY <1>1, <1>2 DEF AttemptTypes
<1> QED
  BY <1>1, <1>2, <1>3 DEF RerunInv, RerunAlone, OldAttemptIsDone

USE DEF RerunInv, AttemptTypes, RerunAlone, OldAttemptIsDone, NewAttempt, ToldIsNew

LEMMA GitHubKeepsRerunInv ==
  ASSUME RerunInv,
         AttemptBegins \/ CurrentMoves \/ Interrupt \/ TimeOut \/ (\E r \in Runs : RunStarts(r))
  PROVE  RerunInv'
<1>1. CASE AttemptBegins
  BY <1>1 DEF AttemptBegins, progress, detailVars, context, lookup, follow
<1>2. CASE CurrentMoves
  <2>1. runDone => runDone'
    BY <1>2 DEF CurrentMoves, RunMoves, ItemStarts, ItemRequeued, ItemEnds, RunEnds
  <2> QED
    BY <1>2, <2>1 DEF CurrentMoves, detailVars, context, hub, lookup, follow
<1>3. CASE Interrupt \/ TimeOut
  BY <1>3 DEF Interrupt, TimeOut, run, detailVars, hub, lookup, follow
<1>4. CASE \E r \in Runs : RunStarts(r)
  BY <1>4 DEF RunStarts, vars, run, lookup, follow
<1> QED
  BY <1>1, <1>2, <1>3, <1>4

LEMMA RequestKeepsRerunInv ==
  ASSUME RerunInv, NEW accepted \in BOOLEAN, NEW answered \in BOOLEAN,
         RerunWorkflowRun(accepted, answered) \/ CancelWorkflowRun(accepted, answered)
           \/ Push(accepted, answered)
  PROVE  RerunInv'
<1>1. /\ UNCHANGED <<attempt, prevAttempt, attemptSeen, runDone, runSeen, kind, pc, detail, ended>>
      /\ step = "send"
      /\ sent' \in BOOLEAN
  BY DEF RerunWorkflowRun, CancelWorkflowRun, Push, Request, vars, run, lookup
<1>2. kind = "rerun" => queue' = <<>> /\ step' \in {"wait", "done"}
  BY DEF RerunWorkflowRun, CancelWorkflowRun, Push, Request
<1> QED
  BY <1>1, <1>2

LEMMA AsksKeepRerunInv == ASSUME RerunInv, Asks PROVE RerunInv'
<1>1. CASE Dispatch
  BY <1>1 DEF Dispatch, vars, run, lookup
<1>2. ASSUME NEW ok \in BOOLEAN, View(ok) PROVE RerunInv'
  BY <1>2 DEF View, vars, run, hub, lookup
<1>3. ASSUME NEW ok \in BOOLEAN, ReadAttempt(ok) PROVE RerunInv'
  BY <1>3 DEF ReadAttempt, vars, run, hub
<1>4. ASSUME NEW ok \in BOOLEAN, Look(ok), kind # "rerun" PROVE RerunInv'
  BY <1>4 DEF Look, vars, run, hub
<1>5. ASSUME NEW ok \in BOOLEAN, LookAgain(ok), kind # "rerun" PROVE RerunInv'
  BY <1>5 DEF LookAgain, vars, run, hub, lookup
<1>6. ASSUME NEW ok \in BOOLEAN, Look(ok) \/ LookAgain(ok), kind = "rerun" PROVE FALSE
  BY <1>6 DEF Look, LookAgain
<1> QED
  BY <1>1, <1>2, <1>3, <1>4, <1>5, <1>6, RequestKeepsRerunInv DEF Asks

LEMMA DetailKeepsRerunInv ==
  ASSUME RerunInv, NEW ok \in BOOLEAN, FetchAttempt(ok) \/ FetchDetail(ok)
  PROVE  RerunInv'
<1>1. CASE FetchAttempt(ok)
  <2>1. /\ UNCHANGED <<attempt, prevAttempt, runDone, kind, queue, ended, sent>>
        /\ pc = "run" /\ step \in {"wait", "follow"}
    BY <1>1 DEF FetchAttempt, FetchRun, hub, run
  <2>2. CASE ok
    BY <1>1, <2>1, <2>2 DEF FetchAttempt, FetchRun
  <2>3. CASE ~ok
    BY <1>1, <2>1, <2>3 DEF FetchAttempt, FetchRun, Finish
  <2> QED
    BY <2>2, <2>3
<1>2. CASE FetchDetail(ok)
  <2>1. /\ UNCHANGED <<attempt, prevAttempt, attemptSeen, runDone, runSeen, kind, queue, ended, sent>>
        /\ pc = "jobs" /\ step \in {"wait", "follow"} /\ step' = "follow"
        /\ step = "wait" => Started(ok)
    BY <1>2 DEF FetchDetail, FetchJobs, hub, run, lookup
  <2>2. /\ pc' # "jobs"
        /\ ~ok => detail' = "error" /\ pc' = "returned"
    BY <1>2 DEF FetchDetail, FetchJobs, Finish
  <2>3. ok /\ kind = "rerun" /\ prevAttempt # 0 => attemptSeen > prevAttempt /\ attempt > prevAttempt
    BY <2>1 DEF Started
  <2> QED
    BY <2>1, <2>2, <2>3
<1> QED
  BY <1>1, <1>2

LEMMA FollowsKeepRerunInv == ASSUME RerunInv, Follows PROVE RerunInv'
<1>1. CASE NotStarted
  BY <1>1 DEF NotStarted, run, hub
<1>2. CASE Polls
  BY <1>2 DEF Polls, CheckContext, run, hub, lookup, follow
<1>3. ASSUME NextRun, kind # "rerun" PROVE RerunInv'
  BY <1>3 DEF NextRun, hub, vars, run
<1>4. ASSUME NextRun, kind = "rerun" PROVE FALSE
  BY <1>4 DEF NextRun
<1>5. CASE FollowEnds
  <2>1. /\ UNCHANGED <<attempt, prevAttempt, attemptSeen, runDone, runSeen, kind, queue, pc, sent>>
        /\ step = "follow" /\ step' = "next"
    BY <1>5 DEF FollowEnds, vars, run, hub, lookup
  <2>2. kind = "rerun" /\ prevAttempt # 0 => ToldIsNew'
    <3> SUFFICES ASSUME kind = "rerun", prevAttempt # 0, NEW e \in ended', e.told PROVE e.attempt > prevAttempt
      BY <2>1
    <3>1. CASE e \in ended
      BY <3>1
    <3>2. CASE e = [run |-> current, attempt |-> attemptSeen, done |-> runDone,
                    told |-> detail = "ok" /\ runSeen]
      <4>1. e.attempt = attemptSeen /\ detail = "ok"
        BY <3>2
      <4> QED
        BY <4>1, <2>1
    <3> QED
      BY <1>5, <3>1, <3>2 DEF FollowEnds
  <2>3. AttemptTypes' /\ (kind = "rerun" => RerunAlone' /\ OldAttemptIsDone' /\ NewAttempt')
    BY <2>1
  <2> QED
    BY <2>1, <2>2, <2>3
<1>6. CASE Finished
  BY <1>6 DEF Finished, vars, run, hub, lookup
<1> QED
  BY <1>1, <1>2, <1>3, <1>4, <1>5, <1>6, DetailKeepsRerunInv DEF Follows

LEMMA LiveKeepsRerunInv ==
  ASSUME RerunInv,
         TickFires \/ PressRefresh \/ LiveQuits \/ LiveFails \/ (\E ok \in BOOLEAN : Data(ok))
  PROVE  RerunInv'
<1>1. /\ UNCHANGED <<attempt, prevAttempt, attemptSeen, runDone, runSeen, kind, queue, detail,
                     ended, sent, step>>
      /\ pc' \in {pc, "returned"}
  BY DEF TickFires, PressRefresh, LiveQuits, LiveFails, Data, LiveStays, detailVars, run, hub, lookup
<1> QED
  BY <1>1

LEMMA RerunKept == RerunInv /\ [CommandNext]_cmdVars => RerunInv'
<1> SUFFICES ASSUME RerunInv, [CommandNext]_cmdVars PROVE RerunInv'
  OBVIOUS
<1>1. CASE UNCHANGED cmdVars
  BY <1>1 DEF cmdVars, vars, run, hub, lookup, follow
<1>2. CASE CommandNext
  BY <1>2, GitHubKeepsRerunInv, AsksKeepRerunInv, FollowsKeepRerunInv, LiveKeepsRerunInv
     DEF CommandNext, CommandStep, LiveStep, Others
<1> QED
  BY <1>1, <1>2

\* FollowsTheRerun: nothing is said of the end of a rerun but the end of the new
\* attempt (WaitForRerun, and the detail each poll starts from), when the
\* attempt before could be read.
THEOREM RerunIsFollowed == CommandSpec => []FollowsTheRerun
<1>1. RerunInv => FollowsTheRerun
  BY DEF FollowsTheRerun
<1> QED
  BY RerunInitial, RerunKept, <1>1, PTL DEF CommandSpec

-----------------------------------------------------------------------------
(* MatchesAreFollowed.                                                     *)

LEMMA SetAsSequenceIsAll ==
  ASSUME NEW S, IsFiniteSet(S)
  PROVE  Said(SetToSeq(S)) = S /\ Len(SetToSeq(S)) = Cardinality(S)
<1>1. Cardinality(S) \in Nat /\ ExistsBijection(1..Cardinality(S), S)
  BY FS_CardinalityType
<1>2. PICK f \in [1..Cardinality(S) -> S] : IsInjective(f)
  BY <1>1 DEF ExistsBijection, Bijection, Injection
<1>3. SetToSeq(S) \in [1..Cardinality(S) -> S] /\ IsInjective(SetToSeq(S))
  BY <1>2 DEF SetToSeq
<1>4. SetToSeq(S) \in Injection(1..Cardinality(S), S)
  BY <1>3 DEF Injection, IsInjective
<1>5. IsFiniteSet(1..Cardinality(S)) /\ Cardinality(1..Cardinality(S)) = Cardinality(S)
  BY <1>1, FS_Interval
<1>6. SetToSeq(S) \in Surjection(1..Cardinality(S), S)
  BY <1>4, <1>5, FS_Injection
<1> QED
  BY <1>1, <1>3, <1>6 DEF Said, Surjection

LEMMA HeadAndTail ==
  ASSUME NEW E, NEW F \in Seq(E), F # <<>>
  PROVE  Said(F) = {Head(F)} \cup Said(Tail(F))
<1>1. /\ Len(Tail(F)) = Len(F) - 1 /\ Len(F) \in Nat \ {0} /\ Head(F) = F[1]
      /\ \A n \in 1..Len(Tail(F)) : Tail(F)[n] = F[n + 1]
  OBVIOUS
<1>2. ASSUME NEW n \in 1..Len(F) PROVE F[n] \in {Head(F)} \cup Said(Tail(F))
  <2>1. CASE n = 1
    BY <1>1, <2>1
  <2>2. CASE n # 1
    <3>1. n - 1 \in 1..Len(Tail(F)) /\ Tail(F)[n - 1] = F[n]
      BY <1>1, <2>2
    <3> QED
      BY <3>1 DEF Said
  <2> QED
    BY <2>1, <2>2
<1>3. ASSUME NEW n \in 1..Len(Tail(F)) PROVE Tail(F)[n] \in Said(F)
  <2>1. n + 1 \in 1..Len(F) /\ Tail(F)[n] = F[n + 1]
    BY <1>1
  <2> QED
    BY <2>1 DEF Said
<1>4. Head(F) \in Said(F)
  BY <1>1 DEF Said
<1> QED
  BY <1>2, <1>3, <1>4 DEF Said

Followed == {e.run : e \in ended}

\* Until a lookup has matched there is nothing to follow but the run a command
\* was given; what it has matched is either in the queue, followed now, or over.
MatchesInv ==
  /\ queue \in Seq(Runs \cup {"error", "noid", "run"})
  /\ matches \subseteq Runs /\ matches \subseteq matchingRuns(runs)
  /\ step \in {"begin", "send", "wait", "look"} =>
       matches = {} /\ ended = {} /\ queue = <<>> /\ current = "run"
  /\ step = "again" => Said(queue) = matches /\ Len(queue) = Cardinality(matches) /\ ended = {}
  /\ step = "next" => matches = (Followed \cup Said(queue)) \cap Runs
  /\ step = "follow" => matches = (Followed \cup Said(queue) \cup {current}) \cap Runs
  /\ step = "done" => matches = Followed \cap Runs

LEMMA NothingSaid == Said(<<>>) = {}
BY DEF Said

LEMMA MatchesInitially == CommandInit => MatchesInv
BY DEF CommandInit, MatchesInv

\* Steps that touch nothing of it.
LEMMA KeepMatches ==
  ASSUME MatchesInv, UNCHANGED <<kind, step, queue, current, ended, matches>>, runs \subseteq runs'
  PROVE  MatchesInv'
BY DEF MatchesInv, Followed, matchingRuns

LEMMA LooksKeepMatches ==
  ASSUME MatchesInv, NEW ok \in BOOLEAN, Look(ok) \/ LookAgain(ok)
  PROVE  MatchesInv'
<1> DEFINE M == matchingRuns(runs)
<1>1. M \subseteq Runs /\ IsFiniteSet(M)
  <2>1. M \subseteq Pushes
    BY DEF matchingRuns
  <2> QED
    BY <2>1, CommandAssumption, FS_Subset
<1>2. /\ SetToSeq(M) \in Seq(Runs \cup {"error", "noid", "run"})
      /\ Said(SetToSeq(M)) = M /\ Len(SetToSeq(M)) = Cardinality(M)
  <2>1. SetToSeq(M) \in Seq(M)
    BY <1>1, SetAsSequence
  <2> QED
    BY <1>1, <2>1, SetAsSequenceIsAll
<1>3. UNCHANGED <<runs, kind, current, ended>> /\ matchingRuns(runs)' = M
  BY DEF Look, LookAgain, hub, matchingRuns
<1> HIDE DEF M
<1>4. CASE Look(ok)
  <2>1. /\ step = "look" /\ matches = {} /\ ended = {} /\ queue = <<>>
        /\ matches' = IF ok THEN M ELSE {}
        /\ \/ ok /\ M # {} /\ queue' = SetToSeq(M) /\ step' = "again"
           \/ (~ok \/ M = {}) /\ step' \in {"done", "look"} /\ queue' = queue
    BY <1>4 DEF Look, M, MatchesInv
  <2> QED
    BY <1>1, <1>2, <1>3, <2>1 DEF MatchesInv, Followed
<1>5. CASE LookAgain(ok)
  <2>1. /\ step = "again" /\ step' = "next"
        /\ queue' = IF ok /\ Cardinality(M) >= Len(queue) THEN SetToSeq(M) ELSE queue
        /\ matches' = IF ok THEN matches \cup M ELSE matches
    BY <1>5 DEF LookAgain, M
  <2>2. matches \subseteq M /\ Said(queue) = matches /\ Len(queue) = Cardinality(matches) /\ ended = {}
    BY <2>1 DEF MatchesInv, M
  <2>3. Cardinality(matches) <= Cardinality(M) /\ Cardinality(M) \in Nat /\ Cardinality(matches) \in Nat
    BY <1>1, <2>2, FS_Subset, FS_CardinalityType
  <2>4. /\ ok => queue' = SetToSeq(M) /\ matches' = M
        /\ ~ok => queue' = queue /\ matches' = matches
    BY <2>1, <2>2, <2>3
  <2> QED
    BY <1>1, <1>2, <1>3, <2>1, <2>2, <2>4 DEF MatchesInv, Followed
<1> QED
  BY <1>4, <1>5

LEMMA AsksKeepMatches == ASSUME MatchesInv, Asks PROVE MatchesInv'
<1> USE NothingSaid
<1>1. ASSUME NEW ok \in BOOLEAN, View(ok) \/ ReadAttempt(ok) PROVE MatchesInv'
  <2>1. /\ UNCHANGED <<runs, kind, matches, ended, current>> /\ step = "begin"
        /\ \/ step' = "next" /\ queue' = <<"run">>
           \/ step' = "done" /\ queue' = <<>>
           \/ step' = "send" /\ queue' = queue
    BY <1>1 DEF View, ReadAttempt, hub, lookup
  <2>2. <<"run">> \in Seq(Runs \cup {"error", "noid", "run"}) /\ Said(<<"run">>) = {"run"}
    BY DEF Said
  <2> QED
    BY <2>1, <2>2, CommandAssumption DEF MatchesInv, Followed, matchingRuns
<1>2. ASSUME NEW accepted \in BOOLEAN, NEW answered \in BOOLEAN,
             \/ RerunWorkflowRun(accepted, answered) \/ CancelWorkflowRun(accepted, answered)
             \/ Push(accepted, answered)
      PROVE  MatchesInv'
  <2>1. /\ UNCHANGED <<runs, kind, matches, ended, current>> /\ step = "send"
        /\ \/ step' = "next" /\ queue' = <<"run">>
           \/ step' \in {"wait", "look", "done"} /\ queue' = <<>>
    BY <1>2 DEF RerunWorkflowRun, CancelWorkflowRun, Push, Request, lookup
  <2>2. <<"run">> \in Seq(Runs \cup {"error", "noid", "run"}) /\ Said(<<"run">>) = {"run"}
    BY DEF Said
  <2> QED
    BY <2>1, <2>2, CommandAssumption DEF MatchesInv, Followed, matchingRuns
<1>3. CASE Dispatch
  <2>1. PICK a \in {"error", "noid", "run"}, b \in {"error", "noid", "run"} : queue' = <<a, b>>
    BY <1>3 DEF Dispatch
  <2>2. <<a, b>> \in Seq(Runs \cup {"error", "noid", "run"}) /\ Said(<<a, b>>) = {a, b}
    BY DEF Said
  <2>3. UNCHANGED <<runs, kind, matches, ended, current>> /\ step = "send" /\ step' = "next"
    BY <1>3 DEF Dispatch, lookup
  <2> QED
    BY <2>1, <2>2, <2>3, CommandAssumption DEF MatchesInv, Followed, matchingRuns
<1> QED
  BY <1>1, <1>2, <1>3, LooksKeepMatches DEF Asks

LEMMA FollowsKeepMatches == ASSUME MatchesInv, Follows PROVE MatchesInv'
<1> USE NothingSaid
<1>1. CASE (\E ok \in BOOLEAN : FetchAttempt(ok) \/ FetchDetail(ok)) \/ NotStarted \/ Polls
  <2>1. /\ UNCHANGED <<runs, kind, matches, ended, current, queue>>
        /\ \/ step' = step
           \/ step \in {"wait", "follow"} /\ step' = "follow"
           \/ step = "wait" /\ step' \in {"wait", "done"}
    BY <1>1 DEF FetchAttempt, FetchDetail, NotStarted, Polls, hub, lookup, follow
  <2> QED
    BY <2>1, CommandAssumption DEF MatchesInv, Followed, matchingRuns
<1>2. CASE NextRun
  <2>1. /\ UNCHANGED <<runs, kind, matches, ended>> /\ step = "next" /\ queue # <<>> /\ queue' = Tail(queue)
        /\ \/ Head(queue) \in {"error", "noid"} /\ step' = step
           \/ step' = "follow" /\ current' = Head(queue)
    BY <1>2 DEF NextRun, hub
  <2>2. Said(queue) = {Head(queue)} \cup Said(Tail(queue))
    BY <2>1, HeadAndTail DEF MatchesInv
  <2>3. Tail(queue) \in Seq(Runs \cup {"error", "noid", "run"})
    BY <2>1 DEF MatchesInv
  <2> QED
    BY <2>1, <2>2, <2>3, CommandAssumption DEF MatchesInv, Followed, matchingRuns
<1>3. CASE FollowEnds
  <2>1. /\ UNCHANGED <<runs, kind, matches, queue, current>> /\ step = "follow" /\ step' = "next"
    BY <1>3 DEF FollowEnds, hub, lookup
  <2> DEFINE e == [run |-> current, attempt |-> attemptSeen, done |-> runDone,
                   told |-> detail = "ok" /\ runSeen]
  <2>2. ended' = ended \cup {e}
    BY <1>3 DEF FollowEnds
  <2>3. e.run = current
    OBVIOUS
  <2> HIDE DEF e
  <2>4. Followed' = Followed \cup {current}
    BY <2>2, <2>3 DEF Followed
  <2> QED
    BY <2>1, <2>4 DEF MatchesInv, matchingRuns
<1>4. CASE Finished
  BY <1>4 DEF Finished, MatchesInv, Followed, matchingRuns, hub, lookup
<1> QED
  BY <1>1, <1>2, <1>3, <1>4 DEF Follows

LEMMA RestKeepsMatches == ASSUME MatchesInv, LiveStep \/ Others PROVE MatchesInv'
<1>1. UNCHANGED <<kind, queue, current, ended, step, matches>> /\ runs \subseteq runs'
  BY DEF LiveStep, Others, AttemptBegins, CurrentMoves, Interrupt, TimeOut, RunStarts, TickFires,
         PressRefresh, LiveQuits, LiveFails, Data, LiveStays, follow, lookup, hub
<1> QED
  BY <1>1, KeepMatches

\* MatchesAreFollowed: when pr merge or tag create is over, every run one of its
\* looks has matched was followed, whatever became of the others and of the second
\* look (FindRuns, FollowCommitRuns).
THEOREM EveryMatchIsFollowed == CommandSpec => []MatchesAreFollowed
<1>1. MatchesInv /\ [CommandNext]_cmdVars => MatchesInv'
  <2> SUFFICES ASSUME MatchesInv, [CommandNext]_cmdVars PROVE MatchesInv'
    OBVIOUS
  <2>1. CASE UNCHANGED cmdVars
    BY <2>1, KeepMatches DEF cmdVars, follow, lookup, hub
  <2>2. CASE CommandNext
    BY <2>2, AsksKeepMatches, FollowsKeepMatches, RestKeepsMatches DEF CommandNext, CommandStep
  <2> QED
    BY <2>1, <2>2
<1>2. MatchesInv => MatchesAreFollowed
  BY DEF MatchesInv, MatchesAreFollowed, Followed
<1> QED
  BY MatchesInitially, <1>1, <1>2, PTL DEF CommandSpec

-----------------------------------------------------------------------------
(* ExitIsHonest.                                                           *)

HIDE DEF RerunInv, AttemptTypes, RerunAlone, OldAttemptIsDone, NewAttempt, ToldIsNew

Early == {"begin", "send", "look", "again", "wait"}

\* Runs watched without a view, from a first attempt that could be read.
Watched == (json \/ kind = "cancel") /\ (kind = "rerun" => prevAttempt # 0)

NothingBefore ==
  /\ step \in Early => ended = {}
  /\ step \in {"begin", "send"} => pc = "run"

WhyItEnds ==
  /\ cancelled => interrupted \/ timedOut
  /\ live.on => ~json /\ kind # "cancel" /\ step = "follow" /\ pc = "check"
  /\ step = "follow" /\ pc \in {"check", "sleep"} => detail = "ok"
  /\ step = "follow" /\ pc = "returned" /\ Watched /\ detail # "error" =>
       detail = "ok" /\ (runSeen \/ interrupted \/ timedOut)

\* A detail of the attempt that is followed that says it is done is right.
SeenIsDone ==
  Watched /\ runSeen =>
    /\ step = "follow" /\ (detail = "ok" \/ pc = "jobs") => runDone
    /\ step = "wait" /\ pc = "jobs" /\ attemptSeen > prevAttempt => runDone

EndedHonestly == ~hasError /\ ~interrupted /\ Watched => \A e \in ended : e.done /\ e.told

HonestInv == NothingBefore /\ WhyItEnds /\ SeenIsDone /\ EndedHonestly

LEMMA HonestInitial == CommandInit => HonestInv
<1> SUFFICES ASSUME CommandInit PROVE HonestInv
  OBVIOUS
<1>1. step \in {"begin", "send"} /\ ended = {} /\ pc = "run" /\ ~cancelled /\ ~live.on
  BY DEF CommandInit, Idle
<1> QED
  BY <1>1 DEF HonestInv, NothingBefore, WhyItEnds, SeenIsDone, EndedHonestly

\* A new attempt cannot begin any more once it is followed.
LEMMA BeginningIsHonest == ASSUME RerunInv, HonestInv, AttemptBegins PROVE HonestInv'
<1>1. /\ kind = "rerun" /\ attempt = 1
      /\ UNCHANGED <<kind, json, step, prevAttempt, attemptSeen, queue, live, hasError, ended, pc, runSeen,
                     detail, cancelled, interrupted, timedOut>>
  BY DEF AttemptBegins, detailVars, context, lookup, follow
<1>2. Watched /\ step = "follow" => detail = "error" /\ pc = "returned"
  BY <1>1 DEF RerunInv, AttemptTypes, NewAttempt, Watched
<1>3. Watched /\ step = "wait" => ~(attemptSeen > prevAttempt)
  BY <1>1 DEF RerunInv, AttemptTypes, Watched
<1> QED
  BY <1>1, <1>2, <1>3 DEF HonestInv, NothingBefore, WhyItEnds, SeenIsDone, EndedHonestly, Watched

LEMMA OutsideIsHonest ==
  ASSUME HonestInv, CurrentMoves \/ Interrupt \/ TimeOut \/ (\E r \in Runs : RunStarts(r))
  PROVE  HonestInv'
<1>1. UNCHANGED <<kind, json, step, prevAttempt, attemptSeen, live, hasError, ended, pc, runSeen, detail>>
  BY DEF CurrentMoves, Interrupt, TimeOut, RunStarts, detailVars, vars, lookup, follow
<1>2. runDone => runDone'
  BY DEF CurrentMoves, RunMoves, ItemStarts, ItemRequeued, ItemEnds, RunEnds, Interrupt, TimeOut, RunStarts,
         vars, run
<1>3. /\ interrupted => interrupted'
      /\ timedOut => timedOut'
      /\ cancelled' => cancelled \/ interrupted' \/ timedOut'
  BY DEF CurrentMoves, Interrupt, TimeOut, RunStarts, vars, context
<1> QED
  BY <1>1, <1>2, <1>3 DEF HonestInv, NothingBefore, WhyItEnds, SeenIsDone, EndedHonestly, Watched

LEMMA AsksAreHonest == ASSUME HonestInv, Asks PROVE HonestInv'
<1>1. /\ UNCHANGED <<kind, json, ended, pc, runSeen, detail, runDone, live, cancelled, interrupted, timedOut,
                     attemptSeen>>
      /\ step \in Early
  BY DEF Asks, Dispatch, View, ReadAttempt, Look, LookAgain, RerunWorkflowRun, CancelWorkflowRun, Push,
         Request, vars, run, lookup, Early
<1>2. step' \in {"send", "wait", "look", "again", "next", "done"} /\ (step' \in {"send", "wait"} => pc = "run")
  BY DEF Asks, Dispatch, View, ReadAttempt, Look, LookAgain, RerunWorkflowRun, CancelWorkflowRun, Push,
         Request, HonestInv, NothingBefore
<1> QED
  BY <1>1, <1>2 DEF HonestInv, NothingBefore, WhyItEnds, SeenIsDone, EndedHonestly, Watched, Early

LEMMA DetailIsHonest ==
  ASSUME RerunInv, HonestInv, NEW ok \in BOOLEAN, FetchAttempt(ok) \/ FetchDetail(ok)
  PROVE  HonestInv'
<1>1. /\ UNCHANGED <<kind, json, prevAttempt, hasError, ended, runDone, cancelled, interrupted, timedOut>>
      /\ step \in {"wait", "follow"} /\ step' \in {step, "follow"}
  BY DEF FetchAttempt, FetchRun, FetchDetail, FetchJobs, run, hub, lookup
<1>2. NothingBefore' /\ EndedHonestly'
  BY <1>1 DEF HonestInv, NothingBefore, EndedHonestly, Watched, Early
<1>3. CASE FetchAttempt(ok)
  <2>1. /\ live' = live
        /\ ok => runSeen' = runDone /\ pc' = "jobs" /\ step' = step
        /\ ~ok => detail' = "error" /\ pc' = "returned" /\ step' = "follow"
    BY <1>3 DEF FetchAttempt, FetchRun, Finish
  <2> QED
    BY <1>1, <1>2, <1>3, <2>1 DEF FetchAttempt, HonestInv, WhyItEnds, SeenIsDone, Watched
<1>4. CASE FetchDetail(ok)
  <2>1. /\ pc = "jobs" /\ UNCHANGED <<runSeen, attemptSeen>> /\ step' = "follow"
        /\ step = "wait" => Started(ok)
        /\ detail' = IF ok THEN "ok" ELSE "error"
        /\ IF ok /\ ~runSeen THEN pc' = "check" ELSE pc' = "returned"
        /\ ~live.on
        /\ live' = live \/ (ok /\ ~runSeen /\ ~json /\ kind # "cancel")
    BY <1>4 DEF FetchDetail, FetchJobs, Finish, lookup
  <2>2. Watched /\ runSeen /\ ok => runDone
    <3>1. CASE step = "follow"
      BY <2>1, <3>1 DEF HonestInv, SeenIsDone
    <3>2. CASE step = "wait"
      BY <2>1, <3>2 DEF HonestInv, SeenIsDone, Started
    <3> QED
      BY <1>1, <3>1, <3>2
  <2> QED
    BY <1>1, <1>2, <2>1, <2>2 DEF HonestInv, WhyItEnds, SeenIsDone, Watched
<1> QED
  BY <1>3, <1>4

LEMMA FollowsAreHonest == ASSUME RerunInv, HonestInv, Follows PROVE HonestInv'
<1>1. CASE NotStarted
  BY <1>1 DEF NotStarted, run, hub, HonestInv, NothingBefore, WhyItEnds, SeenIsDone, EndedHonestly, Watched, Early
<1>2. CASE Polls
  BY <1>2 DEF Polls, CheckContext, run, hub, lookup, follow, HonestInv, NothingBefore, WhyItEnds, SeenIsDone,
              EndedHonestly, Watched
<1>3. CASE NextRun
  <2>1. /\ UNCHANGED <<kind, json, prevAttempt, ended, live, interrupted>>
        /\ hasError => hasError'
        /\ step = "next" /\ step' \in {"next", "follow"}
        /\ step' = "follow" => pc' = "run" /\ runSeen' = FALSE /\ cancelled' = interrupted
        /\ step' = "next" => UNCHANGED <<cancelled, timedOut>>
    BY <1>3 DEF NextRun, vars
  <2> QED
    BY <2>1 DEF HonestInv, NothingBefore, WhyItEnds, SeenIsDone, EndedHonestly, Watched, Early
<1>4. CASE FollowEnds
  <2>1. /\ UNCHANGED <<kind, json, prevAttempt, pc, runSeen, detail, runDone, live, cancelled, interrupted, timedOut>>
        /\ step = "follow" /\ pc = "returned" /\ step' = "next"
        /\ hasError' = (hasError \/ FollowFailed)
        /\ ended' = ended \cup {[run |-> current, attempt |-> attemptSeen, done |-> runDone,
                                 told |-> detail = "ok" /\ runSeen]}
    BY <1>4 DEF FollowEnds, vars, run, lookup
  <2>2. ~FollowFailed /\ ~interrupted /\ Watched => detail = "ok" /\ runSeen /\ runDone
    BY <2>1 DEF FollowFailed, HonestInv, WhyItEnds, SeenIsDone, Watched
  <2>3. EndedHonestly'
    <3> SUFFICES ASSUME ~hasError, ~FollowFailed, ~interrupted, Watched, NEW e \in ended'
                 PROVE  e.done /\ e.told
      BY <2>1 DEF EndedHonestly, Watched
    <3>1. CASE e \in ended
      BY <3>1 DEF HonestInv, EndedHonestly
    <3>2. CASE e = [run |-> current, attempt |-> attemptSeen, done |-> runDone,
                    told |-> detail = "ok" /\ runSeen]
      BY <2>2, <3>2
    <3> QED
      BY <2>1, <3>1, <3>2
  <2> QED
    BY <2>1, <2>3 DEF HonestInv, NothingBefore, WhyItEnds, SeenIsDone, Watched, Early
<1>5. CASE Finished
  BY <1>5 DEF Finished, vars, run, hub, lookup, HonestInv, NothingBefore, WhyItEnds, SeenIsDone, EndedHonestly,
              Watched, Early
<1> QED
  BY <1>1, <1>2, <1>3, <1>4, <1>5, DetailIsHonest DEF Follows

LEMMA LiveIsHonest ==
  ASSUME HonestInv,
         TickFires \/ PressRefresh \/ LiveQuits \/ LiveFails \/ (\E ok \in BOOLEAN : Data(ok))
  PROVE  HonestInv'
<1>1. /\ UNCHANGED <<kind, json, step, prevAttempt, attemptSeen, ended, runSeen, detail, runDone, cancelled,
                     interrupted, timedOut>>
      /\ live.on /\ (hasError => hasError')
      /\ pc' = pc \/ (pc' = "returned" /\ ~live'.on)
  BY DEF Idle, TickFires, PressRefresh, LiveQuits, LiveFails, Data, LiveStays, detailVars, run, context, lookup
<1>2. ~json /\ kind # "cancel" /\ ~Watched /\ ~Watched'
  BY <1>1 DEF HonestInv, WhyItEnds, Watched
<1> QED
  BY <1>1, <1>2 DEF HonestInv, NothingBefore, WhyItEnds, SeenIsDone, EndedHonestly

\* ExitIsHonest: an exit code of 0 of a command that watched runs without a view
\* (followRun, waitForCancel) is about runs that were all done and were said to
\* be, unless the user interrupted it.
THEOREM ExitCodeIsHonest == CommandSpec => []ExitIsHonest
<1>1. RerunInv /\ HonestInv /\ [CommandNext]_cmdVars => HonestInv'
  <2> SUFFICES ASSUME RerunInv, HonestInv, [CommandNext]_cmdVars PROVE HonestInv'
    OBVIOUS
  <2>1. CASE UNCHANGED cmdVars
    BY <2>1 DEF cmdVars, vars, run, hub, lookup, follow, HonestInv, NothingBefore, WhyItEnds, SeenIsDone,
                EndedHonestly, Watched
  <2>2. CASE CommandNext
    BY <2>2, BeginningIsHonest, OutsideIsHonest, AsksAreHonest, FollowsAreHonest, LiveIsHonest
       DEF CommandNext, CommandStep, LiveStep, Others
  <2> QED
    BY <2>1, <2>2
<1>2. HonestInv => ExitIsHonest
  BY DEF HonestInv, EndedHonestly, ExitIsHonest, Watched
<1> QED
  BY HonestInitial, RerunInitial, RerunKept, <1>1, <1>2, PTL DEF CommandSpec

-----------------------------------------------------------------------------
(* ReportedInOrder.                                                        *)

\* The pairs of events of which the first may be reported before the second.
MayPrecede ==
  {p \in Event \X Event :
     /\ p[1] # p[2]
     /\ ~ /\ p[1].kind = "completed"
          /\ \/ p[2].item = p[1].item
             \/ p[2].item \in Steps /\ JobOf[p[2].item] = p[1].item}

\* The events a poll may report of the items in S.
NewEvents(S) ==
  {e \in Event :
     /\ e.item \in S
     /\ e.kind = "started" => status[e.item] = "in_progress" /\ e.item \notin started
     /\ e.kind = "completed" => status[e.item] = "completed" /\ e.item \notin completed}

LEMMA EventsOfItem ==
  ASSUME NEW i \in Items
  PROVE  /\ StartEvent(i) \in Seq(Event) /\ Ordered(StartEvent(i), MayPrecede) /\ Said(StartEvent(i)) \subseteq NewEvents({i})
         /\ EndEvent(i) \in Seq(Event) /\ Ordered(EndEvent(i), MayPrecede) /\ Said(EndEvent(i)) \subseteq NewEvents({i})
         /\ \A x \in Said(StartEvent(i)), y \in Said(EndEvent(i)) : <<x, y>> \in MayPrecede
<1> DEFINE a == [kind |-> "started", item |-> i]
           b == [kind |-> "completed", item |-> i]
<1>1. a \in Event /\ b \in Event
  BY DEF Event
<1>2. /\ StartEvent(i) \in {<<>>, <<a>>} /\ (StartEvent(i) = <<a>> => status[i] = "in_progress" /\ i \notin started)
      /\ EndEvent(i) \in {<<>>, <<b>>} /\ (EndEvent(i) = <<b>> => status[i] = "completed" /\ i \notin completed)
  BY DEF StartEvent, EndEvent, EventIf
<1>3. ASSUME NEW e \in Event PROVE Said(<<e>>) = {e} /\ Ordered(<<e>>, MayPrecede) /\ <<e>> \in Seq(Event)
  BY DEF Said, Ordered
<1>4. Said(<<>>) = {} /\ Ordered(<<>>, MayPrecede) /\ <<>> \in Seq(Event)
  BY DEF Said, Ordered
<1>5. status[i] = "in_progress" /\ i \notin started => a \in NewEvents({i})
  BY <1>1 DEF NewEvents
<1>6. status[i] = "completed" /\ i \notin completed => b \in NewEvents({i})
  BY <1>1 DEF NewEvents
<1>7. <<a, b>> \in MayPrecede
  BY <1>1 DEF MayPrecede
<1> HIDE DEF a, b
<1> QED
  BY <1>1, <1>2, <1>3, <1>4, <1>5, <1>6, <1>7

\* Of one item at most one event is new; of different items both may be
\* reported if the second is no step of the first.
LEMMA NewEventsMayFollow ==
  ASSUME NEW S \in SUBSET Items, NEW T \in SUBSET Items, S \cap T = {},
         \A s \in T \cap Steps : JobOf[s] \notin S,
         NEW x \in NewEvents(S), NEW y \in NewEvents(T)
  PROVE  <<x, y>> \in MayPrecede
BY DEF NewEvents, MayPrecede

LEMMA NewEventsGrow ==
  ASSUME NEW S, NEW T, S \subseteq T
  PROVE  NewEvents(S) \subseteq NewEvents(T)
BY DEF NewEvents

\* JobEvents: in order, and all of it new and about the job and its steps.
LEMMA EventsOfJob ==
  ASSUME NEW j \in Jobs
  PROVE  /\ JobEvents(j) \in Seq(Event) /\ Ordered(JobEvents(j), MayPrecede)
         /\ Said(JobEvents(j)) \subseteq NewEvents({j} \cup StepsOf(j))
<1> DEFINE steps == SetToSeq(StepsOf(j))
           Of(n) == StartEvent(steps[n]) \o EndEvent(steps[n])
           parts == [n \in 1..Len(steps) |-> Of(n)]
           all == FlattenSeq(parts)
<1>1. j \in Items /\ j \notin Steps /\ StepsOf(j) \subseteq Steps /\ StepsOf(j) \subseteq Items /\ j \notin StepsOf(j)
      /\ {j} \subseteq Items
  BY RunAssumption DEF Items, StepsOf
<1>2. /\ steps \in Seq(StepsOf(j))
      /\ \A m, n \in 1..Len(steps) : steps[m] = steps[n] => m = n
  BY <1>1, RunAssumption, FS_Subset, SetAsSequence
<1>3. Len(steps) \in Nat /\ \A n \in 1..Len(steps) : steps[n] \in StepsOf(j)
  BY <1>2
<1> HIDE DEF steps
<1>4. ASSUME NEW n \in 1..Len(steps)
      PROVE  Of(n) \in Seq(Event) /\ Ordered(Of(n), MayPrecede) /\ Said(Of(n)) \subseteq NewEvents({steps[n]})
  <2>1. steps[n] \in Items
    BY <1>1, <1>3
  <2>2. /\ StartEvent(steps[n]) \in Seq(Event) /\ Ordered(StartEvent(steps[n]), MayPrecede)
        /\ EndEvent(steps[n]) \in Seq(Event) /\ Ordered(EndEvent(steps[n]), MayPrecede)
        /\ \A x \in Said(StartEvent(steps[n])), y \in Said(EndEvent(steps[n])) : <<x, y>> \in MayPrecede
        /\ Said(StartEvent(steps[n])) \subseteq NewEvents({steps[n]})
        /\ Said(EndEvent(steps[n])) \subseteq NewEvents({steps[n]})
    BY <2>1, EventsOfItem
  <2> DEFINE a == StartEvent(steps[n])
             b == EndEvent(steps[n])
  <2> HIDE DEF a, b
  <2>3. a \o b \in Seq(Event) /\ Ordered(a \o b, MayPrecede) /\ Said(a \o b) = Said(a) \cup Said(b)
    BY <2>2, OrderedConcat DEF a, b
  <2> QED
    BY <2>2, <2>3 DEF a, b
<1> HIDE DEF Of
<1>5. /\ parts \in Seq(Seq(Event)) /\ Len(parts) = Len(steps)
      /\ \A n \in 1..Len(steps) : parts[n] = Of(n)
  <2>1. parts \in [1..Len(steps) -> Seq(Event)]
    BY <1>4
  <2>2. \A n \in 1..Len(steps) : parts[n] = Of(n)
    OBVIOUS
  <2> HIDE DEF parts
  <2> QED
    BY <1>3, <2>1, <2>2
<1> HIDE DEF parts
<1>6. ASSUME NEW k \in 1..Len(steps), NEW l \in 1..Len(steps), k < l,
             NEW x \in Said(Of(k)), NEW y \in Said(Of(l))
      PROVE  <<x, y>> \in MayPrecede
  <2>1. steps[k] # steps[l] /\ steps[k] \in Items /\ steps[l] \in Items /\ JobOf[steps[l]] # steps[k]
    BY <1>1, <1>2, <1>3, <1>6, RunAssumption DEF StepsOf
  <2>2. x \in NewEvents({steps[k]}) /\ y \in NewEvents({steps[l]})
    BY <1>4, <1>6
  <2> QED
    BY <2>1, <2>2, NewEventsMayFollow
<1>7. /\ all \in Seq(Event) /\ Ordered(all, MayPrecede)
      /\ Said(all) = SaidBefore(parts, Len(parts))
  <2>1. \A k \in 1..Len(parts) : Ordered(parts[k], MayPrecede)
    BY <1>4, <1>5
  <2>2. \A k, l \in 1..Len(parts) : k < l => \A x \in Said(parts[k]), y \in Said(parts[l]) : <<x, y>> \in MayPrecede
    BY <1>5, <1>6
  <2> QED
    BY <1>5, <2>1, <2>2, FlattenOrdered
<1>8. Said(all) \subseteq NewEvents(StepsOf(j))
  <2> SUFFICES ASSUME NEW n \in 1..Len(steps) PROVE Said(Of(n)) \subseteq NewEvents(StepsOf(j))
    BY <1>5, <1>7 DEF SaidBefore
  <2>1. {steps[n]} \subseteq StepsOf(j)
    BY <1>3
  <2> QED
    BY <1>4, <2>1, NewEventsGrow
<1> HIDE DEF all
<1>9. /\ StartEvent(j) \in Seq(Event) /\ Ordered(StartEvent(j), MayPrecede) /\ Said(StartEvent(j)) \subseteq NewEvents({j})
      /\ EndEvent(j) \in Seq(Event) /\ Ordered(EndEvent(j), MayPrecede) /\ Said(EndEvent(j)) \subseteq NewEvents({j})
      /\ \A x \in Said(StartEvent(j)), y \in Said(EndEvent(j)) : <<x, y>> \in MayPrecede
  BY <1>1, EventsOfItem
<1>10. ASSUME NEW x \in Said(StartEvent(j)), NEW y \in Said(all) PROVE <<x, y>> \in MayPrecede
  <2>1. x.kind = "started" /\ x.item = j /\ x \in Event
    BY <1>9 DEF StartEvent, EventIf, Said, NewEvents
  <2>2. y \in Event /\ y.item \in StepsOf(j)
    BY <1>8 DEF NewEvents
  <2> QED
    BY <1>1, <2>1, <2>2 DEF MayPrecede
<1>11. ASSUME NEW x \in Said(all), NEW y \in Said(EndEvent(j)) PROVE <<x, y>> \in MayPrecede
  <2>1. x \in NewEvents(StepsOf(j)) /\ y \in NewEvents({j})
    BY <1>8, <1>9
  <2> QED
    BY <1>1, <2>1, NewEventsMayFollow
<1> DEFINE head == StartEvent(j) \o all
<1>12. head \in Seq(Event) /\ Ordered(head, MayPrecede) /\ Said(head) = Said(StartEvent(j)) \cup Said(all)
  BY <1>7, <1>9, <1>10, OrderedConcat
<1> HIDE DEF head
<1>13. \A x \in Said(head), y \in Said(EndEvent(j)) : <<x, y>> \in MayPrecede
  BY <1>9, <1>11, <1>12
<1>14. /\ head \o EndEvent(j) \in Seq(Event) /\ Ordered(head \o EndEvent(j), MayPrecede)
       /\ Said(head \o EndEvent(j)) = Said(head) \cup Said(EndEvent(j))
  BY <1>9, <1>12, <1>13, OrderedConcat
<1>15. JobEvents(j) = head \o EndEvent(j)
  BY DEF JobEvents, head, all, parts, Of, steps
<1>16. NewEvents({j}) \subseteq NewEvents({j} \cup StepsOf(j)) /\ NewEvents(StepsOf(j)) \subseteq NewEvents({j} \cup StepsOf(j))
  BY NewEventsGrow
<1> QED
  BY <1>8, <1>9, <1>12, <1>14, <1>15, <1>16

\* RunEvents: in order, and all of it new.
LEMMA EventsOfRun ==
  RunEvents \in Seq(Event) /\ Ordered(RunEvents, MayPrecede) /\ Said(RunEvents) \subseteq NewEvents(Shown)
<1> DEFINE jobs == SetToSeq(FirstPage)
           parts == [n \in 1..Len(jobs) |-> JobEvents(jobs[n])]
           Of(n) == {jobs[n]} \cup StepsOf(jobs[n])
<1>1. jobs \in Seq(FirstPage) /\ \A m, n \in 1..Len(jobs) : jobs[m] = jobs[n] => m = n
  BY RunAssumption, FS_Subset, SetAsSequence
<1>2. Len(jobs) \in Nat /\ \A n \in 1..Len(jobs) : jobs[n] \in FirstPage /\ jobs[n] \in Jobs
  BY <1>1, RunAssumption
<1> HIDE DEF jobs
<1>3. ASSUME NEW n \in 1..Len(jobs)
      PROVE  /\ JobEvents(jobs[n]) \in Seq(Event) /\ Ordered(JobEvents(jobs[n]), MayPrecede)
             /\ Said(JobEvents(jobs[n])) \subseteq NewEvents(Of(n))
             /\ Of(n) \subseteq Items /\ Of(n) \subseteq Shown
  <2>1. jobs[n] \in Jobs /\ jobs[n] \in FirstPage
    BY <1>2
  <2> QED
    BY <2>1, EventsOfJob DEF Items, StepsOf, Shown
<1>4. /\ parts \in Seq(Seq(Event)) /\ Len(parts) = Len(jobs)
      /\ \A n \in 1..Len(jobs) : parts[n] = JobEvents(jobs[n])
  <2>1. parts \in [1..Len(jobs) -> Seq(Event)]
    BY <1>3
  <2>2. \A n \in 1..Len(jobs) : parts[n] = JobEvents(jobs[n])
    OBVIOUS
  <2> HIDE DEF parts
  <2> QED
    BY <1>2, <2>1, <2>2
<1> HIDE DEF parts
<1>5. ASSUME NEW k \in 1..Len(jobs), NEW l \in 1..Len(jobs), k < l,
             NEW x \in Said(JobEvents(jobs[k])), NEW y \in Said(JobEvents(jobs[l]))
      PROVE  <<x, y>> \in MayPrecede
  <2>1. jobs[k] # jobs[l] /\ jobs[k] \in Jobs /\ jobs[l] \in Jobs
    BY <1>1, <1>2, <1>5
  <2>2. Of(k) \cap Of(l) = {} /\ \A s \in Of(l) \cap Steps : JobOf[s] \notin Of(k)
    BY <2>1, RunAssumption DEF StepsOf
  <2>3. x \in NewEvents(Of(k)) /\ y \in NewEvents(Of(l)) /\ Of(k) \in SUBSET Items /\ Of(l) \in SUBSET Items
    BY <1>3, <1>5
  <2> HIDE DEF Of
  <2> QED
    BY <2>2, <2>3, NewEventsMayFollow
<1>6. /\ FlattenSeq(parts) \in Seq(Event) /\ Ordered(FlattenSeq(parts), MayPrecede)
      /\ Said(FlattenSeq(parts)) = SaidBefore(parts, Len(parts))
  <2>1. \A k \in 1..Len(parts) : Ordered(parts[k], MayPrecede)
    BY <1>3, <1>4
  <2>2. \A k, l \in 1..Len(parts) : k < l => \A x \in Said(parts[k]), y \in Said(parts[l]) : <<x, y>> \in MayPrecede
    BY <1>4, <1>5
  <2> QED
    BY <1>4, <2>1, <2>2, FlattenOrdered
<1>7. Said(FlattenSeq(parts)) \subseteq NewEvents(Shown)
  <2> SUFFICES ASSUME NEW n \in 1..Len(jobs) PROVE Said(JobEvents(jobs[n])) \subseteq NewEvents(Shown)
    BY <1>4, <1>6 DEF SaidBefore
  <2> HIDE DEF Of
  <2> QED
    BY <1>3, NewEventsGrow
<1>8. RunEvents = FlattenSeq(parts)
  BY DEF RunEvents, parts, jobs
<1> QED
  BY <1>6, <1>7, <1>8

-----------------------------------------------------------------------------
\* What has been reported is remembered, what is complete stays complete as far
\* as the poll can see, and steps are complete before their job is.
Remembered ==
  /\ started \subseteq Items /\ completed \subseteq Items /\ log \in Seq(Event)
  /\ \A e \in Said(log) : e.item \in IF e.kind = "started" THEN started ELSE completed
  /\ \A s \in Steps : JobOf[s] \in completed => s \in completed
  /\ Ordered(log, MayPrecede)

StepsBeforeJob ==
  /\ status \in [Items -> {"queued", "in_progress", "completed"}]
  /\ \A s \in Steps : status[JobOf[s]] = "completed" => status[s] = "completed"

CompletedStays == completed \subseteq {i \in Items : status[i] = "completed"}

LEMMA ShownItems == Shown \subseteq Items
BY RunAssumption DEF Shown, Items

LEMMA ReportKeepsOrder ==
  ASSUME Remembered, StepsBeforeJob, CompletedStays, Report, UNCHANGED status
  PROVE  Remembered' /\ CompletedStays'
<1>1. /\ RunEvents \in Seq(Event) /\ Ordered(RunEvents, MayPrecede)
      /\ Said(RunEvents) \subseteq NewEvents(Shown)
  BY EventsOfRun
<1>2. ASSUME NEW x \in Said(log), NEW y \in Said(RunEvents) PROVE <<x, y>> \in MayPrecede
  <2>1. /\ x \in Event /\ x.item \in IF x.kind = "started" THEN started ELSE completed
        /\ y \in NewEvents(Shown)
    BY <1>1 DEF Remembered, Said
  <2>2. y.item \notin completed
    BY <2>1 DEF NewEvents, CompletedStays, Event
  <2>3. x # y
    BY <2>1, <2>2 DEF NewEvents
  <2>4. x.kind = "completed" => y.item # x.item /\ (y.item \in Steps => JobOf[y.item] # x.item)
    BY <2>1, <2>2 DEF Remembered
  <2> QED
    BY <2>1, <2>3, <2>4 DEF MayPrecede, NewEvents
<1> DEFINE old == log
           new == RunEvents
<1>3. old \o new \in Seq(Event) /\ Ordered(old \o new, MayPrecede) /\ Said(old \o new) = Said(old) \cup Said(new)
  BY <1>1, <1>2, OrderedConcat DEF Remembered
<1>4. /\ log' = log \o RunEvents
      /\ started' = started \cup {i \in Shown : status[i] = "in_progress"}
      /\ completed' = completed \cup {i \in Shown : status[i] = "completed"}
  BY DEF Report
<1>5. \A e \in Said(log \o RunEvents) : e.item \in IF e.kind = "started" THEN started' ELSE completed'
  <2> SUFFICES ASSUME NEW e \in Said(log) \cup Said(RunEvents)
               PROVE  e.item \in IF e.kind = "started" THEN started' ELSE completed'
    BY <1>3
  <2>1. CASE e \in Said(log)
    BY <1>4, <2>1 DEF Remembered
  <2>2. CASE e \in Said(RunEvents)
    BY <1>1, <1>4, <2>2 DEF NewEvents, Event
  <2> QED
    BY <2>1, <2>2
<1>6. \A s \in Steps : JobOf[s] \in completed' => s \in completed'
  BY <1>4, RunAssumption DEF Remembered, StepsBeforeJob, Items, Shown
<1>7. CompletedStays'
  BY <1>4, ShownItems DEF CompletedStays
<1>8. started' \subseteq Items /\ completed' \subseteq Items
  BY <1>4, ShownItems DEF Remembered
<1> QED
  BY <1>3, <1>4, <1>5, <1>6, <1>7, <1>8 DEF Remembered

\* Between two polls GitHub completes steps before their job and takes nothing back.
LEMMA GitHubKeepsOrder ==
  ASSUME StepsBeforeJob, RunMoves
  PROVE  StepsBeforeJob' /\ progress' = progress /\ (CompletedStays => CompletedStays')
<1>1. \A s \in Steps : s \in Items /\ JobOf[s] \in Items /\ JobOf[s] \in Jobs /\ s \notin Jobs /\ JobOf[s] \notin Steps
  BY RunAssumption DEF Items
<1>2. CASE RunEnds
  BY <1>1, <1>2 DEF RunEnds, progress, StepsBeforeJob, CompletedStays
<1>3. ASSUME NEW i \in Items, ItemStarts(i) PROVE StepsBeforeJob' /\ progress' = progress /\ (CompletedStays => CompletedStays')
  BY <1>1, <1>3 DEF ItemStarts, progress, StepsBeforeJob, CompletedStays
<1>4. ASSUME NEW i \in Items, ItemRequeued(i) PROVE StepsBeforeJob' /\ progress' = progress /\ (CompletedStays => CompletedStays')
  BY <1>1, <1>4 DEF ItemRequeued, progress, StepsBeforeJob, CompletedStays
<1>5. ASSUME NEW i \in Items, ItemEnds(i) PROVE StepsBeforeJob' /\ progress' = progress /\ (CompletedStays => CompletedStays')
  BY <1>1, <1>5 DEF ItemEnds, StepsOf, progress, StepsBeforeJob, CompletedStays
<1> QED
  BY <1>2, <1>3, <1>4, <1>5 DEF RunMoves

\* A rerun takes the run's completion back, but before its new attempt begins
\* nothing has been reported, unless the old one was followed to its end.
OrderInv ==
  /\ StepsBeforeJob /\ Remembered
  /\ pc # "returned" => CompletedStays
  /\ kind = "rerun" /\ attempt = 1 => completed = {} \/ pc = "returned"

LEMMA OrderInitial == CommandInit => OrderInv
<1> SUFFICES ASSUME CommandInit PROVE OrderInv
  OBVIOUS
<1>1. started = {} /\ completed = {} /\ log = <<>> /\ status \in {Done, Fresh}
  BY DEF CommandInit
<1>2. Said(<<>>) = {} /\ Ordered(<<>>, MayPrecede) /\ <<>> \in Seq(Event)
  BY DEF Said, Ordered
<1>3. StepsBeforeJob
  BY <1>1, RunAssumption DEF StepsBeforeJob, Done, Fresh, Items
<1> QED
  BY <1>1, <1>2, <1>3 DEF OrderInv, Remembered, CompletedStays

\* Steps that report nothing, of a run that stays as it is.
LEMMA KeepOrder ==
  ASSUME OrderInv, UNCHANGED <<status, progress, kind, attempt>>, pc = "returned" => pc' = "returned"
  PROVE  OrderInv'
BY DEF OrderInv, StepsBeforeJob, Remembered, CompletedStays, progress

LEMMA OthersKeepOrder == ASSUME OrderInv, Others PROVE OrderInv'
<1>1. CASE AttemptBegins
  <2>1. /\ status' = Fresh /\ kind = "rerun" /\ attempt = 1 /\ attempt' = 2
        /\ UNCHANGED <<started, completed, log, pc, kind>>
    BY <1>1 DEF AttemptBegins, progress, detailVars, follow
  <2>2. StepsBeforeJob'
    BY <2>1, RunAssumption DEF StepsBeforeJob, Fresh, Items
  <2> QED
    BY <2>1, <2>2 DEF OrderInv, Remembered, CompletedStays
<1>2. CASE CurrentMoves
  <2>1. RunMoves /\ UNCHANGED <<pc, kind, attempt>>
    BY <1>2 DEF CurrentMoves, detailVars, hub, follow
  <2>2. StepsBeforeJob' /\ progress' = progress /\ (CompletedStays => CompletedStays')
    BY <2>1, GitHubKeepsOrder DEF OrderInv
  <2> QED
    BY <2>1, <2>2 DEF OrderInv, Remembered, progress
<1>3. CASE Interrupt \/ TimeOut
  BY <1>3, KeepOrder DEF Interrupt, TimeOut, run, detailVars, hub, follow
<1>4. CASE \E r \in Runs : RunStarts(r)
  BY <1>4, KeepOrder DEF RunStarts, vars, run, follow
<1>5. CASE PressRefresh \/ LiveQuits \/ LiveFails
  BY <1>5, KeepOrder DEF PressRefresh, LiveQuits, LiveFails, LiveStays, run, detailVars, hub
<1> QED
  BY <1>1, <1>2, <1>3, <1>4, <1>5 DEF Others

LEMMA DetailKeepsOrder ==
  ASSUME RerunInv, OrderInv, NEW ok \in BOOLEAN, FetchDetail(ok)
  PROVE  OrderInv'
<1>1. /\ UNCHANGED <<status, kind, attempt>> /\ pc = "jobs"
      /\ IF ok THEN Report ELSE UNCHANGED progress
      /\ ok \/ pc' = "returned"
      /\ runSeen => pc' = "returned"
  BY DEF FetchDetail, FetchJobs, Finish, run, hub
<1>2. CASE ~ok
  BY <1>1, <1>2, KeepOrder
<1>3. CASE ok
  <2>1. Remembered' /\ CompletedStays'
    BY <1>1, <1>3, ReportKeepsOrder DEF OrderInv
  <2>2. kind = "rerun" /\ attempt = 1 => runSeen
    BY <1>1 DEF RerunInv, AttemptTypes, OldAttemptIsDone
  <2> QED
    BY <1>1, <2>1, <2>2 DEF OrderInv, StepsBeforeJob
<1> QED
  BY <1>2, <1>3

LEMMA FollowsKeepOrder == ASSUME RerunInv, OrderInv, Follows PROVE OrderInv'
<1>1. ASSUME NEW ok \in BOOLEAN, FetchAttempt(ok) PROVE OrderInv'
  BY <1>1, KeepOrder DEF FetchAttempt, FetchRun, run, hub
<1>2. CASE NotStarted
  BY <1>2, KeepOrder DEF NotStarted, run, hub
<1>3. CASE Polls
  BY <1>3, KeepOrder DEF Polls, CheckContext, run, hub, follow
<1>4. CASE NextRun
  <2>1. kind' = kind /\ attempt' = attempt
    BY <1>4 DEF NextRun, hub
  <2>2. CASE UNCHANGED vars
    BY <2>1, <2>2, KeepOrder DEF vars, run
  <2>3. CASE started' = {} /\ completed' = {} /\ log' = <<>> /\ status' \in {status, Fresh, Done}
    <3>1. Said(<<>>) = {} /\ Ordered(<<>>, MayPrecede) /\ <<>> \in Seq(Event)
      BY DEF Said, Ordered
    <3>2. StepsBeforeJob'
      BY <2>3, RunAssumption DEF OrderInv, StepsBeforeJob, Fresh, Done, Items
    <3> QED
      BY <2>3, <3>1, <3>2 DEF OrderInv, Remembered, CompletedStays
  <2> QED
    BY <1>4, <2>2, <2>3 DEF NextRun, run
<1>5. CASE FollowEnds \/ Finished
  BY <1>5, KeepOrder DEF FollowEnds, Finished, vars, run, hub
<1> QED
  BY <1>1, <1>2, <1>3, <1>4, <1>5, DetailKeepsOrder DEF Follows

LEMMA AsksKeepOrder == ASSUME OrderInv, Asks \/ LiveStep PROVE OrderInv'
<1>1. CASE Asks
  BY <1>1, KeepOrder
     DEF Asks, Dispatch, View, ReadAttempt, Look, LookAgain, RerunWorkflowRun, CancelWorkflowRun, Push, Request,
         vars, run, hub
<1>2. CASE LiveStep
  BY <1>2, KeepOrder DEF LiveStep, TickFires, LiveQuits, Data, LiveStays, run, detailVars, hub
<1> QED
  BY <1>1, <1>2

\* ReportedInOrder: of any run with any jobs and steps, followed by any of the
\* commands, viewWatchState.diff reports no transition twice, the end of a job
\* after all it says of the job's steps, and no start after an end.
THEOREM ProgressInOrder == CommandSpec => []ReportedInOrder
<1>1. RerunInv /\ OrderInv /\ [CommandNext]_cmdVars => OrderInv'
  <2> SUFFICES ASSUME RerunInv, OrderInv, [CommandNext]_cmdVars PROVE OrderInv'
    OBVIOUS
  <2>1. CASE UNCHANGED cmdVars
    BY <2>1, KeepOrder DEF cmdVars, vars, run, hub, follow
  <2>2. CASE CommandNext
    BY <2>2, AsksKeepOrder, FollowsKeepOrder, OthersKeepOrder DEF CommandNext, CommandStep
  <2> QED
    BY <2>1, <2>2
<1>2. OrderInv => ReportedInOrder
  BY DEF OrderInv, Remembered, Ordered, MayPrecede, ReportedInOrder
<1> QED
  BY OrderInitial, RerunInitial, RerunKept, <1>1, <1>2, PTL DEF CommandSpec
=============================================================================
