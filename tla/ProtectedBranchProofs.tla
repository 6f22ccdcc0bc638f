----------------------- MODULE ProtectedBranchProofs -----------------------
(***************************************************************************)
(* Proofs about RepoCommands and ProtectedBranch, for every owner, set of  *)
(* names, way in which names resemble one another, list typed after -r and *)
(* -e, command, number of workers, and, of the update of a protected       *)
(* branch, all users, rules and requests.                                  *)
(*                                                                         *)
(* A session is described by SessionInv, a conjunction of one invariant    *)
(* for each thing the promises rest on: where the bases of the branches    *)
(* are (HubInv), the command line (LineInv), the jobs (JobInv), what was   *)
(* selected (JobsSelected), what a preview has shown (Remembered) and what *)
(* the calls of a job have done (CallsMade).  PbInv adds, for the update,  *)
(* what it has read and what it makes of that.                             *)
(***************************************************************************)
EXTENDS ProtectedBranch, WellFoundedInduction, TLAPS

-----------------------------------------------------------------------------
(* Names.                                                                  *)

\* Of some numbers one is the least: the nearest name, and the first of those
\* that resolve to the same.
LEMMA LeastNatural ==
  ASSUME NEW T, T \subseteq Nat, T # {}
  PROVE  \E n \in T : \A m \in T : n <= m
<1>1. PICK n \in T : \A m \in T : ~ (<<m, n>> \in OpToRel(<, Nat))
  <2> DEFINE R == OpToRel(<, Nat)
  <2>1. IsWellFoundedOn(R, Nat)
    BY NatLessThanWellFounded
  <2> HIDE DEF R
  <2>2. \E n \in T : \A m \in T : ~ (<<m, n>> \in R)
    BY <2>1, WFMin, Zenon
  <2> QED BY <2>2 DEF R
<1>2. \A m \in T : ~ (m < n)
  BY <1>1 DEF OpToRel
<1> QED BY <1>2

\* A name that is resolved is known, or stays as it was typed since it matches
\* nothing that is.
LEMMA Resolved ==
  ASSUME NEW known \in SUBSET Names, NEW name \in Names
  PROVE  /\ name \in known => resolveRepoName(name, known) = name
         /\ Fuzzy[name] \cap known = {} => resolveRepoName(name, known) = name
         /\ \/ resolveRepoName(name, known) \in known
            \/ resolveRepoName(name, known) = name /\ Fuzzy[name] \cap known = {}
<1> DEFINE matches == Fuzzy[name] \cap known
           nearest(m) == \A k \in matches : Distance[name][m] <= Distance[name][k]
<1>1. ASSUME matches # {} PROVE \E m \in matches : nearest(m)
  <2> DEFINE T == {Distance[name][m] : m \in matches}
  <2>1. T \subseteq Nat /\ T # {}
    BY <1>1, FuzzyAssumption
  <2>2. PICK d \in T : \A e \in T : d <= e
    BY <2>1, LeastNatural
  <2> QED
    BY <2>2
<1>2. matches # {} => (CHOOSE m \in matches : nearest(m)) \in matches
  BY <1>1
<1> QED
  BY <1>2 DEF resolveRepoName

\* Whatever name a list resolves to is among the resolved names: the first of
\* those that resolve to it is kept.
LEMMA ResolvedAreKept ==
  ASSUME NEW list \in Seq(Names), NEW known \in SUBSET Names, known # {}, NEW i \in DOMAIN list
  PROVE  resolveRepoName(list[i], known) \in NamesIn(ActualRepositoryNamesUsingFzf(list, known))
<1> DEFINE actual(k) == resolveRepoName(list[k], known)
           T == {k \in DOMAIN list : actual(k) = actual(i)}
<1>1. T \subseteq Nat /\ i \in T
  OBVIOUS
<1>2. PICK n \in T : \A m \in T : n <= m
  BY <1>1, LeastNatural
<1>3. \A k \in 1..(n - 1) : actual(k) # actual(n)
  <2> SUFFICES ASSUME NEW k \in 1..(n - 1), actual(k) = actual(n) PROVE FALSE
    OBVIOUS
  <2>1. k \in DOMAIN list
    BY <1>1
  <2> QED
    BY <1>2, <2>1
<1>4. <<n, actual(n)>> \in ActualRepositoryNamesUsingFzf(list, known)
  BY <1>3 DEF ActualRepositoryNamesUsingFzf
<1> QED
  BY <1>2, <1>4 DEF NamesIn

\* A name that resolves to itself: it is known, or resembles nothing that is.
Settles(name, known) == name \in known \/ Fuzzy[name] \cap known = {}

\* It is excluded when it is given with -e.
LEMMA ExcludedByName ==
  ASSUME NEW list \in Seq(Names), NEW known \in SUBSET Names, NEW i \in DOMAIN list,
         Settles(list[i], known)
  PROVE  list[i] \in NamesIn(ActualRepositoryNamesUsingFzf(list, known))
<1>1. list[i] \in Names
  OBVIOUS
<1>2. CASE known = {}
  <2>1. <<i, list[i]>> \in ActualRepositoryNamesUsingFzf(list, known)
    BY <1>2 DEF ActualRepositoryNamesUsingFzf, InPlace
  <2> QED
    BY <2>1 DEF NamesIn
<1>3. CASE known # {}
  BY <1>1, <1>3, Resolved, ResolvedAreKept DEF Settles
<1> QED
  BY <1>2, <1>3

\* The names of -r are, once they are resolved.
LEMMA ActualSettle ==
  ASSUME NEW list \in Seq(Names), NEW known \in SUBSET Names,
         NEW j \in ActualRepositoryNamesUsingFzf(list, known)
  PROVE  Settles(j[2], known)
<1>1. PICK i \in DOMAIN list :
        j = <<i, IF known = {} THEN list[i] ELSE resolveRepoName(list[i], known)>>
  BY DEF ActualRepositoryNamesUsingFzf, InPlace
<1>2. list[i] \in Names
  OBVIOUS
<1> QED
  BY <1>1, <1>2, Resolved DEF Settles

-----------------------------------------------------------------------------
(* The commands.                                                           *)

Nonempty(list) == Len(list) \in Nat \ {0} /\ DOMAIN list = 1..Len(list)

\* A command that reads the base branch first takes nothing away; and what one
\* on many repositories shows of them is its selection, if it looks at --dry-run.
Sound(c) ==
  /\ Nonempty(c.calls)
  /\ c.calls[1] = Read => \A n \in DOMAIN c.calls : c.calls[n].op # "remove"
  /\ c.select \in {"processor", "loop"} => c.preview \in {"selected", "none"}
  /\ c.select = "listing" => c.preview = "none"

\* Checked command by command: the twenty-six of Commands.
LEMMA CommandsAreSound == \A k \in DOMAIN Commands : Sound(Commands[k])
<1>1. /\ Sound(BranchCreate) /\ Sound(BranchCreateFromCommit) /\ Sound(BranchRename)
      /\ Sound(BranchDelete) /\ Sound(TagCreate) /\ Sound(TagDelete) /\ Sound(PostRelease)
  BY DEF Sound, Nonempty, Command, Operation, Call, Read, BranchCreate, CreateNewBranches,
     CreateNewBranch, BranchCreateFromCommit, BranchFromCommit, CreateNewBranchFromCommit,
     BranchRename, RenameBranches, RenameBranch, BranchDelete, DeleteBranches, DeleteBranch,
     TagCreate, CreateNewTags, CreateNewTag, TagDelete, DeleteTags, DeleteTag, PostRelease,
     ProcessPostRelease
<1>2. /\ Sound(PrCreate) /\ Sound(PrMerge) /\ Sound(PrReview) /\ Sound(PrUpdate)
      /\ Sound(PrClose) /\ Sound(PrReopen)
  BY DEF Sound, Nonempty, Command, Operation, Call, Read, PrCreate, CreateNewPullRequests,
     CreateNewPullRequest, AddIssueLabels, PrMerge, MergePull, MergePullRequest, PrReview,
     ReviewPull, ReviewPullRequest, PrUpdate, PrClose, PrReopen, UpdatePull, UpdatePullRequest
<1>3. /\ Sound(ProtectedBranchUpdate) /\ Sound(ProtectedBranchDelete) /\ Sound(RepoArchive)
      /\ Sound(RepoVisibility) /\ Sound(IssueCreate) /\ Sound(SecurityUpdate)
  BY DEF Sound, Nonempty, Command, Operation, Call, Read, ProtectedBranchUpdate,
     UpdateProtectedBranches, UpdateProtectedBranch, ProtectedBranchDelete,
     DeleteProtectedBranches, DeleteProtectedBranch, RepoArchive, ArchiveRepos,
     UpdateRepoArchived, RepoVisibility, SetRepoVisibility, UpdateRepoVisibility, IssueCreate,
     CreateOneIssue, CreateIssue, SecurityUpdate, UpdateAlert, UpdateSecretScanningAlert
<1>4. /\ Sound(BranchList) /\ Sound(TagList) /\ Sound(PrList) /\ Sound(IssueList)
      /\ Sound(CommitList) /\ Sound(SecurityList)
  BY DEF Sound, Nonempty, Command, Operation, Call, Read, BranchList, ListBranches, TagList,
     ListTags, PrList, ListPullRequests, IssueList, ListIssues, CommitList, ListCommits,
     SecurityList, ListSecretScanningAlerts, BranchPages, TagPages, PullPages, IssuePages,
     CommitPages, AlertPages, Pages
<1> QED
  BY <1>1, <1>2, <1>3, <1>4 DEF Commands

-----------------------------------------------------------------------------
(* GitHub.                                                                 *)

HubShape == hub = [base |-> hub.base, has |-> hub.has]

\* What a call changes is what a repository has, never where its base is.
LEMMA CarriedOutKeepsBase ==
  ASSUME HubShape, NEW c, NEW job
  PROVE  \E h : CarriedOut(c, job) = [base |-> hub.base, has |-> h]
<1>1. PICK b, h : hub = [base |-> b, has |-> h]
  BY DEF HubShape
<1>2. PICK v : CarriedOut(c, job) = [hub EXCEPT !.has[job[2]] = v]
  BY DEF CarriedOut
<1>3. [hub EXCEPT !.has[job[2]] = v] = [base |-> b, has |-> [h EXCEPT ![job[2]] = v]]
  BY <1>1
<1> QED
  BY <1>1, <1>2, <1>3

\* Bases are recorded, and no round has seen one that is ahead of it.
HubInv ==
  /\ HubShape
  /\ hub.base \in [Names -> Nat] /\ baseSeen \in [Names -> Nat]
  /\ \A r \in Names : baseSeen[r] <= hub.base[r]
  /\ repos \subseteq Names

\* Bases only move on.
Onwards == hub'.base \in [Names -> Nat] /\ \A r \in Names : hub.base[r] <= hub'.base[r]

\* Neither an answered call nor one whose answer is lost moves a base.
LEMMA CallKeepsHub ==
  ASSUME HubInv, NEW j, CallAnswered(j) \/ AnswerLost(j)
  PROVE  HubInv' /\ hub'.base = hub.base /\ UNCHANGED baseSeen
<1>1. hub' = hub \/ \E h : hub' = [base |-> hub.base, has |-> h]
  BY CarriedOutKeepsBase DEF HubInv, CallAnswered, AnswerLost
<1>2. UNCHANGED <<repos, baseSeen>>
  BY DEF CallAnswered, AnswerLost
<1> QED
  BY <1>1, <1>2 DEF HubInv, HubShape

\* Whoever pushes, creates or calls: bases are recorded, and only move on.
LEMMA StepHub ==
  ASSUME HubInv, [Next]_vars
  PROVE  HubInv' /\ Onwards
<1> USE DEF github, line, config, progress
<1>1. ASSUME NEW j, CallAnswered(j) \/ AnswerLost(j) PROVE HubInv' /\ Onwards
  BY <1>1, CallKeepsHub DEF HubInv, Onwards
<1>2. ASSUME NEW r \in Names, HeadMoves(r) PROVE HubInv' /\ Onwards
  <2>1. PICK b, h : hub = [base |-> b, has |-> h]
    BY DEF HubInv, HubShape
  <2>2. hub' = [base |-> [b EXCEPT ![r] = @ + 1], has |-> h]
    BY <1>2, <2>1 DEF HeadMoves
  <2>3. b \in [Names -> Nat] /\ UNCHANGED <<repos, baseSeen>>
    BY <1>2, <2>1 DEF HubInv, HeadMoves
  <2> QED
    BY <2>1, <2>2, <2>3 DEF HubInv, HubShape, Onwards
<1>3. ASSUME NEW r \in Names, RepositoryCreated(r) PROVE HubInv' /\ Onwards
  BY <1>3 DEF RepositoryCreated, HubInv, HubShape, Onwards
<1>4. CASE RunAgain
  BY <1>4 DEF RunAgain, HubInv, HubShape, Onwards
<1>5. CASE UNCHANGED <<hub, repos, baseSeen>>
  BY <1>5 DEF HubInv, HubShape, Onwards
<1>6. CASE Select
  BY <1>5, <1>6 DEF Select, ResolveTyped, AskForAll, SearchAll, DetectOwner, ListAll, ListFails
<1>7. CASE \/ Finish \/ UNCHANGED vars
           \/ (\E a \in BOOLEAN : SearchEnds(a)) \/ (\E j \in jobs : CallFails(j))
  BY <1>5, <1>7 DEF Finish, SearchEnds, CallFails, vars
<1> QED
  BY <1>1, <1>2, <1>3, <1>4, <1>6, <1>7 DEF Next, Operate

-----------------------------------------------------------------------------
(* The command line, and the owner in the config.                          *)

LineInv ==
  /\ cmd \in CommandLines
  /\ owner \in Owner
  /\ round \in {1, 2}

\* Detecting the owner's type and saving the listed names touch one field each.
LEMMA OwnerKept ==
  ASSUME NEW o \in Owner, NEW all, all \subseteq Names
  PROVE  /\ OwnerDetected(o) \in Owner
         /\ OwnerDetected(o).known = o.known /\ OwnerDetected(o).present = TRUE
         /\ OwnerDetected(o).includes = o.includes /\ OwnerDetected(o).excludes = o.excludes
         /\ SaveRepositoryNamesForFuzzySearch(o, all) \in Owner
         /\ SaveRepositoryNamesForFuzzySearch(o, all).known = o.known \cup ListedRepositories(o, all)
         /\ SaveRepositoryNamesForFuzzySearch(o, all).present = o.present
         /\ SaveRepositoryNamesForFuzzySearch(o, all).includes = o.includes
         /\ SaveRepositoryNamesForFuzzySearch(o, all).excludes = o.excludes
<1>1. ListedRepositories(o, all) \subseteq Names
  BY DEF ListedRepositories
<1>2. o.known \cup ListedRepositories(o, all) \subseteq Names
  BY <1>1 DEF Owner
<1>3. OwnerDetected(o) \in Owner
  BY DEF OwnerDetected, Owner
<1>4. /\ OwnerDetected(o).known = o.known /\ OwnerDetected(o).includes = o.includes
      /\ OwnerDetected(o).excludes = o.excludes
  BY DEF OwnerDetected, Owner
<1>5. OwnerDetected(o).present = TRUE
  BY DEF OwnerDetected, Owner
<1>6. SaveRepositoryNamesForFuzzySearch(o, all) \in Owner
  BY <1>2 DEF SaveRepositoryNamesForFuzzySearch, Owner
<1>7. LET saved == SaveRepositoryNamesForFuzzySearch(o, all)
      IN /\ saved.known = o.known \cup ListedRepositories(o, all)
         /\ saved.includes = o.includes /\ saved.excludes = o.excludes
  BY DEF SaveRepositoryNamesForFuzzySearch, Owner
<1>8. SaveRepositoryNamesForFuzzySearch(o, all).present = o.present
  BY DEF SaveRepositoryNamesForFuzzySearch, Owner
<1> QED
  BY <1>3, <1>4, <1>5, <1>6, <1>7, <1>8

\* The command line is the one the session began with.
LEMMA StepLine ==
  ASSUME LineInv, HubInv, [Next]_vars
  PROVE  LineInv' /\ UNCHANGED cmd
<1> USE DEF github, line, config, progress
<1>1. CASE UNCHANGED <<cmd, owner, round>>
  BY <1>1 DEF LineInv, CommandLines
<1>2. ASSUME NEW a \in BOOLEAN, DetectOwner(a) PROVE LineInv' /\ UNCHANGED cmd
  BY <1>2, OwnerKept DEF DetectOwner, LineInv, HubInv, CommandLines
<1>3. CASE ListAll
  BY <1>3, OwnerKept DEF ListAll, LineInv, HubInv, CommandLines
<1>4. CASE RunAgain
  BY <1>4 DEF RunAgain, LineInv, CommandLines
<1>5. CASE ResolveTyped \/ AskForAll \/ SearchAll \/ ListFails
  BY <1>1, <1>5 DEF ResolveTyped, AskForAll, SearchAll, ListFails
<1>6. CASE Operate
  BY <1>1, <1>6 DEF Operate, CallAnswered, AnswerLost, CallFails
<1>7. CASE Finish \/ (\E a \in BOOLEAN : SearchEnds(a)) \/ UNCHANGED vars
  BY <1>1, <1>7 DEF Finish, SearchEnds, vars
<1>8. CASE \E r \in Names : HeadMoves(r) \/ RepositoryCreated(r)
  BY <1>1, <1>8 DEF HeadMoves, RepositoryCreated
<1> QED
  BY <1>2, <1>3, <1>4, <1>5, <1>6, <1>7, <1>8 DEF Next, Select

\* What a command line is, and its command.
LEMMA LineIsSound ==
  ASSUME LineInv
  PROVE  Sound(command) /\ cmd.repository \in Seq(Names) /\ cmd.except \in Seq(Names)
BY CommandsAreSound, KindsAssumption, SessionAssumption DEF LineInv, CommandLines, command

-----------------------------------------------------------------------------
(* The jobs.                                                               *)

\* Each has its entries, and there are none before the selection is made.
JobInv ==
  /\ call \in [jobs -> Nat] /\ sha \in [jobs -> Nat]
  /\ outcome \in [jobs -> {"pending", "ok", "error"}]
  /\ \A d \in did : d[1] \in jobs
  /\ pc \in {"resolve", "detect", "list"} => jobs = {}
  /\ pc \in {"resolve", "detect", "list", "run", "done"}

\* Without jobs, and with the jobs of a selection, each job has its entries.
LEMMA NoJobsTyped ==
  ASSUME NoJobs
  PROVE  /\ call' \in [jobs' -> Nat] /\ sha' \in [jobs' -> Nat]
         /\ outcome' \in [jobs' -> {"pending", "ok", "error"}]
BY DEF NoJobs

\* The same, of the jobs a selection begins with.
LEMMA GoTyped ==
  ASSUME NEW selected, Go(selected)
  PROVE  /\ call' \in [jobs' -> Nat] /\ sha' \in [jobs' -> Nat]
         /\ outcome' \in [jobs' -> {"pending", "ok", "error"}]
BY DEF Go

\* Every step keeps the entries of the jobs.
LEMMA StepJobs ==
  ASSUME JobInv, HubInv, [Next]_vars
  PROVE  JobInv'
<1> USE DEF github, line, config, progress
<1>2. CASE Select
  <2>1. CASE ResolveTyped
    BY <2>1, NoJobsTyped, GoTyped DEF ResolveTyped, Show, JobInv
  <2>2. CASE AskForAll \/ (\E a \in BOOLEAN : DetectOwner(a))
    BY <2>2 DEF AskForAll, DetectOwner, JobInv
  <2>3. CASE SearchAll \/ ListFails
    BY <2>3, NoJobsTyped, GoTyped DEF SearchAll, ListFails, JobInv
  <2>4. CASE ListAll
    BY <2>4, NoJobsTyped, GoTyped DEF ListAll, Show, JobInv
  <2> QED
    BY <1>2, <2>1, <2>2, <2>3, <2>4 DEF Select
<1>3. ASSUME NEW j \in jobs, CallAnswered(j) PROVE JobInv'
  <2>1. /\ call' \in [jobs -> Nat] /\ outcome' \in [jobs -> {"pending", "ok", "error"}]
        /\ UNCHANGED <<jobs, pc>>
    BY <1>3 DEF CallAnswered, JobInv
  <2>2. j[2] \in Names /\ hub.base[j[2]] \in Nat
    BY <1>3 DEF CallAnswered, Allowed, HubInv
  <2>3. sha' \in [jobs -> Nat]
    BY <1>3, <2>2 DEF CallAnswered, JobInv
  <2>4. \A d \in did' : d[1] \in jobs
    BY <1>3 DEF CallAnswered, JobInv
  <2> QED
    BY <2>1, <2>3, <2>4 DEF JobInv
<1>4. ASSUME NEW j \in jobs, AnswerLost(j) \/ CallFails(j) PROVE JobInv'
  BY <1>4 DEF AnswerLost, CallFails, OperationFails, JobInv
<1>5. ASSUME NEW a \in BOOLEAN, SearchEnds(a) PROVE JobInv'
  <2>1. \A d \in did' : d[1] \in jobs
    BY <1>5 DEF SearchEnds, JobInv
  <2> QED
    BY <1>5, <2>1 DEF SearchEnds, JobInv
<1>6. CASE RunAgain
  BY <1>6, NoJobsTyped DEF RunAgain, NoJobs, JobInv
<1>7. CASE Finish \/ UNCHANGED vars \/ (\E r \in Names : HeadMoves(r) \/ RepositoryCreated(r))
  BY <1>7 DEF Finish, vars, HeadMoves, RepositoryCreated, JobInv
<1> QED
  BY <1>2, <1>3, <1>4, <1>5, <1>6, <1>7 DEF Next, Operate

-----------------------------------------------------------------------------
(* NamedExclusionsHold.                                                    *)

\* What follows from the command line alone stays.
LEMMA LineKept ==
  ASSUME UNCHANGED cmd
  PROVE  /\ command' = command /\ Calls' = Calls /\ select' = select
         /\ SelectsMany' <=> SelectsMany
BY DEF command, Calls, select, SelectsMany

\* The jobs of a command on many repositories are selected, by the config as it is.
JobsSelected ==
  SelectsMany =>
    \A j \in jobs : /\ CanSelectRepositoryForProcessing(owner, j[2])
                    /\ \A i \in DOMAIN cmd.except : j[2] # cmd.except[i]

\* What the processor selects is allowed by the patterns and not named by -e.
LEMMA SelectedAreAllowed ==
  ASSUME NEW o \in Owner, NEW candidates, \A j \in candidates : Settles(j[2], o.known),
         NEW except \in Seq(Names), NEW j \in ResolveRepositoryNames(o, candidates, except)
  PROVE  /\ CanSelectRepositoryForProcessing(o, j[2])
         /\ \A i \in DOMAIN except : j[2] # except[i]
<1>1. o.known \in SUBSET Names
  BY DEF Owner
<1>2. \A i \in DOMAIN except : Settles(except[i], o.known) =>
         except[i] \in NamesIn(ActualRepositoryNamesUsingFzf(except, o.known))
  BY <1>1, ExcludedByName
<1> QED
  BY <1>2 DEF ResolveRepositoryNames

\* Every step keeps to the selection, the two that make it included.
LEMMA StepSelected ==
  ASSUME JobsSelected, JobInv, LineInv, HubInv, [Next]_vars
  PROVE  JobsSelected'
<1> USE DEF github, line, config, progress
<1>1. LineInv' /\ UNCHANGED cmd /\ (SelectsMany' <=> SelectsMany)
  BY StepLine, LineKept
<1>2. CASE UNCHANGED <<jobs, owner>> \/ jobs' = {}
  BY <1>1, <1>2 DEF JobsSelected
<1>3. CASE ResolveTyped
  <2>1. CASE Previews /\ NoJobs
    BY <1>2, <2>1 DEF NoJobs
  <2>2. CASE SelectsMany /\ ~Previews
    <3> DEFINE actual == ActualRepositoryNamesUsingFzf(cmd.repository, owner.known)
    <3>1. jobs' = ResolveRepositoryNames(owner, actual, cmd.except) /\ UNCHANGED owner
      BY <1>3, <2>2 DEF ResolveTyped, Go, SelectsMany
    <3>2. owner \in Owner /\ owner.known \in SUBSET Names
      BY DEF LineInv, Owner
    <3>3. \A j \in actual : Settles(j[2], owner.known)
      BY <3>2, LineIsSound, ActualSettle
    <3> HIDE DEF actual
    <3> QED
      BY <1>1, <3>1, <3>2, <3>3, LineIsSound, SelectedAreAllowed DEF JobsSelected
  <2>3. CASE ~SelectsMany
    BY <1>1, <2>3 DEF JobsSelected
  <2> QED
    BY <1>3, <2>1, <2>2, <2>3 DEF ResolveTyped, Show
<1>4. CASE AskForAll \/ \E a \in BOOLEAN : DetectOwner(a)
  BY <1>2, <1>4 DEF AskForAll, DetectOwner, JobInv
<1>5. CASE SearchAll
  BY <1>1, <1>5 DEF SearchAll, SelectsMany, JobsSelected
<1>6. CASE ListAll
  <2> DEFINE listed == ListedRepositories(owner, repos)
  <2>1. \/ jobs' = {}
        \/ jobs' = ResolveRepositoryNames(owner', Once(listed), cmd.except)
    BY <1>6 DEF ListAll, Show, NoJobs, Go
  <2>2. owner' \in Owner /\ owner'.known = owner.known \cup listed
    BY <1>6, OwnerKept DEF ListAll, LineInv, HubInv
  <2>3. \A j \in Once(listed) : Settles(j[2], owner'.known)
    BY <2>2 DEF Once, Settles
  <2> HIDE DEF listed
  <2>4. CASE jobs' = ResolveRepositoryNames(owner', Once(listed), cmd.except)
    <3>1. \A j \in jobs' : /\ CanSelectRepositoryForProcessing(owner', j[2])
                           /\ \A i \in DOMAIN cmd.except : j[2] # cmd.except[i]
      BY <2>2, <2>3, <2>4, LineIsSound, SelectedAreAllowed
    <3> QED
      BY <1>1, <3>1 DEF JobsSelected, CanSelectRepositoryForProcessing
  <2> QED
    BY <1>2, <2>1, <2>4
<1>7. CASE ListFails \/ RunAgain
  BY <1>2, <1>7 DEF ListFails, RunAgain, NoJobs
<1>8. CASE Operate
  BY <1>2, <1>8 DEF Operate, CallAnswered, AnswerLost, CallFails
<1>9. CASE \/ Finish \/ (\E a \in BOOLEAN : SearchEnds(a)) \/ UNCHANGED vars
           \/ \E r \in Names : HeadMoves(r) \/ RepositoryCreated(r)
  BY <1>2, <1>9 DEF Finish, SearchEnds, vars, HeadMoves, RepositoryCreated
<1> QED
  BY <1>3, <1>4, <1>5, <1>6, <1>7, <1>8, <1>9 DEF Next, Select

-----------------------------------------------------------------------------
(* PreviewHonoured.                                                        *)

\* What a command on many repositories would go through, by the config as it is.
Candidates ==
  IF cmd.repository = <<>> THEN Once(ListedRepositories(owner, repos))
  ELSE ActualRepositoryNamesUsingFzf(cmd.repository, owner.known)
Selection == ResolveRepositoryNames(owner, Candidates, cmd.except)

\* What a preview has shown is the selection still.  While the owner is the same, a
\* listing adds nothing to the known names.
Remembered ==
  /\ round = 2 => ~dryRun
  /\ pc \in {"detect", "list"} => cmd.repository = <<>>
  /\ round = 1 /\ pc # "done" => previews = {}
  /\ SelectsMany => \A shown \in previews :
       /\ owner.present
       /\ shown = NamesIn(Selection) /\ NamesIn(jobs) \subseteq shown
       /\ cmd.repository = <<>> => ListedRepositories(owner, repos) \subseteq owner.known

\* The cached type of the owner is of no consequence.
SameOwner(o, p) ==
  o.present = p.present /\ o.known = p.known /\ o.includes = p.includes /\ o.excludes = p.excludes

\* The selection depends on the owner by what SameOwner compares.
LEMMA SameSelection ==
  ASSUME UNCHANGED <<cmd, repos>>, SameOwner(owner', owner)
  PROVE  /\ Selection' = Selection
         /\ ListedRepositories(owner, repos)' = ListedRepositories(owner, repos)
BY DEF SameOwner, Selection, Candidates, ListedRepositories, ResolveRepositoryNames,
   CanSelectRepositoryForProcessing

\* A step that selects nothing keeps what is remembered.
LEMMA QuietKeepsRemembered ==
  ASSUME Remembered, LineInv, UNCHANGED <<cmd, repos, owner, round, dryRun>>,
         jobs' = jobs \/ jobs' = {}, previews' = previews \/ previews' = {},
         \/ pc' \in {pc, "done"}
         \/ pc' \in {"detect", "list"} /\ cmd.repository = <<>> /\ pc # "done"
  PROVE  Remembered'
<1>1. Selection' = Selection /\ (SelectsMany' <=> SelectsMany)
      /\ ListedRepositories(owner, repos)' = ListedRepositories(owner, repos)
  BY SameSelection, LineKept DEF SameOwner
<1> QED
  BY <1>1 DEF Remembered, NamesIn

\* A preview of names given with -r is the selection.
LEMMA TypedKeepsRemembered ==
  ASSUME Remembered, LineInv, ResolveTyped
  PROVE  Remembered'
<1> USE DEF github, line, config, progress
<1> DEFINE actual == ActualRepositoryNamesUsingFzf(cmd.repository, owner.known)
           selected == ResolveRepositoryNames(owner, actual, cmd.except)
<1>1. UNCHANGED <<cmd, repos, owner, round, dryRun>> /\ pc = "resolve" /\ cmd.repository # <<>>
  BY DEF ResolveTyped
<1>2. /\ Selection' = Selection /\ (SelectsMany' <=> SelectsMany)
      /\ ListedRepositories(owner, repos)' = ListedRepositories(owner, repos)
  BY <1>1, SameSelection, LineKept DEF SameOwner
<1>3. Selection = selected
  BY <1>1 DEF Selection, Candidates
<1>4. SelectsMany => command.preview \in {"selected", "none"}
  BY LineIsSound DEF Sound, SelectsMany, select, Selects
<1>5. CASE Previews
  <2>1. jobs' = {} /\ pc' = "done" /\ dryRun
    BY <1>5 DEF ResolveTyped, Show, NoJobs, Previews
  <2>2. SelectsMany => previews' = IF owner.present THEN {NamesIn(selected)} ELSE {}
    BY <1>4, <1>5 DEF ResolveTyped, Show, Previews
  <2> HIDE DEF selected
  <2>3. SelectsMany => \A shown \in previews' : owner.present /\ shown = NamesIn(Selection)
    BY <1>3, <2>2
  <2>4. NamesIn(jobs') = {}
    BY <2>1 DEF NamesIn
  <2> QED
    BY <1>1, <1>2, <2>1, <2>3, <2>4 DEF Remembered
<1>6. CASE ~Previews
  <2>1. pc' = "run" /\ UNCHANGED previews
    BY <1>6 DEF ResolveTyped
  <2>2. SelectsMany => jobs' = selected
    BY <1>6 DEF ResolveTyped, Go, SelectsMany
  <2>3. SelectsMany => NamesIn(jobs') = NamesIn(Selection)
    BY <1>3, <2>2
  <2> QED
    BY <1>1, <1>2, <2>1, <2>3 DEF Remembered
<1> QED
  BY <1>5, <1>6

\* The owner's type becomes known, which makes no difference to the selection.
LEMMA DetectKeepsRemembered ==
  ASSUME Remembered, LineInv, NEW a \in BOOLEAN, DetectOwner(a)
  PROVE  Remembered'
<1>1. /\ UNCHANGED <<cmd, repos, jobs, previews, round, dryRun>> /\ pc = "detect" /\ pc' = "list"
      /\ owner' = owner \/ owner' = OwnerDetected(owner)
  BY DEF DetectOwner, github, line, progress
<1>2. owner.present => SameOwner(owner', owner)
  <2> SUFFICES ASSUME owner.present PROVE SameOwner(owner', owner)
    OBVIOUS
  <2>1. owner.present = TRUE
    BY DEF LineInv, Owner
  <2> QED
    BY <1>1, <2>1, OwnerKept DEF SameOwner, LineInv
<1>3. owner.present => /\ Selection' = Selection /\ owner'.present /\ owner'.known = owner.known
                       /\ ListedRepositories(owner, repos)' = ListedRepositories(owner, repos)
  BY <1>1, <1>2, SameSelection DEF SameOwner
<1> QED
  BY <1>1, <1>3, LineKept DEF Remembered

\* A listing adds to the known names what it lists: the second time, nothing.
LEMMA ListKeepsRemembered ==
  ASSUME Remembered, LineInv, HubInv, ListAll
  PROVE  Remembered'
<1> USE DEF github, line, config, progress
<1> DEFINE listed == ListedRepositories(owner, repos)
<1>1. /\ UNCHANGED <<cmd, repos, round, dryRun>> /\ pc = "list" /\ cmd.repository = <<>>
      /\ owner' = SaveRepositoryNamesForFuzzySearch(owner, repos)
  BY DEF ListAll, Remembered
<1>2. /\ owner'.known = owner.known \cup listed /\ owner'.present = owner.present
      /\ owner'.includes = owner.includes /\ owner'.excludes = owner.excludes
  BY <1>1, OwnerKept DEF LineInv, HubInv
<1>3. ListedRepositories(owner', repos') = listed
  BY <1>1, <1>2 DEF ListedRepositories, CanSelectRepositoryForProcessing
<1>4. Selection' = ResolveRepositoryNames(owner', Once(listed), cmd.except)
  BY <1>1, <1>3 DEF Selection, Candidates
<1>5. SelectsMany' <=> SelectsMany
  BY <1>1, LineKept
<1> HIDE DEF listed
<1>6. CASE Previews
  <2>1. jobs' = {} /\ pc' = "done" /\ dryRun
        /\ previews' = IF owner.present THEN {NamesIn(Selection')} ELSE {}
    BY <1>4, <1>6 DEF ListAll, Show, NoJobs, Previews, listed
  <2>2. \A shown \in previews' : owner'.present /\ shown = NamesIn(Selection')
    BY <1>2, <2>1
  <2>3. NamesIn(jobs') = {} /\ listed \subseteq owner'.known
    BY <1>2, <2>1 DEF NamesIn
  <2> QED
    BY <1>1, <1>3, <2>1, <2>2, <2>3 DEF Remembered
<1>7. CASE ~Previews
  <2>1. jobs' = Selection' /\ pc' = "run" /\ UNCHANGED previews
    BY <1>4, <1>7 DEF ListAll, Go, listed
  <2>2. CASE previews = {}
    BY <1>1, <2>1, <2>2 DEF Remembered
  <2>3. CASE SelectsMany /\ previews # {}
    <3>1. owner.present /\ listed \subseteq owner.known
      BY <1>1, <2>3 DEF Remembered, listed
    <3>2. SameOwner(owner', owner)
      BY <1>2, <3>1 DEF SameOwner
    <3>3. Selection' = Selection
      BY <1>1, <3>2, SameSelection
    <3> QED
      BY <1>1, <1>2, <1>3, <1>5, <2>1, <3>1, <3>3 DEF Remembered
  <2>4. CASE ~SelectsMany
    BY <1>1, <1>5, <2>1, <2>4 DEF Remembered
  <2> QED
    BY <2>2, <2>3, <2>4
<1> QED
  BY <1>6, <1>7

\* Every step keeps what a preview has shown true.
LEMMA StepRemembered ==
  ASSUME Remembered, LineInv, HubInv, [Next]_vars
  PROVE  Remembered'
<1> USE DEF github, line, config, progress
<1>1. CASE AskForAll \/ ListFails \/ UNCHANGED vars
  BY <1>1, QuietKeepsRemembered DEF AskForAll, ListFails, NoJobs, vars
<1>2. CASE SearchAll
  BY <1>2, LineKept DEF SearchAll, SelectsMany, Remembered
<1>3. CASE Operate \/ Finish \/ \E a \in BOOLEAN : SearchEnds(a)
  BY <1>3, QuietKeepsRemembered DEF Operate, CallAnswered, AnswerLost, CallFails, Finish, SearchEnds
<1>4. CASE RunAgain
  <2>1. /\ UNCHANGED <<cmd, repos, owner, previews>> /\ jobs' = {}
        /\ round' = 2 /\ dryRun' = FALSE /\ pc' = "resolve"
    BY <1>4 DEF RunAgain, NoJobs
  <2>2. Selection' = Selection /\ (SelectsMany' <=> SelectsMany)
        /\ ListedRepositories(owner, repos)' = ListedRepositories(owner, repos)
    BY <2>1, SameSelection, LineKept DEF SameOwner
  <2> QED
    BY <2>1, <2>2 DEF Remembered, NamesIn
<1>5. ASSUME NEW r \in Names, HeadMoves(r) PROVE Remembered'
  BY <1>5, QuietKeepsRemembered DEF HeadMoves
<1>6. ASSUME NEW r \in Names, RepositoryCreated(r) PROVE Remembered'
  BY <1>6 DEF RepositoryCreated, Remembered
<1> QED
  BY <1>1, <1>2, <1>3, <1>4, <1>5, <1>6, TypedKeepsRemembered, DetectKeepsRemembered,
     ListKeepsRemembered DEF Next, Select

-----------------------------------------------------------------------------
(* SuccessIsReal.                                                          *)

\* The commits the base of r had during this round.
Bases(r) == baseSeen[r]..hub.base[r]

\* What was made was made on such a commit.
AtBase(d, r) == d[2].on \in {"branch", "tag"} => d[3] \in Bases(r)

\* The nth call was carried out for job j, on such a commit if it makes one.
Carried(j, n) ==
  \E d \in did :
    /\ d[1] = j /\ d[2] = Calls[n]
    /\ Calls[1] = Read => AtBase(d, j[2])

\* The calls that are behind a job, in their order, were carried out for it.
JobCarried(j) ==
  /\ call[j] \in 0..Len(Calls)
  /\ outcome[j] = "pending" => call[j] < Len(Calls)
  /\ outcome[j] = "ok" => call[j] = Len(Calls)
  /\ call[j] > 0 => j[2] \in Names
  /\ Calls[1] = Read /\ call[j] > 0 => sha[j] \in Bases(j[2])
  /\ \A n \in 1..call[j] : Counts(Calls[n]) => Carried(j, n)

CallsMade == select # "search" => \A j \in jobs : JobCarried(j)

\* What was carried out stays so while bases move on.
LEMMA CarriedStays ==
  ASSUME HubInv, Onwards, UNCHANGED <<cmd, baseSeen>>, did \subseteq did',
         NEW j, j[2] \in Names, NEW n, Carried(j, n)
  PROVE  Carried(j, n)'
<1>1. Calls' = Calls
  BY LineKept
<1>2. Bases(j[2]) \subseteq Bases(j[2])'
  BY DEF Bases, HubInv, Onwards
<1>3. PICK d \in did : d[1] = j /\ d[2] = Calls[n] /\ (Calls[1] = Read => AtBase(d, j[2]))
  BY DEF Carried
<1>4. AtBase(d, j[2]) => AtBase(d, j[2])'
  BY <1>2 DEF AtBase
<1>5. d \in did' /\ d[1] = j /\ d[2] = Calls'[n] /\ (Calls'[1] = Read => AtBase(d, j[2])')
  BY <1>1, <1>3, <1>4
<1> QED
  BY <1>5 DEF Carried

\* What another job's call, or nobody's, leaves of a job.
LEMMA JobStays ==
  ASSUME HubInv, Onwards, UNCHANGED <<cmd, baseSeen>>, did \subseteq did',
         NEW j, JobCarried(j),
         call'[j] = call[j], sha'[j] = sha[j], outcome'[j] \in {outcome[j], "error"}
  PROVE  JobCarried(j)'
<1>1. Calls' = Calls
  BY LineKept
<1>2. call[j] > 0 => Bases(j[2]) \subseteq Bases(j[2])'
  BY DEF Bases, HubInv, Onwards, JobCarried
<1>3. \A n \in 1..call[j] : Counts(Calls[n]) => Carried(j, n)'
  BY CarriedStays DEF JobCarried
<1>4. Calls[1] = Read /\ call[j] > 0 => sha'[j] \in Bases(j[2])'
  BY <1>2 DEF JobCarried
<1> QED
  BY <1>1, <1>3, <1>4 DEF JobCarried, Bases

\* A call that is answered is the next one of its job.
LEMMA AnswerKeepsJob ==
  ASSUME HubInv, LineInv, JobInv, NEW j \in jobs, CallAnswered(j), JobCarried(j)
  PROVE  JobCarried(j)'
<1> DEFINE c == next(j)
<1>1. /\ Sound(command) /\ Calls = command.calls /\ outcome[j] = "pending"
      /\ call[j] \in Nat /\ call[j] < Len(Calls) /\ Len(Calls) \in Nat
  BY LineIsSound DEF Calls, CallAnswered, MayCall, JobCarried, JobInv, Sound, Nonempty
<1>2. /\ call'[j] = call[j] + 1 /\ outcome'[j] = IF call[j] + 1 = Len(Calls) THEN "ok" ELSE "pending"
      /\ sha'[j] = IF c.op = "read" THEN hub.base[j[2]] ELSE sha[j]
  BY DEF CallAnswered, JobInv
<1>3. HubInv' /\ hub'.base = hub.base /\ UNCHANGED <<cmd, baseSeen>> /\ Calls' = Calls
  BY CallKeepsHub, LineKept DEF CallAnswered, line
<1>4. /\ Onwards /\ j[2] \in Names /\ did \subseteq did'
      /\ hub.base[j[2]] \in Nat /\ baseSeen[j[2]] \in Nat
  BY <1>3 DEF CallAnswered, Allowed, HubInv, Onwards
<1>5. hub.base[j[2]] \in Bases(j[2])
  BY <1>4 DEF Bases, HubInv
<1>6. Calls[1] = Read /\ c.op # "read" => sha[j] \in Bases(j[2])
  <2> SUFFICES ASSUME Calls[1] = Read, c.op # "read" PROVE sha[j] \in Bases(j[2])
    OBVIOUS
  <2>1. call[j] # 0
    BY DEF next, Read, Call
  <2> QED
    BY <1>1, <2>1 DEF JobCarried
<1>7. Calls[1] = Read => sha'[j] \in Bases(j[2])'
  BY <1>2, <1>3, <1>5, <1>6 DEF Bases
<1>8. PICK m : m = call[j] + 1
  OBVIOUS
<1>9. ASSUME Counts(c) PROVE Carried(j, m)'
  <2>1. <<j, c, Value(c, j)>> \in did' /\ c = Calls[m]
    BY <1>8, <1>9 DEF CallAnswered, next
  <2>2. ASSUME Calls[1] = Read, c.on \in {"branch", "tag"} PROVE Value(c, j) \in Bases(j[2])
    <3>1. c.op # "remove" /\ c.op # "read"
      BY <1>1, <1>8, <1>9, <2>1, <2>2 DEF Sound, Nonempty, Counts
    <3> QED
      BY <1>6, <2>2, <3>1 DEF Value
  <2>3. Calls[1] = Read /\ c.on \in {"branch", "tag"} => Value(c, j) \in Bases(j[2])'
    BY <1>3, <2>2 DEF Bases
  <2>4. PICK d : d = <<j, c, Value(c, j)>>
    OBVIOUS
  <2>5. Calls[1] = Read => AtBase(d, j[2])'
    BY <2>3, <2>4 DEF AtBase
  <2>6. d \in did' /\ d[1] = j /\ d[2] = Calls'[m]
    BY <1>3, <2>1, <2>4
  <2> QED
    BY <1>3, <2>5, <2>6 DEF Carried
<1>10. \A n \in 1..call[j] : Counts(Calls[n]) => Carried(j, n)'
  BY <1>3, <1>4, CarriedStays DEF JobCarried
<1>11. \A n \in 1..m : Counts(Calls[n]) => Carried(j, n)'
  <2> SUFFICES ASSUME NEW n \in 1..m, Counts(Calls[n]) PROVE Carried(j, n)'
    OBVIOUS
  <2>1. n \in 1..call[j] \/ n = m
    BY <1>1, <1>8
  <2>2. n = m => Counts(c)
    BY <1>8 DEF next
  <2> HIDE DEF c
  <2> QED
    BY <1>9, <1>10, <2>1, <2>2
<1> HIDE DEF c
<1> QED
  BY <1>1, <1>2, <1>3, <1>4, <1>7, <1>8, <1>11 DEF JobCarried

\* A job that begins has no call behind it.
LEMMA GoKeepsCallsMade ==
  ASSUME LineInv, UNCHANGED cmd, NEW selected, Go(selected)
  PROVE  CallsMade'
<1>1. Calls' = Calls /\ Len(Calls) \in Nat \ {0}
  BY LineKept, LineIsSound DEF Sound, Nonempty, Calls
<1> QED
  BY <1>1 DEF Go, CallsMade, JobCarried

\* Every step keeps the calls of all jobs accounted for.
LEMMA StepCallsMade ==
  ASSUME CallsMade, HubInv, LineInv, JobInv, [Next]_vars
  PROVE  CallsMade'
<1> USE DEF github, line, config, progress
<1>1. HubInv' /\ Onwards /\ UNCHANGED cmd /\ select' = select
  BY StepHub, StepLine, LineKept
<1>2. CASE jobs' = {}
  BY <1>2 DEF CallsMade
<1>3. CASE UNCHANGED <<jobs, call, sha, outcome, baseSeen, did>>
  BY <1>1, <1>3, JobStays DEF CallsMade
<1>4. CASE Select
  <2>1. CASE \E selected : Go(selected)
    BY <1>1, <2>1, GoKeepsCallsMade
  <2>2. CASE AskForAll \/ \E a \in BOOLEAN : DetectOwner(a)
    BY <1>3, <2>2 DEF AskForAll, DetectOwner
  <2> QED
    BY <1>2, <1>4, <2>1, <2>2 DEF Select, ResolveTyped, SearchAll, ListAll, ListFails, Show, NoJobs
<1>5. ASSUME NEW j \in jobs, CallAnswered(j) PROVE CallsMade'
  <2>1. \A k \in jobs : k # j => call'[k] = call[k] /\ sha'[k] = sha[k] /\ outcome'[k] = outcome[k]
    BY <1>5 DEF CallAnswered, JobInv
  <2>2. jobs' = jobs /\ UNCHANGED baseSeen /\ did \subseteq did'
    BY <1>5 DEF CallAnswered
  <2>3. ASSUME NEW k \in jobs, k # j, JobCarried(k) PROVE JobCarried(k)'
    BY <1>1, <2>1, <2>2, <2>3, JobStays
  <2> QED
    BY <1>1, <1>5, <2>2, <2>3, AnswerKeepsJob DEF CallsMade
<1>6. ASSUME NEW j \in jobs, AnswerLost(j) \/ CallFails(j) PROVE CallsMade'
  <2>1. \A k \in jobs : call'[k] = call[k] /\ sha'[k] = sha[k] /\ outcome'[k] \in {outcome[k], "error"}
    BY <1>6 DEF AnswerLost, CallFails, OperationFails, JobInv
  <2>2. jobs' = jobs /\ UNCHANGED baseSeen /\ did \subseteq did'
    BY <1>6 DEF AnswerLost, CallFails
  <2> QED
    BY <1>1, <2>1, <2>2, JobStays DEF CallsMade
<1>7. ASSUME NEW a \in BOOLEAN, SearchEnds(a) PROVE CallsMade'
  BY <1>1, <1>7 DEF SearchEnds, CallsMade
<1>8. CASE RunAgain
  BY <1>2, <1>8 DEF RunAgain, NoJobs
<1>9. CASE Finish \/ UNCHANGED vars \/ (\E r \in Names : HeadMoves(r) \/ RepositoryCreated(r))
  BY <1>3, <1>9 DEF Finish, vars, HeadMoves, RepositoryCreated
<1> QED
  BY <1>4, <1>5, <1>6, <1>7, <1>8, <1>9 DEF Next, Operate

-----------------------------------------------------------------------------
(* Every session.                                                          *)

SessionInv == HubInv /\ LineInv /\ JobInv /\ JobsSelected /\ Remembered /\ CallsMade

\* A session begins like that.
LEMMA InitSession == Init => SessionInv
<1> SUFFICES ASSUME Init PROVE SessionInv
  OBVIOUS
<1>1. HubInv
  BY SessionAssumption DEF Init, HubInv, HubShape
<1>2. LineInv /\ JobInv
  BY SessionAssumption DEF Init, LineInv, JobInv
<1>3. JobsSelected /\ Remembered /\ CallsMade
  BY DEF Init, JobsSelected, Remembered, CallsMade
<1> QED
  BY <1>1, <1>2, <1>3 DEF SessionInv

\* And each of its steps keeps it.
LEMMA StepSession == SessionInv /\ [Next]_vars => SessionInv'
BY StepHub, StepLine, StepJobs, StepSelected, StepRemembered, StepCallsMade DEF SessionInv

\* The update of a protected branch is one of the commands: what it reads first
\* and what others do to the rules the session does not see.
LEMMA PbStepIsSessionStep == [PbNext]_pbVars => [Next]_vars
<1> SUFFICES ASSUME [PbNext]_pbVars PROVE [Next]_vars
  OBVIOUS
<1>1. CASE ReadBegins \/ ReadEnds \/ \E r \in Names : ReadRule(r) \/ ReadFails(r) \/ RuleEdited(r)
  BY <1>1 DEF ReadBegins, ReadEnds, ReadRule, ReadFails, RuleEdited
<1>2. CASE Settle
  BY <1>2 DEF Settle, Next
<1>3. ASSUME NEW j \in jobs, PutRule(j) PROVE Next
  BY <1>3 DEF PutRule, Next, Operate
<1>4. CASE Operate \/ (\E j \in jobs : CallFails(j)) \/ (\E a \in BOOLEAN : SearchEnds(a)) \/ Select
           \/ Finish \/ (\E r \in Names : HeadMoves(r) \/ RepositoryCreated(r))
  BY <1>4 DEF Next, Operate
<1>5. CASE UNCHANGED pbVars
  BY <1>5 DEF pbVars
<1> QED
  BY <1>1, <1>2, <1>3, <1>4, <1>5 DEF PbNext

\* A session with the update is a session: what RepoCommands promises of all
\* commands holds of `protected-branch update` with its own listing and rules.
THEOREM UpdateIsASession == PbSpec => Spec
<1>1. PbInit => Init
  BY DEF PbInit
<1> QED
  BY <1>1, PbStepIsSessionStep, PTL DEF PbSpec, Spec

\* Every session of two rounds keeps the inductive invariant.
THEOREM SessionInvariance == Spec => []SessionInv
BY InitSession, StepSession, PTL DEF Spec

\* NamedExclusionsHold: no name given with -e, and none the owner's patterns
\* leave out, is touched by a command on many repositories, whatever the known
\* names, the fuzzy matches and the order in which the jobs are worked on.
THEOREM ExclusionsHold == Spec => []NamedExclusionsHold
<1>1. SessionInv => NamedExclusionsHold
  BY DEF SessionInv, JobInv, JobsSelected, NamedExclusionsHold
<1> QED
  BY <1>1, SessionInvariance, PTL

\* PreviewHonoured: what the dry run saved in the config, the owner's type and
\* the names it listed, selects nothing that it has not shown.
THEOREM PreviewsAreHonoured == Spec => []PreviewHonoured
<1>1. SessionInv => PreviewHonoured
  BY DEF SessionInv, Remembered, PreviewHonoured
<1> QED
  BY <1>1, SessionInvariance, PTL

\* SuccessIsReal: a repository reported as done is done, whichever call of its
\* operation fails, for any number of workers and of pushes in between.
THEOREM ReportedIsDone == Spec => []SuccessIsReal
<1>1. SessionInv => SuccessIsReal
  <2> SUFFICES ASSUME SessionInv, select # "search", NEW j \in jobs, outcome[j] = "ok",
                      NEW n \in DOMAIN Calls, Counts(Calls[n])
               PROVE  \E d \in did :
                        /\ d[1] = j /\ d[2] = Calls[n]
                        /\ Calls[1] = Read /\ d[2].on \in {"branch", "tag"} =>
                             d[3] \in baseSeen[j[2]]..hub.base[j[2]]
    BY DEF SuccessIsReal
  <2>1. JobCarried(j) /\ DOMAIN Calls = 1..Len(Calls)
    BY LineIsSound DEF SessionInv, CallsMade, Sound, Nonempty, Calls
  <2>2. Carried(j, n)
    BY <2>1 DEF JobCarried
  <2>3. PICK d \in did : d[1] = j /\ d[2] = Calls[n] /\ (Calls[1] = Read => AtBase(d, j[2]))
    BY <2>2 DEF Carried
  <2>4. Calls[1] = Read /\ d[2].on \in {"branch", "tag"} => d[3] \in baseSeen[j[2]]..hub.base[j[2]]
    BY <2>3 DEF AtBase, Bases
  <2> QED
    BY <2>3, <2>4
<1> QED
  BY <1>1, SessionInvariance, PTL

\* All three hold of `protected-branch update`, with its listing and its rules.
THEOREM UpdateKeepsPromises == PbSpec => [](NamedExclusionsHold /\ PreviewHonoured /\ SuccessIsReal)
BY UpdateIsASession, ExclusionsHold, PreviewsAreHonoured, ReportedIsDone, PTL

-----------------------------------------------------------------------------
(* UsersKept and UpdateIsIdempotent.                                       *)

\* The rule that the update asked for by q makes of the one it has read.
Payload(q, old) ==
  [type |-> "rule",
   bypass |-> allowance(old, old.bypass, q.addBypass, q.removeBypass),
   push |-> allowance(old, old.push, q.addPush, q.removePush),
   lock |-> q.lock, checks |-> ~q.removeStatusChecks]

\* Made again of its own result, a rule is the same: adding and removing users
\* twice is adding and removing them once.
LEMMA PayloadIsIdempotent == \A q, old : Payload(q, Payload(q, old)) = Payload(q, old)
<1> SUFFICES ASSUME NEW q, NEW old PROVE Payload(q, Payload(q, old)) = Payload(q, old)
  OBVIOUS
<1> DEFINE new == Payload(q, old)
<1>1. new.type = "rule" /\ new.bypass = allowance(old, old.bypass, q.addBypass, q.removeBypass)
      /\ new.push = allowance(old, old.push, q.addPush, q.removePush)
  BY DEF Payload
<1>2. allowance(new, new.bypass, q.addBypass, q.removeBypass) = new.bypass
  BY <1>1 DEF allowance
<1>3. allowance(new, new.push, q.addPush, q.removePush) = new.push
  BY <1>1 DEF allowance
<1>4. Payload(q, new) = [type |-> "rule", bypass |-> new.bypass, push |-> new.push,
                         lock |-> q.lock, checks |-> ~q.removeStatusChecks]
  BY <1>2, <1>3 DEF Payload
<1> QED
  BY <1>1, <1>4 DEF Payload

\* It is a rule, whatever is asked for.
LEMMA PayloadIsARule == \A q \in Requests, old \in Rule : Payload(q, old) \in Rule
BY RequestAssumption DEF Payload, allowance, Rule

\* What is read of a rule is a rule, with no other users; it is the rule if a page
\* holds its users.
LEMMA ReadingOfARule ==
  ASSUME NEW rule \in Rule
  PROVE  /\ Reading(rule) \in Rule /\ Reading(rule).type = rule.type
         /\ Reading(rule).bypass \subseteq rule.bypass /\ Reading(rule).push \subseteq rule.push
         /\ OnePage(rule.bypass) => Reading(rule).bypass = rule.bypass
         /\ OnePage(rule.push) => Reading(rule).push = rule.push
         /\ OnePage(rule.bypass) /\ OnePage(rule.push) => Reading(rule) = rule
<1>1. rule.bypass \in SUBSET Users /\ rule.push \in SUBSET Users
  BY DEF Rule
<1>2. \A S \in SUBSET Users :
        AllowancesRead[S] \subseteq S /\ (OnePage(S) => AllowancesRead[S] = S)
  BY ReadingAssumption DEF OnePage
<1>3. /\ Reading(rule).bypass = AllowancesRead[rule.bypass]
      /\ Reading(rule).push = AllowancesRead[rule.push]
      /\ Reading(rule).type = rule.type
  BY DEF Reading
<1>4. Reading(rule) \in Rule
  BY <1>1, <1>2 DEF Reading, Rule
<1>5. rule = [type |-> rule.type, bypass |-> rule.bypass, push |-> rule.push,
              lock |-> rule.lock, checks |-> rule.checks]
  BY DEF Rule
<1>6. OnePage(rule.bypass) /\ OnePage(rule.push) => Reading(rule) = rule
  BY <1>1, <1>2, <1>5 DEF Reading
<1> QED
  BY <1>1, <1>2, <1>3, <1>4, <1>6

\* The tables, each with a rule for every name.
Tables ==
  /\ rules \in [Names -> Rule] /\ existing \in [Names -> Rule]
  /\ request \in Requests
  /\ wasRead \subseteq Names \ DOMAIN Neighbour /\ edits \in Nat

\* The rules are read before any of them is put, and not while they are.
ReadFirst ==
  Updating =>
    /\ stage = "reading" => pc = "resolve"
    /\ pc \in {"detect", "list", "run"} /\ ~Previews => stage = "read"
    /\ pc = "run" => ~Previews
    /\ stage # "before" => ~Previews

\* A page holds the users of the rule.
Short(rule) == OnePage(rule.bypass) /\ OnePage(rule.push)

\* What the first round puts is what the second makes of it again.
Repeats ==
  /\ round = 1 => \A j \in jobs : outcome[j] = "ok" =>
       j[2] \in Names /\ rules[j[2]] = Payload(request, existing[j[2]])
  /\ round = 2 => \A r \in DOMAIN settled :
       /\ Payload(request, settled[r]) = settled[r]
       /\ r \in wasRead /\ Short(settled[r]) => existing[r] = settled[r] /\ rules[r] = settled[r]
       /\ pc \notin {"run", "done"} => rules[r] = settled[r]

Repeatable == Updating /\ edits = 0 => Repeats

PbInv == Tables /\ ReadFirst /\ Repeatable

\* A PUT replaces the rule of one repository, by what was made of the one read.
LEMMA PutIsTyped ==
  ASSUME SessionInv, Tables, NEW j \in jobs, PutRule(j)
  PROVE  /\ j[2] \in Names /\ pc = "run"
         /\ rules' = [rules EXCEPT ![j[2]] = Payload(request, existing[j[2]])]
         /\ rules' \in [Names -> Rule] /\ rules'[j[2]] = Payload(request, existing[j[2]])
         /\ \A r \in Names : r # j[2] => rules'[r] = rules[r]
<1>1. j[2] \in Names /\ pc = "run"
  BY DEF PutRule, CallAnswered, AnswerLost, Allowed, MayCall, SessionInv, HubInv
<1>2. rules' = [rules EXCEPT ![j[2]] = Payload(request, existing[j[2]])]
  BY DEF PutRule, createRequestPayload, addUsersToBypassPullRequestReview, addRestrictions,
       addStatusChecks, Payload
<1>3. Payload(request, existing[j[2]]) \in Rule
  BY <1>1, PayloadIsARule DEF Tables
<1> QED
  BY <1>1, <1>2, <1>3 DEF Tables

LEMMA InitTables == PbInit => Tables
<1> SUFFICES ASSUME PbInit PROVE Tables
  OBVIOUS
<1>1. NoRule \in Rule
  BY DEF NoRule, Rule
<1>2. rules \in [Names -> Rule] /\ request \in Requests
  BY <1>1, RequestAssumption DEF PbInit, Unread
<1> QED
  BY <1>1, <1>2 DEF PbInit, Tables, Unread

\* Every step keeps the tables whole.
LEMMA StepTables == Tables /\ SessionInv /\ [PbNext]_pbVars => Tables'
<1> SUFFICES ASSUME Tables, SessionInv, [PbNext]_pbVars PROVE Tables'
  OBVIOUS
<1>1. CASE UNCHANGED <<rules, request, existing, wasRead, edits>>
  BY <1>1 DEF Tables
<1>2. CASE ReadBegins \/ ReadEnds
  BY <1>1, <1>2 DEF ReadBegins, ReadEnds
<1>3. CASE Settle
  BY <1>3 DEF Settle, Tables, Unread, NoRule, Rule
<1>4. ASSUME NEW r \in Names, ReadRule(r) PROVE Tables'
  <2>1. \A m \in Names : Entry(m) \in Rule
    BY ReadingOfARule, ReadingAssumption DEF Entry, Tables
  <2>2. PICK found : /\ found \subseteq Names
                     /\ existing' = [m \in Names |-> IF m \in found THEN Entry(m) ELSE existing[m]]
                     /\ wasRead' = wasRead \cup (found \ DOMAIN Neighbour)
    BY <1>4 DEF ReadRule, Found, SessionInv, HubInv
  <2> QED
    BY <1>4, <2>1, <2>2 DEF ReadRule, Tables
<1>5. ASSUME NEW r \in Names, ReadFails(r) PROVE Tables'
  BY <1>5 DEF ReadFails, Tables, NoRule, Rule
<1>6. ASSUME NEW r \in Names, RuleEdited(r) PROVE Tables'
  <2>1. PICK u \in Users :
          rules' = [rules EXCEPT ![r] =
                      [rules[r] EXCEPT !.bypass = IF u \in rules[r].bypass THEN rules[r].bypass \ {u}
                                                  ELSE rules[r].bypass \cup {u}]]
    BY <1>6 DEF RuleEdited, Tables
  <2> DEFINE v == [rules[r] EXCEPT !.bypass = IF u \in rules[r].bypass THEN rules[r].bypass \ {u}
                                              ELSE rules[r].bypass \cup {u}]
  <2>2. v \in Rule
    BY DEF Tables, Rule
  <2> HIDE DEF v
  <2>3. rules' = [rules EXCEPT ![r] = v]
    BY <2>1 DEF v
  <2>4. rules' \in [Names -> Rule]
    BY <2>2, <2>3 DEF Tables
  <2>5. UNCHANGED <<request, existing, wasRead>> /\ edits' = edits + 1
    BY <1>6 DEF RuleEdited
  <2> QED
    BY <2>4, <2>5 DEF Tables
<1>7. ASSUME NEW j \in jobs, PutRule(j) PROVE Tables'
  BY <1>7, PutIsTyped DEF PutRule, Tables
<1>8. CASE UNCHANGED pb
  BY <1>1, <1>8 DEF pb
<1> QED
  BY <1>2, <1>3, <1>4, <1>5, <1>6, <1>7, <1>8 DEF PbNext, pbVars

\* UsersKept: of a rule it has read the update lets in nobody and, where a page
\* holds the users, takes out nobody whom it was not asked to, for any rules, users
\* and requests.
THEOREM UsersAreKept == PbSpec => UsersKept
<1>1. PbInit => Tables
  BY InitTables
<1> DEFINE Kept ==
       \A j \in jobs :
         PutRule(j) /\ j[2] \in wasRead /\ existing[j[2]] = Reading(rules[j[2]])
           /\ rules[j[2]].type = "rule" =>
           LET old == rules[j[2]] new == rules'[j[2]]
               bypass == (old.bypass \cup request.addBypass) \ request.removeBypass
               push == (old.push \cup request.addPush) \ request.removePush
           IN /\ new.bypass \subseteq bypass /\ new.push \subseteq push
              /\ OnePage(old.bypass) => new.bypass = bypass
              /\ OnePage(old.push) => new.push = push
<1>2. ASSUME SessionInv, Tables PROVE Kept
  <2> SUFFICES ASSUME NEW j \in jobs, PutRule(j), existing[j[2]] = Reading(rules[j[2]]),
                      rules[j[2]].type = "rule"
               PROVE  LET old == rules[j[2]] new == rules'[j[2]]
                          bypass == (old.bypass \cup request.addBypass) \ request.removeBypass
                          push == (old.push \cup request.addPush) \ request.removePush
                      IN /\ new.bypass \subseteq bypass /\ new.push \subseteq push
                         /\ OnePage(old.bypass) => new.bypass = bypass
                         /\ OnePage(old.push) => new.push = push
    OBVIOUS
  <2>1. j[2] \in Names /\ rules'[j[2]] = Payload(request, existing[j[2]])
    BY <1>2, PutIsTyped
  <2> DEFINE old == rules[j[2]] read == Reading(old) new == rules'[j[2]]
  <2>2. /\ read.type = "rule" /\ read.bypass \subseteq old.bypass /\ read.push \subseteq old.push
        /\ OnePage(old.bypass) => read.bypass = old.bypass
        /\ OnePage(old.push) => read.push = old.push
    <3>1. old \in Rule
      BY <1>2, <2>1 DEF Tables
    <3> QED
      BY <3>1, ReadingOfARule
  <2>3. new = Payload(request, read)
    BY <2>1
  <2> HIDE DEF old, read, new
  <2>4. /\ new.bypass = (read.bypass \cup request.addBypass) \ request.removeBypass
        /\ new.push = (read.push \cup request.addPush) \ request.removePush
    BY <2>2, <2>3 DEF Payload, allowance
  <2>5. /\ new.bypass \subseteq (old.bypass \cup request.addBypass) \ request.removeBypass
        /\ new.push \subseteq (old.push \cup request.addPush) \ request.removePush
        /\ OnePage(old.bypass) =>
             new.bypass = (old.bypass \cup request.addBypass) \ request.removeBypass
        /\ OnePage(old.push) => new.push = (old.push \cup request.addPush) \ request.removePush
    BY <2>2, <2>4
  <2> QED
    BY <2>5 DEF old, new
<1>3. SessionInv /\ Tables /\ [PbNext]_pbVars => [Kept]_pbVars
  BY <1>2
<1> QED
  BY <1>1, <1>3, StepTables, UpdateIsASession, SessionInvariance, PTL DEF PbSpec, UsersKept

\* The update goes through the repositories on the pool, and a preview of it
\* shows its selection.
LEMMA UpdatingOnThePool ==
  Updating => select = "processor" /\ (Previews <=> dryRun = TRUE)
<1> SUFFICES ASSUME Updating PROVE select = "processor" /\ (Previews <=> dryRun = TRUE)
  OBVIOUS
<1>1. command = ProtectedBranchUpdate
  BY DEF command, Commands, Updating
<1>2. command.select = "processor" /\ command.preview = "selected"
  BY <1>1 DEF ProtectedBranchUpdate, Command, UpdateProtectedBranches, Operation
<1> QED
  BY <1>2 DEF select, Selects, Previews

\* The update stays the update.
LEMMA LineStays ==
  ASSUME UNCHANGED cmd
  PROVE  (Updating' <=> Updating) /\ command' = command
BY DEF Updating, command

\* The update cannot overtake its own listing.
LEMMA StepReadFirst == ReadFirst /\ SessionInv /\ [PbNext]_pbVars => ReadFirst'
<1> SUFFICES ASSUME ReadFirst, SessionInv, [PbNext]_pbVars, Updating' PROVE ReadFirst'
  BY DEF ReadFirst
<1> USE DEF github, line, config, progress
<1>1. UNCHANGED cmd /\ Updating /\ command' = command /\ select = "processor"
  BY PbStepIsSessionStep, StepLine, LineStays, UpdatingOnThePool DEF SessionInv
<1>2. CASE UNCHANGED <<pc, stage, dryRun>>
  BY <1>1, <1>2 DEF ReadFirst, Previews
<1>3. CASE ReadBegins
  BY <1>1, <1>3 DEF ReadBegins, vars, ReadFirst, Previews
<1>4. CASE ReadEnds
  BY <1>1, <1>4 DEF ReadEnds, vars, ReadFirst, Previews
<1>5. CASE Settle
  BY <1>5 DEF Settle, RunAgain, ReadFirst, Previews
<1>6. CASE MayGoOn /\ Select /\ UNCHANGED pb
  <2>1. UNCHANGED <<stage, dryRun>>
    BY <1>6 DEF pb, Select, ResolveTyped, AskForAll, SearchAll, DetectOwner, ListAll, ListFails
  <2>2. pc \in {"resolve", "detect", "list"} /\ stage # "reading" /\ (~Previews => stage = "read")
    BY <1>1, <1>6 DEF MayGoOn, ReadFirst, Select, ResolveTyped, AskForAll, SearchAll, DetectOwner,
       ListAll, ListFails
  <2>3. pc' = "run" => ~Previews
    BY <1>1, <1>6 DEF Select, ResolveTyped, AskForAll, SearchAll, DetectOwner, ListAll, ListFails, Show
  <2>4. Previews' <=> Previews
    BY <1>1, <2>1 DEF Previews
  <2> QED
    BY <1>1, <2>1, <2>2, <2>3, <2>4 DEF ReadFirst
<1>7. CASE Finish /\ UNCHANGED pb
  BY <1>1, <1>7 DEF Finish, pb, ReadFirst, Previews
<1>8. CASE \E r \in Names : ReadRule(r) \/ ReadFails(r) \/ RuleEdited(r)
  BY <1>2, <1>8 DEF ReadRule, ReadFails, RuleEdited, vars
<1>9. CASE (\E j \in jobs : PutRule(j)) \/ UNCHANGED pbVars
  BY <1>2, <1>9 DEF PutRule, CallAnswered, AnswerLost, pbVars, vars, pb
<1>10. CASE /\ UNCHANGED pb
            /\ \/ (\E j \in jobs : CallFails(j)) \/ (\E a \in BOOLEAN : SearchEnds(a))
               \/ \E r \in Names : HeadMoves(r) \/ RepositoryCreated(r)
  BY <1>2, <1>10 DEF CallFails, SearchEnds, HeadMoves, RepositoryCreated, pb
<1> QED
  BY <1>1, <1>3, <1>4, <1>5, <1>6, <1>7, <1>8, <1>9, <1>10 DEF PbNext

\* The two rounds, step by step: the first leaves fixed points of Payload, the
\* second reads them again before it puts anything.
LEMMA StepRepeatable ==
  PbInv /\ SessionInv /\ [PbNext]_pbVars => Repeatable'
<1> SUFFICES ASSUME PbInv, SessionInv, [PbNext]_pbVars, Updating', edits' = 0 PROVE Repeatable'
  BY DEF Repeatable
<1> USE DEF github, line, config, progress
<1>1. UNCHANGED <<cmd, request>> /\ Updating /\ select = "processor"
  <2>1. UNCHANGED request
    BY DEF PbNext, ReadBegins, ReadEnds, Settle, ReadRule, ReadFails, RuleEdited, PutRule, pb, pbVars
  <2> QED
    BY <2>1, PbStepIsSessionStep, StepLine, LineStays, UpdatingOnThePool DEF SessionInv
<1>2. edits = 0
  <2>1. PbNext => edits = 0 \/ \E r \in Names : RuleEdited(r)
    BY DEF PbNext, ReadBegins, ReadEnds, Settle, ReadRule, ReadFails, PutRule, pb
  <2>2. ~ \E r \in Names : RuleEdited(r)
    BY DEF RuleEdited, PbInv, Tables
  <2> QED
    BY <2>1, <2>2 DEF pbVars, pb
<1>3. Repeats
  BY <1>1, <1>2 DEF PbInv, Repeatable
<1>4. SUFFICES ASSUME TRUE PROVE Repeats'
  BY DEF Repeatable
<1>5. CASE UNCHANGED <<rules, existing, settled, wasRead, round, jobs, outcome, pc>>
  BY <1>1, <1>3, <1>5 DEF Repeats
<1>6. CASE ReadBegins \/ ReadEnds \/ UNCHANGED pbVars
  BY <1>5, <1>6 DEF ReadBegins, ReadEnds, vars, pbVars, pb
<1>7. ASSUME NEW r \in Names, ReadRule(r) PROVE Repeats'
  <2>1. jobs = {} /\ pc = "resolve"
    BY <1>1, <1>7 DEF ReadRule, PbInv, ReadFirst, SessionInv, JobInv
  <2>2. PICK found : /\ found \subseteq Names
                     /\ existing' = [m \in Names |-> IF m \in found THEN Entry(m) ELSE existing[m]]
                     /\ wasRead' = wasRead \cup (found \ DOMAIN Neighbour)
    BY <1>7 DEF ReadRule, Found, SessionInv, HubInv
  <2>3. UNCHANGED <<jobs, outcome, pc, round, rules, settled>>
    BY <1>7 DEF ReadRule, vars
  <2>4. wasRead \subseteq Names \ DOMAIN Neighbour /\ rules \in [Names -> Rule]
    BY DEF PbInv, Tables
  <2>5. ASSUME NEW m \in Names, m \in wasRead', Short(rules[m])
        PROVE  (m \in wasRead /\ existing'[m] = existing[m]) \/ existing'[m] = rules[m]
    <3>1. rules[m] \in Rule
      BY <2>4
    <3>2. m \notin DOMAIN Neighbour => Entry(m) = rules[m]
      BY <2>5, <3>1, ReadingOfARule DEF Entry, Short
    <3> QED
      BY <2>2, <2>4, <2>5, <3>2
  <2>6. ASSUME round = 2, NEW m \in DOMAIN settled
        PROVE  /\ (m \in wasRead' /\ Short(settled[m])) => existing'[m] = settled[m]
               /\ rules[m] = settled[m] /\ Payload(request, settled[m]) = settled[m]
    BY <1>3, <2>1, <2>2, <2>4, <2>5, <2>6 DEF Repeats
  <2> QED
    BY <1>1, <1>3, <2>1, <2>3, <2>6 DEF Repeats
<1>8. ASSUME NEW r \in Names, ReadFails(r) PROVE Repeats'
  <2>1. jobs = {} /\ pc = "resolve" /\ UNCHANGED <<jobs, outcome, pc, round, rules, settled>>
    BY <1>1, <1>8 DEF ReadFails, PbInv, ReadFirst, SessionInv, JobInv, vars
  <2>2. wasRead' = wasRead \ {r} /\ \A m \in wasRead' : existing'[m] = existing[m]
    BY <1>8 DEF ReadFails, PbInv, Tables
  <2> QED
    BY <1>1, <1>3, <2>1, <2>2 DEF Repeats
<1>9. CASE Settle
  <2>1. jobs' = {} /\ wasRead' = {} /\ pc' = "resolve" /\ round = 1 /\ round' = 2 /\ UNCHANGED rules
    BY <1>9 DEF Settle, RunAgain, NoJobs
  <2>2. \A r \in DOMAIN settled' :
          \E j \in jobs : j[2] = r /\ outcome[j] = "ok" /\ settled'[r] = rules[r]
    BY <1>9 DEF Settle
  <2>3. \A r \in DOMAIN settled' :
          settled'[r] = rules[r] /\ Payload(request, settled'[r]) = settled'[r]
    BY <1>3, <2>1, <2>2, PayloadIsIdempotent DEF Repeats
  <2> QED
    BY <1>1, <2>1, <2>3 DEF Repeats
<1>10. ASSUME NEW j \in jobs, PutRule(j) PROVE Repeats'
  <2>1. /\ j[2] \in Names /\ rules'[j[2]] = Payload(request, existing[j[2]]) /\ pc = "run"
        /\ \A r \in Names : r # j[2] => rules'[r] = rules[r]
    BY <1>10, PutIsTyped DEF PbInv
  <2>2. UNCHANGED <<existing, settled, wasRead, round, jobs, pc>>
    BY <1>10 DEF PutRule, CallAnswered, AnswerLost
  <2>3. \A k \in jobs : k # j => outcome'[k] = outcome[k]
    BY <1>10 DEF PutRule, CallAnswered, AnswerLost, OperationFails, SessionInv, JobInv
  <2>4. ASSUME round = 1, NEW k \in jobs, outcome'[k] = "ok"
        PROVE  k[2] \in Names /\ rules'[k[2]] = Payload(request, existing[k[2]])
    BY <1>3, <2>1, <2>3, <2>4 DEF Repeats
  <2>5. ASSUME round = 2, NEW r \in DOMAIN settled, r \in wasRead, Short(settled[r])
        PROVE  rules'[r] = settled[r]
    BY <1>3, <2>1, <2>5 DEF Repeats, PbInv, Tables
  <2> QED
    BY <1>1, <1>3, <2>1, <2>2, <2>4, <2>5 DEF Repeats
<1>11. CASE Select /\ UNCHANGED pb
  <2>1. /\ pc \in {"resolve", "detect", "list"} /\ jobs = {}
        /\ UNCHANGED <<round, rules, existing, settled, wasRead>>
    BY <1>11 DEF Select, ResolveTyped, AskForAll, SearchAll, DetectOwner, ListAll, ListFails, pb,
       SessionInv, JobInv
  <2>2. \A k \in jobs' : outcome'[k] # "ok"
    BY <1>11, <2>1 DEF Select, ResolveTyped, AskForAll, SearchAll, DetectOwner, ListAll, ListFails,
       Show, NoJobs, Go
  <2> QED
    BY <1>1, <1>3, <2>1, <2>2 DEF Repeats
<1>12. CASE /\ UNCHANGED pb
            /\ \/ Finish \/ (\E j \in jobs : CallFails(j)) \/ (\E a \in BOOLEAN : SearchEnds(a))
               \/ \E r \in Names : HeadMoves(r) \/ RepositoryCreated(r)
  <2>1. /\ UNCHANGED <<round, rules, existing, settled, wasRead, jobs>>
        /\ pc = "run" => pc' \in {"run", "done"}
    BY <1>12 DEF Finish, CallFails, SearchEnds, HeadMoves, RepositoryCreated, pb
  <2>2. pc' = pc \/ pc = "run"
    BY <1>12 DEF Finish, CallFails, SearchEnds, HeadMoves, RepositoryCreated
  <2>3. \A k \in jobs : outcome'[k] = "ok" => outcome[k] = "ok"
    BY <1>1, <1>12 DEF Finish, CallFails, SearchEnds, HeadMoves, RepositoryCreated, OperationFails,
       SessionInv, JobInv
  <2> QED
    BY <1>1, <1>3, <2>1, <2>2, <2>3 DEF Repeats
<1> QED
  BY <1>1, <1>3, <1>6, <1>7, <1>8, <1>9, <1>10, <1>11, <1>12, <1>2 DEF PbNext, RuleEdited, PbInv, Tables

\* UpdateIsIdempotent: the same update again leaves what the first has left, where
\* pages hold the users, for any rules, users and requests.
THEOREM UpdateRepeats == PbSpec => []UpdateIsIdempotent
<1>1. PbInit /\ SessionInv => PbInv
  BY InitTables DEF PbInit, Init, PbInv, ReadFirst, Repeatable, Repeats
<1>2. SessionInv /\ PbInv /\ [PbNext]_pbVars => PbInv'
  BY StepTables, StepReadFirst, StepRepeatable DEF PbInv
<1>3. PbInv => UpdateIsIdempotent
  BY DEF PbInv, Repeatable, Repeats, Short, UpdateIsIdempotent
<1> QED
  BY <1>1, <1>2, <1>3, UpdateIsASession, SessionInvariance, PTL DEF PbSpec
====
