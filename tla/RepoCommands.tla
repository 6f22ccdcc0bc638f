---------------------------- MODULE RepoCommands ----------------------------
(***************************************************************************)
(* The commands on repositories: each selects the repositories             *)
(* (RepoSelection), and makes on every one of them the calls of one        *)
(* operation of pkg/, in order, up to the first that fails.  A bulk        *)
(* command runs them on the worker pool, whose own steps Processor has.    *)
(* Of the lists, only what is read is here, not how it is filtered.        *)
(*                                                                         *)
(* A session is the same command line twice, the first time possibly with  *)
(* --dry-run; the config file lives on between the two.                    *)
(***************************************************************************)
EXTENDS RepoSelection

CONSTANTS
  Workers,       \* bound: repositories worked on at the same time
  Commits,       \* bound: commits the base branch of a repository goes through
  Typed, Excepted,   \* bound: the lists typed after -r and after -e
  Owners,        \* bound: the owner's entry in the config file, at first
  Repositories,  \* bound: the owner's repositories, at first
  Kinds          \* bound: the commands of a session

ASSUME SessionAssumption ==
  /\ Workers \in Nat \ {0} /\ Commits \in Nat \ {0}
  /\ Typed \subseteq Seq(Names) /\ Excepted \subseteq Seq(Names)
  /\ Owners \subseteq Owner /\ Repositories \subseteq SUBSET Names

Things == {"branch", "renamed", "tag", "pull", "label", "rule", "setting"}

VARIABLES
  hub,        \* GitHub: base[r], the commit of the base branch, and has[r][t], a commit or 1, or 0
  repos,      \* GitHub: the owner's repositories
  cmd,        \* the command line: kind, repository (-r), except (-e)
  dryRun,     \* --dry-run is on it this time
  round,      \* which time it is
  pc,         \* where the command stands
  owner,      \* the owner's entry in the config
  jobs,       \* the repositories it goes through
  call, sha,  \* per job: the calls that are behind it, and the commit it read last
  outcome,    \* per job: "pending", "ok", "error"
  hasError,   \* ctx.HasError
  previews,   \* history: what a dry run that was answered said it would change
  did,        \* history, this round: <<job, call, value>> that GitHub carried out
  baseSeen    \* history: base when this round began

config == <<owner>>
github == <<hub, repos>>
line == <<cmd, dryRun, round>>
progress == <<jobs, call, sha, outcome>>
vars == <<hub, repos, cmd, dryRun, round, pc, owner, jobs, call, sha, outcome, hasError,
          previews, did, baseSeen>>

-----------------------------------------------------------------------------
(* internal/service: the calls of each operation.                          *)

Call(op, thing) == [op |-> op, on |-> thing]
Read == Call("read", "base")

CreateNewBranch == <<Read, Call("make", "branch")>>
CreateNewBranchFromCommit == <<Call("make", "branch")>>
RenameBranch == <<Call("rename", "branch")>>
DeleteBranch == <<Call("remove", "branch")>>
CreateNewTag == <<Read, Call("object", "tag"), Call("make", "tag")>>
DeleteTag == <<Call("remove", "tag")>>
CreateNewPullRequest == <<Call("make", "pull")>>
AddIssueLabels == <<Call("set", "label")>>
UpdateProtectedBranch == <<Call("set", "rule")>>
DeleteProtectedBranch == <<Call("remove", "rule")>>
UpdateRepoArchived == <<Call("set", "setting")>>
UpdateRepoVisibility == <<Call("set", "setting")>>
MergePullRequest == <<Call("make", "setting")>>
ReviewPullRequest == <<Call("set", "setting")>>
UpdatePullRequest == <<Call("set", "setting")>>
CreateIssue == <<Call("set", "setting")>>
UpdateSecretScanningAlert == <<Call("set", "setting")>>

\* Lists follow the links of their answers; two pages stand for several.
Pages == <<Call("page", "first"), Call("page", "last")>>
BranchPages == Pages
TagPages == Pages
PullPages == Pages
IssuePages == Pages
CommitPages == Pages
AlertPages == Pages

(* pkg/: the operation on one repository, and how its repositories are     *)
(* found: by the processor, by the same selection in a plain loop, by      *)
(* resolving one name, or not at all.                                      *)

Operation(select, calls) == [select |-> select, calls |-> calls]

CreateNewBranches == Operation("processor", CreateNewBranch)
BranchFromCommit == Operation("one", CreateNewBranchFromCommit)
RenameBranches == Operation("processor", RenameBranch)
DeleteBranches == Operation("processor", DeleteBranch)
CreateNewTags == Operation("processor", CreateNewTag)
DeleteTags == Operation("processor", DeleteTag)
ProcessPostRelease == Operation("processor", CreateNewBranch \o CreateNewTag)
CreateNewPullRequests == Operation("processor", CreateNewPullRequest \o AddIssueLabels)
UpdateProtectedBranches == Operation("processor", UpdateProtectedBranch)
DeleteProtectedBranches == Operation("processor", DeleteProtectedBranch)
ArchiveRepos == Operation("loop", UpdateRepoArchived)
SetRepoVisibility == Operation("loop", UpdateRepoVisibility)
MergePull == Operation("one", MergePullRequest)
ReviewPull == Operation("one", ReviewPullRequest)
UpdatePull == Operation("typed", UpdatePullRequest)
CreateOneIssue == Operation("one", CreateIssue)
UpdateAlert == Operation("one", UpdateSecretScanningAlert)

\* Lists of at most one -r are one search, which takes the owner's
\* repositories as they are; others, and these two, go through the processor.
ListBranches == Operation("listing", BranchPages)
ListTags == Operation("listing", TagPages)
ListPullRequests == Operation("listing", PullPages)
ListIssues == Operation("listing", IssuePages)
ListCommits == Operation("processor", CommitPages)
ListSecretScanningAlerts == Operation("processor", AlertPages)

(* cmd/: what --dry-run shows instead: the selection, the resolved name,   *)
(* the name as typed; or the command does not look at it.                  *)

Command(operation, preview_) ==
  [select |-> operation.select, calls |-> operation.calls, preview |-> preview_]

BranchCreate == Command(CreateNewBranches, "selected")
BranchCreateFromCommit == Command(BranchFromCommit, "selected")
BranchRename == Command(RenameBranches, "selected")
BranchDeleteShownAsTyped == Command(DeleteBranches, "typed")   \* mutant
BranchDelete == Command(DeleteBranches, "selected")
TagCreate == Command(CreateNewTags, "selected")
TagDelete == Command(DeleteTags, "selected")
PostRelease == Command(ProcessPostRelease, "selected")
PrCreate == Command(CreateNewPullRequests, "selected")
PrMerge == Command(MergePull, "typed")
PrReview == Command(ReviewPull, "resolved")
PrUpdate == Command(UpdatePull, "typed")
PrClose == Command(UpdatePull, "typed")
PrReopen == Command(UpdatePull, "typed")
ProtectedBranchUpdate == Command(UpdateProtectedBranches, "selected")
ProtectedBranchDelete == Command(DeleteProtectedBranches, "selected")
RepoArchive == Command(ArchiveRepos, "selected")
RepoVisibility == Command(SetRepoVisibility, "selected")
IssueCreate == Command(CreateOneIssue, "none")
SecurityUpdate == Command(UpdateAlert, "selected")
BranchList == Command(ListBranches, "none")
TagList == Command(ListTags, "none")
PrList == Command(ListPullRequests, "none")
IssueList == Command(ListIssues, "none")
CommitList == Command(ListCommits, "none")
SecurityList == Command(ListSecretScanningAlerts, "none")

Commands ==
  [branchCreate |-> BranchCreate, branchCreateFromCommit |-> BranchCreateFromCommit,
   branchRename |-> BranchRename, branchDelete |-> BranchDelete, tagCreate |-> TagCreate,
   tagDelete |-> TagDelete, postRelease |-> PostRelease, prCreate |-> PrCreate,
   prMerge |-> PrMerge, prReview |-> PrReview, prUpdate |-> PrUpdate, prClose |-> PrClose,
   prReopen |-> PrReopen, protectedBranchDelete |-> ProtectedBranchDelete,
   protectedBranchUpdate |-> ProtectedBranchUpdate,
   repoArchive |-> RepoArchive, repoVisibility |-> RepoVisibility,
   issueCreate |-> IssueCreate, securityUpdate |-> SecurityUpdate,
   branchList |-> BranchList, tagList |-> TagList, prList |-> PrList,
   issueList |-> IssueList, commitList |-> CommitList, securityList |-> SecurityList]

ASSUME KindsAssumption == Kinds \subseteq DOMAIN Commands

command == Commands[cmd.kind]
Calls == command.calls

Selects(c, repository) ==
  IF c.select # "listing" THEN c.select
  ELSE IF Len(repository) <= 1 THEN "search" ELSE "processor"
select == Selects(command, cmd.repository)
SelectsMany == select \in {"processor", "loop"}

\* Commands on one repository take one -r and, except branch create, no -e.
CommandLines ==
  {c \in [kind : Kinds, repository : Typed, except : Excepted] :
     \/ Commands[c.kind].select \in {"processor", "loop", "listing"}
     \/ /\ Len(c.repository) = 1
        /\ c.kind = "branchCreateFromCommit" \/ c.except = <<>>}

-----------------------------------------------------------------------------
(* GitHub, and the people who push to it.                                  *)

\* Somebody pushes to the base branch, between two calls of a command that has
\* read it: at other times it makes no difference.
HeadMoves(r) ==
  /\ pc = "run" /\ Calls[1] = Read
  /\ \E j \in jobs : j[2] = r /\ outcome[j] = "pending" /\ call[j] > 0
  /\ hub.base[r] < Commits
  /\ hub' = [hub EXCEPT !.base[r] = @ + 1]
  /\ UNCHANGED <<repos, line, pc, config, progress, hasError, previews, did, baseSeen>>

\* A repository is created between the two commands; a preview is no longer
\* about the same owner.
RepositoryCreated(r) ==
  /\ round = 1 /\ pc = "done" /\ r \notin repos
  /\ repos' = repos \cup {r}
  /\ previews' = {}
  /\ UNCHANGED <<hub, line, pc, config, progress, hasError, did, baseSeen>>

\* Whether GitHub carries the call out on r, and what r has afterwards.
Allowed(c, r) ==
  /\ r \in repos
  /\ CASE c.op = "make" -> hub.has[r][c.on] = 0
       [] c.op = "remove" -> hub.has[r][c.on] # 0
       [] c.op = "rename" -> hub.has[r][c.on] # 0 /\ hub.has[r]["renamed"] = 0
       [] OTHER -> TRUE

Value(c, job) ==
  CASE c.op = "remove" -> 0
    [] c.on \in {"branch", "tag"} -> sha[job]
    [] OTHER -> 1

Counts(c) == c.op \notin {"read", "object"}
Writes(c) == Counts(c) /\ c.op # "page"

CarriedOut(c, job) ==
  LET has == hub.has[job[2]]
  IN [hub EXCEPT !.has[job[2]] =
       CASE c.op = "page" -> has
         [] c.op = "rename" -> [has EXCEPT !["renamed"] = @ + has["branch"], !["branch"] = 0]
         [] OTHER -> [has EXCEPT ![c.on] = Value(c, job)]]

-----------------------------------------------------------------------------
(* Starting, selecting, previewing.                                        *)

NoJobs ==
  /\ jobs' = {} /\ call' = <<>> /\ sha' = <<>> /\ outcome' = <<>>

\* The jobs are known: they are shown, or begun.
Go(selected) ==
  /\ jobs' = selected
  /\ call' = [j \in selected |-> 0] /\ sha' = [j \in selected |-> 1]
  /\ outcome' = [j \in selected |-> "pending"]

TypeOK ==
  /\ repos \subseteq Names
  /\ cmd \in CommandLines /\ dryRun \in BOOLEAN /\ round \in {1, 2}
  /\ pc \in {"resolve", "detect", "list", "run", "done"}
  /\ owner \in Owner
  /\ \A j \in jobs : j[2] \in Names /\ outcome[j] \in {"pending", "ok", "error"}
  /\ hasError \in BOOLEAN
  /\ hub.base \in [Names -> 1..Commits] /\ hub.has \in [Names -> [Things -> 0..Commits]]

\* What a command takes away is there at first, what it makes is not.
Stands(t) == \E n \in DOMAIN Calls : Calls[n].on = t /\ Calls[n].op \in {"remove", "rename"}

Init ==
  /\ repos \in Repositories
  /\ cmd \in CommandLines /\ dryRun \in BOOLEAN /\ round = 1
  /\ hub = [base |-> [r \in Names |-> 1], has |-> [r \in Names |-> [t \in Things |-> IF Stands(t) THEN 1 ELSE 0]]]
  /\ pc = "resolve"
  /\ owner \in Owners
  /\ jobs = {} /\ call = <<>> /\ sha = <<>> /\ outcome = <<>>
  /\ hasError = FALSE
  /\ previews = {}
  /\ did = {}
  /\ baseSeen = hub.base

\* A dry run prints the selection and returns; issue create does not look.
Previews == dryRun /\ command.preview # "none"

Show(names) ==
  /\ previews' = IF owner.present THEN {names} ELSE {}
  /\ NoJobs
  /\ pc' = "done"

\* Names given with -r need no listing.  A preview shows what it shows; the
\* command itself resolves, and selects or not, as its operation does.
ResolveTyped ==
  LET typed == InPlace(cmd.repository)
      actual == ActualRepositoryNamesUsingFzf(cmd.repository, owner.known)
      selected == ResolveRepositoryNames(owner, actual, cmd.except)
  IN /\ pc = "resolve" /\ cmd.repository # <<>>
     /\ \/ /\ Previews
           /\ Show(NamesIn(CASE command.preview = "selected" -> selected
                             [] command.preview = "resolved" -> actual
                             [] command.preview = "typed" -> typed))
        \/ /\ ~Previews
           /\ Go(CASE SelectsMany -> selected
                   [] select \in {"one", "search"} -> actual
                   [] select = "typed" -> typed)
           /\ pc' = "run" /\ UNCHANGED previews
     /\ UNCHANGED <<github, line, config, hasError, did, baseSeen>>

\* Without -r the owner's repositories are listed, by way of its type.
AskForAll ==
  /\ pc = "resolve" /\ cmd.repository = <<>> /\ select # "search"
  /\ pc' = IF owner.type = "" THEN "detect" ELSE "list"
  /\ UNCHANGED <<github, line, config, progress, hasError, previews, did, baseSeen>>

\* A search needs no list of them.
SearchAll ==
  /\ pc = "resolve" /\ cmd.repository = <<>> /\ select = "search"
  /\ Go(Once(repos)) /\ pc' = "run"
  /\ UNCHANGED <<github, line, config, hasError, previews, did, baseSeen>>

DetectOwner(answered) ==
  /\ pc = "detect"
  /\ owner' = IF answered THEN OwnerDetected(owner) ELSE owner
  /\ pc' = "list"
  /\ UNCHANGED <<github, line, progress, hasError, previews, did, baseSeen>>

\* The new names are known before those of -e are resolved.
ListAll ==
  LET listed == ListedRepositories(owner, repos)
  IN /\ pc = "list"
     /\ owner' = SaveRepositoryNamesForFuzzySearch(owner, repos)
     /\ LET selected == ResolveRepositoryNames(owner', Once(listed), cmd.except)
        IN \/ Previews /\ Show(NamesIn(selected))
           \/ ~Previews /\ Go(selected) /\ pc' = "run" /\ UNCHANGED previews
     /\ UNCHANGED <<github, line, hasError, did, baseSeen>>

\* A listing that fails ends the command: nothing to show, nothing to do, and
\* no sign of it in the exit code.
ListFails ==
  /\ pc = "list"
  /\ NoJobs /\ pc' = "done"
  /\ previews' = {}
  /\ UNCHANGED <<github, line, config, hasError, did, baseSeen>>

-----------------------------------------------------------------------------
(* The operation on each repository.                                       *)

Active == {j \in jobs : outcome[j] = "pending" /\ call[j] > 0}

\* Under way already, or the next job of a free worker.
MayCall(j) ==
  /\ pc = "run" /\ select # "search" /\ j \in jobs /\ outcome[j] = "pending"
  /\ \/ j \in Active
     \/ Cardinality(Active) < IF select = "processor" THEN Workers ELSE 1

next(j) == Calls[call[j] + 1]

\* Mutant: an error of a later call is not handed on.
ErrorDropped(j) ==
  outcome' = [outcome EXCEPT ![j] = IF call[j] > 0 THEN "ok" ELSE "error"]

\* An error ends the operation on this repository.
OperationFails(j) == outcome' = [outcome EXCEPT ![j] = "error"]

\* GitHub carries the call out and answers.
CallAnswered(j) ==
  LET c == next(j)
  IN /\ MayCall(j) /\ Allowed(c, j[2])
     /\ call' = [call EXCEPT ![j] = @ + 1]
     /\ sha' = IF c.op = "read" THEN [sha EXCEPT ![j] = hub.base[j[2]]] ELSE sha
     /\ IF Counts(c) THEN hub' = CarriedOut(c, j) /\ did' = did \cup {<<j, c, Value(c, j)>>}
                     ELSE UNCHANGED <<hub, did>>
     /\ outcome' = [outcome EXCEPT ![j] = IF call'[j] = Len(Calls) THEN "ok" ELSE "pending"]
     /\ UNCHANGED <<repos, line, pc, config, jobs, hasError, previews, baseSeen>>

\* GitHub carries the call out and the answer is lost.
AnswerLost(j) ==
  LET c == next(j)
  IN /\ MayCall(j) /\ Allowed(c, j[2]) /\ Writes(c)
     /\ hub' = CarriedOut(c, j) /\ did' = did \cup {<<j, c, Value(c, j)>>}
     /\ OperationFails(j)
     /\ UNCHANGED <<repos, line, pc, config, jobs, call, sha, hasError, previews, baseSeen>>

\* The call is refused, or never arrives.
CallFails(j) ==
  /\ MayCall(j)
  /\ OperationFails(j)
  /\ UNCHANGED <<github, line, pc, config, jobs, call, sha, hasError, previews, did, baseSeen>>

\* The one answer to a search is the first page of each of its repositories.
\* An error is logged, and looks like an answer without rows.
SearchEnds(answered) ==
  /\ pc = "run" /\ select = "search" /\ \E j \in jobs : outcome[j] = "pending"
  /\ outcome' = [j \in jobs |-> IF answered THEN "ok" ELSE "error"]
  /\ did' = IF answered THEN {<<j, Calls[1], 1>> : j \in jobs} ELSE did
  /\ UNCHANGED <<github, line, pc, config, jobs, call, sha, hasError, previews, baseSeen>>

\* Every repository is reported.  Only the processor keeps the exit code.
Finish ==
  /\ pc = "run" /\ \A j \in jobs : outcome[j] # "pending"
  /\ pc' = "done"
  /\ hasError' = (select = "processor" /\ \E j \in jobs : outcome[j] = "error")
  /\ UNCHANGED <<github, line, config, progress, previews, did, baseSeen>>

\* The same command line again, this time for real.
RunAgain ==
  /\ pc = "done" /\ round = 1
  /\ round' = 2 /\ dryRun' = FALSE
  /\ pc' = "resolve"
  /\ NoJobs
  /\ hasError' = FALSE
  /\ did' = {} /\ baseSeen' = hub.base
  /\ UNCHANGED <<github, cmd, config, previews>>

-----------------------------------------------------------------------------
Select == ResolveTyped \/ AskForAll \/ SearchAll \/ (\E a \in BOOLEAN : DetectOwner(a)) \/ ListAll \/ ListFails

Operate == \E j \in jobs : CallAnswered(j) \/ AnswerLost(j) \/ CallFails(j)

Next ==
  \/ Select \/ Operate \/ (\E a \in BOOLEAN : SearchEnds(a)) \/ Finish \/ RunAgain
  \/ \E r \in Names : HeadMoves(r) \/ RepositoryCreated(r)

Spec == Init /\ [][Next]_vars

-----------------------------------------------------------------------------
\* A repository reported as done is done: each change the operation stands for
\* was carried out for this job, each page of its list was read, none was left
\* out on the way, and a new branch or tag is at a commit its base had while
\* the command ran.
SuccessIsReal ==
  select # "search" =>
    \A j \in jobs : outcome[j] = "ok" =>
      \A n \in DOMAIN Calls : Counts(Calls[n]) =>
        \E d \in did :
          /\ d[1] = j /\ d[2] = Calls[n]
          /\ Calls[1] = Read /\ d[2].on \in {"branch", "tag"} => d[3] \in baseSeen[j[2]]..hub.base[j[2]]

\* A command on many repositories changes, and a list of several shows, none
\* whose name is given with -e, and none the owner's patterns leave out, however
\* it is asked for.
NamedExclusionsHold ==
  SelectsMany =>
    \A d \in did :
      /\ \A i \in DOMAIN cmd.except : d[1][2] # cmd.except[i]
      /\ CanSelectRepositoryForProcessing(owner, d[1][2])

\* What a dry run of a command on many repositories does not show, the command
\* does not touch: the owner is in the config, its listing was answered, and it
\* has the same repositories still.  What the dry run learns, and saves, makes
\* no difference to what the command then selects.
PreviewHonoured ==
  SelectsMany => \A shown \in previews : NamesIn(jobs) \subseteq shown

\* Exclude patterns hold for every command ("A repo on the exclude list is
\* never touched", docs/advanced.md:43).  The code does not keep this: the
\* commands on one repository resolve its name and do not ask the patterns.
ExcludedUntouched ==
  \A d \in did : Writes(d[2]) => CanSelectRepositoryForProcessing(owner, d[1][2])

\* A dry run changes nothing ("Anything that writes accepts --dry-run",
\* docs/examples.md:5).  The code does not keep this: issue create does not
\* look at the flag.
DryRunChangesNothing == dryRun => \A d \in did : ~Writes(d[2])
=============================================================================
