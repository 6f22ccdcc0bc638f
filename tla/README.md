# sgh: a TLA+ verification project

`sgh` is a command line program for GitHub organisations: one command works on many repositories at once, watches
workflow runs, decides deployment gates, keeps tokens in the OS keyring, and has a terminal UI. This directory models
its concurrent and stateful parts in TLA+, checks them with TLC on small instances and proves the core with TLAPS.
Source paths below are relative to the repository; `PROJECT.json` maps every definition to the lines it models.

```
tlasany M.tla                          # parse a module
tlc -workers 2 -config X.cfg M         # one run; PROJECT.json lists module and cfg of each
tlapm ApiClientProofs.tla              # the proofs of one *Proofs module
```

## 1. The system

### Parts, their state and operations

| Part | Source | State it keeps | Operations |
|---|---|---|---|
| Circuit breaker | `internal/circuitbreaker` | state, failures, requests, time of the last failure, under a mutex | `Execute` (allow, run unlocked, record), `Reset` |
| Worker pool | `internal/async` | three buffered channels, a wait group, worker goroutines, one draining goroutine | `AddJob`, `Close`, `Start` |
| Bulk processor | `internal/processor` | success and error counters, `HasError` of the process | `ProcessRepositoriesOperation` |
| Rate limiter, retry, client | `internal/ratelimit`, `internal/retry`, `internal/client` | quota per resource, the body reader of a request; one limiter, retrier and breaker for REST and GraphQL | `SendWithContext`, `RoundTrip`, `QueryWithContext` |
| Service layer | `internal/service` | none | one function per GitHub endpoint; a few make several calls |
| Approval watch | `pkg/workflow/watch.go` | environments seen, decided and skipped, decisions, events reported | one poll: context, run, jobs, gates, decide, sleep |
| Run watch | `pkg/workflow/watch_view.go` | last status of each job and step | one poll: run, jobs, diff, finish |
| Workflow commands | `cmd/workflow`, `pkg/workflow/find.go` | the runs found, the attempt before, the live view's detail, `HasError` | view, rerun, cancel, dispatch, the `--watch` of `pr merge` and `tag create`; look up, wait, follow one after another |
| Repository selection | `internal/config`, `pkg/repo` | the owner's type, names and patterns, in the config file | resolve names, list, apply patterns and exclusions |
| Repository commands | `cmd/*`, `pkg/branch`, `tag`, `postrelease`, `pr`, `repo`, `issue`, `security`, `commit` | none of their own | sequences of service calls on every selected repository, or a preview |
| Branch protection | `pkg/protectedbranch` | the rules read | list; update: read all, write each back; delete |
| Pull request prompt | `pkg/pr/prompt` | list, panel, prompt, diff; goroutines under way | keys, messages, actions on a pull request |
| Teams | `pkg/team` | two cursors, members collected so far | pages of teams, and of members within |
| Configuration | `internal/config`, `pkg/config`, `cmd/config` | the JSON file, the process's copy, the keyring | load, migrate tokens, every `config` command, save |
| Start and signals | `cmd/sgh/main.go`, `cmd/root.go` | the command's context | init, run, exit code; a signal exits the process |
| Terminal UI | `cmd/tui` | lists, cache, filters, selection, open dialogs, goroutines under way, a watch | `Update`, one message at a time |
| Update check | `internal/update` | a cache file with a time | one check a day |

### How they interact

Every bulk command is `process` (processor) handing repositories to the pool; each worker calls an operation handler,
which makes service calls, which all go through the one client of the process and so through one limiter and one
breaker. Results come back over two channels to one draining goroutine that runs the command's result handlers; main
waits for it and sets the exit code. The watches are loops of single service calls with sleeps. The configuration is
read whole at the start of every command and written whole by those that change it; the keyring is a second store next
to it. In the terminal UI and in the pull request prompt an event loop owns the model, and loads and actions are goroutines
that send it messages. A command that follows runs asks GitHub for something, looks for the runs of it, and hands each to
the run watch (`--json`, `cancel --wait`) or to a live view with an event loop of its own.

### What is hard

* Concurrency: workers share the breaker and the limiter; channel capacities and close order keep workers, drainer and
  main from blocking or panicking; UI loads and actions finish in any order and write to the cache on their own.
* Failure: answers are lost after GitHub has acted; saves fail; the keyring comes and goes; tokens expire in mid-watch.
* Ordering: the run's status is read before its jobs; gates are listed before the user is asked; migration writes the
  keyring before the file.
* Staleness: a rerun is shown as its completed predecessor for a while; protection rules are read for all repositories
  before the first is written; a preview and the command each select anew; a pull request is acted on by details read
  before.
* Crash: a signal ends the process wherever it stands, and `os.WriteFile` truncates before it writes.
* Time: breaker timeout, quota windows, retries, cache lifetime, poll intervals.

### What makes each part correct

| Part | Correct when |
|---|---|
| Breaker | it trips and closes only on streaks, its counters agree with its state, it recovers |
| Pool and processor | each repository is processed once and its outcome reaches one handler once; no send on a closed channel, no blocked worker; the exit code tells whether any failed; the command ends |
| Client | a write with a body is not repeated, a success was carried out, waits have a reason, calls end |
| Approval watch | each gate decided once and as the flags and the reviewer list say; no failure goes unreported; every gate it has not handled is settled; it ends with the run |
| Run watch | each event once, in an order that makes sense, the last ones before the end; it ends with the run |
| Configuration | the token set last is the one found, whatever the keyring did; nothing is lost but by a write broken off |
| Workflow commands | every run found is followed, in its new attempt, the exit code is honest, the command ends with its runs |
| Repository commands | what is reported done was done whole; what is excluded is left alone; a preview shows all that the command touches |
| Branch protection | an update lets nobody into a rule, and takes nobody out that it has read, but as asked; done twice is done once |
| Pull request prompt | what is done was agreed to, of that pull request, once; what is said to be done was; the diff is cut within its lines; "Processing ..." ends |
| Teams | with `--all`, every team once with all of its members |
| Terminal UI | what is shown is what is chosen; the cache answers the question asked and forgets what an action changed; an action acts on the row that was confirmed |

## 2. The modules

```
CircuitBreaker                                  BulkOperation (abstract)
   │  EXTENDS        └── INSTANCE ──┐                  ▲ refinement
ApiClient ── ApiClientProofs     BulkApi ── EXTENDS ── Processor
                                    └── BulkApiProofs
WorkflowRun ── EXTENDED BY ── WatchApprovals (MCWatchApprovals) ── WatchApprovalsProofs
                          └── WatchView ── WorkflowCommands (MCWorkflowCommands) ── WorkflowCommandsProofs
RepoSelection ── RepoCommands ── ProtectedBranch (MCRepoCommands, MCProtectedBranch) ── ProtectedBranchProofs
PrPrompt (MCPrPrompt) ── PrPromptProofs     TeamPages
ConfigStore (MCConfigStore) ── ConfigStoreProofs     TuiData (MCTuiData) ──┬── TuiProofs
                                                     TuiWatch ─────────────┘
```

**CircuitBreaker** (`internal/circuitbreaker/circuitbreaker.go`). One action per critical section: `AllowRequest` and
`DenyRequest` (`allowRequest`), `GetError` (`getError`, a second critical section after a refusal), `RecordSuccess` and
`RecordFailure` (`recordResult`), `Reset`. Between them the function runs unlocked, so results are recorded in whatever
state the breaker is in by then. Time is `age`, the ticks since the last failure up to `Timeout`. `streak` is history:
the outcomes recorded in a row.

**Processor** (`internal/async/async.go`, `process` in `internal/processor/repo_processor.go`) and **BulkOperation**,
what it promises. Main fills and closes the jobs channel and starts the pool; workers take, operate, send, exit; main
closes the two result channels after the last worker, and the drainer receives from both until each is closed. Channels
are sets of jobs, since nothing depends on their order; capacities and closing are explicit.
`Abstract == INSTANCE BulkOperation` maps a job to what has been performed and reported.

**ApiClient** (`internal/client`, `internal/retry`, `internal/ratelimit`, `invokeAPIFull`). A call waits for the quota,
asks the breaker, attempts the request up to `MaxAttempts` times, each attempt sent, carried out or not, answered or
lost. The body of a REST request is a reader that the first attempt reads to its end; GraphQL builds its body anew.
GitHub is modelled from its use: it may act and lose the answer, and answers arrive in any order and late. Error classes
are kept as far as the code tells them apart (retryable or not); delays are steps that take any time. Answers come with
quota headers or without (a gateway's): then the limiter notes that nothing of the core quota is left, until 1970
(`Headless`). The resource of REST searches is there as `determineResource` has it, although every search of the program is
GraphQL.

**BulkApi** composes Processor with CircuitBreaker: the operation of a worker is one call through the shared breaker.

**WorkflowRun** is GitHub's run with jobs and steps, and the reporting both watchers share (`viewWatchState.diff`).
Both read one page of the run's jobs (`GetWorkflowRunJobs`), as GitHub orders them: `FirstPage`, and what is reported is of
those (`Shown`);
**WatchApprovals** (`pkg/workflow/watch.go`) adds gates that open, are decided by others and vanish, the requests of a
poll as one step each, and the order of checks in the gate loop: seen, allowlist, reviewer, confirmation, submit.
**WatchView** (`pkg/workflow/watch_view.go`) adds `GetWorkflowRunDetail` and the `run_done` event.

**WorkflowCommands** (`cmd/workflow`, `pkg/workflow/find.go`, and `--watch` of `cmd/pr` and `cmd/tag`) extends WatchView,
whose variables are about the run being followed. `step` is where the command stands: it asks (`RerunWorkflowRun`,
`CancelWorkflowRun`, `Push`, `Dispatch`), looks for the runs of a push (`Look`, `LookAgain`), waits for a new attempt
(`NotStarted`, `Started`), and follows what is in `queue`. With `--json` and for `cancel` the steps of the watch are
WatchView's own; else a live view runs on timers and requests (`TickFires`, `Data`, `PressRefresh`). Deadlines and Ctrl-C
cancel ctx. A lookup matches push runs of the commit, for a tag those on that tag (`matchingRuns`): `Pushes` are the
former, `Tagged` those of a branch or tag of its name. `ended` is history: each run followed, its attempt, whether it was
done and whether that was said; and `matches`: the runs a lookup has brought.

**RepoSelection** (`internal/config`, `pkg/repo`) has names, patterns and the dictionary as operators: a name resolves to
itself, to the nearest known name it fuzzily matches, or stays as typed. **RepoCommands** is the session of one command
line given twice, the first time possibly with `--dry-run`. A command is data: how it finds its repositories, the calls
of its operation in order, and what its preview shows; the actions `ResolveTyped`, `AskForAll`, `DetectOwner`, `ListAll`
select, and `CallAnswered`, `AnswerLost`, `CallFails` make the next call on any repository that a worker has. The worker
pool itself is Processor's; here it is a bound on the repositories worked on at once. **ProtectedBranch** extends it with
the update's own reading of the rules and the whole rule written back. Reading is modelled as far as it loses something:
the query brings `Page` (10) users of each kind (`AllowancesRead`), and twenty refs whose names resemble the branch's, the
first of which is taken for the branch if that is not among them (`Neighbour`); without -r it searches for the words of the
owner's include pattern, if there is just one (`Words`).

**PrPrompt** (`pkg/pr/prompt`). The keys of the list and of the diff, the goroutines of `processEventMsg` one request at a
time, and the messages of `Update`, which arrive in any order and which it drops while a diff is shown. Commands are
numbered by the key that made them. `MergePullRequest` resolves the repository's name of a pull request as `-r` is
resolved, to the nearest known one; the list comes from a search of the organisation, which brings repositories that the
config does not know. `MergesAs` is what a pull request becomes on that way (`Target`); every other request goes to the
repository shown. `confirmed` and `acts` are history.

**TeamPages** (`pkg/team`). The loop of `GetTeamAndMembers`, one query per step: one member cursor for all teams of a page.

**ConfigStore** (`internal/config/config.go`, `pkg/config/config.go`, `pkg/keyring`, `cmd/config`, the signal handler).
A process loads and validates the file, migrates plaintext tokens one at a time, saves if any moved, runs one command,
saves if it changed something. A save opens (and empties) the file, writes it and closes it. A kill can fall between any
two steps. `intent` is history: the token each owner's last `set-token` or removal left; `interrupted` is TRUE after a
kill has broken off a write. Names carry a spelling, since owners compare without regard to case and keyring accounts do not.

**TuiData** (`cmd/tui/tui.go`, `cache.go`). The user's keys, the message handlers of `Update` and the goroutines are
actions; a load is asked, answered, stored in the cache and shown in four steps, and the filter in the cache key is read
at the third, as in the code. A list is the question it answers and the version of GitHub's data it was read at.
`overlap`, `overtaken`, `approved` and `executed` are history.

**TuiWatch** (`cmd/tui/tui.go`). The detail panel and its watch of a run: a chain of tick, request, answer, tick, which
no handler ties to the watch that began it. Each link of a chain and each load of a detail is one action; the keys that
toggle, close, hide, switch and move the focus change the panel and the flag `watching` under the chains. Update tells an
answer of the watch from other details by how its title ends, so any title is modelled (`Titles`). The row under
the cursor is any row, since TuiData changes the list at any time; the two modules share no other state.

Definitions commented "Mutant" are altered forms of the definition that follows. They are not part of any specification;
each passing run's properties have been seen to fail when one replaces its original.

## 3. The runs

| Run | Instance | Distinct states | What it shows |
|---|---|---|---|
| `circuit_breaker` | 3 callers, 3 failures, 2 probes, timeout 2 | 21 018 | late results of every phase arrive in every other, and the breaker still trips and closes on streaks only and recovers |
| `bulk_api` | 3 repositories, 2 workers, 2 failures | 88 757 | refinement of BulkOperation with the breaker in the operation, no channel misused; fewer failures than the breaker tolerates stay on their repositories; the command ends |
| `api_client` | 2 callers, 2 attempts, quota 1, breaker of 1 failure, answers without headers | 96 414 | no write with a body twice, no success that did not happen, no wait without reason, every call ends |
| `watch_approvals` | 2 environments, 2 gates (of both, or twice of one), 2 jobs of which 1 on the page | 895 376 | gates decided once and as told, failures counted, every new gate settled, ends reported, the watch ends |
| `reopened_gate` | 1 environment, 2 gates | violation | `EveryGateSettled`: the second gate is passed over for ever |
| `workflow_commands` | 1 job with a step, 3 runs (2 of a push, 1 of them on the tag), 2 looks, 2 refreshes at once | 590 156 | events once and in order, the exit code is honest, every run found is followed, the new attempt only, the command ends |
| `config_store` | 2 owners, 2 tokens, 1 process; kills, failing saves | 620 262 | the last token set is found, short of a write broken off |
| `repo_commands` | 25 commands, 3 repositories (one excluded, one fuzzily matched), 2 workers, 2 commits, 2 rule sets, 2 updates, 3 users on pages of 2 | 2 294 401 | done is done, exclusions hold, previews show all, protection updates keep the users they read and are idempotent |
| `team_members` | 3 teams of up to 3 members, 2 teams and 1 member a page | violation | `MembersAreComplete`: a team before one with more members is listed again, with the other's |
| `pr_prompt` | 2 pull requests, one merged as the other, 2 keys that make commands, diffs of 0 or 3 lines, screens of 1 or 2 | 1 184 502 | acts only as confirmed and once, success is real, the diff stays within its lines, "Processing ..." ends |
| `tui_lists` | 2 repositories (1 selected at a time), `pr` with 2 filters and `team`, 2 goroutines, 6 keys, 1 action | 787 316 | what the cache answers and forgets, what is shown, what an action acts on |
| `tui_watch` | 2 runs, 2 chains, 1 detail loading, 4 keys | 84 168 | a watch that is on has a link under way, ends with its run, and leaves no ticks behind |

The violations are the `findings` of `PROJECT.json`, each with the line it contradicts. The modules Processor, WatchView,
RepoCommands and RepoSelection are checked as parts of the modules that extend them.

### Bounds and why they are enough

* Breaker: three callers are the fewest for which one call is let in before a trip, another after it and a third as a
  probe; `MaxFailures` 3 and `MaxRequests` 2 tell a streak from a count. The theorems remove the bound.
* Processor, in `bulk_api`: three jobs on two workers give a worker two jobs, and idle and busy workers at the close.
  Theorems remove the bound.
* ApiClient: one failure trips, so a trip, a refusal and a recovery fit between two attempts; `Quota` 1 makes every second
  request find it used up. Two callers share everything that is shared. Only "plain" and "body" requests are in the
  instance: the GraphQL kind differs in how its body is built, and searches in the quota they count for; the theorems have
  all four.
* BulkApi: two failures trip the breaker and leave one repository to be refused or not.
* Watches: two environments so that decisions can be confused; `MaxOpens` is the number of gates that open in a run, two:
  one in each, or two in one. One of two jobs is on the first page. GitHub stops when the watch has returned, after which
  nothing in the program looks at it.
* WorkflowCommands: two runs of a push, so that one is followed after another and one can appear late, one of them not on
  the tag, and one run that is not of a push; two
  looks, so that a lookup can be repeated and given up; two refreshes, so that "r" adds a timer to the view's own. One job
  with one step orders events within a job; across jobs nothing is promised.
* RepoCommands: of three repositories one is excluded by a pattern, one may not exist yet, and one's name fuzzily matches
  another; two workers are the fewest to interleave; the base branch moves once, which is what a stale read needs; two
  pages stand for several. The -r lists are empty, one name, an excluded name and two names; owners are unknown, known
  without a type, and known with and without names.
* ProtectedBranch: three users on pages of two, so that some rules are read whole and one is not; one of them a default
  user; one repository whose branch is taken for a neighbour; one owner with a single include pattern, by whose words one of
  its repositories is not found; two updates (add, and remove with lock), and one change by somebody else.
* PrPrompt: two keys make two commands, enough for two actions, an action and a refresh, or a prompt over an action, on
  two pull requests, the first of which is merged as the second; diffs shorter and longer than the screen, screens that change between.
* TeamPages: three teams on pages of two, members on pages of one, are the fewest for a team to be met on a repeated page.
* ConfigStore: two owners so that one's change can harm the other, two tokens so that old and new differ.
* TuiData: `MaxKeys` bounds the keys pressed, `Slots` the goroutines at once, `MaxActions` the confirmed actions,
  `MaxSelected` the selection. Six keys allow select, load, filter, confirm, select again and refresh. Repositories and
  slots are symmetric; no liveness property is checked under that symmetry.
* TuiWatch: two chains and two runs are the fewest for a late answer of one watch to meet another watch; `MaxPanelKeys`
  4 bounds only the keys that load or toggle, and allows start, stop, start again and load. The proofs hold for any bound.

### Fairness

Weak fairness of each thread's own steps, which is what the Go scheduler gives a goroutine that can run, and of the
clock. Nothing is assumed of GitHub except in `api_client` and the watches, where a request ends (the HTTP client has a
timeout), possibly in an error. The run being watched is not assumed to end: `EndsWithRun` starts from its end. In `tui_watch`
the ticks of a chain fire and its requests end (`ChainStep`, per chain: each runs in a goroutine of its own, and the
event loop takes every message). Of the user nothing is assumed but that a prompt is answered; of Ctrl-C, kills
and other reviewers, nothing. In `workflow_commands` the command's own steps,
the timers of the view and the requests are taken; that the runs end is the hypothesis of `CommandEnds`. In `pr_prompt`
requests end and messages arrive. In the breaker, `Recovers` assumes that the
calls let through return.

### Deadlock

Runs that switch the deadlock check off stop where the program does: the command has returned, the watch has ended, the
process is killed or the bound on keys is reached.

### What the code does not keep

Stated in the modules, checked by no passing run, as the code does not keep it:

* `DeniedCallsReturnErrors` (CircuitBreaker): a refusal whose error is read after the breaker closed returns nil.
* `PacesRequests` (ApiClient): the limiter is asked once per call, not per attempt.
* `OnlyFailingRefused` (BulkApi): one breaker for all endpoints.
* `RunDoneIsTrue` (WatchView): a detail with an error counts as not in progress, so one failed request ends the watch with a
  `run_done` event while the run goes on, although docs/commands.md:114 has it follow the run "until it completes".
* `AllEndsAreReported` (WatchApprovals): of a run with more jobs than a page (30) those of the other pages are never reported,
  although watch.go:84 has it report "each job/step transition".
* `LongRulesKept` (ProtectedBranch): a rule with more users than a query reads (10 of a kind) is written back with those ten;
  and a branch that is not among the twenty refs read is given another's rule. The teams and apps that a rule lets push,
  which the model leaves out, are written back empty.
* `MergesWhatItShows` (PrPrompt): a merge of a pull request whose repository the config does not know is asked of the
  repository that resembles it, if that has a pull request of the same number; the panel then says that the one shown was
  merged. The terminal UI's merge (cmd/tui/tui.go:767) resolves the name the same way.
* That a command follows its own runs only: `pr merge` looks for push runs of the commit on any ref, and a tag made again on
  the commit it had matches the runs of the first time.
* `FileLoads` (ConfigStore): a value that `validate` rejects can be saved, and then no command loads the file.
* `LastSetWins` with two spellings of one owner: `SetToken` finds the owner without regard to case, but stores the keyring
  entry under the name as typed, where nothing looks for it.
* `FollowsTheRerun` and `ExitIsHonest` of a rerun whose attempt before could not be read: it counts as 0, and the
  completed attempt that GitHub still shows passes for the rerun.
* `ExcludedUntouched` (RepoCommands): commands on one repository, and lists that are one search, do not ask the patterns,
  nor -e. `DryRunChangesNothing`: `issue create` does not look at the flag. Dry runs of `workflow dispatch` and of most
  commands on one repository show names as typed, which is not what is acted on if they are resolved.
* `DefaultsOnlyWhenNew` (ProtectedBranch): a rule that could not be read looks like one that is not there, and its
  update brings the default users. A change made between the update's read and its write is overwritten.
* `ProcessingEnds` (PrPrompt) with a diff: messages that arrive while it is shown are lost, the end of "Processing ..." and
  a refreshed list among them. If the details cannot be read again after a merge, the panel shows only that error; and a
  failed approval is reported as "Approved but merge failed".
* `KeyedByFilter` (TuiData): a load that ends after the filter changed is cached under the new one. `ShowsSelection` is for
  goroutines that do not overlap: overlapping loads can leave the wrong list on the screen.
* `StopsOnlyWhenOver` (TuiWatch): a failed request, or a late answer for another run, ends the watch of a run that goes on.

A listing that fails, and a failure of `repo archive` and `visibility`, leave the exit code at 0.

## 4. The proofs

For every value of the constants allowed by their assumptions:

* `ApiClientProofs`, of the breaker, from `ConfigAssumption` (positive limits, a timeout): `TypeOK`,
  `HalfOpenStillAdmits`, `CountersMatchState`, `TripsOnFailuresInARow`, `ClosesOnProbesInARow`. The counters are not
  enough to prove the last two: a failure recorded while half-open resets nothing that a streak resets. The inductive
  invariant therefore adds `CountsAreStreaks`, which bounds each counter by the history of outcomes in the state where it
  counts; each action preserves it by the arithmetic of counting up to a limit (`UpToBounds`).
  Of the client, for any callers, attempts and quota: `BreakerInClient` shows that the client takes only steps of the
  breaker's own specification, so that all of this holds in it as well (`BreakerKeepsItsPromises`). `BodyAtMostOnce` by
  `BodyInv`: while a body is unread nothing was carried out, and in flight it is read and not yet carried out; that is
  what a retry relies on. `WaitsForGoodReason` by `QuotaInv`: what is known of the current window, or on its way in an
  answer of it, is never less than what GitHub still has to give, so a caller told to wait does so in an empty window.
  `SuccessIsCarriedOut` by `CarriedInv`: neither an answer nor a verdict says "ok" before there was an effect.
* `BulkApiProofs`, of the pool, from `QueueAssumption` (finite sets of jobs and workers, `Capacity` their number):
  `NoSendOnClosedChannel`, `SendNeverBlocks`, `CountsTally` and the refinement of `BulkOperation`. The inductive
  invariant is `TypeOK /\ Phases /\ Custody /\ Tally`: `Phases` says which channels are closed in which phase of main,
  `Custody` that every job is in exactly one place (queue, a worker's hands, a channel, the drainer's hands, or handled),
  `Tally` that the counters are the cardinalities of the ended jobs. A channel has room because a job in a worker's hands
  is not in it and its capacity is the number of jobs (`RoomForOneMore`); no worker sends after the close because main
  closes only when all have exited.
  Of the composition, from `BreakerAssumption` (what `ConfigAssumption` says of the breaker's limits): its pool is the
  pool (`BulkIsAPool`) and its breaker the breaker (`BreakerInBulk`), so what was proved of each holds of it.
  `FewFailuresContained` by `ContainedInv`: the breaker has counted no more failures than jobs have ended with an error,
  and while they are few those are repositories that fail, so it stays closed and nobody is refused.
* `WatchApprovalsProofs`, for any environments, jobs and openings. `IInv` says that an environment is untouched until it is
  seen or being submitted (`UntouchedUntilSettled`) and that what is being submitted passed every check (`Submitting`);
  from it `HandledOnce`, `DecidesAsTold` and `NothingDecidedSilently`. `EndsAreReported` by `EndsInv`: a run that is done
  stays so, as do all its items, so the jobs read after the run, those of the first page, are complete (`DoneIsAll`).
* `WorkflowCommandsProofs`, from `CommandAssumption` (a finite set of runs) and `RunAssumption` (finite sets of jobs and of
  steps, each step in a job). `FollowsTheRerun` by `RerunInv`: what GitHub
  shows of the first attempt is complete, and what is followed is a newer one (`NewAttempt`). `MatchesAreFollowed` by
  `MatchesInv`: from the last look on, what was matched is what is in the queue, being followed or followed.
  `ExitIsHonest` by `HonestInv` on top of `RerunInv`: each way
  for a watch to return leaves either a detail that saw the run done, or a reason that sets `HasError`. `ReportedInOrder`
  by `OrderInv`: what was reported is remembered (`Remembered`), GitHub ends a job after its steps (`StepsBeforeJob`), and
  what the poll saw complete stays so until it has returned (`CompletedStays`); a rerun does take completion back, but
  before its new attempt nothing has been reported, unless the old one was followed to its end. That one poll reports in
  order (`EventsOfRun`) is a fact about flattened sequences (`FlattenOrdered`), by induction on their number.
* `PrPromptProofs`. `DiffIsInside` for any diffs and screens. `ActsAsConfirmed` by `PromptInv`: numbers of keys are unique to
  a prompt, then to the event of its `y`; `AskedSoFar` says which requests an event has behind it at each step.
  `SuccessIsShown` by `ShownInv`: every event knows whether all that it asked for was accepted. All of it for any
  `MergesAs`, so for whatever names resolve to.
* `TuiProofs`, of the lists from `TuiAssumption` (finite slots). `ListsInv` says of every list in the cache and on its way
  what it was asked for and that it is up to date with the successes known, or marked; and that successes known and on their
  way are no more than GitHub has carried out (`Told`, by cardinalities), so that an answer read now is up to date. From it
  `AnswersItsQuestion` and `CacheForgets`. `ActsAsConfirmed` by `ConfirmedInv`: of each row, what was done and what is under
  way together are no more than what was approved, by cardinalities. `ShowsSelection` by `AloneInv`: while goroutines have
  not overlapped at most one is under way, and what it will bring, or what is shown if there is none, is what is chosen now.
  Of the watch, from `WatchAssumption` of TuiWatch (`NoRun` is not a run): `WatchTypeOK` and `WatchIsAlive`, together
  inductive: every action that ends a chain's last link either leaves `watching` FALSE or puts the next link in the same
  place, and starting a watch begins a chain.
* `ConfigStoreProofs`, of one process at a time and one spelling of each owner, the hypotheses of `LastTokenWins`:
  `LastSetWins` by `StoreInv`. An entry is filed under the owner its name means, so that no owner's keyring account is
  another's (`KeySet`). Except while the file is being written, an owner's token by the file and the keyring is one that its
  user may believe in, and the process's Config has the tokens its command was told of and for the rest those of the file
  (`Beliefs`). It breaks for two processes, the second of which saves what it read before the first saved, and for two
  spellings, of which only one has the keyring account.
* `ProtectedBranchProofs`, from `SessionAssumption`, `KindsAssumption` (the kinds of a session are commands) and what
  RepoSelection assumes of names: of every session of RepoCommands, and, as `protected-branch update` is one of them
  (`UpdateIsASession`, a refinement), of ProtectedBranch. `NamedExclusionsHold` by `JobsSelected`: the jobs are allowed by
  the config as it is now, though listing has changed the config since. It needs that a name resolves to one that resolves
  to itself (`ActualSettle`), and that a name given with -e is not resolved away (`ExcludedByName`). `PreviewHonoured` by
  `Remembered`: what was shown is what would be selected now, because a second listing adds nothing to the known names and
  the owner's type makes no difference. `SuccessIsReal` by `CallsMade`: the calls that are behind a job were carried out
  for it, and what it read is a commit its base had in this round. `UsersKept` for each PUT, from
  `ReadingAssumption` (what a query reads of a rule's users is of them, and all of them if they fit a page), and
  `UpdateIsIdempotent` by
  `PbInv`: nothing is put before all is read (`ReadFirst`), and what the first round puts is a fixed point of what an
  update makes of a rule (`PayloadIsIdempotent`), which the second reads again before it puts anything (`Repeats`).

Induction over data works where the predicate is written out: `LeastNatural` takes the library's well-foundedness of the
naturals to the least index with a property (the nearest name, and sequences of events, are handled so).
The library's induction theorems themselves take an operator as a parameter,
which the provers cannot instantiate.

Only model-checked: the liveness properties (`Recovers`, `CallsReturn`, `BulkTerminates`, `EndsWithRun`, `NewGatesSettled`,
`CommandEnds`, `ProcessingEnds`, `WatchEnds`, `ChainsDieOut`), since the prover does not reach fairness. Every safety property
of a passing run is a theorem.

## 5. What is not modelled

* Inside modelled parts: formatting, logging, progress bars and error texts; delays and back-off arithmetic; the contents
  of requests, the filters and columns of lists; which names match fuzzily and how near they are (constants); in the UI, menus,
  help and the diff overlay, which take keys but change none of the modelled state, and rows left out because their
  repository failed; in the pull request prompt, filtering and paging of its list.
* Workflow commands: `list`, `approve` of one run without `--watch`, and `dispatch --approve` as one command (its two
  halves are WorkflowCommands and WatchApprovals).
* Data races on the UI's cache map and filters are modelled as interleavings of whole operations.
* Two processes on one configuration file: ConfigStore takes a set of processes, but nothing in the code or its documents
  promises anything about two, and with two `LastSetWins` fails.
* Cursor, search and paging of the UI's lists, and the daily update check: planned.
* Clone (runs git), audit, organisations, whoami, health: one listing or one request per repository, without state of their
  own.
* Tables, colours, validation of strings, logging, directories: output and pure I/O only.

## 6. Plan

1. Done: breaker, pool, client, their composition, both watches, configuration, the UI's lists and its watch; workflow
   commands; repository selection and the commands on repositories with dry runs; releases, branches and tags, branch
   protection, pull requests and their prompt; pages of teams.
2. `ListCursor`: cursor, search and paging of the UI's lists, with the selector's index in range.
3. One-off approval, and `dispatch --approve` as the composition of WorkflowCommands and WatchApprovals.
4. `UpdateCheck`: the daily check and its cache file.

Theorems to add are those of the planned modules. As modules are added, runs that ask least give way.
