-------------------------- MODULE WorkflowCommands --------------------------
(***************************************************************************)
(* cmd/workflow: the commands that change something and then follow the    *)
(* workflow runs of it: rerun, cancel --wait, dispatch --watch, and, for   *)
(* the runs a push starts, pr merge --watch and tag create --watch; and    *)
(* view --watch.  With --json a run is followed by WatchView, else by a    *)
(* live view.  Runs are followed one after another: WatchView's variables  *)
(* are about the current one.                                              *)
(***************************************************************************)
EXTENDS WatchView

CONSTANTS
  Runs,             \* the runs of one repository that a lookup may bring
  Pushes, Tagged,   \* those a push of the commit has started; those whose head_branch is the tag
  Attempts,         \* bound: lookupAttempts
  Chains            \* bound: refreshes of a live view at the same time

ASSUME CommandAssumption ==
  /\ Pushes \subseteq Runs /\ Tagged \subseteq Runs /\ IsFiniteSet(Runs)
  /\ Attempts \in Nat \ {0} /\ Chains \in Nat \ {0}
  /\ {"error", "noid", "run"} \cap Runs = {}

VARIABLES
  kind, json,    \* the command, and its --json
  step,          \* where it stands; in "wait" and "follow" pc says more
  attempt,       \* GitHub: the attempt of the current run
  sent,          \* GitHub: it has accepted what the command asked for
  runs,          \* GitHub: the runs there are
  prevAttempt,   \* the attempt read before the rerun was requested
  attemptSeen,   \* the attempt of the last detail
  looks,         \* lookups that found nothing
  queue,         \* what is left to follow: runs, and results of a dispatch without one
  current,       \* the run followed, or "run" when the command was given it
  interrupted, timedOut,   \* why ctx is cancelled
  live,          \* the live view: timers and requests under way; or "off", "quit"
  hasError,      \* ctx.HasError
  ended,         \* history: each run followed, its attempt, whether it was done, whether it was said so
  matches        \* history: the runs a lookup has matched

hub == <<attempt, sent, runs>>
lookup == <<prevAttempt, attemptSeen, looks, matches>>
follow == <<kind, json, step, queue, current, live, hasError, ended>>
context == <<cancelled, interrupted, timedOut>>
detailVars == <<pc, runSeen, detail, runDoneSent>>
cmdVars == <<vars, hub, lookup, follow, interrupted, timedOut>>

Kinds == {"view", "rerun", "cancel", "merge", "tag", "dispatch"}

CommandTypeOK ==
  /\ TypeOK
  /\ kind \in Kinds /\ json \in BOOLEAN /\ sent \in BOOLEAN /\ hasError \in BOOLEAN
  /\ step \in {"begin", "send", "wait", "look", "again", "next", "follow", "done"}
  /\ attempt \in 1..2 /\ prevAttempt \in 0..1 /\ attemptSeen \in 0..2 /\ looks \in 0..Attempts
  /\ runs \subseteq Runs /\ matches \subseteq Runs /\ current \in Runs \cup {"run"}
  /\ queue \in Seq(Runs \cup {"error", "noid", "run"})

Idle == [ticks |-> 0, asks |-> 0, on |-> FALSE]
Done == [i \in Items |-> "completed"]
Fresh == [i \in Items |-> "queued"]

CommandInit ==
  /\ kind \in Kinds /\ json \in BOOLEAN
  /\ IF kind = "rerun" THEN status = Done /\ runDone = TRUE ELSE status = Fresh /\ runDone = FALSE
  /\ started = {} /\ completed = {} /\ log = <<>>
  /\ pc = "run" /\ runSeen = FALSE /\ detail = "none" /\ runDoneSent = "none"
  /\ cancelled = FALSE /\ interrupted = FALSE /\ timedOut = FALSE
  /\ step = IF kind \in {"view", "rerun"} THEN "begin" ELSE "send"
  /\ attempt = 1 /\ sent = FALSE /\ runs \in SUBSET Runs
  /\ prevAttempt = 0 /\ attemptSeen = 0 /\ looks = 0
  /\ queue = <<>> /\ current = "run" /\ live = Idle /\ hasError = FALSE /\ ended = {} /\ matches = {}

-----------------------------------------------------------------------------
(* GitHub, the clock and the user.                                         *)

\* The rerun becomes visible: the same run, not completed, one attempt up.
AttemptBegins ==
  /\ kind = "rerun" /\ sent /\ attempt = 1
  /\ attempt' = 2 /\ runDone' = FALSE /\ status' = Fresh
  /\ UNCHANGED <<progress, detailVars, context, sent, runs, lookup, follow>>

\* A push starts its runs a moment apart, and it is not the only one: a tag is
\* put on a commit that was pushed before, and that may have had the same tag.
RunStarts(r) ==
  /\ kind \in {"merge", "tag"} /\ r \notin runs
  /\ step \in {"send", "look", "again"}
  /\ runs' = runs \cup {r}
  /\ UNCHANGED <<vars, attempt, sent, lookup, follow, interrupted, timedOut>>

CurrentMoves ==
  /\ kind \in {"view", "rerun", "cancel"} \/ step = "follow"
  /\ RunMoves
  /\ UNCHANGED <<detailVars, context, hub, lookup, follow>>

Interrupt ==
  /\ step # "done" /\ ~interrupted
  /\ interrupted' = TRUE /\ cancelled' = TRUE
  /\ UNCHANGED <<run, progress, detailVars, timedOut, hub, lookup, follow>>

\* --timeout is for one run, from its first detail on; view has none.
TimeOut ==
  /\ step = "follow" /\ kind # "view" /\ ~cancelled
  /\ kind = "cancel" \/ detail # "none"
  /\ timedOut' = TRUE /\ cancelled' = TRUE
  /\ UNCHANGED <<run, progress, detailVars, interrupted, hub, lookup, follow>>

-----------------------------------------------------------------------------
(* What the command asks for.                                              *)

\* view: the run is given, or it is the latest, when that can be read.
View(found) ==
  /\ kind = "view" /\ step = "begin"
  /\ step' = IF found THEN "next" ELSE "done"
  /\ queue' = IF found THEN <<"run">> ELSE <<>>
  /\ UNCHANGED <<vars, hub, lookup, kind, json, current, live, hasError, ended, interrupted, timedOut>>

\* rerun: a detail that cannot be read has attempt 0.
ReadAttempt(ok) ==
  /\ kind = "rerun" /\ step = "begin"
  /\ prevAttempt' = IF ok THEN attempt ELSE 0
  /\ step' = "send"
  /\ UNCHANGED <<vars, hub, attemptSeen, looks, matches, kind, json, queue, current, live, hasError, ended,
                 interrupted, timedOut>>

\* The request is carried out or not, and answered or not.  Only GitHub's yes is
\* followed by anything.
Request(accepted, answered, next, follows) ==
  /\ step = "send"
  /\ sent' = accepted
  /\ hasError' = ~(accepted /\ answered)
  /\ step' = IF hasError' THEN "done" ELSE next
  /\ queue' = IF hasError' THEN <<>> ELSE follows
  /\ UNCHANGED <<vars, attempt, runs, lookup, kind, json, current, live, ended, interrupted, timedOut>>

RerunWorkflowRun(accepted, answered) ==
  kind = "rerun" /\ Request(accepted, answered, "wait", <<>>)

CancelWorkflowRun(accepted, answered) ==
  kind = "cancel" /\ Request(accepted, answered, "next", <<"run">>)

\* pr merge and tag create.
Push(accepted, answered) ==
  kind \in {"merge", "tag"} /\ Request(accepted, answered, "look", <<>>)

\* dispatch: on each of two repositories it fails, or starts a run, whose ID
\* an old server does not tell.
Dispatch ==
  /\ kind = "dispatch" /\ step = "send"
  /\ \E a, b \in {"error", "noid", "run"} : queue' = <<a, b>>
  /\ sent' = TRUE /\ step' = "next"
  /\ UNCHANGED <<vars, attempt, runs, lookup, kind, json, current, live, hasError, ended,
                 interrupted, timedOut>>

-----------------------------------------------------------------------------
(* FindRuns.                                                               *)

\* The push runs of the commit: tag create gives the tag as their branch, pr
\* merge gives none, so it takes those of any ref.
matchingRuns(all) == {r \in all : r \in Pushes /\ (kind = "tag" => r \in Tagged)}

\* An empty answer is followed by another look, as long as ctx allows.
Look(ok) ==
  LET matched == matchingRuns(runs)
      gone == looks + 1 = Attempts
  IN /\ step = "look"
     /\ IF ok /\ matched # {} THEN /\ queue' = SetToSeq(matched) /\ step' = "again"
                                  /\ UNCHANGED <<looks, hasError>>
        ELSE /\ step' = IF ~ok \/ cancelled \/ gone THEN "done" ELSE "look"
             /\ hasError' = (~ok \/ cancelled)
             /\ looks' = looks + 1
             /\ UNCHANGED queue
     /\ matches' = IF ok THEN matched ELSE {}
     /\ UNCHANGED <<vars, hub, prevAttempt, attemptSeen, kind, json, current, live, ended,
                    interrupted, timedOut>>

\* The first match is looked at once more.
LookAgain(ok) ==
  LET again == matchingRuns(runs)
  IN /\ step = "again"
     /\ queue' = IF ok /\ Cardinality(again) >= Len(queue) THEN SetToSeq(again) ELSE queue
     /\ matches' = IF ok THEN matches \cup again ELSE matches
     /\ step' = "next"
     /\ UNCHANGED <<vars, hub, prevAttempt, attemptSeen, looks, kind, json, current, live, hasError,
                    ended, interrupted, timedOut>>

-----------------------------------------------------------------------------
(* WaitForRerun, and the detail each run is followed from.                 *)

FetchAttempt(ok) ==
  /\ step \in {"wait", "follow"} /\ ~live.on
  /\ FetchRun(ok)
  /\ attemptSeen' = IF ok THEN attempt ELSE 0
  /\ step' = IF ok THEN step ELSE "follow"
  /\ UNCHANGED <<hub, prevAttempt, looks, matches, kind, json, queue, current, live, hasError, ended,
                 interrupted, timedOut>>

\* Mutant: the attempt need not be another.
StartedAnyhow(ok) == ~ok \/ attemptSeen >= prevAttempt \/ ~runSeen

Started(ok) == ~ok \/ attemptSeen > prevAttempt \/ ~runSeen

\* The new attempt is not there yet, and after some looks it is not waited for.
NotStarted ==
  /\ step = "wait" /\ pc = "jobs" /\ ~Started(TRUE)
  /\ pc' = "run" /\ detail' = "ok"
  /\ looks' = looks + 1
  /\ step' = IF cancelled \/ looks + 1 = Attempts THEN "done" ELSE "wait"
  /\ UNCHANGED <<run, progress, runSeen, runDoneSent, cancelled, hub, prevAttempt, attemptSeen, matches,
                 kind, json, queue, current, live, hasError, ended, interrupted, timedOut>>

\* The detail is there: --json follows from it, and so does cancel, which shows
\* no view; a live view opens on a run in progress.
FetchDetail(ok) ==
  /\ step \in {"wait", "follow"} /\ ~live.on
  /\ step = "wait" => Started(ok)
  /\ FetchJobs(ok)
  /\ step' = "follow"
  /\ live' = IF pc' = "check" /\ ~json /\ kind # "cancel" THEN [ticks |-> 1, asks |-> 0, on |-> TRUE] ELSE live
  /\ UNCHANGED <<hub, lookup, kind, json, queue, current, hasError, ended, interrupted, timedOut>>

Polls ==
  /\ step = "follow" /\ ~live.on
  /\ CheckContext
  /\ UNCHANGED <<hub, lookup, follow, interrupted, timedOut>>

-----------------------------------------------------------------------------
(* watchModel: the live view.                                              *)

LiveStays == UNCHANGED <<run, progress, context, hub, lookup, kind, json, step, queue, current, hasError, ended>>

TickFires ==
  /\ live.on /\ live.ticks > 0
  /\ live' = [live EXCEPT !.ticks = @ - 1, !.asks = @ + 1]
  /\ LiveStays /\ UNCHANGED detailVars

\* "r" asks now; its answer starts a timer of its own.
PressRefresh ==
  /\ live.on /\ live.ticks + live.asks < Chains
  /\ live' = [live EXCEPT !.asks = @ + 1]
  /\ LiveStays /\ UNCHANGED detailVars

\* Mutant: an answer starts no timer.
DataWithoutTick(ok) ==
  LET over == ~ok \/ runDone
  IN /\ live.on /\ live.asks > 0
     /\ live' = IF over THEN Idle ELSE [live EXCEPT !.asks = @ - 1]
     /\ pc' = IF over THEN "returned" ELSE pc
     /\ LiveStays /\ UNCHANGED <<runSeen, detail, runDoneSent>>

\* The answer of a refresh: a run in progress is refreshed again, anything
\* else, an error too, closes the view.  followRun keeps the detail it had.
Data(ok) ==
  LET over == ~ok \/ runDone
  IN /\ live.on /\ live.asks > 0
     /\ live' = IF over THEN Idle ELSE [live EXCEPT !.asks = @ - 1, !.ticks = @ + 1]
     /\ pc' = IF over THEN "returned" ELSE pc
     /\ LiveStays /\ UNCHANGED <<runSeen, detail, runDoneSent>>

\* "q", or ctx, closes it too.
LiveQuits ==
  /\ live.on
  /\ live' = Idle /\ pc' = "returned"
  /\ LiveStays /\ UNCHANGED <<runSeen, detail, runDoneSent>>

\* Without a terminal it does not open.
LiveFails ==
  /\ live.on /\ live = [ticks |-> 1, asks |-> 0, on |-> TRUE]
  /\ live' = Idle /\ pc' = "returned" /\ hasError' = TRUE
  /\ UNCHANGED <<run, progress, context, hub, lookup, kind, json, step, queue, current, ended,
                 runSeen, detail, runDoneSent>>

-----------------------------------------------------------------------------
(* followDispatched, FollowCommitRuns, waitForCancel: one run after another. *)

\* A result without a run is reported; a run is followed from a new state.
\* (tag create does the same for one repository after another: one is modelled.)
NextRun ==
  /\ step = "next" /\ queue # <<>>
  /\ queue' = Tail(queue)
  /\ hasError' = (hasError \/ Head(queue) = "error")
  /\ IF Head(queue) \in {"error", "noid"}
       THEN UNCHANGED <<vars, step, current, timedOut, attemptSeen>>
       ELSE /\ current' = Head(queue) /\ step' = "follow"
            /\ pc' = "run" /\ detail' = "none" /\ runSeen' = FALSE /\ runDoneSent' = "none"
            /\ started' = {} /\ completed' = {} /\ log' = <<>>
            /\ cancelled' = interrupted /\ timedOut' = FALSE /\ attemptSeen' = 0
            /\ IF kind \in {"view", "cancel"} THEN UNCHANGED run
               ELSE status' \in {Fresh, Done} /\ runDone' = (status' = Done)
  /\ UNCHANGED <<hub, prevAttempt, looks, matches, kind, json, live, ended, interrupted>>

\* Mutant: a detail with an error is not looked at.
FollowTimedOut == timedOut /\ detail = "ok" /\ ~runSeen

\* followRun, and its callers: an error of the last detail, or a deadline that
\* ended it, is an error of the command; but view without --json only says so.
\* A cancel that was waited for ends well only with the run.
FollowFailed ==
  \/ detail = "error" /\ (kind = "view" => json)
  \/ timedOut /\ ~runSeen /\ detail = "ok"
  \/ kind = "cancel" /\ detail = "ok" /\ ~runSeen

\* Mutant: a run that could not be followed to its end is the last.
FollowEndsForGood ==
  /\ step = "follow" /\ pc = "returned"
  /\ hasError' = (hasError \/ FollowFailed)
  /\ ended' = ended \cup {[run |-> current, attempt |-> attemptSeen, done |-> runDone,
                           told |-> detail = "ok" /\ runSeen]}
  /\ step' = "next" /\ queue' = IF FollowFailed THEN <<>> ELSE queue
  /\ UNCHANGED <<vars, hub, lookup, kind, json, current, live, interrupted, timedOut>>

FollowEnds ==
  /\ step = "follow" /\ pc = "returned"
  /\ hasError' = (hasError \/ FollowFailed)
  /\ ended' = ended \cup {[run |-> current, attempt |-> attemptSeen, done |-> runDone,
                           told |-> detail = "ok" /\ runSeen]}
  /\ step' = "next"
  /\ UNCHANGED <<vars, hub, lookup, kind, json, queue, current, live, interrupted, timedOut>>

Finished ==
  /\ step = "next" /\ queue = <<>>
  /\ step' = "done"
  /\ UNCHANGED <<vars, hub, lookup, kind, json, queue, current, live, hasError, ended, interrupted, timedOut>>

-----------------------------------------------------------------------------
Asks ==
  \/ Dispatch
  \/ \E ok \in BOOLEAN : View(ok) \/ ReadAttempt(ok) \/ Look(ok) \/ LookAgain(ok)
  \/ \E accepted, answered \in BOOLEAN :
       \/ RerunWorkflowRun(accepted, answered) \/ CancelWorkflowRun(accepted, answered)
       \/ Push(accepted, answered)

Follows ==
  \/ \E ok \in BOOLEAN : FetchAttempt(ok) \/ FetchDetail(ok)
  \/ NotStarted \/ Polls \/ NextRun \/ FollowEnds \/ Finished

\* Timers fire, requests end, and a view whose ctx is cancelled closes.
LiveStep == TickFires \/ (\E ok \in BOOLEAN : Data(ok)) \/ (cancelled /\ LiveQuits)

CommandStep == Asks \/ Follows \/ LiveStep

Others ==
  \/ AttemptBegins \/ CurrentMoves \/ Interrupt \/ TimeOut
  \/ \E r \in Runs : RunStarts(r)
  \/ PressRefresh \/ LiveQuits \/ LiveFails

CommandNext == CommandStep \/ Others

\* The command's own steps are taken; GitHub and the user owe nothing.
CommandSpec == CommandInit /\ [][CommandNext]_cmdVars /\ WF_cmdVars(CommandStep)

-----------------------------------------------------------------------------
\* With --json, and for cancel --wait, an exit code of 0 of a command nobody
\* interrupted says that every run it followed has completed, and that it said so.
\* (Not so of a rerun whose attempt before could not be read: the completed run
\* of before passes for the rerun.)
ExitIsHonest ==
  /\ step = "done" /\ ~hasError /\ ~interrupted
  /\ json \/ kind = "cancel"
  /\ kind = "rerun" => prevAttempt # 0
  =>
    \A e \in ended : e.done /\ e.told

\* pr merge and tag create follow every run their lookup has brought, although
\* the second look fails, and whatever became of the runs before: a run that
\* could not be read, one given up at its deadline, Ctrl-C.
MatchesAreFollowed ==
  step = "done" => matches = {e.run : e \in ended} \cap Runs

\* What is followed after a rerun is the rerun: its end is never that of the
\* attempt before, whatever GitHub still shows, if that attempt could be read.
FollowsTheRerun ==
  kind = "rerun" /\ prevAttempt # 0 => \A e \in ended : e.told => e.attempt > prevAttempt

\* If the runs end the command ends, with a live view or without.
CommandEnds == ([]<>runDone) => <>(step = "done")
=============================================================================
