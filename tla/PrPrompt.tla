------------------------------ MODULE PrPrompt ------------------------------
(***************************************************************************)
(* pkg/pr/prompt: `pr list --interactive`.  Keys make commands that run on *)
(* goroutines of their own and answer with messages, which Update takes in *)
(* any order and not always: while a diff is shown it drops what is not a  *)
(* key or a size.                                                          *)
(***************************************************************************)
EXTENDS Integers, Bags, BagsExt

CONSTANTS
  Prs,       \* the pull requests, all of them listed at first
  MergesAs,  \* MergesAs[p]: the one of p's number in the repository that the name of p's
             \*   resolves to: another one, where the config does not know p's
  Presses,   \* bound: keys that make a command
  Lengths,   \* bound: lines a diff may have
  Heights    \* bound: termHeight - 10 (the lines visible) on the user's screens

ASSUME PromptAssumption ==
  /\ MergesAs \in [Prs -> Prs]
  /\ Presses \in Nat /\ Lengths \subseteq Nat /\ Heights \subseteq Int /\ Heights # {}

VARIABLES
  prState,    \* GitHub: the state of each pull request
  items,      \* the list's items
  confirmPending, showEventPanel, showSpinner, sections,
  showDiff, diffLines, diffScroll,
  height,     \* termHeight - 10, which matters while a diff is shown
  events,     \* commands of eventMsgs, from the key on to the sectionEvent
  prompts,    \* confirmMsgs under way
  diffs,      \* how many diffs are being loaded
  lists,      \* refreshes under way, and what they have read
  pressed,    \* keys pressed so far, which number the commands
  quit,
  confirmed,  \* history: what was answered with "y"
  acts        \* history: a bag of the requests to change something

panel == <<showEventPanel, showSpinner, sections>>
overlay == <<showDiff, diffLines, diffScroll, height>>
commands == <<events, prompts, diffs, lists>>
history == <<confirmed, acts>>
promptVars == <<prState, items, confirmPending, panel, overlay, commands, pressed, quit, history>>

Types == {"APPROVE", "MERGE", "APPROVE_MERGE", "CLOSE"}
States == {"OPEN", "MERGED", "CLOSED"}
None == [id |-> 0]

Choice == [id : 1..Presses, type : Types, pr : Prs]
Event ==
  [id : 1..Presses, type : Types \cup {"STATUS"}, pr : Prs,
   step : {"sent", "read", "approve", "merge", "close", "reread", "show"},
   state : States \cup {"error"}, good : BOOLEAN]

PromptTypeOK ==
  /\ prState \in [Prs -> States] /\ items \subseteq Prs
  /\ confirmPending \in Choice \cup {None} /\ prompts \subseteq Choice /\ confirmed \subseteq Choice
  /\ showEventPanel \in BOOLEAN /\ showSpinner \in BOOLEAN /\ sections \in Event \cup {None}
  /\ showDiff \in BOOLEAN /\ diffLines \in Lengths \cup {0} /\ diffScroll \in Nat
  /\ height \in Heights \cup {0} /\ events \subseteq Event /\ diffs \in 0..Presses
  /\ lists \subseteq [id : 1..Presses, read : BOOLEAN, items : SUBSET Prs]
  /\ pressed \in 0..Presses /\ quit \in BOOLEAN

PromptInit ==
  /\ prState = [p \in Prs |-> "OPEN"] /\ items = Prs
  /\ confirmPending = None /\ showEventPanel = FALSE /\ showSpinner = FALSE /\ sections = None
  /\ showDiff = FALSE /\ diffLines = 0 /\ diffScroll = 0 /\ height = 0
  /\ events = {} /\ prompts = {} /\ diffs = 0 /\ lists = {}
  /\ pressed = 0 /\ quit = FALSE /\ confirmed = {} /\ acts = EmptyBag

-----------------------------------------------------------------------------
(* Keys.  Those of the delegate are for the pull request under the cursor. *)

NewEvent(id, type, p) ==
  [id |-> id, type |-> type, pr |-> p, step |-> "sent", state |-> "OPEN", good |-> TRUE]

\* A key of the list: of a prompt that is up it is the "no", and acts as well.
Listens == ~quit /\ ~showDiff
Makes == Listens /\ pressed < Presses /\ pressed' = pressed + 1

\* "s"
PressStatus(p) ==
  /\ Makes /\ p \in items
  /\ events' = events \cup {NewEvent(pressed', "STATUS", p)}
  /\ confirmPending' = None
  /\ UNCHANGED <<prState, items, panel, overlay, prompts, diffs, lists, quit, history>>

\* "A", "m", "M", "c" ask first.
PressAction(type, p) ==
  /\ Makes /\ p \in items
  /\ prompts' = prompts \cup {[id |-> pressed', type |-> type, pr |-> p]}
  /\ confirmPending' = None
  /\ UNCHANGED <<prState, items, panel, overlay, events, diffs, lists, quit, history>>

\* "d"
PressDiff ==
  /\ Makes /\ items # {}
  /\ diffs' = diffs + 1
  /\ confirmPending' = None
  /\ UNCHANGED <<prState, items, panel, overlay, events, prompts, lists, quit, history>>

\* "r" empties the list at once.
PressRefresh ==
  /\ Makes /\ confirmPending = None
  /\ items' = {} /\ showEventPanel' = TRUE /\ sections' = None /\ showSpinner' = TRUE
  /\ lists' = lists \cup {[id |-> pressed', read |-> FALSE, items |-> {}]}
  /\ UNCHANGED <<prState, confirmPending, overlay, events, prompts, diffs, quit, history>>

\* The cursor moves: the panel goes, whatever it was to show.
PressMove ==
  /\ Listens
  /\ IF confirmPending = None THEN showEventPanel' = FALSE /\ sections' = None
                              ELSE UNCHANGED <<showEventPanel, sections>>
  /\ confirmPending' = None
  /\ UNCHANGED <<prState, items, showSpinner, overlay, commands, pressed, quit, history>>

PressQuit ==
  /\ Listens
  /\ quit' = TRUE
  /\ UNCHANGED <<prState, items, confirmPending, panel, overlay, commands, pressed, history>>

\* Mutant: the prompt stays up.
PressYesAgain ==
  /\ Listens /\ confirmPending # None
  /\ events' = events \cup {NewEvent(confirmPending.id, confirmPending.type, confirmPending.pr)}
  /\ showEventPanel' = TRUE /\ showSpinner' = TRUE
  /\ confirmed' = confirmed \cup {confirmPending}
  /\ UNCHANGED <<prState, items, confirmPending, sections, overlay, prompts, diffs, lists, pressed, quit, acts>>

\* "y": the event is for the pull request the prompt names.
PressYes ==
  /\ Listens /\ confirmPending # None
  /\ events' = events \cup {NewEvent(confirmPending.id, confirmPending.type, confirmPending.pr)}
  /\ showEventPanel' = TRUE /\ showSpinner' = TRUE
  /\ confirmed' = confirmed \cup {confirmPending}
  /\ confirmPending' = None
  /\ UNCHANGED <<prState, items, sections, overlay, prompts, diffs, lists, pressed, quit, acts>>

-----------------------------------------------------------------------------
(* The diff, which takes every key while it is shown.                      *)

Larger(m, n) == IF m > n THEN m ELSE n
Visible == Larger(height, 1)

\* Mutant: nothing stops at the first line.
BottomUnchecked == diffLines - Visible

\* The last line that may be the first visible one.
Bottom == Larger(diffLines - Visible, 0)

Scrolls(scroll) ==
  /\ showDiff /\ ~quit
  /\ diffScroll' = scroll
  /\ UNCHANGED <<prState, items, confirmPending, panel, showDiff, diffLines, height, commands, pressed,
                 quit, history>>

ScrollDown == diffScroll < diffLines - Visible /\ Scrolls(diffScroll + 1)
ScrollUp == diffScroll > 0 /\ Scrolls(diffScroll - 1)
PageDown == Scrolls(IF diffScroll + Visible > diffLines - Visible THEN Bottom ELSE diffScroll + Visible)
PageUp == Scrolls(Larger(diffScroll - Visible, 0))
GoToTop == Scrolls(0)
GoToBottom == Scrolls(Bottom)

CloseDiff ==
  /\ showDiff /\ ~quit
  /\ showDiff' = FALSE /\ diffLines' = 0 /\ diffScroll' = 0 /\ height' = 0
  /\ UNCHANGED <<prState, items, confirmPending, panel, commands, pressed, quit, history>>

\* The line at the top stays, however high the screen has become.
Resize ==
  /\ ~quit /\ showDiff
  /\ height' \in Heights
  /\ UNCHANGED <<prState, items, confirmPending, panel, showDiff, diffLines, diffScroll, commands, pressed,
                 quit, history>>

-----------------------------------------------------------------------------
(* processEventMsg, on a goroutine of its own.                             *)

Update(e, new) ==
  /\ ~quit /\ e \in events
  /\ events' = (events \ {e}) \cup {new}
  /\ UNCHANGED <<items, confirmPending, panel, overlay, prompts, diffs, lists, pressed, quit, confirmed>>

FirstStep(type) ==
  CASE type = "STATUS" -> "show" [] type \in {"APPROVE", "APPROVE_MERGE"} -> "approve"
    [] type = "MERGE" -> "merge" [] type = "CLOSE" -> "close"

ReadDetails(e, ok) ==
  /\ e.step = "read"
  /\ Update(e, IF ok THEN [e EXCEPT !.step = FirstStep(e.type), !.state = prState[e.pr]]
               ELSE [e EXCEPT !.step = "show", !.state = "error", !.good = FALSE])
  /\ UNCHANGED <<prState, acts>>

Failed(e) == [e EXCEPT !.step = "show", !.good = FALSE]

\* Mutant: the details are those of before.
AfterwardsUnread(e, accepted) ==
  CASE ~accepted -> Failed(e)
    [] accepted /\ e.type = "APPROVE_MERGE" /\ e.step = "approve" -> [e EXCEPT !.step = "merge"]
    [] OTHER -> [e EXCEPT !.step = "show"]

\* A failure ends it; the approval of APPROVE_MERGE is followed by the merge,
\* and what was done by another look at the details.
Afterwards(e, accepted) ==
  CASE ~accepted -> Failed(e)
    [] accepted /\ e.type = "APPROVE_MERGE" /\ e.step = "approve" -> [e EXCEPT !.step = "merge"]
    [] OTHER -> [e EXCEPT !.step = "reread"]

\* approvePR, mergePR and closePR go by the details, which may be old, and may
\* also say that there is nothing to merge.
GiveUp(e) ==
  /\ e.step \in {"approve", "merge", "close"} /\ (e.state # "OPEN" \/ e.step = "merge")
  /\ Update(e, Failed(e))
  /\ UNCHANGED <<prState, acts>>

\* The pull request that a request is about.  MergePullRequest resolves the name
\* of the repository, which came from GitHub, as if it had been typed.
Target(what, p) == IF what = "merge" THEN MergesAs[p] ELSE p

\* GitHub carries the request out or not, and answers or not.
Act(e, done, answered) ==
  LET p == Target(e.step, e.pr)
  IN /\ e.step \in {"approve", "merge", "close"} /\ e.state = "OPEN"
     /\ done /\ e.step # "approve" => prState[p] = "OPEN"
     /\ Update(e, Afterwards(e, done /\ answered))
     /\ acts' = BagAdd(acts, [id |-> e.id, pr |-> p, what |-> e.step, accepted |-> done /\ answered])
     /\ prState' = IF ~done \/ e.step = "approve" THEN prState
                   ELSE [prState EXCEPT ![p] = IF e.step = "merge" THEN "MERGED" ELSE "CLOSED"]

\* Details that cannot be read again are an error, of what was done too.
Reread(e, ok) ==
  /\ e.step = "reread"
  /\ Update(e, [e EXCEPT !.step = "show", !.state = IF ok THEN prState[e.pr] ELSE "error"])
  /\ UNCHANGED <<prState, acts>>

ReadList(l, ok) ==
  /\ ~quit /\ l \in lists /\ ~l.read
  /\ lists' = (lists \ {l}) \cup
       {[l EXCEPT !.read = TRUE, !.items = IF ok THEN {p \in Prs : prState[p] = "OPEN"} ELSE {}]}
  /\ UNCHANGED <<prState, items, confirmPending, panel, overlay, events, prompts, diffs, pressed, quit, history>>

OthersAct(p, state) ==
  /\ prState[p] = "OPEN" /\ state \in {"MERGED", "CLOSED"}
  /\ prState' = [prState EXCEPT ![p] = state]
  /\ UNCHANGED <<items, confirmPending, panel, overlay, commands, pressed, quit, history>>

-----------------------------------------------------------------------------
(* Messages arrive; while the diff is shown they are dropped.              *)

ConfirmMsg(c) ==
  /\ ~quit /\ c \in prompts
  /\ prompts' = prompts \ {c}
  /\ confirmPending' = IF showDiff THEN confirmPending ELSE c
  /\ UNCHANGED <<prState, items, panel, overlay, events, diffs, lists, pressed, quit, history>>

EventMsg(e) ==
  /\ ~quit /\ e \in events /\ e.step = "sent"
  /\ IF showDiff THEN events' = events \ {e} /\ UNCHANGED panel
     ELSE /\ events' = (events \ {e}) \cup {[e EXCEPT !.step = "read"]}
          /\ showEventPanel' = TRUE /\ showSpinner' = TRUE /\ UNCHANGED sections
  /\ UNCHANGED <<prState, items, confirmPending, overlay, prompts, diffs, lists, pressed, quit, history>>

\* Mutant: the spinner is left to turn.
SectionEventSpins(e) ==
  /\ ~quit /\ e \in events /\ e.step = "show"
  /\ events' = events \ {e}
  /\ sections' = (IF showDiff THEN sections ELSE e)
  /\ UNCHANGED <<prState, items, confirmPending, showEventPanel, showSpinner, overlay, prompts, diffs, lists,
                 pressed, quit, history>>

\* The sections of the last event to arrive are the ones shown.
SectionEvent(e) ==
  /\ ~quit /\ e \in events /\ e.step = "show"
  /\ events' = events \ {e}
  /\ IF showDiff THEN UNCHANGED panel
                 ELSE sections' = e /\ showSpinner' = FALSE /\ UNCHANGED showEventPanel
  /\ UNCHANGED <<prState, items, confirmPending, overlay, prompts, diffs, lists, pressed, quit, history>>

RefreshEvent(l) ==
  /\ ~quit /\ l \in lists /\ l.read
  /\ lists' = lists \ {l}
  /\ IF showDiff THEN UNCHANGED <<items, panel>>
     ELSE items' = l.items /\ showSpinner' = FALSE /\ showEventPanel' = FALSE /\ UNCHANGED sections
  /\ UNCHANGED <<prState, confirmPending, overlay, events, prompts, diffs, pressed, quit, history>>

DiffLoadedMsg(n) ==
  /\ ~quit /\ diffs > 0
  /\ diffs' = diffs - 1
  /\ IF showDiff THEN UNCHANGED overlay
     ELSE showDiff' = TRUE /\ diffLines' = n /\ diffScroll' = 0 /\ height' \in Heights
  /\ UNCHANGED <<prState, items, confirmPending, panel, events, prompts, lists, pressed, quit, history>>

-----------------------------------------------------------------------------
Press ==
  \/ \E p \in Prs : PressStatus(p) \/ \E type \in Types : PressAction(type, p)
  \/ PressDiff \/ PressRefresh \/ PressMove \/ PressQuit \/ PressYes
  \/ ScrollDown \/ ScrollUp \/ PageDown \/ PageUp \/ GoToTop \/ GoToBottom \/ CloseDiff
  \/ Resize

Goroutines ==
  \/ \E e \in events : \E ok, other \in BOOLEAN :
       ReadDetails(e, ok) \/ GiveUp(e) \/ Act(e, ok, other) \/ Reread(e, ok)
  \/ \E l \in lists : \E ok \in BOOLEAN : ReadList(l, ok)

Messages ==
  \/ \E c \in prompts : ConfirmMsg(c)
  \/ \E e \in events : EventMsg(e) \/ SectionEvent(e)
  \/ \E l \in lists : RefreshEvent(l)
  \/ \E n \in Lengths : DiffLoadedMsg(n)

PromptNext ==
  \/ Press \/ Goroutines \/ Messages
  \/ \E p \in Prs : \E state \in States : OthersAct(p, state)

\* Requests end, by their timeout at least, and messages arrive; the user owes
\* nothing.
PromptSpec == PromptInit /\ [][PromptNext]_promptVars /\ WF_promptVars(Goroutines \/ Messages)

-----------------------------------------------------------------------------
Wants(type) ==
  CASE type = "APPROVE" -> {"approve"} [] type = "MERGE" -> {"merge"}
    [] type = "APPROVE_MERGE" -> {"approve", "merge"} [] type = "CLOSE" -> {"close"}

Accepted(id, what) == \E a \in DOMAIN acts : a.id = id /\ a.what = what /\ a.accepted

\* Everything asked of GitHub was agreed to, for that pull request or, of a merge,
\* for the one whose name resolves to it, and is asked once, however many prompts,
\* refreshes and answers were under way; and "approve and merge" merges only after
\* its approval was accepted.
ActsAsConfirmed ==
  \A a \in DOMAIN acts :
    /\ acts[a] = 1
    /\ \E c \in confirmed :
         /\ c.id = a.id /\ a.pr = Target(a.what, c.pr) /\ a.what \in Wants(c.type)
         /\ c.type = "APPROVE_MERGE" /\ a.what = "merge" => Accepted(a.id, "approve")

\* An action said to have succeeded was accepted by GitHub, all of it; beside a
\* merge GitHub has a merged pull request, and if that is the one shown, its details
\* are those of after the merge.
SuccessIsShown ==
  sections # None /\ sections.good /\ sections.type # "STATUS" =>
    /\ \A what \in Wants(sections.type) : Accepted(sections.id, what)
    /\ "merge" \in Wants(sections.type) =>
         /\ prState[MergesAs[sections.pr]] = "MERGED"
         /\ MergesAs[sections.pr] = sections.pr => sections.state \in {"MERGED", "error"}

\* Only what was agreed to is merged.  The code does not keep this: the list comes
\* from a search of the organization, and a name that the config does not know
\* resolves to the nearest one it knows.
MergesWhatItShows ==
  \A a \in DOMAIN acts : \E c \in confirmed : c.id = a.id /\ c.pr = a.pr

\* The diff is cut out of its lines (diffLines[diffScroll:end]) without a panic,
\* after any keys and sizes.
DiffIsInside == 0 <= diffScroll /\ diffScroll <= diffLines

\* As long as no diff is opened, "Processing ..." always ends.
ProcessingEnds == ([]~showDiff) => [](showSpinner => <>(~showSpinner \/ quit))
=============================================================================
