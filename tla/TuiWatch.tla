------------------------------- MODULE TuiWatch -------------------------------
(***************************************************************************)
(* The detail panel of the terminal UI and its watch of a workflow run     *)
(* (cmd/tui/tui.go).  A watch is a chain: a tick, a request for the run's  *)
(* detail, its answer, the next tick.  Nothing ties a link to the watch    *)
(* that began the chain: stopping only clears a flag, starting again while *)
(* a link is under way adds a second chain, and any answer is taken for    *)
(* that of the run watched now.                                            *)
(*                                                                         *)
(* The row under the cursor is any run, since the list can change at any   *)
(* time (TuiData).  Details of other commands are loaded and shown in the  *)
(* same way and never start a watch.                                       *)
(***************************************************************************)
EXTENDS Integers

CONSTANTS Runs,         \* the workflow runs in the list
          NoRun,
          Chains,       \* bound: chains under way at a time
          DetailLoads,  \* bound: details being loaded from a row at a time
          MaxPanelKeys  \* bound: keys that load a detail or start a watch

ASSUME WatchAssumption == NoRun \notin Runs /\ MaxPanelKeys \in Nat

VARIABLES onWorkflows,  \* the active command is wf
          focus,        \* rootModel.focus, content or detail
          visible,      \* detail.visible
          watching,     \* rootModel.watching
          watchRun,     \* rootModel.watchRunID
          chain,        \* the link of each chain that is under way, and the run it asks for
          load,         \* the details being loaded, and what their message says
          ended,        \* GitHub: the runs that are over
          panelKeys     \* keys pressed

panel == <<onWorkflows, focus, visible>>
watch == <<watching, watchRun>>
watchVars == <<panel, watch, chain, load, ended, panelKeys>>

Links == [link : {"none", "tick"}, run : {NoRun}]
         \cup [link : {"request", "watching...", "completed"}, run : Runs]
NoLink == [link |-> "none", run |-> NoRun]
Tick == [link |-> "tick", run |-> NoRun]

Details == [stage : {"none", "asking", "plain"}, run : Runs \cup {NoRun}]
           \cup [stage : {"autoWatch"}, run : Runs]
NoDetail == [stage |-> "none", run |-> NoRun]

WatchInit ==
  /\ onWorkflows = TRUE /\ focus = "content" /\ visible = FALSE
  /\ watching = FALSE /\ watchRun = NoRun
  /\ chain = [c \in Chains |-> NoLink] /\ load = [l \in DetailLoads |-> NoDetail]
  /\ ended = {} /\ panelKeys = 0

-----------------------------------------------------------------------------
(* Starting and stopping *)

\* startWatch and the autoWatch branch: the flag, the run and a first tick.
StartWatch(r) ==
  /\ watching' = TRUE /\ watchRun' = r
  /\ \E c \in Chains : chain[c] = NoLink /\ chain' = [chain EXCEPT ![c] = Tick]

StopWatch == watching' = FALSE /\ UNCHANGED <<watchRun, chain>>

PressPanelKey == panelKeys < MaxPanelKeys /\ panelKeys' = panelKeys + 1

\* w in the detail panel of a run.
ToggleWatch(r) ==
  /\ focus = "detail" /\ onWorkflows
  /\ PressPanelKey
  /\ IF watching THEN StopWatch ELSE StartWatch(r)
  /\ UNCHANGED <<panel, load, ended>>

\* enter in the list or r in the detail panel: the detail of the row under the
\* cursor, a run of the workflow list or a row (NoRun) of another one.
LoadDetail(row) ==
  /\ PressPanelKey
  /\ onWorkflows <=> row # NoRun
  /\ \E l \in DetailLoads :
       load[l] = NoDetail /\ load' = [load EXCEPT ![l] = [stage |-> "asking", run |-> row]]
  /\ UNCHANGED <<panel, watch, chain, ended>>

\* esc in the detail panel closes it and stops the watch.
CloseDetail ==
  /\ focus = "detail"
  /\ focus' = "content" /\ visible' = FALSE
  /\ StopWatch
  /\ UNCHANGED <<onWorkflows, load, ended, panelKeys>>

\* esc in the list closes the panel only.
HideDetail ==
  /\ focus = "content" /\ visible
  /\ visible' = FALSE
  /\ UNCHANGED <<onWorkflows, focus, watch, chain, load, ended, panelKeys>>

\* enter in the command menu closes the panel too, and leaves the watch alone.
SwitchCommand ==
  /\ onWorkflows' \in BOOLEAN
  /\ visible' = FALSE /\ focus' = "content"
  /\ UNCHANGED <<watch, chain, load, ended, panelKeys>>

\* tab and shift+tab between the list and the panel.
MoveFocus ==
  /\ focus' \in {"content", "detail"}
  /\ focus' = "detail" => visible
  /\ UNCHANGED <<onWorkflows, visible, watch, chain, load, ended, panelKeys>>

-----------------------------------------------------------------------------
(* Answers *)

\* GetWorkflowRunDetail, whose failure looks like a run that is over.
InProgress(r, ok) == r \notin ended /\ ok

\* loadWorkflowDetail asks to be watched if the run is in progress.
DetailAnswered(l, ok) ==
  /\ load[l].stage = "asking" /\ load[l].run # NoRun
  /\ load' = [load EXCEPT ![l].stage = IF InProgress(load[l].run, ok) THEN "autoWatch" ELSE "plain"]
  /\ UNCHANGED <<panel, watch, chain, ended, panelKeys>>

\* The details of issues, pull requests, branches, ... are shown as they come.
OtherAnswered(l) ==
  /\ load[l].stage = "asking" /\ load[l].run = NoRun
  /\ load' = [load EXCEPT ![l].stage = "plain"]
  /\ UNCHANGED <<panel, watch, chain, ended, panelKeys>>

Titles == {"any", "... (watching...)", "... (completed)"}

\* detailLoadedMsg from a row: shown whatever is on the screen, and watched unless
\* something is being watched.  While something is, a title that ends as those of
\* the watch do (the name of a run, the title of an issue) is taken for its answer.
DetailShown(l, title) ==
  /\ load[l].stage \in {"plain", "autoWatch"}
  /\ visible' = TRUE
  /\ load' = [load EXCEPT ![l] = NoDetail]
  /\ \/ ~watching /\ load[l].stage = "autoWatch" /\ StartWatch(load[l].run)
     \/ ~watching /\ load[l].stage = "plain" /\ UNCHANGED <<watch, chain>>
     \/ watching /\ title = "any" /\ UNCHANGED <<watch, chain>>
     \/ watching /\ title = "... (completed)" /\ StopWatch
     \/ watching /\ title = "... (watching...)" /\ StartWatch(watchRun)
  /\ UNCHANGED <<onWorkflows, focus, ended, panelKeys>>

\* Mutant: no request is made for a panel that is closed.
TickIfVisible(c) ==
  /\ chain[c] = Tick
  /\ chain' = [chain EXCEPT ![c] = IF watching /\ visible THEN [link |-> "request", run |-> watchRun]
                                   ELSE NoLink]
  /\ UNCHANGED <<panel, watch, load, ended, panelKeys>>

\* Mutant: the ticks go on while nothing is watched.
TickOnAndOn(c) ==
  /\ chain[c] = Tick
  /\ chain' = [chain EXCEPT ![c] = IF watching THEN [link |-> "request", run |-> watchRun] ELSE Tick]
  /\ UNCHANGED <<panel, watch, load, ended, panelKeys>>

\* watchTickMsg: a request for the run watched now, or the end of the chain.
TickFires(c) ==
  /\ chain[c] = Tick
  /\ chain' = [chain EXCEPT ![c] = IF watching THEN [link |-> "request", run |-> watchRun] ELSE NoLink]
  /\ UNCHANGED <<panel, watch, load, ended, panelKeys>>

RequestAnswered(c, ok) ==
  /\ chain[c].link = "request"
  /\ chain' = [chain EXCEPT ![c].link = IF InProgress(chain[c].run, ok) THEN "watching..." ELSE "completed"]
  /\ UNCHANGED <<panel, watch, load, ended, panelKeys>>

\* Mutant: the end of the run is shown and the watch goes on.
AnswerShownGoesOn(c) ==
  /\ chain[c].link \in {"watching...", "completed"}
  /\ visible' = TRUE
  /\ chain' = [chain EXCEPT ![c] = IF watching THEN Tick ELSE NoLink]
  /\ UNCHANGED <<onWorkflows, focus, watch, load, ended, panelKeys>>

\* detailLoadedMsg from a tick: shown, and the next tick or the end of the watch.
AnswerShown(c) ==
  /\ chain[c].link \in {"watching...", "completed"}
  /\ visible' = TRUE
  /\ watching' = (watching /\ chain[c].link # "completed")
  /\ chain' = [chain EXCEPT ![c] = IF watching' THEN Tick ELSE NoLink]
  /\ UNCHANGED <<onWorkflows, focus, watchRun, load, ended, panelKeys>>

RunEnds(r) ==
  /\ r \notin ended
  /\ ended' = ended \cup {r}
  /\ UNCHANGED <<panel, watch, chain, load, panelKeys>>

ChainStep(c) == \/ TickFires(c) \/ AnswerShown(c)
                \/ \E ok \in BOOLEAN : RequestAnswered(c, ok)

WatchNext ==
  \/ \E r \in Runs : ToggleWatch(r) \/ RunEnds(r)
  \/ \E row \in Runs \cup {NoRun} : LoadDetail(row)
  \/ CloseDetail \/ HideDetail \/ SwitchCommand \/ MoveFocus
  \/ \E l \in DetailLoads :
       \/ OtherAnswered(l) \/ \E ok \in BOOLEAN : DetailAnswered(l, ok)
       \/ \E title \in Titles : DetailShown(l, title)
  \/ \E c \in Chains : ChainStep(c)

WatchSpec == WatchInit /\ [][WatchNext]_watchVars

\* Ticks fire and requests end, in an answer or an error; the user owes nothing.
FairWatchSpec == WatchSpec /\ \A c \in Chains : WF_watchVars(ChainStep(c))

-----------------------------------------------------------------------------
(* Properties *)

WatchTypeOK ==
  /\ onWorkflows \in BOOLEAN /\ focus \in {"content", "detail"} /\ visible \in BOOLEAN
  /\ watching \in BOOLEAN /\ watchRun \in Runs \cup {NoRun}
  /\ chain \in [Chains -> Links] /\ load \in [DetailLoads -> Details]
  /\ ended \subseteq Runs /\ panelKeys \in 0 .. MaxPanelKeys
  /\ watching => watchRun # NoRun
  /\ focus = "detail" => visible

\* A watch that is on has a tick, a request or an answer under way, however often
\* it was stopped, restarted and hidden; otherwise it would wait for ever.
WatchIsAlive == watching => \E c \in Chains : chain[c] # NoLink

\* The watch of a run that is over ends, or has turned to another run.
WatchEnds == \A r \in Runs : watching /\ watchRun = r /\ r \in ended ~> ~watching \/ watchRun # r

\* Once nothing is watched any more, the ticks and requests of all earlier watches
\* run out.
ChainsDieOut == <>[]~watching => <>[](\A c \in Chains : chain[c] = NoLink)

\* The toast "Workflow run completed" is true.  The code does not keep this: a
\* failed request, or a late answer for a run watched before, ends the watch of a
\* run that goes on; so does the detail of a row whose title ends in "(completed)".
StopsOnlyWhenOver ==
  [][\A c \in Chains : AnswerShown(c) /\ watching /\ ~watching' => watchRun \in ended]_watchVars
=============================================================================
