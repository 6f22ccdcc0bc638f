-------------------------------- MODULE TuiData --------------------------------
(***************************************************************************)
(* The lists of the terminal UI (cmd/tui/tui.go, cache.go): what the panel *)
(* shows, the cache behind it, the loads and the actions under way.  The   *)
(* event loop (rootModel.Update) handles one message at a time, but every  *)
(* load and every action is a goroutine of its own (a tea.Cmd): what it    *)
(* sends arrives in any order, and a load stores its rows in the cache     *)
(* itself, before the loop sees them.                                      *)
(*                                                                         *)
(* A list is the command, repositories and filter it was asked for and the *)
(* version of the command's data at GitHub when it was read: `version'     *)
(* counts the actions carried out there, `known' those whose success the   *)
(* loop has been told of.                                                  *)
(***************************************************************************)
EXTENDS Integers, Sequences, FiniteSets

CONSTANTS Repos,       \* the organisation's repositories
          Commands,    \* the commands of the sidebar
          Filtered,    \* those with a status filter (cmdFilters)
          Actionable,  \* those with actions on a row
          OrgWide,     \* those that do not ask for repositories (team)
          Options,     \* how many values a filter has (commandFilter.options)
          None,
          Slots,       \* bound: commands of the event loop under way at a time
          MaxSelected, \* bound: repositories selected at a time
          MaxKeys,     \* bound: keys the user presses
          MaxActions   \* bound: actions confirmed

Lists == [cmd : Commands, repos : SUBSET Repos, filter : 0 .. Options, asOf : Nat, overtaken : BOOLEAN]
Entries == [list : Lists, repoKey : SUBSET Repos, stale : BOOLEAN]

\* A load, what the selector sends, an action on a row.
Loads == [kind : {"load"}, stage : {"asking", "answered", "sent"}, list : Lists, asked : SUBSET Repos]
Messages == [kind : {"selection"}, repos : SUBSET Repos]
Actions == [kind : {"action"}, stage : {"running", "success", "failure"}, cmd : Commands, row : Repos]
Flights == Loads \cup Messages \cup Actions

ASSUME TuiAssumption ==
  /\ Filtered \subseteq Commands /\ Actionable \subseteq Commands /\ OrgWide \subseteq Commands
  /\ None \notin Commands \cup Repos \cup Lists \cup Entries \cup Flights
  /\ IsFiniteSet(Slots)
  /\ Options \in Nat \ {0} /\ MaxKeys \in Nat /\ MaxActions \in Nat /\ MaxSelected \in Nat

VARIABLES active,     \* sidebar.active
          filter,     \* cmdFilters[c].current
          marks,      \* the repositories marked in the selector
          selected,   \* selectedRepos
          content,    \* the list shown (contentModel), with what it was loaded for
          cache,      \* dataCache.entries, by command and filter
          flight,     \* the goroutines under way and the messages they have sent
          confirm,    \* the open confirmation and the row its closure holds
          version,    \* GitHub's data of each command
          known,      \* successes the event loop has handled
          approved,   \* history: the rows of the confirmations answered with y
          executed,   \* history: the rows acted on at GitHub
          overlap,    \* history: two goroutines were under way at some time
          keys        \* keys pressed

user == <<active, filter, marks, selected>>
github == <<version, executed>>
vars == <<active, filter, marks, selected, content, cache, flight, confirm,
          version, known, approved, executed, overlap, keys>>

Selections == {S \in SUBSET Repos : Cardinality(S) <= MaxSelected}
FilterOf(c) == IF c \in Filtered THEN filter[c] ELSE 0
Key(c) == <<c, FilterOf(c)>>
Keys == Commands \X (0 .. Options)

Init == /\ active = None /\ filter = [c \in Filtered |-> 1]
        /\ marks = {} /\ selected = {} /\ content = None
        /\ cache = [k \in Keys |-> None] /\ flight = [s \in Slots |-> None] /\ confirm = None
        /\ version = [c \in Commands |-> 0] /\ known = [c \in Commands |-> 0]
        /\ approved = <<>> /\ executed = <<>> /\ overlap = FALSE /\ keys = 0

-----------------------------------------------------------------------------
(* Goroutines *)

\* The event loop starts a goroutine with g in a free slot of flights fl.
Launch(g, fl) ==
  \E s \in Slots :
    /\ fl[s] = None
    /\ flight' = [fl EXCEPT ![s] = g]
    /\ overlap' = (overlap \/ \E t \in Slots : fl[t] # None)

Load(stage, list, asked) == [kind |-> "load", stage |-> stage, list |-> list, asked |-> asked]
NewList(c, sel, fil) ==
  [cmd |-> c, repos |-> sel, filter |-> fil, asOf |-> 0, overtaken |-> FALSE]

\* Mutant: the repositories of the entry are not compared.
HitForAnyone(ch, c, fil, sel) == ch[<<c, fil>>] # None /\ ~ch[<<c, fil>>].stale

\* Whether the cache ch answers for command c under filter fil: an entry with the
\* same repositories that has not expired (dataCache.get).
Hit(ch, c, fil, sel) ==
  LET entry == ch[<<c, fil>>]
  IN entry # None /\ entry.repoKey = sel /\ ~entry.stale

\* loadCommand: nothing to ask for without repositories; an answer from the
\* cache unless a fresh one is forced; otherwise a load, with the repositories
\* and the filter of now.
LoadCommand(c, sel, fil, force, ch, fl) ==
  LET list == NewList(c, sel, fil)
  IN IF sel = {} /\ c \notin OrgWide THEN Launch(Load("sent", list, sel), fl)
     ELSE IF ~force /\ Hit(ch, c, fil, sel)
          THEN Launch(Load("sent", ch[<<c, fil>>].list, sel), fl)
          ELSE Launch(Load("asking", list, sel), fl)

\* Mutant: only the key without a filter is deleted.
InvalidatedPlain(c) == [k \in Keys |-> IF k = <<c, 0>> THEN None ELSE cache[k]]

\* dataCache.invalidate: the entries of command c under every filter.
Invalidated(c) == [k \in Keys |-> IF k[1] = c THEN None ELSE cache[k]]

-----------------------------------------------------------------------------
(* Keys.  While a confirmation is open it takes every key. *)

Press == confirm = None /\ keys < MaxKeys /\ keys' = keys + 1

\* Space, a and n in the selector: the selection changes at once and is also sent
\* to the loop as a message.
ChangeSelection(sel) ==
  /\ Press
  /\ marks' = sel /\ selected' = sel
  /\ Launch([kind |-> "selection", repos |-> sel], flight)
  /\ UNCHANGED <<active, filter, content, cache, confirm, version, known, approved, executed>>

\* Enter in the command menu.
SelectCommand(c) ==
  /\ Press
  /\ active' = c
  /\ LoadCommand(c, selected, FilterOf(c), FALSE, cache, flight)
  /\ UNCHANGED <<filter, marks, selected, content, cache, confirm, version, known, approved, executed>>

\* r: load again past the cache.
Refresh ==
  /\ Press /\ active # None
  /\ LoadCommand(active, selected, FilterOf(active), TRUE, cache, flight)
  /\ UNCHANGED <<user, content, cache, confirm, version, known, approved, executed>>

\* ctrl+r: forget the command's lists first.
HardRefresh ==
  /\ Press /\ active # None
  /\ cache' = Invalidated(active)
  /\ LoadCommand(active, selected, FilterOf(active), TRUE, cache', flight)
  /\ UNCHANGED <<user, content, confirm, version, known, approved, executed>>

\* s: the command's next status filter, with its lists forgotten.
CycleFilter ==
  /\ Press /\ active \in Filtered
  /\ filter' = [filter EXCEPT ![active] = (@ % Options) + 1]
  /\ cache' = Invalidated(active)
  /\ LoadCommand(active, selected, filter'[active], TRUE, cache', flight)
  /\ UNCHANGED <<active, marks, selected, content, confirm, version, known, approved, executed>>

\* A, M, R, ...: a confirmation for the row under the cursor; the closure holds the
\* row.  Rows of another command than the active one are of another type and refused.
AskConfirm(r) ==
  /\ Press
  /\ Len(approved) < MaxActions
  /\ content # None /\ active = content.cmd /\ active \in Actionable /\ r \in content.repos
  /\ confirm' = [cmd |-> active, row |-> r, shown |-> r]
  /\ UNCHANGED <<user, content, cache, flight, version, known, approved, executed, overlap>>

\* y starts the action on row r, any other key drops it.
StartAction(r) ==
  /\ Launch([kind |-> "action", stage |-> "running", cmd |-> confirm.cmd, row |-> r], flight)
  /\ approved' = Append(approved, <<confirm.cmd, confirm.shown>>)
Close == /\ confirm # None /\ confirm' = None
         /\ UNCHANGED <<user, content, cache, version, known, executed, keys>>

\* Mutant: the row is looked up when the answer comes.
AcceptLate == Close /\ content # None /\ \E r \in content.repos : StartAction(r)

Accept == Close /\ StartAction(confirm.row)
Decline == Close /\ UNCHANGED <<flight, approved, overlap>>

UserStep == \/ \E sel \in Selections : ChangeSelection(sel)
            \/ \E c \in Commands : SelectCommand(c)
            \/ \E r \in Repos : AskConfirm(r)
            \/ Refresh \/ HardRefresh \/ CycleFilter \/ Accept \/ Decline

-----------------------------------------------------------------------------
(* Loads *)

Is(s, kind, stage) == flight[s] # None /\ flight[s].kind = kind /\ flight[s].stage = stage
Without(s) == [flight EXCEPT ![s] = None]

\* GitHub answers: the rows are those of this moment.
Answered(s) ==
  /\ Is(s, "load", "asking")
  /\ LET list == flight[s].list
     IN flight' = [flight EXCEPT ![s] =
                     Load("answered", [list EXCEPT !.asOf = version[list.cmd]], @.asked)]
  /\ UNCHANGED <<user, content, cache, confirm, version, known, approved, executed, overlap, keys>>

\* Only the organisation-wide lists report an error (errMsg); the others leave out
\* the repositories that failed.
LoadFails(s) ==
  /\ Is(s, "load", "asking") /\ flight[s].list.cmd \in OrgWide
  /\ flight' = Without(s)
  /\ UNCHANGED <<user, content, cache, confirm, version, known, approved, executed, overlap, keys>>

\* The goroutine stores its rows, under the filter of now (cacheKeyFor), and sends them.
Store(s) ==
  /\ Is(s, "load", "answered")
  /\ flight' = [flight EXCEPT ![s].stage = "sent"]
  /\ LET f == flight[s]
     IN cache' = [cache EXCEPT ![Key(f.list.cmd)] =
                    [list |-> f.list, stale |-> FALSE,
                     repoKey |-> IF f.list.cmd \in OrgWide THEN {} ELSE f.asked]]
  /\ UNCHANGED <<user, content, confirm, version, known, approved, executed, overlap, keys>>

\* dataLoadedMsg: whatever arrives is shown.
Show(s) ==
  /\ Is(s, "load", "sent")
  /\ content' = flight[s].list
  /\ flight' = Without(s)
  /\ UNCHANGED <<user, cache, confirm, version, known, approved, executed, overlap, keys>>

\* repoSelectionChangedMsg: the selection sent with the message becomes the
\* selection, and the active command is loaded for it.
SelectionArrives(s) ==
  /\ flight[s] # None /\ flight[s].kind = "selection"
  /\ selected' = flight[s].repos
  /\ IF active = None THEN flight' = Without(s) /\ UNCHANGED overlap
     ELSE LoadCommand(active, selected', FilterOf(active), FALSE, cache, Without(s))
  /\ UNCHANGED <<active, filter, marks, content, cache, confirm, version, known, approved, executed, keys>>

\* The time to live of an entry runs out.
Expire(k) ==
  /\ cache[k] # None /\ ~cache[k].stale
  /\ cache' = [cache EXCEPT ![k].stale = TRUE]
  /\ UNCHANGED <<user, content, flight, confirm, version, known, approved, executed, overlap, keys>>

-----------------------------------------------------------------------------
(* Actions *)

\* The request of an action: GitHub may carry it out or not, and after it has, an
\* error may still be reported: the answer is lost, or the merge of an
\* approve-and-merge fails.  (The row is what was asked for: MergePullRequest
\* resolves the repository's name once more, for which see MergesAs in PrPrompt.)
RunAction(s, done, reported) ==
  /\ Is(s, "action", "running")
  /\ reported = "success" => done
  /\ LET f == flight[s]
     IN IF done THEN /\ version' = [version EXCEPT ![f.cmd] = @ + 1]
                     /\ executed' = Append(executed, <<f.cmd, f.row>>)
        ELSE UNCHANGED github
  /\ flight' = [flight EXCEPT ![s].stage = reported]
  /\ UNCHANGED <<user, content, cache, confirm, known, approved, overlap, keys>>

\* The loads of command c under way when the loop is told of a success.
Overtaken(c, s) ==
  [t \in Slots |-> IF t # s /\ flight[t] # None /\ flight[t].kind = "load" /\ flight[t].list.cmd = c
                   THEN Load(flight[t].stage, [flight[t].list EXCEPT !.overtaken = TRUE], flight[t].asked)
                   ELSE IF t = s THEN None ELSE flight[t]]

\* Mutant: the active list is not loaded again.
ResultArrivesUnloaded(s) ==
  /\ flight[s] # None /\ flight[s].kind = "action" /\ flight[s].stage # "running"
  /\ LET c == flight[s].cmd
     IN IF flight[s].stage = "success"
        THEN known' = [known EXCEPT ![c] = @ + 1] /\ cache' = Invalidated(c)
        ELSE UNCHANGED <<known, cache>>
  /\ flight' = Without(s)
  /\ UNCHANGED <<user, content, confirm, github, approved, overlap, keys>>

\* actionResultMsg: after a success the command's lists are forgotten and, if it is
\* the active one, loaded again; a failure is only reported.
ResultArrives(s) ==
  \/ /\ Is(s, "action", "failure")
     /\ flight' = Without(s)
     /\ UNCHANGED <<user, content, cache, confirm, github, known, approved, overlap, keys>>
  \/ /\ Is(s, "action", "success")
     /\ LET c == flight[s].cmd
        IN /\ known' = [known EXCEPT ![c] = @ + 1]
           /\ cache' = Invalidated(c)
           /\ IF active = c
              THEN LoadCommand(c, selected, FilterOf(c), TRUE, cache', Overtaken(c, s))
              ELSE flight' = Overtaken(c, s) /\ UNCHANGED overlap
     /\ UNCHANGED <<user, content, confirm, github, approved, keys>>

GoroutineStep(s) ==
  \/ Answered(s) \/ LoadFails(s) \/ Store(s) \/ Show(s) \/ SelectionArrives(s)
  \/ \E done \in BOOLEAN, reported \in {"success", "failure"} : RunAction(s, done, reported)
  \/ ResultArrives(s)

Next == UserStep \/ (\E s \in Slots : GoroutineStep(s)) \/ (\E k \in Keys : Expire(k))
Spec == Init /\ [][Next]_vars

-----------------------------------------------------------------------------
(* Properties *)

\* Types; the loop never knows of more successes than GitHub carried out, and no
\* list is newer than GitHub.
TypeOK ==
  /\ active \in Commands \cup {None} /\ filter \in [Filtered -> 1 .. Options]
  /\ marks \in Selections /\ selected \in Selections
  /\ content = None \/ content \in Lists
  /\ \A k \in Keys : cache[k] = None \/ cache[k] \in Entries
  /\ \A s \in Slots : flight[s] = None \/ flight[s] \in Flights
  /\ \A c \in Commands : known[c] <= version[c]
  /\ \A k \in Keys : cache[k] # None => cache[k].list.asOf <= version[k[1]] /\ cache[k].list.cmd = k[1]

\* A list sent to the panel is for the repositories that were selected when it was
\* asked for, whether GitHub or the cache answers: dataCache.get compares them, and
\* two selections share one entry of the cache.
AnswersItsQuestion ==
  \A s \in Slots :
    flight[s] # None /\ flight[s].kind = "load" /\ flight[s].list.cmd \notin OrgWide
      => flight[s].list.repos = flight[s].asked

\* Once the loop has been told that an action succeeded, the cache holds no list of
\* that command from before it, under no filter, except one that was being loaded
\* when the news came (actionResultMsg, invalidate).
CacheForgets ==
  \A k \in Keys : cache[k] # None /\ cache[k].list.asOf < known[k[1]] => cache[k].list.overtaken

\* As long as goroutines never overlap, the panel ends up showing what is chosen:
\* the active command under its filter for the marked repositories, with every
\* action in it whose success was reported.
ShowsSelection ==
  ~overlap /\ (\A s \in Slots : flight[s] = None) /\ active # None /\ active \notin OrgWide
    => /\ content # None
       /\ content.cmd = active /\ content.repos = selected /\ content.filter = FilterOf(active)
       /\ selected = marks
       /\ selected # {} => content.asOf >= known[active]

\* What is done at GitHub is what the confirmations answered with y said, and once
\* each, although other lists arrive under an open confirmation (startConfirm).
ActsAsConfirmed ==
  LET Times(seq, x) == Cardinality({i \in DOMAIN seq : seq[i] = x})
  IN \A i \in DOMAIN executed : Times(executed, executed[i]) <= Times(approved, executed[i])

\* What the comment of cacheKeyFor says, and overlapping loads break.
KeyedByFilter == \A k \in Keys : cache[k] # None => cache[k].list.filter = k[2]
=============================================================================
