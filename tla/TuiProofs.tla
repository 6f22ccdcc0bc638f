------------------------------ MODULE TuiProofs ------------------------------
(***************************************************************************)
(* Theorems about the lists of the terminal UI: what the cache answers and *)
(* what it forgets, what is done at GitHub and what the panel ends up      *)
(* showing, for any repositories, commands, filters and goroutines; and    *)
(* about its watch of a run, which never falls asleep.                     *)
(***************************************************************************)
EXTENDS TuiData, TuiWatch, FiniteSetTheorems, TLAPS

-----------------------------------------------------------------------------
(* The invariant of lists: of those in the cache ch and on their way in    *)
(* the flights fl, when the loop knows of the successes kn.                *)

\* With every action in it that the loop knows of, or read while that became known.
UpToDate(l, kn) == l.overtaken \/ l.asOf >= kn[l.cmd]

GoodEntry(e, c, kn) ==
  /\ e \in Entries /\ e.list.cmd = c
  /\ UpToDate(e.list, kn)
  /\ c \notin OrgWide => e.list.repos = e.repoKey

GoodCache(ch, kn) ==
  /\ DOMAIN ch = Keys
  /\ \A k \in Keys : ch[k] # None => GoodEntry(ch[k], k[1], kn)

GoodLoad(f, kn) ==
  /\ f \in Loads
  /\ f.stage = "answered" => UpToDate(f.list, kn)
  /\ f.list.cmd \notin OrgWide => f.list.repos = f.asked

GoodFlight(f, kn) == GoodLoad(f, kn) \/ f \in Messages \/ f \in Actions

GoodFlights(fl, kn) ==
  /\ DOMAIN fl = Slots
  /\ \A s \in Slots : fl[s] # None => GoodFlight(fl[s], kn)

\* The successes that the loop has not been told of yet.
Successes(fl, c) ==
  {s \in Slots : fl[s] # None /\ fl[s].kind = "action" /\ fl[s].stage = "success" /\ fl[s].cmd = c}

Told(fl, kn, ver) == \A c \in Commands : kn[c] + Cardinality(Successes(fl, c)) <= ver[c]

KeyTypes ==
  /\ active \in Commands \cup {None}
  /\ filter \in [Filtered -> 1 .. Options]
  /\ known \in [Commands -> Nat] /\ version \in [Commands -> Nat]
  /\ confirm # None => confirm.cmd \in Commands /\ confirm.row \in Repos

PanelTypes ==
  /\ marks \in SUBSET Repos /\ selected \in SUBSET Repos
  /\ content # None => content \in Lists

ListsInv ==
  /\ KeyTypes
  /\ GoodCache(cache, known)
  /\ GoodFlights(flight, known)
  /\ Told(flight, known, version)

LEMMA ListsInitially == Init => ListsInv
<1> SUFFICES ASSUME Init PROVE ListsInv
  OBVIOUS
<1>1. KeyTypes /\ GoodCache(cache, known) /\ GoodFlights(flight, known)
  BY TuiAssumption DEF Init, KeyTypes, GoodCache, GoodFlights
<1>2. \A c \in Commands : Successes(flight, c) = {}
  BY DEF Init, Successes
<1>3. \A c \in Commands : known[c] = 0 /\ version[c] = 0 /\ Cardinality(Successes(flight, c)) = 0
  BY <1>2, FS_EmptySet DEF Init
<1>4. Told(flight, known, version)
  BY <1>3 DEF Told
<1> QED
  BY <1>1, <1>4 DEF ListsInv

LEMMA FilterIsKey == ASSUME KeyTypes, NEW c \in Commands PROVE FilterOf(c) \in 0 .. Options
BY TuiAssumption DEF KeyTypes, FilterOf

-----------------------------------------------------------------------------
(* What the loop launches.                                                 *)

LEMMA LaunchKept ==
  ASSUME NEW g, NEW fl, NEW kn, NEW ver, GoodFlights(fl, kn), Told(fl, kn, ver),
         GoodFlight(g, kn), g.kind = "action" => g.stage # "success",
         Launch(g, fl)
  PROVE  GoodFlights(flight', kn) /\ Told(flight', kn, ver)
<1> PICK s \in Slots : fl[s] = None /\ flight' = [fl EXCEPT ![s] = g]
  BY DEF Launch
<1>1. GoodFlights(flight', kn)
  BY DEF GoodFlights
<1>2. \A c \in Commands : Successes(flight', c) = Successes(fl, c)
  BY DEF Successes, GoodFlights
<1> QED
  BY <1>1, <1>2 DEF Told

LEMMA LoadKept ==
  ASSUME NEW c \in Commands, NEW sel \in SUBSET Repos, NEW fil \in 0 .. Options, NEW force \in BOOLEAN,
         NEW ch, NEW fl, NEW kn, NEW ver,
         GoodCache(ch, kn), GoodFlights(fl, kn), Told(fl, kn, ver),
         LoadCommand(c, sel, fil, force, ch, fl)
  PROVE  GoodFlights(flight', kn) /\ Told(flight', kn, ver)
<1> DEFINE list == NewList(c, sel, fil)
           cached == ch[<<c, fil>>]
<1>1. list \in Lists /\ list.cmd = c /\ list.repos = sel
  BY DEF NewList, Lists
<1>2. /\ GoodLoad(Load("sent", list, sel), kn)
      /\ GoodLoad(Load("asking", list, sel), kn)
  BY <1>1 DEF GoodLoad, Loads, Load
<1>3. Hit(ch, c, fil, sel) => GoodLoad(Load("sent", cached.list, sel), kn)
  <2> SUFFICES ASSUME Hit(ch, c, fil, sel) PROVE GoodLoad(Load("sent", cached.list, sel), kn)
    OBVIOUS
  <2>1. <<c, fil>> \in Keys /\ <<c, fil>>[1] = c
    BY DEF Keys
  <2>2. GoodEntry(cached, c, kn) /\ cached.repoKey = sel
    BY <2>1 DEF GoodCache, Hit
  <2> QED
    BY <2>2 DEF GoodEntry, Entries, GoodLoad, Loads, Load
<1>4. PICK g : Launch(g, fl) /\ GoodLoad(g, kn)
  BY <1>2, <1>3 DEF LoadCommand
<1> QED
  BY <1>4, LaunchKept DEF GoodLoad, Loads, GoodFlight

-----------------------------------------------------------------------------
(* Keys.                                                                   *)

\* A command's lists are forgotten.
LEMMA ForgottenIsGood ==
  ASSUME NEW kn, GoodCache(cache, kn), NEW c
  PROVE  GoodCache(Invalidated(c), kn)
BY DEF GoodCache, Invalidated

LEMMA NextFilter ==
  ASSUME KeyTypes, active \in Filtered, filter' = [filter EXCEPT ![active] = (@ % Options) + 1]
  PROVE  filter' \in [Filtered -> 1 .. Options]
<1>1. \A n \in 1 .. Options : (n % Options) + 1 \in 1 .. Options
  BY TuiAssumption
<1> QED
  BY <1>1 DEF KeyTypes

LEMMA ChangeKept == ASSUME ListsInv, NEW sel \in Selections, ChangeSelection(sel) PROVE ListsInv'
<1> DEFINE g == [kind |-> "selection", repos |-> sel]
<1>1. /\ UNCHANGED <<active, filter, cache, confirm, version, known>>
      /\ Launch(g, flight)
  BY DEF ChangeSelection
<1>2. GoodFlight(g, known) /\ g.kind # "action"
  BY DEF GoodFlight, Messages, Selections
<1>3. GoodFlights(flight', known) /\ Told(flight', known, version)
  BY <1>1, <1>2, LaunchKept DEF ListsInv
<1> QED
  BY <1>1, <1>3 DEF ListsInv, KeyTypes

LEMMA SelectKept == ASSUME ListsInv, PanelTypes, NEW c \in Commands, SelectCommand(c) PROVE ListsInv'
<1>1. /\ UNCHANGED <<filter, cache, confirm, version, known>> /\ active' = c
      /\ LoadCommand(c, selected, FilterOf(c), FALSE, cache, flight)
  BY DEF SelectCommand
<1>2. GoodFlights(flight', known) /\ Told(flight', known, version)
  BY <1>1, LoadKept, FilterIsKey DEF ListsInv, PanelTypes
<1> QED
  BY <1>1, <1>2 DEF ListsInv, KeyTypes

\* r, ctrl+r and s load past the cache.
LEMMA RefreshKept == ASSUME ListsInv, PanelTypes, Refresh \/ HardRefresh \/ CycleFilter PROVE ListsInv'
<1>1. /\ UNCHANGED <<active, confirm, version, known>>
      /\ active \in Commands
      /\ cache' = cache \/ cache' = Invalidated(active)
      /\ filter' \in [Filtered -> 1 .. Options]
  BY NextFilter, TuiAssumption DEF Refresh, HardRefresh, CycleFilter, user, ListsInv, KeyTypes
<1>2. GoodCache(cache', known)
  BY <1>1, ForgottenIsGood DEF ListsInv
<1>3. FilterOf(active) \in 0 .. Options
  BY <1>1, FilterIsKey DEF ListsInv
<1>4. active \in Filtered => filter'[active] \in 0 .. Options
  BY <1>1
<1>5. PICK fil \in 0 .. Options : LoadCommand(active, selected, fil, TRUE, cache', flight)
  BY <1>3, <1>4 DEF Refresh, HardRefresh, CycleFilter
<1>6. GoodFlights(flight', known) /\ Told(flight', known, version)
  BY <1>1, <1>2, <1>5, LoadKept DEF ListsInv, PanelTypes
<1> QED
  BY <1>1, <1>2, <1>6 DEF ListsInv, KeyTypes

LEMMA AskKept == ASSUME ListsInv, NEW r \in Repos, AskConfirm(r) PROVE ListsInv'
<1>1. /\ UNCHANGED <<active, filter, cache, flight, version, known>>
      /\ active \in Commands
      /\ confirm' = [cmd |-> active, row |-> r, shown |-> r]
  BY TuiAssumption DEF AskConfirm, user
<1> QED
  BY <1>1 DEF ListsInv, KeyTypes

LEMMA AnswerKept == ASSUME ListsInv, Accept \/ Decline PROVE ListsInv'
<1>1. /\ UNCHANGED <<active, filter, cache, version, known>>
      /\ confirm # None /\ confirm' = None
  BY DEF Accept, Decline, Close, user
<1>2. GoodFlights(flight', known) /\ Told(flight', known, version)
  <2>1. CASE Decline
    BY <2>1 DEF Decline, ListsInv
  <2>2. CASE Accept
    <3> DEFINE g == [kind |-> "action", stage |-> "running", cmd |-> confirm.cmd, row |-> confirm.row]
    <3>1. Launch(g, flight)
      BY <2>2 DEF Accept, StartAction
    <3>2. GoodFlight(g, known) /\ g.stage # "success"
      BY <1>1 DEF GoodFlight, Actions, ListsInv, KeyTypes
    <3> QED
      BY <3>1, <3>2, LaunchKept DEF ListsInv
  <2> QED
    BY <2>1, <2>2
<1> QED
  BY <1>1, <1>2 DEF ListsInv, KeyTypes

-----------------------------------------------------------------------------
(* Goroutines.                                                             *)

\* A goroutine of slot s ends or goes on: the others stay.
LEMMA FlightKept ==
  ASSUME ListsInv, NEW s \in Slots, NEW f,
         flight' = [flight EXCEPT ![s] = f],
         f = None \/ GoodLoad(f, known) \/ (f \in Actions /\ f.stage # "success")
  PROVE  GoodFlights(flight', known) /\ Told(flight', known, version)
<1>1. GoodFlights(flight', known)
  BY DEF ListsInv, GoodFlights, GoodFlight
<1>2. \A c \in Commands : Successes(flight', c) \subseteq Successes(flight, c)
  BY DEF Successes, ListsInv, GoodFlights, GoodLoad, Loads
<1>3. \A c \in Commands : IsFiniteSet(Successes(flight, c))
  BY FS_Subset, TuiAssumption DEF Successes
<1>4. \A c \in Commands :
        /\ Cardinality(Successes(flight', c)) <= Cardinality(Successes(flight, c))
        /\ Cardinality(Successes(flight', c)) \in Nat
        /\ Cardinality(Successes(flight, c)) \in Nat
  BY <1>2, <1>3, FS_Subset, FS_CardinalityType
<1>5. Told(flight, known, version) /\ known \in [Commands -> Nat] /\ version \in [Commands -> Nat]
  BY DEF ListsInv, KeyTypes
<1>6. Told(flight', known, version)
  <2> SUFFICES ASSUME NEW c \in Commands
               PROVE  known[c] + Cardinality(Successes(flight', c)) <= version[c]
    BY DEF Told
  <2>1. known[c] \in Nat /\ version[c] \in Nat /\ known[c] + Cardinality(Successes(flight, c)) <= version[c]
    BY <1>5 DEF Told
  <2>2. /\ Cardinality(Successes(flight', c)) <= Cardinality(Successes(flight, c))
        /\ Cardinality(Successes(flight', c)) \in Nat
        /\ Cardinality(Successes(flight, c)) \in Nat
    BY <1>4
  <2> HIDE DEF Successes
  <2> QED
    BY <2>1, <2>2
<1> QED
  BY <1>1, <1>6

ReadAt(list, v) == [list EXCEPT !.asOf = v]

LEMMA ReadList ==
  ASSUME NEW l \in Lists, NEW v \in Nat
  PROVE  /\ ReadAt(l, v) \in Lists
         /\ ReadAt(l, v) = [cmd |-> l.cmd, repos |-> l.repos, filter |-> l.filter, asOf |-> v,
                            overtaken |-> l.overtaken]
<1>1. PICK c \in Commands, r \in SUBSET Repos, f \in 0 .. Options, a \in Nat, o \in BOOLEAN :
        l = [cmd |-> c, repos |-> r, filter |-> f, asOf |-> a, overtaken |-> o]
  BY DEF Lists
<1>2. PICK new : new = [l EXCEPT !.asOf = v]
  OBVIOUS
<1>3. new = [cmd |-> c, repos |-> r, filter |-> f, asOf |-> v, overtaken |-> o]
  BY <1>1, <1>2
<1>4. new \in Lists
  BY <1>3 DEF Lists
<1> QED
  BY <1>1, <1>2, <1>3, <1>4 DEF ReadAt

\* GitHub's answer: the list asked for, with every action that the loop knows of.
LEMMA AnswerIsRead ==
  ASSUME ListsInv, NEW s \in Slots, Answered(s)
  PROVE  /\ flight[s] # None /\ GoodLoad(flight[s], known)
         /\ \E l \in Lists :
              /\ flight' = [flight EXCEPT ![s] = Load("answered", l, flight[s].asked)]
              /\ l.cmd = flight[s].list.cmd /\ l.repos = flight[s].list.repos
              /\ l.filter = flight[s].list.filter /\ l.overtaken = flight[s].list.overtaken
              /\ l.asOf >= known[l.cmd]
<1> DEFINE f == flight[s]
           c == f.list.cmd
           l == ReadAt(f.list, version[c])
<1>1. f # None /\ f.kind = "load" /\ f.stage = "asking"
      /\ flight' = [flight EXCEPT ![s] = Load("answered", l, f.asked)]
  BY DEF Answered, Is, ReadAt, Load
<1>2. GoodLoad(f, known)
  BY <1>1 DEF ListsInv, GoodFlights, GoodFlight, Messages, Actions
<1>3. f.list \in Lists /\ c \in Commands
  BY <1>2 DEF GoodLoad, Loads, Lists
<1>4. known[c] \in Nat /\ version[c] \in Nat /\ known[c] <= version[c]
  <2>1. Cardinality(Successes(flight, c)) \in Nat
    BY FS_Subset, FS_CardinalityType, TuiAssumption DEF Successes
  <2>2. known[c] + Cardinality(Successes(flight, c)) <= version[c]
    BY <1>3 DEF ListsInv, Told
  <2> QED
    BY <1>3, <2>1, <2>2 DEF ListsInv, KeyTypes
<1>5. l \in Lists /\ l.cmd = c /\ l.repos = f.list.repos /\ l.filter = f.list.filter
      /\ l.overtaken = f.list.overtaken /\ l.asOf = version[c]
  <2> DEFINE list == f.list
             v == version[c]
  <2>1. list \in Lists /\ v \in Nat /\ list.cmd = c
    BY <1>3, <1>4
  <2> HIDE DEF list, v, c, f
  <2>2. LET r == ReadAt(list, v)
        IN r \in Lists /\ r.cmd = c /\ r.repos = list.repos /\ r.filter = list.filter
           /\ r.overtaken = list.overtaken /\ r.asOf = v
    BY <2>1, ReadList
  <2> QED
    BY <2>2 DEF list, v, c, f
<1> QED
  BY <1>1, <1>2, <1>4, <1>5

LEMMA AnsweredKept == ASSUME ListsInv, NEW s \in Slots, Answered(s) PROVE ListsInv'
<1>1. UNCHANGED <<active, filter, cache, confirm, version, known>>
  BY DEF Answered, user
<1>2. PICK l \in Lists :
        /\ flight' = [flight EXCEPT ![s] = Load("answered", l, flight[s].asked)]
        /\ l.cmd = flight[s].list.cmd /\ l.repos = flight[s].list.repos
        /\ l.asOf >= known[l.cmd]
  BY AnswerIsRead
<1>3. GoodLoad(Load("answered", l, flight[s].asked), known)
  BY <1>2, AnswerIsRead DEF GoodLoad, Loads, Load, UpToDate
<1> QED
  BY <1>1, <1>2, <1>3, FlightKept DEF ListsInv, KeyTypes

LEMMA EndsKept == ASSUME ListsInv, NEW s \in Slots, LoadFails(s) \/ Show(s) PROVE ListsInv'
<1>1. /\ UNCHANGED <<active, filter, cache, confirm, version, known>>
      /\ flight' = [flight EXCEPT ![s] = None]
  BY DEF LoadFails, Show, Without, user
<1> QED
  BY <1>1, FlightKept DEF ListsInv, KeyTypes

LEMMA StoreKept == ASSUME ListsInv, NEW s \in Slots, Store(s) PROVE ListsInv'
<1> DEFINE f == flight[s]
           e == [list |-> f.list, stale |-> FALSE,
                 repoKey |-> IF f.list.cmd \in OrgWide THEN {} ELSE f.asked]
           g == Load("sent", f.list, f.asked)
<1>1. /\ UNCHANGED <<active, filter, confirm, version, known>>
      /\ f # None /\ f.kind = "load" /\ f.stage = "answered"
      /\ cache' = [cache EXCEPT ![Key(f.list.cmd)] = e]
  BY DEF Store, Is, user
<1>2. GoodLoad(f, known)
  BY <1>1 DEF ListsInv, GoodFlights, GoodFlight, Messages, Actions
<1>3. GoodEntry(e, f.list.cmd, known)
  BY <1>1, <1>2 DEF GoodEntry, Entries, GoodLoad, Loads
<1>4. GoodCache(cache', known)
  BY <1>1, <1>3 DEF ListsInv, GoodCache, Key
<1>5. flight' = [flight EXCEPT ![s] = g] /\ GoodLoad(g, known)
  <2>1. f = Load("answered", f.list, f.asked)
    BY <1>1, <1>2 DEF GoodLoad, Loads, Load
  <2>2. g = [f EXCEPT !.stage = "sent"]
    BY <2>1 DEF Load
  <2>3. flight' = [flight EXCEPT ![s] = [f EXCEPT !.stage = "sent"]]
    BY DEF Store
  <2>4. GoodLoad(g, known)
    BY <1>2 DEF GoodLoad, Loads, Load
  <2> QED
    BY <2>2, <2>3, <2>4
<1> QED
  BY <1>1, <1>4, <1>5, FlightKept DEF ListsInv, KeyTypes

LEMMA SelectionKept == ASSUME ListsInv, NEW s \in Slots, SelectionArrives(s) PROVE ListsInv'
<1>1. /\ UNCHANGED <<active, filter, cache, confirm, version, known>>
      /\ active # None => LoadCommand(active, selected', FilterOf(active), FALSE, cache, Without(s))
      /\ active = None => flight' = Without(s)
      /\ selected' = flight[s].repos /\ flight[s] # None /\ flight[s].kind = "selection"
  BY DEF SelectionArrives
<1>4. selected' \in SUBSET Repos
  BY <1>1 DEF ListsInv, GoodFlights, GoodFlight, GoodLoad, Loads, Messages, Actions
<1>2. GoodFlights(Without(s), known) /\ Told(Without(s), known, version)
  <2>1. GoodFlights(Without(s), known)
    BY DEF ListsInv, GoodFlights, Without
  <2>2. \A c \in Commands : Successes(Without(s), c) = Successes(flight, c)
    BY DEF SelectionArrives, Successes, ListsInv, GoodFlights, Without
  <2> QED
    BY <2>1, <2>2 DEF ListsInv, Told
<1>3. GoodFlights(flight', known) /\ Told(flight', known, version)
  BY <1>1, <1>2, <1>4, LoadKept, FilterIsKey DEF ListsInv, KeyTypes
<1> QED
  BY <1>1, <1>3 DEF ListsInv, KeyTypes

LEMMA ExpireKept == ASSUME ListsInv, NEW k \in Keys, Expire(k) PROVE ListsInv'
<1>1. /\ UNCHANGED <<active, filter, flight, confirm, version, known>>
      /\ cache[k] # None
      /\ cache' = [cache EXCEPT ![k] = [cache[k] EXCEPT !.stale = TRUE]]
  BY DEF Expire, user
<1>2. GoodEntry([cache[k] EXCEPT !.stale = TRUE], k[1], known)
  <2> DEFINE e == cache[k]
  <2>1. GoodEntry(e, k[1], known)
    BY <1>1 DEF ListsInv, GoodCache
  <2>2. PICK new : new = [e EXCEPT !.stale = TRUE]
    OBVIOUS
  <2>3. e = [list |-> e.list, repoKey |-> e.repoKey, stale |-> e.stale]
    BY <2>1 DEF GoodEntry, Entries
  <2>4. new = [list |-> e.list, repoKey |-> e.repoKey, stale |-> TRUE]
    BY <2>2, <2>3
  <2>5. GoodEntry(new, k[1], known)
    BY <2>1, <2>4 DEF GoodEntry, Entries
  <2> QED
    BY <2>2, <2>5
<1>3. GoodCache(cache', known)
  BY <1>1, <1>2 DEF ListsInv, GoodCache
<1> QED
  BY <1>1, <1>3 DEF ListsInv, KeyTypes

\* An action that GitHub carries out is one success more to be told of, or none.
LEMMA RunKept ==
  ASSUME ListsInv, NEW s \in Slots, NEW done \in BOOLEAN, NEW reported \in {"success", "failure"},
         RunAction(s, done, reported)
  PROVE  ListsInv'
<1> DEFINE f == flight[s]
           g == [kind |-> "action", stage |-> reported, cmd |-> f.cmd, row |-> f.row]
<1>1. /\ UNCHANGED <<active, filter, cache, confirm, known>>
      /\ f # None /\ f.kind = "action" /\ f.stage = "running"
      /\ reported = "success" => done
      /\ version' = IF done THEN [version EXCEPT ![f.cmd] = @ + 1] ELSE version
      /\ flight' = [flight EXCEPT ![s] = [f EXCEPT !.stage = reported]]
  BY DEF RunAction, Is, user, github
<1>2. f \in Actions
  BY <1>1 DEF ListsInv, GoodFlights, GoodFlight, Messages, GoodLoad, Loads
<1>3. flight' = [flight EXCEPT ![s] = g]
  <2>1. PICK c, r, stage : f = [kind |-> "action", stage |-> stage, cmd |-> c, row |-> r]
    BY <1>2 DEF Actions
  <2>2. PICK new : new = [f EXCEPT !.stage = reported]
    OBVIOUS
  <2>3. new = g
    BY <2>1, <2>2
  <2> QED
    BY <1>1, <2>2, <2>3
<1>4. GoodFlights(flight', known)
  BY <1>2, <1>3 DEF ListsInv, GoodFlights, GoodFlight, Actions
<1>5. \A c \in Commands :
        /\ version'[c] \in Nat /\ version[c] \in Nat /\ known[c] \in Nat
        /\ version'[c] >= version[c]
        /\ reported = "success" /\ c = f.cmd => version'[c] = version[c] + 1
  BY <1>1 DEF ListsInv, KeyTypes
<1>6. \A c \in Commands :
        \/ Successes(flight', c) \subseteq Successes(flight, c)
        \/ /\ reported = "success" /\ c = f.cmd
           /\ Successes(flight', c) \subseteq Successes(flight, c) \cup {s}
  BY <1>3 DEF Successes, ListsInv, GoodFlights
<1>7. Told(flight', known, version')
  <2> SUFFICES ASSUME NEW c \in Commands
               PROVE  known[c] + Cardinality(Successes(flight', c)) <= version'[c]
    BY DEF Told
  <2> DEFINE before == Successes(flight, c)
             after == Successes(flight', c)
  <2>1. IsFiniteSet(before) /\ IsFiniteSet(before \cup {s})
    BY FS_Subset, FS_AddElement, TuiAssumption DEF Successes
  <2>2. Cardinality(before) \in Nat /\ Cardinality(before \cup {s}) \in Nat
    BY <2>1, FS_CardinalityType
  <2>3. Cardinality(before \cup {s}) <= Cardinality(before) + 1
    BY <2>1, <2>2, FS_AddElement
  <2>4. after \subseteq before => Cardinality(after) <= Cardinality(before)
    BY <2>1, FS_Subset
  <2>5. after \subseteq before \cup {s} => Cardinality(after) <= Cardinality(before \cup {s})
    BY <2>1, FS_Subset
  <2>6. Cardinality(after) \in Nat
    BY FS_Subset, FS_CardinalityType, TuiAssumption DEF Successes
  <2>7. known[c] + Cardinality(before) <= version[c]
    BY DEF ListsInv, Told
  <2>10. /\ version'[c] \in Nat /\ version[c] \in Nat /\ known[c] \in Nat
         /\ version'[c] >= version[c]
         /\ reported = "success" /\ c = f.cmd => version'[c] = version[c] + 1
    BY <1>5
  <2>8. CASE after \subseteq before
    BY <2>2, <2>4, <2>6, <2>7, <2>8, <2>10
  <2>9. CASE /\ reported = "success" /\ c = f.cmd
             /\ after \subseteq before \cup {s}
    BY <2>2, <2>3, <2>5, <2>6, <2>7, <2>9, <2>10
  <2> QED
    BY <1>6, <2>8, <2>9
<1>8. version' \in [Commands -> Nat]
  BY <1>1, <1>2 DEF ListsInv, KeyTypes, Actions
<1> QED
  BY <1>1, <1>4, <1>7, <1>8 DEF ListsInv, KeyTypes

Overtake(list) == [list EXCEPT !.overtaken = TRUE]

LEMMA OvertakenList ==
  ASSUME NEW l \in Lists
  PROVE  /\ Overtake(l) \in Lists
         /\ Overtake(l) = [cmd |-> l.cmd, repos |-> l.repos, filter |-> l.filter, asOf |-> l.asOf,
                           overtaken |-> TRUE]
<1>1. PICK c \in Commands, r \in SUBSET Repos, f \in 0 .. Options, a \in Nat, o \in BOOLEAN :
        l = [cmd |-> c, repos |-> r, filter |-> f, asOf |-> a, overtaken |-> o]
  BY DEF Lists
<1>2. PICK new : new = [l EXCEPT !.overtaken = TRUE]
  OBVIOUS
<1>3. new = [cmd |-> c, repos |-> r, filter |-> f, asOf |-> a, overtaken |-> TRUE]
  BY <1>1, <1>2
<1>4. new \in Lists
  BY <1>3 DEF Lists
<1> QED
  BY <1>1, <1>2, <1>3, <1>4 DEF Overtake

\* The loop is told of a success: the cache of the command is empty, and what is
\* still on its way is marked.
LEMMA ToldKept ==
  ASSUME ListsInv, NEW s \in Slots, Is(s, "action", "success"), NEW c, c = flight[s].cmd,
         NEW kn, kn = [known EXCEPT ![c] = @ + 1]
  PROVE  /\ c \in Commands /\ kn \in [Commands -> Nat]
         /\ GoodCache(Invalidated(c), kn)
         /\ GoodFlights(Overtaken(c, s), kn)
         /\ Told(Overtaken(c, s), kn, version)
<1> DEFINE fl == Overtaken(c, s)
           Marked(t) == Load(flight[t].stage, Overtake(flight[t].list), flight[t].asked)
           OfCommand(t) == t # s /\ flight[t] # None /\ flight[t].kind = "load" /\ flight[t].list.cmd = c
<1>1. flight[s] # None /\ flight[s].kind = "action" /\ flight[s].stage = "success"
  BY DEF Is
<1>2. flight[s] \in Actions
  BY <1>1 DEF ListsInv, GoodFlights, GoodFlight, Messages, GoodLoad, Loads
<1>3. c \in Commands /\ kn \in [Commands -> Nat] /\ kn[c] = known[c] + 1
      /\ \A d \in Commands : d # c => kn[d] = known[d]
  BY <1>2 DEF Actions, ListsInv, KeyTypes
<1>4. GoodCache(Invalidated(c), kn)
  <2>1. \A k \in Keys : k[1] \in Commands
    BY DEF Keys
  <2>2. ASSUME NEW k \in Keys, Invalidated(c)[k] # None PROVE GoodEntry(Invalidated(c)[k], k[1], kn)
    <3>1. Invalidated(c)[k] = cache[k] /\ k[1] # c /\ cache[k] # None
      BY <2>2 DEF Invalidated
    <3>2. GoodEntry(cache[k], k[1], known) /\ k[1] \in Commands
      BY <3>1, <2>1 DEF ListsInv, GoodCache
    <3> QED
      BY <3>1, <3>2, <1>3 DEF GoodEntry, Entries, UpToDate
  <2> QED
    BY <2>2 DEF GoodCache, Invalidated
<1>5. /\ DOMAIN fl = Slots
      /\ \A t \in Slots : fl[t] = IF OfCommand(t) THEN Marked(t) ELSE IF t = s THEN None ELSE flight[t]
  BY DEF Overtaken, Overtake
<1>6. ASSUME NEW t \in Slots, OfCommand(t)
      PROVE  GoodLoad(Marked(t), kn)
  <2> DEFINE f == flight[t]
  <2>1. GoodLoad(f, known)
    BY <1>6 DEF ListsInv, GoodFlights, GoodFlight, Messages, Actions
  <2>2. f.list \in Lists
    BY <2>1 DEF GoodLoad, Loads
  <2>3. Overtake(f.list) \in Lists /\ Overtake(f.list).overtaken
        /\ Overtake(f.list).cmd = f.list.cmd /\ Overtake(f.list).repos = f.list.repos
    BY <2>2, OvertakenList
  <2> QED
    BY <2>1, <2>3 DEF GoodLoad, Loads, Load, UpToDate
<1>7. ASSUME NEW t \in Slots, t # s, ~OfCommand(t), flight[t] # None
      PROVE  GoodFlight(flight[t], kn)
  <2>1. GoodFlight(flight[t], known)
    BY <1>7 DEF ListsInv, GoodFlights
  <2>2. CASE GoodLoad(flight[t], known)
    <3>1. flight[t].list.cmd \in Commands /\ flight[t].list.cmd # c
      BY <2>2, <1>7 DEF GoodLoad, Loads, Lists
    <3> QED
      BY <2>2, <3>1, <1>3 DEF GoodFlight, GoodLoad, Loads, UpToDate
  <2> QED
    BY <2>1, <2>2 DEF GoodFlight
<1>8. GoodFlights(fl, kn)
  BY <1>5, <1>6, <1>7 DEF GoodFlights, GoodFlight
<1>9. \A d \in Commands :
        /\ d # c => Successes(fl, d) = Successes(flight, d)
        /\ d = c => Successes(fl, d) = Successes(flight, d) \ {s} /\ s \in Successes(flight, d)
  <2>1. \A t \in Slots : OfCommand(t) => fl[t].kind = "load"
    <3>1. \A t \in Slots : Marked(t).kind = "load"
      BY DEF Load
    <3> HIDE DEF Marked
    <3> QED
      BY <1>5, <3>1
  <2> HIDE DEF fl
  <2> QED
    BY <1>1, <1>5, <2>1 DEF Successes
<1>10. Told(fl, kn, version)
  <2> SUFFICES ASSUME NEW d \in Commands
               PROVE  kn[d] + Cardinality(Successes(fl, d)) <= version[d]
    BY DEF Told
  <2>1. IsFiniteSet(Successes(flight, d))
    BY FS_Subset, TuiAssumption DEF Successes
  <2>2. Cardinality(Successes(flight, d)) \in Nat
    BY <2>1, FS_CardinalityType
  <2>3. Cardinality(Successes(fl, d)) = Cardinality(Successes(flight, d)) - (IF d = c THEN 1 ELSE 0)
    BY <1>9, <2>1, <2>2, FS_RemoveElement
  <2>4. known[d] + Cardinality(Successes(flight, d)) <= version[d]
        /\ known[d] \in Nat /\ version[d] \in Nat
    BY DEF ListsInv, Told, KeyTypes
  <2> HIDE DEF fl
  <2> QED
    BY <1>3, <2>2, <2>3, <2>4
<1> QED
  BY <1>3, <1>4, <1>8, <1>10

LEMMA ResultKept == ASSUME ListsInv, PanelTypes, NEW s \in Slots, ResultArrives(s) PROVE ListsInv'
<1>1. UNCHANGED <<active, filter, selected, confirm, version>>
  BY DEF ResultArrives, user, github
<1>2. CASE Is(s, "action", "failure")
  <2>1. flight' = [flight EXCEPT ![s] = None] /\ UNCHANGED <<cache, known>>
    BY <1>2 DEF ResultArrives, Is, Without
  <2> QED
    BY <1>1, <2>1, FlightKept DEF ListsInv, KeyTypes
<1>3. CASE Is(s, "action", "success")
  <2> DEFINE c == flight[s].cmd
  <2>1. /\ known' = [known EXCEPT ![c] = @ + 1]
        /\ cache' = Invalidated(c)
        /\ \/ /\ active = c
              /\ LoadCommand(c, selected, FilterOf(c), TRUE, cache', Overtaken(c, s))
           \/ flight' = Overtaken(c, s)
    BY <1>3 DEF ResultArrives, Is
  <2>2. /\ c \in Commands /\ known' \in [Commands -> Nat]
        /\ GoodCache(cache', known')
        /\ GoodFlights(Overtaken(c, s), known')
        /\ Told(Overtaken(c, s), known', version)
    BY <1>3, <2>1, ToldKept
  <2>3. FilterOf(c) \in 0 .. Options
    BY <2>2, FilterIsKey DEF ListsInv
  <2>4. GoodFlights(flight', known') /\ Told(flight', known', version)
    BY <2>1, <2>2, <2>3, LoadKept DEF PanelTypes
  <2> QED
    BY <1>1, <2>2, <2>4 DEF ListsInv, KeyTypes
<1> QED
  BY <1>2, <1>3 DEF ResultArrives

-----------------------------------------------------------------------------

LEMMA PanelKept == ASSUME ListsInv, PanelTypes, Next PROVE PanelTypes'
<1>1. ASSUME NEW sel \in Selections, ChangeSelection(sel) PROVE PanelTypes'
  BY <1>1 DEF ChangeSelection, PanelTypes, Selections
<1>2. ASSUME NEW s \in Slots, Show(s) PROVE PanelTypes'
  <2>1. flight[s] # None /\ flight[s].kind = "load"
    BY <1>2 DEF Show, Is
  <2>2. flight[s].list \in Lists
    BY <2>1 DEF ListsInv, GoodFlights, GoodFlight, GoodLoad, Loads, Messages, Actions
  <2> QED
    BY <1>2, <2>2 DEF Show, PanelTypes, user
<1>3. ASSUME NEW s \in Slots, SelectionArrives(s) PROVE PanelTypes'
  <2>1. flight[s] # None /\ flight[s].kind = "selection"
    BY <1>3 DEF SelectionArrives
  <2>2. flight[s].repos \in SUBSET Repos
    BY <2>1 DEF ListsInv, GoodFlights, GoodFlight, GoodLoad, Loads, Messages, Actions
  <2> QED
    BY <1>3, <2>2 DEF SelectionArrives, PanelTypes
<1>4. CASE UNCHANGED <<marks, selected, content>>
  BY <1>4 DEF PanelTypes
<1>5. ASSUME UserStep, \A sel \in Selections : ~ChangeSelection(sel)
      PROVE  UNCHANGED <<marks, selected, content>>
  BY <1>5 DEF UserStep, SelectCommand, AskConfirm, Refresh, HardRefresh, CycleFilter,
              Accept, Decline, Close, user
<1>6. ASSUME NEW s \in Slots, GoroutineStep(s), ~Show(s), ~SelectionArrives(s)
      PROVE  UNCHANGED <<marks, selected, content>>
  BY <1>6 DEF GoroutineStep, Answered, LoadFails, Store, RunAction, ResultArrives, user
<1>7. ASSUME NEW k \in Keys, Expire(k) PROVE UNCHANGED <<marks, selected, content>>
  BY <1>7 DEF Expire, user
<1> QED
  BY <1>1, <1>2, <1>3, <1>4, <1>5, <1>6, <1>7 DEF Next

THEOREM Invariance == Spec => [](ListsInv /\ PanelTypes)
<1>1. Init => ListsInv /\ PanelTypes
  BY ListsInitially DEF Init, PanelTypes
<1>2. ListsInv /\ PanelTypes /\ [Next]_vars => (ListsInv /\ PanelTypes)'
  <2> SUFFICES ASSUME ListsInv, PanelTypes, [Next]_vars PROVE ListsInv' /\ PanelTypes'
    OBVIOUS
  <2>1. CASE UNCHANGED vars
    BY <2>1 DEF vars, ListsInv, KeyTypes, PanelTypes
  <2>2. CASE UserStep
    BY <2>2, ChangeKept, SelectKept, RefreshKept, AskKept, AnswerKept, PanelKept DEF UserStep, Next
  <2>3. ASSUME NEW s \in Slots, GoroutineStep(s) PROVE ListsInv'
    BY <2>3, AnsweredKept, EndsKept, StoreKept, SelectionKept, RunKept, ResultKept DEF GoroutineStep
  <2> QED
    BY <2>1, <2>2, <2>3, ExpireKept, PanelKept DEF Next
<1> QED
  BY <1>1, <1>2, PTL DEF Spec

\* AnswersItsQuestion: what is sent to the panel is for the repositories it was
\* asked for, whether GitHub or the cache answers (dataCache.get), whatever was
\* selected, stored and invalidated in between.
THEOREM CacheAnswersItsQuestion == Spec => []AnswersItsQuestion
<1>1. ListsInv => AnswersItsQuestion
  BY DEF ListsInv, GoodFlights, GoodFlight, GoodLoad, Loads, Messages, Actions, AnswersItsQuestion
<1> QED
  BY Invariance, <1>1, PTL

\* CacheForgets: once the loop was told of a success the cache holds no list from
\* before it but those that were on their way (actionResultMsg, invalidate).
THEOREM NothingOldIsCached == Spec => []CacheForgets
<1>1. ListsInv => CacheForgets
  <2> SUFFICES ASSUME ListsInv, NEW k \in Keys, cache[k] # None, cache[k].list.asOf < known[k[1]]
               PROVE  cache[k].list.overtaken
    BY DEF CacheForgets
  <2>1. GoodEntry(cache[k], k[1], known) /\ k[1] \in Commands
    BY DEF ListsInv, GoodCache, Keys
  <2>2. known[k[1]] \in Nat
    BY <2>1 DEF ListsInv, KeyTypes
  <2> QED
    BY <2>1, <2>2 DEF GoodEntry, Entries, UpToDate, Lists
<1> QED
  BY Invariance, <1>1, PTL

-----------------------------------------------------------------------------
(* What is done at GitHub is what was confirmed.  Every row acted on and    *)
(* every action under way stands for an answer of its own.                  *)

Rows == Commands \X Repos
At(seq, x) == {i \in DOMAIN seq : seq[i] = x}

IsRunning(f) == f # None /\ f.kind = "action" /\ f.stage = "running"
Running(fl, x) == {s \in Slots : IsRunning(fl[s]) /\ <<fl[s].cmd, fl[s].row>> = x}

RowTypes ==
  /\ approved \in Seq(Rows) /\ executed \in Seq(Rows)
  /\ confirm # None => confirm.shown = confirm.row

ConfirmedInv ==
  /\ RowTypes
  /\ \A x \in Rows : Cardinality(At(executed, x)) + Cardinality(Running(flight, x))
                       <= Cardinality(At(approved, x))

LEMMA AtIsFinite ==
  ASSUME NEW S, NEW seq \in Seq(S), NEW x
  PROVE  IsFiniteSet(At(seq, x)) /\ Cardinality(At(seq, x)) \in Nat
<1>1. IsFiniteSet(DOMAIN seq)
  <2>1. DOMAIN seq = 1 .. Len(seq) /\ Len(seq) \in Nat
    OBVIOUS
  <2> QED
    BY <2>1, FS_Interval
<1>2. At(seq, x) \subseteq DOMAIN seq
  BY DEF At
<1> QED
  BY <1>1, <1>2, FS_Subset, FS_CardinalityType

LEMMA AtAppended ==
  ASSUME NEW S, NEW seq \in Seq(S), NEW y \in S, NEW x
  PROVE  Cardinality(At(Append(seq, y), x)) = Cardinality(At(seq, x)) + (IF x = y THEN 1 ELSE 0)
<1>1. At(Append(seq, y), x) = At(seq, x) \cup (IF x = y THEN {Len(seq) + 1} ELSE {})
  BY DEF At
<1>2. Len(seq) + 1 \notin At(seq, x)
  BY DEF At
<1>3. IsFiniteSet(At(seq, x)) /\ Cardinality(At(seq, x)) \in Nat
  BY AtIsFinite
<1>4. x # y => At(Append(seq, y), x) = At(seq, x)
  BY <1>1
<1>5. x = y => Cardinality(At(Append(seq, y), x)) = Cardinality(At(seq, x)) + 1
  BY <1>1, <1>2, <1>3, FS_AddElement
<1> QED
  BY <1>3, <1>4, <1>5

\* A set with at most one member more.
LEMMA OneMore ==
  ASSUME NEW S, NEW x, IsFiniteSet(S), NEW T \in SUBSET (S \cup {x})
  PROVE  Cardinality(T) <= Cardinality(S) + 1
<1>0. Cardinality(S) \in Nat
  BY FS_CardinalityType
<1>1. IsFiniteSet(S \cup {x}) /\ Cardinality(S \cup {x}) <= Cardinality(S) + 1
  BY <1>0, FS_AddElement
<1>2. IsFiniteSet(T) /\ Cardinality(T) <= Cardinality(S \cup {x})
  BY <1>1, FS_Subset
<1>3. Cardinality(T) \in Nat /\ Cardinality(S \cup {x}) \in Nat
  BY <1>1, <1>2, FS_CardinalityType
<1> QED
  BY <1>0, <1>1, <1>2, <1>3

LEMMA RunningIsFinite ==
  ASSUME NEW fl, NEW x
  PROVE  IsFiniteSet(Running(fl, x)) /\ Cardinality(Running(fl, x)) \in Nat
BY FS_Subset, FS_CardinalityType, TuiAssumption DEF Running

\* No action starts between flights fl and fl2.
NothingStarts(fl, fl2) == \A s \in Slots : IsRunning(fl2[s]) => fl2[s] = fl[s]

LEMMA ConfirmedStays ==
  ASSUME ConfirmedInv, UNCHANGED <<approved, executed>>, NothingStarts(flight, flight'),
         \/ confirm' = None \/ confirm' = confirm
         \/ \E c \in Commands, r \in Repos : confirm' = [cmd |-> c, row |-> r, shown |-> r]
  PROVE  ConfirmedInv'
<1>1. RowTypes'
  BY DEF ConfirmedInv, RowTypes
<1>2. \A x \in Rows : Running(flight', x) \subseteq Running(flight, x)
  BY DEF Running, NothingStarts
<1>3. ASSUME NEW x \in Rows
      PROVE  Cardinality(At(executed, x)) + Cardinality(Running(flight', x)) <= Cardinality(At(approved, x))
  <2>1. Cardinality(Running(flight', x)) <= Cardinality(Running(flight, x))
    BY <1>2, RunningIsFinite, FS_Subset
  <2>2. Cardinality(Running(flight', x)) \in Nat /\ Cardinality(Running(flight, x)) \in Nat
    BY RunningIsFinite
  <2>3. Cardinality(At(executed, x)) \in Nat /\ Cardinality(At(approved, x)) \in Nat
    BY AtIsFinite DEF ConfirmedInv, RowTypes
  <2>4. Cardinality(At(executed, x)) + Cardinality(Running(flight, x)) <= Cardinality(At(approved, x))
    BY DEF ConfirmedInv
  <2> QED
    BY <2>1, <2>2, <2>3, <2>4
<1> QED
  BY <1>1, <1>3 DEF ConfirmedInv

LEMMA LaunchStartsOnly ==
  ASSUME NEW g, NEW fl, DOMAIN fl = Slots, g.kind # "action", Launch(g, fl)
  PROVE  NothingStarts(fl, flight')
BY DEF Launch, NothingStarts, IsRunning

LEMMA LoadStartsNothing ==
  ASSUME NEW c, NEW sel, NEW fil, NEW force, NEW ch, NEW fl, DOMAIN fl = Slots,
         LoadCommand(c, sel, fil, force, ch, fl)
  PROVE  NothingStarts(fl, flight')
<1>1. PICK g : Launch(g, fl) /\ g.kind # "action"
  BY DEF LoadCommand, Load
<1> QED
  BY <1>1, LaunchStartsOnly

LEMMA KeyStartsNothing ==
  ASSUME ListsInv, ConfirmedInv,
         \/ \E sel \in Selections : ChangeSelection(sel)
         \/ \E c \in Commands : SelectCommand(c)
         \/ \E r \in Repos : AskConfirm(r)
         \/ Refresh \/ HardRefresh \/ CycleFilter \/ Decline
  PROVE  ConfirmedInv'
<1>0. DOMAIN flight = Slots
  BY DEF ListsInv, GoodFlights
<1>1. /\ UNCHANGED <<approved, executed>>
      /\ \/ confirm' = None \/ confirm' = confirm
         \/ \E c \in Commands, r \in Repos : confirm' = [cmd |-> c, row |-> r, shown |-> r]
  BY TuiAssumption DEF ChangeSelection, SelectCommand, AskConfirm, Refresh, HardRefresh, CycleFilter, Decline, Close
<1>2. NothingStarts(flight, flight')
  <2>1. ASSUME NEW sel \in Selections, ChangeSelection(sel) PROVE NothingStarts(flight, flight')
    <3>1. Launch([kind |-> "selection", repos |-> sel], flight)
      BY <2>1 DEF ChangeSelection
    <3> QED
      BY <1>0, <3>1, LaunchStartsOnly
  <2>2. ASSUME NEW r \in Repos, AskConfirm(r) PROVE NothingStarts(flight, flight')
    BY <2>2 DEF AskConfirm, NothingStarts
  <2>3. CASE Decline
    BY <2>3 DEF Decline, NothingStarts
  <2>4. CASE (\E c \in Commands : SelectCommand(c)) \/ Refresh \/ HardRefresh \/ CycleFilter
    BY <1>0, <2>4, LoadStartsNothing DEF SelectCommand, Refresh, HardRefresh, CycleFilter
  <2> QED
    BY <2>1, <2>2, <2>3, <2>4
<1> QED
  BY <1>1, <1>2, ConfirmedStays

\* The answer y and the action it starts come together.
LEMMA AcceptConfirms == ASSUME ListsInv, ConfirmedInv, Accept PROVE ConfirmedInv'
<1> DEFINE g == [kind |-> "action", stage |-> "running", cmd |-> confirm.cmd, row |-> confirm.row]
           y == <<confirm.cmd, confirm.row>>
<1>1. /\ UNCHANGED executed /\ confirm # None /\ confirm' = None
      /\ Launch(g, flight)
      /\ approved' = Append(approved, y)
  BY DEF Accept, Close, StartAction, ConfirmedInv, RowTypes
<1>2. y \in Rows /\ approved \in Seq(Rows) /\ executed \in Seq(Rows)
  BY <1>1 DEF ConfirmedInv, RowTypes, Rows, ListsInv, KeyTypes
<1>3. PICK s \in Slots : flight[s] = None /\ flight' = [flight EXCEPT ![s] = g]
  BY <1>1 DEF Launch
<1>4. DOMAIN flight = Slots
  BY DEF ListsInv, GoodFlights
<1>5. RowTypes'
  BY <1>1, <1>2 DEF RowTypes
<1>6. \A x \in Rows : Running(flight', x) \subseteq Running(flight, x) \cup (IF x = y THEN {s} ELSE {})
  <2>1. \A t \in Slots : t # s => flight'[t] = flight[t]
    BY <1>3, <1>4
  <2>2. <<flight'[s].cmd, flight'[s].row>> = y
    BY <1>3, <1>4
  <2> QED
    BY <2>1, <2>2 DEF Running
<1>7. ASSUME NEW x \in Rows
      PROVE  Cardinality(At(executed, x)) + Cardinality(Running(flight', x)) <= Cardinality(At(approved', x))
  <2>1. Cardinality(Running(flight', x)) <= Cardinality(Running(flight, x)) + (IF x = y THEN 1 ELSE 0)
    <3>1. CASE x = y
      <4>1. Running(flight', x) \subseteq Running(flight, x) \cup {s}
        BY <1>6, <3>1
      <4>2. Cardinality(Running(flight', x)) <= Cardinality(Running(flight, x)) + 1
        BY <4>1, RunningIsFinite, OneMore
      <4> QED
        BY <3>1, <4>2
    <3>2. CASE x # y
      <4>1. Running(flight', x) \subseteq Running(flight, x)
        BY <1>6, <3>2
      <4>2. Cardinality(Running(flight', x)) <= Cardinality(Running(flight, x))
        BY <4>1, RunningIsFinite, FS_Subset
      <4>3. Cardinality(Running(flight, x)) \in Nat /\ Cardinality(Running(flight', x)) \in Nat
        BY RunningIsFinite
      <4> QED
        BY <3>2, <4>2, <4>3
    <3> QED
      BY <3>1, <3>2
  <2>2. Cardinality(At(approved', x)) = Cardinality(At(approved, x)) + (IF x = y THEN 1 ELSE 0)
    BY <1>1, <1>2, AtAppended
  <2>3. Cardinality(At(executed, x)) \in Nat /\ Cardinality(At(approved, x)) \in Nat
        /\ Cardinality(Running(flight, x)) \in Nat /\ Cardinality(Running(flight', x)) \in Nat
    BY <1>2, AtIsFinite, RunningIsFinite
  <2>4. Cardinality(At(executed, x)) + Cardinality(Running(flight, x)) <= Cardinality(At(approved, x))
    BY DEF ConfirmedInv
  <2> QED
    BY <2>1, <2>2, <2>3, <2>4
<1> QED
  BY <1>1, <1>5, <1>7 DEF ConfirmedInv

\* An action is no longer running once GitHub has dealt with it.
LEMMA RunConfirmed ==
  ASSUME ListsInv, ConfirmedInv, NEW s \in Slots,
         NEW done \in BOOLEAN, NEW reported \in {"success", "failure"}, RunAction(s, done, reported)
  PROVE  ConfirmedInv'
<1> DEFINE f == flight[s]
           y == <<f.cmd, f.row>>
<1>1. /\ UNCHANGED <<approved, confirm>> /\ IsRunning(f)
      /\ executed' = IF done THEN Append(executed, y) ELSE executed
      /\ flight' = [flight EXCEPT ![s] = [f EXCEPT !.stage = reported]]
  BY DEF RunAction, Is, IsRunning, github
<1>2. y \in Rows /\ approved \in Seq(Rows) /\ executed \in Seq(Rows)
  <2>1. f \in Actions
    BY <1>1 DEF ListsInv, GoodFlights, GoodFlight, Messages, GoodLoad, Loads, IsRunning
  <2> QED
    BY <2>1 DEF ConfirmedInv, RowTypes, Rows, Actions
<1>3. DOMAIN flight = Slots /\ f \in Actions
  BY <1>1 DEF ListsInv, GoodFlights, GoodFlight, Messages, GoodLoad, Loads, IsRunning
<1>4. ~IsRunning(flight'[s]) /\ \A t \in Slots : t # s => flight'[t] = flight[t]
  <2>1. PICK c, r, stage : f = [kind |-> "action", stage |-> stage, cmd |-> c, row |-> r]
    BY <1>3 DEF Actions
  <2>2. PICK new : new = [f EXCEPT !.stage = reported]
    OBVIOUS
  <2>3. new.stage # "running"
    BY <2>1, <2>2
  <2>4. flight' = [flight EXCEPT ![s] = new]
    BY <1>1, <2>2
  <2> QED
    BY <1>3, <2>3, <2>4 DEF IsRunning
<1>5. RowTypes'
  BY <1>1, <1>2 DEF ConfirmedInv, RowTypes
<1>6. \A x \in Rows : Running(flight', x) = IF x = y THEN Running(flight, x) \ {s} ELSE Running(flight, x)
  BY <1>1, <1>4 DEF Running
<1>7. ASSUME NEW x \in Rows
      PROVE  Cardinality(At(executed', x)) + Cardinality(Running(flight', x)) <= Cardinality(At(approved, x))
  <2>1. Cardinality(Running(flight', x)) = Cardinality(Running(flight, x)) - (IF x = y THEN 1 ELSE 0)
    <3>1. CASE x = y
      <4>1. s \in Running(flight, x)
        BY <1>1, <3>1 DEF Running
      <4> QED
        BY <1>6, <3>1, <4>1, RunningIsFinite, FS_RemoveElement
    <3>2. CASE x # y
      BY <1>6, <3>2, RunningIsFinite
    <3> QED
      BY <3>1, <3>2
  <2>2. Cardinality(At(executed', x)) <= Cardinality(At(executed, x)) + (IF x = y THEN 1 ELSE 0)
    <3>1. CASE done
      <4>1. executed' = Append(executed, y)
        BY <1>1, <3>1
      <4>2. Cardinality(At(executed', x)) = Cardinality(At(executed, x)) + (IF x = y THEN 1 ELSE 0)
        BY <1>2, <4>1, AtAppended
      <4>3. Cardinality(At(executed, x)) \in Nat
        BY <1>2, AtIsFinite
      <4> QED
        BY <4>2, <4>3
    <3>2. CASE ~done
      <4>1. executed' = executed /\ Cardinality(At(executed, x)) \in Nat
        BY <1>1, <1>2, <3>2, AtIsFinite
      <4> QED
        BY <4>1
    <3> QED
      BY <3>1, <3>2
  <2>3. Cardinality(At(executed, x)) \in Nat /\ Cardinality(At(approved, x)) \in Nat
        /\ Cardinality(Running(flight, x)) \in Nat /\ Cardinality(At(executed', x)) \in Nat
    <3>1. executed' \in Seq(Rows)
      BY <1>5 DEF RowTypes
    <3> QED
      BY <1>2, <3>1, AtIsFinite, RunningIsFinite
  <2>4. Cardinality(At(executed, x)) + Cardinality(Running(flight, x)) <= Cardinality(At(approved, x))
    BY DEF ConfirmedInv
  <2> QED
    BY <2>1, <2>2, <2>3, <2>4
<1> QED
  BY <1>1, <1>5, <1>7 DEF ConfirmedInv

LEMMA GoroutineStartsNothing ==
  ASSUME ListsInv, ConfirmedInv, NEW s \in Slots,
         \/ Answered(s) \/ LoadFails(s) \/ Store(s) \/ Show(s) \/ SelectionArrives(s)
         \/ ResultArrives(s)
  PROVE  ConfirmedInv'
<1>0. DOMAIN flight = Slots /\ DOMAIN Without(s) = Slots /\ DOMAIN Overtaken(flight[s].cmd, s) = Slots
  BY DEF ListsInv, GoodFlights, Without, Overtaken
<1>1. UNCHANGED <<approved, executed, confirm>>
  BY DEF Answered, LoadFails, Store, Show, SelectionArrives, ResultArrives, github
<1>2. NothingStarts(flight, Without(s))
  BY <1>0 DEF NothingStarts, Without, IsRunning
<1>3. NothingStarts(flight, Overtaken(flight[s].cmd, s))
  <2>1. \A t \in Slots : Overtaken(flight[s].cmd, s)[t] = flight[t]
           \/ ~IsRunning(Overtaken(flight[s].cmd, s)[t])
    BY DEF Overtaken, Load, IsRunning
  <2> QED
    BY <2>1 DEF NothingStarts
<1>4. CASE Answered(s)
  <2>1. PICK l, a : flight' = [flight EXCEPT ![s] = Load("answered", l, a)]
    BY <1>4 DEF Answered
  <2> QED
    BY <1>0, <1>1, <2>1, ConfirmedStays DEF NothingStarts, IsRunning, Load
<1>5. CASE LoadFails(s) \/ Show(s)
  BY <1>1, <1>2, <1>5, ConfirmedStays DEF LoadFails, Show
<1>6. CASE Store(s)
  <2>1. flight' = [flight EXCEPT ![s] = [flight[s] EXCEPT !.stage = "sent"]] /\ flight[s].kind = "load"
        /\ flight[s] # None
    BY <1>6 DEF Store, Is
  <2>2. GoodLoad(flight[s], known)
    BY <2>1 DEF ListsInv, GoodFlights, GoodFlight, Messages, Actions
  <2>3. PICK new : new = [flight[s] EXCEPT !.stage = "sent"]
    OBVIOUS
  <2>4. PICK l, a, stage : flight[s] = [kind |-> "load", stage |-> stage, list |-> l, asked |-> a]
    BY <2>2 DEF GoodLoad, Loads
  <2>5. new.kind = "load"
    BY <2>3, <2>4
  <2>6. NothingStarts(flight, flight')
    BY <1>0, <2>1, <2>3, <2>5 DEF NothingStarts, IsRunning
  <2> QED
    BY <1>1, <2>6, ConfirmedStays
<1>7. ASSUME NEW fl, DOMAIN fl = Slots, NothingStarts(flight, fl), NothingStarts(fl, flight')
      PROVE  ConfirmedInv'
  <2>1. NothingStarts(flight, flight')
    BY <1>7 DEF NothingStarts
  <2> QED
    BY <1>1, <2>1, ConfirmedStays
<1>8. CASE SelectionArrives(s)
  <2>1. NothingStarts(Without(s), flight')
    <3>1. CASE flight' = Without(s)
      BY <3>1 DEF NothingStarts
    <3>2. CASE LoadCommand(active, selected', FilterOf(active), FALSE, cache, Without(s))
      BY <1>0, <3>2, LoadStartsNothing
    <3> QED
      BY <1>8, <3>1, <3>2 DEF SelectionArrives
  <2> QED
    BY <1>0, <1>2, <1>7, <2>1
<1>9. CASE ResultArrives(s)
  <2>1. flight' = Without(s) \/ NothingStarts(Overtaken(flight[s].cmd, s), flight')
    <3> DEFINE c == flight[s].cmd
    <3>1. CASE flight' = Overtaken(c, s)
      BY <3>1 DEF NothingStarts
    <3>2. CASE LoadCommand(c, selected, FilterOf(c), TRUE, cache', Overtaken(c, s))
      BY <1>0, <3>2, LoadStartsNothing
    <3> QED
      BY <1>9, <3>1, <3>2 DEF ResultArrives
  <2>2. CASE flight' = Without(s)
    BY <1>1, <1>2, <2>2, ConfirmedStays
  <2> QED
    BY <1>0, <1>3, <1>7, <2>1, <2>2
<1> QED
  BY <1>4, <1>5, <1>6, <1>8, <1>9

\* ActsAsConfirmed: GitHub is asked for nothing but what a confirmation answered
\* with y showed, and once for each answer (startConfirm, the closures of tui.go).
THEOREM NothingUnconfirmed == Spec => []ActsAsConfirmed
<1>1. Init => ConfirmedInv
  <2> SUFFICES ASSUME Init PROVE ConfirmedInv
    OBVIOUS
  <2>1. RowTypes
    BY DEF Init, RowTypes
  <2>2. \A x \in Rows : At(executed, x) = {} /\ At(approved, x) = {} /\ Running(flight, x) = {}
    BY DEF Init, At, Running, IsRunning
  <2> QED
    BY <2>1, <2>2, FS_EmptySet DEF ConfirmedInv
<1>2. ListsInv /\ ConfirmedInv /\ [Next]_vars => ConfirmedInv'
  <2> SUFFICES ASSUME ListsInv, ConfirmedInv, [Next]_vars PROVE ConfirmedInv'
    OBVIOUS
  <2>1. CASE UNCHANGED vars
    BY <2>1, ConfirmedStays DEF vars, NothingStarts
  <2>2. CASE UserStep
    BY <2>2, KeyStartsNothing, AcceptConfirms DEF UserStep
  <2>3. ASSUME NEW s \in Slots, GoroutineStep(s) PROVE ConfirmedInv'
    BY <2>3, GoroutineStartsNothing, RunConfirmed DEF GoroutineStep
  <2>4. ASSUME NEW k \in Keys, Expire(k) PROVE ConfirmedInv'
    BY <2>4, ConfirmedStays DEF Expire, NothingStarts
  <2> QED
    BY <2>1, <2>2, <2>3, <2>4 DEF Next
<1>3. ConfirmedInv => ActsAsConfirmed
  <2> SUFFICES ASSUME ConfirmedInv, NEW i \in DOMAIN executed
               PROVE  Cardinality(At(executed, executed[i])) <= Cardinality(At(approved, executed[i]))
    BY DEF ActsAsConfirmed, At
  <2> DEFINE x == executed[i]
  <2>1. x \in Rows /\ executed \in Seq(Rows) /\ approved \in Seq(Rows)
    BY DEF ConfirmedInv, RowTypes
  <2>2. Cardinality(At(executed, x)) + Cardinality(Running(flight, x)) <= Cardinality(At(approved, x))
    BY <2>1 DEF ConfirmedInv
  <2>3. Cardinality(At(executed, x)) \in Nat /\ Cardinality(At(approved, x)) \in Nat
        /\ Cardinality(Running(flight, x)) \in Nat
    BY <2>1, AtIsFinite, RunningIsFinite
  <2>4. \A a, b, c \in Nat : a + b <= c => a <= c
    OBVIOUS
  <2> QED
    BY <2>2, <2>3, <2>4
<1> QED
  BY Invariance, <1>1, <1>2, <1>3, PTL DEF Spec

-----------------------------------------------------------------------------
(* What the panel ends up showing.  As long as at most one goroutine was    *)
(* under way at a time, the one that is answers the last question.          *)

\* The panel shows what is chosen.
Shown ==
  /\ selected = marks
  /\ active # None /\ active \notin OrgWide
       => /\ content # None
          /\ content.cmd = active /\ content.repos = selected /\ content.filter = FilterOf(active)
          /\ selected # {} => content.asOf >= known[active]

\* The load f is for what is chosen, and its rows, once read, are of now.
ForChosen(f) ==
  /\ active # None /\ selected = marks
  /\ f.list.cmd = active /\ f.list.filter = FilterOf(active) /\ ~f.list.overtaken
  /\ active \notin OrgWide => f.list.repos = selected
  /\ f.stage # "asking" /\ active \notin OrgWide /\ selected # {} => f.list.asOf >= known[active]

Answers(f) ==
  \/ f \in Loads /\ ForChosen(f)
  \/ f \in Messages /\ f.repos = marks
  \/ f \in Actions /\ Shown

FiledAsAsked(ch) == \A k \in Keys : ch[k] # None => ch[k].list.filter = k[2] /\ ~ch[k].list.overtaken

\* Nothing is under way and the panel shows what is chosen, or one goroutine is
\* and answers to it.
Quiet == Shown /\ \A t \in Slots : flight[t] = None
Alone == \E s \in Slots : /\ flight[s] # None /\ Answers(flight[s])
                          /\ \A t \in Slots : t # s => flight[t] = None

AloneInv ==
  /\ overlap \in BOOLEAN
  /\ ~overlap => FiledAsAsked(cache) /\ (Quiet \/ Alone)

\* What is launched into empty slots is alone.
LEMMA LaunchedAlone ==
  ASSUME NEW g \in Flights, NEW fl, DOMAIN fl = Slots, AloneInv, Launch(g, fl), ~overlap'
  PROVE  /\ ~overlap /\ \A t \in Slots : fl[t] = None
         /\ \E s \in Slots : /\ flight'[s] = g /\ flight'[s] # None
                             /\ \A t \in Slots : t # s => flight'[t] = None
<1>1. overlap' = (overlap \/ \E t \in Slots : fl[t] # None)
  BY DEF Launch
<1>2. ~overlap /\ \A t \in Slots : fl[t] = None
  BY <1>1 DEF AloneInv
<1>3. PICK s \in Slots : flight' = [fl EXCEPT ![s] = g]
  BY DEF Launch
<1>4. g # None
  BY TuiAssumption
<1> QED
  BY <1>2, <1>3, <1>4

\* overlap never goes back.
LEMMA OverlapGrows ==
  ASSUME AloneInv, NEW g, NEW fl, Launch(g, fl)
  PROVE  overlap' \in BOOLEAN /\ (overlap => overlap')
BY DEF Launch, AloneInv

\* In fl there is but a load of command c for sel and fil, up to date when kn is known.
LoadedAlone(c, sel, fil, kn, fl) ==
  \E s \in Slots :
    /\ fl[s] # None /\ fl[s] \in Loads
    /\ \A t \in Slots : t # s => fl[t] = None
    /\ fl[s].list.cmd = c /\ fl[s].list.filter = fil
    /\ ~fl[s].list.overtaken
    /\ c \notin OrgWide => fl[s].list.repos = sel
    /\ fl[s].stage # "asking" /\ c \notin OrgWide /\ sel # {} => fl[s].list.asOf >= kn[c]

\* What a load of command c for sel launches, when it is launched alone.
LEMMA LoadAlone ==
  ASSUME AloneInv, NEW kn,
         NEW c \in Commands, NEW sel \in SUBSET Repos, NEW fil \in 0 .. Options, NEW force \in BOOLEAN,
         NEW ch, GoodCache(ch, kn), kn[c] \in Nat, ~overlap => FiledAsAsked(ch),
         NEW fl, DOMAIN fl = Slots, LoadCommand(c, sel, fil, force, ch, fl)
  PROVE  /\ overlap' \in BOOLEAN
         /\ ~overlap' => /\ ~overlap /\ \A t \in Slots : fl[t] = None
                         /\ LoadedAlone(c, sel, fil, kn, flight')
<1> DEFINE list == NewList(c, sel, fil)
           cached == ch[<<c, fil>>]
           For(g) == /\ g \in Loads
                     /\ g.list.cmd = c /\ g.list.filter = fil /\ ~g.list.overtaken
                     /\ c \notin OrgWide => g.list.repos = sel
                     /\ g.stage # "asking" /\ c \notin OrgWide /\ sel # {} => g.list.asOf >= kn[c]
<1>1. list \in Lists /\ list.cmd = c /\ list.repos = sel /\ list.filter = fil /\ ~list.overtaken
  BY DEF NewList, Lists
<1>2. For(Load("asking", list, sel)) /\ (sel = {} => For(Load("sent", list, sel)))
  BY <1>1 DEF Load, Loads
<1>3. ~overlap /\ Hit(ch, c, fil, sel) => For(Load("sent", cached.list, sel))
  <2> SUFFICES ASSUME ~overlap, Hit(ch, c, fil, sel) PROVE For(Load("sent", cached.list, sel))
    OBVIOUS
  <2>1. <<c, fil>> \in Keys /\ <<c, fil>>[1] = c /\ <<c, fil>>[2] = fil
    BY DEF Keys
  <2>2. GoodEntry(cached, c, kn) /\ cached.repoKey = sel /\ cached.list.filter = fil /\ ~cached.list.overtaken
    BY <2>1 DEF GoodCache, Hit, FiledAsAsked
  <2>3. cached.list \in Lists /\ cached.list.cmd = c /\ cached.list.asOf >= kn[c]
    BY <2>2 DEF GoodEntry, Entries, UpToDate
  <2> QED
    BY <2>2, <2>3 DEF GoodEntry, Load, Loads
<1>4. PICK g : /\ Launch(g, fl)
               /\ g = Load("asking", list, sel)
                  \/ (sel = {} /\ g = Load("sent", list, sel))
                  \/ (Hit(ch, c, fil, sel) /\ g = Load("sent", cached.list, sel))
  BY DEF LoadCommand
<1>5. overlap' \in BOOLEAN /\ (overlap => overlap')
  BY <1>4, OverlapGrows
<1>6. ASSUME ~overlap' PROVE For(g) /\ g \in Flights
  BY <1>2, <1>3, <1>4, <1>5, <1>6 DEF Flights
<1>7. ASSUME ~overlap'
      PROVE  /\ ~overlap /\ \A t \in Slots : fl[t] = None
             /\ \E s \in Slots : /\ flight'[s] = g /\ flight'[s] # None
                                 /\ \A t \in Slots : t # s => flight'[t] = None
  BY <1>4, <1>6, <1>7, LaunchedAlone
<1> QED
  BY <1>5, <1>6, <1>7 DEF LoadedAlone

\* A load of the active command for the selection is a load of what is chosen.
LEMMA ChosenIsLoaded ==
  ASSUME AloneInv, NEW c \in Commands, NEW fil \in 0 .. Options, NEW force \in BOOLEAN,
         active' = c, FilterOf(c)' = fil, selected' \in SUBSET Repos,
         GoodCache(cache', known'), known'[c] \in Nat, ~overlap => FiledAsAsked(cache'),
         NEW fl, DOMAIN fl = Slots, LoadCommand(c, selected', fil, force, cache', fl),
         ~overlap /\ (\A t \in Slots : fl[t] = None) => selected' = marks'
  PROVE  AloneInv'
<1>1. active' # None
  BY TuiAssumption
<1>2. overlap' \in BOOLEAN
  BY LoadAlone
<1>3. ASSUME ~overlap' PROVE FiledAsAsked(cache)' /\ Alone'
  <2>1. ~overlap /\ (\A t \in Slots : fl[t] = None) /\ LoadedAlone(c, selected', fil, known', flight')
    BY <1>3, LoadAlone
  <2>2. PICK s \in Slots :
          /\ flight'[s] # None /\ flight'[s] \in Loads
          /\ \A t \in Slots : t # s => flight'[t] = None
          /\ flight'[s].list.cmd = c /\ flight'[s].list.filter = fil
          /\ ~flight'[s].list.overtaken
          /\ c \notin OrgWide => flight'[s].list.repos = selected'
          /\ flight'[s].stage # "asking" /\ c \notin OrgWide /\ selected' # {}
               => flight'[s].list.asOf >= known'[c]
    BY <2>1 DEF LoadedAlone
  <2>3. ForChosen(flight[s])'
    BY <1>1, <2>1, <2>2 DEF ForChosen
  <2>4. Alone'
    BY <2>2, <2>3 DEF Alone, Answers
  <2> QED
    BY <2>1, <2>4 DEF FiledAsAsked
<1> QED
  BY <1>2, <1>3 DEF AloneInv

LEMMA NothingElse ==
  ASSUME AloneInv, ~overlap, NEW s \in Slots, flight[s] # None
  PROVE  /\ Answers(flight[s]) /\ FiledAsAsked(cache)
         /\ \A t \in Slots : t # s => flight[t] = None
BY DEF AloneInv, Quiet, Alone

LEMMA QuietIsShown ==
  ASSUME AloneInv, ~overlap, \A t \in Slots : flight[t] = None
  PROVE  Shown /\ FiledAsAsked(cache)
BY DEF AloneInv, Quiet, Alone

LEMMA ForgottenIsFiled == ASSUME NEW c, FiledAsAsked(cache) PROVE FiledAsAsked(Invalidated(c))
BY DEF FiledAsAsked, Invalidated

\* Keys.
LEMMA ChangeAlone ==
  ASSUME ListsInv, AloneInv, NEW sel \in Selections, ChangeSelection(sel)
  PROVE  AloneInv'
<1> DEFINE g == [kind |-> "selection", repos |-> sel]
<1>1. g \in Messages /\ g \in Flights
  BY DEF Messages, Flights, Selections
<1>2. Launch(g, flight) /\ marks' = sel /\ UNCHANGED cache
  BY DEF ChangeSelection
<1>3. overlap' \in BOOLEAN
  BY <1>2, OverlapGrows
<1>4. ASSUME ~overlap' PROVE FiledAsAsked(cache)' /\ Alone'
  <2>1. /\ ~overlap /\ \A t \in Slots : flight[t] = None
        /\ \E s \in Slots : /\ flight'[s] = g /\ flight'[s] # None
                            /\ \A t \in Slots : t # s => flight'[t] = None
    BY <1>1, <1>2, <1>4, LaunchedAlone DEF ListsInv, GoodFlights
  <2>2. Alone'
    BY <1>1, <1>2, <2>1 DEF Alone, Answers
  <2> QED
    BY <1>2, <2>1, <2>2, QuietIsShown DEF FiledAsAsked
<1> QED
  BY <1>3, <1>4 DEF AloneInv

LEMMA SelectAlone ==
  ASSUME ListsInv, PanelTypes, AloneInv, NEW c \in Commands, SelectCommand(c)
  PROVE  AloneInv'
<1>1. /\ UNCHANGED <<filter, marks, selected, cache, known>> /\ active' = c
      /\ LoadCommand(c, selected', FilterOf(c), FALSE, cache', flight)
  BY DEF SelectCommand
<1>2. FilterOf(c)' = FilterOf(c) /\ FilterOf(c) \in 0 .. Options
  BY <1>1, FilterIsKey DEF FilterOf, ListsInv
<1>3. GoodCache(cache', known') /\ known'[c] \in Nat /\ DOMAIN flight = Slots
  BY <1>1 DEF ListsInv, KeyTypes, GoodFlights
<1>4. ~overlap => FiledAsAsked(cache')
  BY <1>1 DEF AloneInv
<1>5. ~overlap /\ (\A t \in Slots : flight[t] = None) => selected' = marks'
  BY <1>1, QuietIsShown DEF Shown
<1>6. selected' \in SUBSET Repos
  BY <1>1 DEF PanelTypes
<1> QED
  BY <1>1, <1>2, <1>3, <1>4, <1>5, <1>6, ChosenIsLoaded

LEMMA RefreshAlone ==
  ASSUME ListsInv, PanelTypes, AloneInv, Refresh \/ HardRefresh \/ CycleFilter
  PROVE  AloneInv'
<1>1. /\ UNCHANGED <<active, marks, selected, known>>
      /\ active \in Commands
      /\ cache' = cache \/ cache' = Invalidated(active)
      /\ filter' \in [Filtered -> 1 .. Options]
  BY NextFilter, TuiAssumption DEF Refresh, HardRefresh, CycleFilter, user, ListsInv, KeyTypes
<1>2. FilterOf(active)' \in 0 .. Options
  BY <1>1, TuiAssumption DEF FilterOf
<1>3. LoadCommand(active, selected', FilterOf(active)', TRUE, cache', flight)
  BY <1>1 DEF Refresh, HardRefresh, CycleFilter, user, FilterOf
<1>4. GoodCache(cache', known') /\ known'[active] \in Nat /\ DOMAIN flight = Slots
  BY <1>1, ForgottenIsGood DEF ListsInv, KeyTypes, GoodFlights
<1>5. ~overlap => FiledAsAsked(cache')
  BY <1>1, ForgottenIsFiled DEF AloneInv
<1>6. ~overlap /\ (\A t \in Slots : flight[t] = None) => selected' = marks'
  BY <1>1, QuietIsShown DEF Shown
<1>7. selected' \in SUBSET Repos /\ active' = active
  BY <1>1 DEF PanelTypes
<1> QED
  BY <1>1, <1>2, <1>3, <1>4, <1>5, <1>6, <1>7, ChosenIsLoaded

LEMMA SameIsAlone ==
  ASSUME AloneInv, UNCHANGED <<active, filter, marks, selected, content, cache, flight, known, overlap>>
  PROVE  AloneInv'
BY DEF AloneInv, Quiet, Alone, Answers, ForChosen, Shown, FilterOf, FiledAsAsked

LEMMA AcceptAlone == ASSUME ListsInv, AloneInv, Accept PROVE AloneInv'
<1> DEFINE g == [kind |-> "action", stage |-> "running", cmd |-> confirm.cmd, row |-> confirm.row]
<1>1. /\ UNCHANGED <<active, filter, marks, selected, content, cache, known>>
      /\ confirm # None /\ Launch(g, flight)
  BY DEF Accept, Close, StartAction, user
<1>2. g \in Actions /\ g \in Flights
  BY <1>1 DEF Actions, Flights, ListsInv, KeyTypes
<1>3. overlap' \in BOOLEAN
  BY <1>1, OverlapGrows
<1>4. ASSUME ~overlap' PROVE FiledAsAsked(cache)' /\ Alone'
  <2>1. /\ ~overlap /\ \A t \in Slots : flight[t] = None
        /\ \E s \in Slots : /\ flight'[s] = g /\ flight'[s] # None
                            /\ \A t \in Slots : t # s => flight'[t] = None
    BY <1>1, <1>2, <1>4, LaunchedAlone DEF ListsInv, GoodFlights
  <2>2. Shown /\ FiledAsAsked(cache)
    BY <2>1, QuietIsShown
  <2>3. Shown'
    BY <1>1, <2>2 DEF Shown, FilterOf
  <2>4. Alone'
    BY <1>2, <2>1, <2>3 DEF Alone, Answers
  <2> QED
    BY <1>1, <2>2, <2>4 DEF FiledAsAsked
<1> QED
  BY <1>3, <1>4 DEF AloneInv

\* Goroutines.  The one of slot s goes on as f, with nothing else under way.
LEMMA GoesOnAlone ==
  ASSUME AloneInv, ListsInv, NEW s \in Slots, flight[s] # None, UNCHANGED overlap,
         NEW f, flight' = [flight EXCEPT ![s] = f],
         ~overlap => FiledAsAsked(cache)' /\ (IF f = None THEN Shown' ELSE Answers(f)')
  PROVE  AloneInv'
<1>1. DOMAIN flight = Slots
  BY DEF ListsInv, GoodFlights
<1>2. ASSUME ~overlap, f = None PROVE Quiet'
  BY <1>1, <1>2, NothingElse DEF Quiet
<1>3. ASSUME ~overlap, f # None PROVE Alone'
  BY <1>1, <1>3, NothingElse DEF Alone
<1> QED
  BY <1>2, <1>3 DEF AloneInv

LEMMA AnsweredAlone == ASSUME ListsInv, AloneInv, NEW s \in Slots, Answered(s) PROVE AloneInv'
<1>1. UNCHANGED <<active, filter, marks, selected, content, cache, known, overlap>>
  BY DEF Answered, user
<1>2. PICK l \in Lists :
        /\ flight' = [flight EXCEPT ![s] = Load("answered", l, flight[s].asked)]
        /\ l.cmd = flight[s].list.cmd /\ l.repos = flight[s].list.repos
        /\ l.filter = flight[s].list.filter /\ l.overtaken = flight[s].list.overtaken
        /\ l.asOf >= known[l.cmd]
  BY AnswerIsRead
<1>3. flight[s] # None /\ flight[s] \in Loads
  BY AnswerIsRead DEF GoodLoad
<1>0. PICK g : g = Load("answered", l, flight[s].asked)
  OBVIOUS
<1>4. g \in Loads /\ g # None /\ g.list = l
  BY <1>0, <1>3, TuiAssumption DEF Loads, Load, Flights
<1>5. ASSUME ~overlap PROVE FiledAsAsked(cache)' /\ Answers(g)'
  <2>1. ForChosen(flight[s])
    BY <1>3, <1>5, NothingElse DEF Answers, Loads, Messages, Actions
  <2>2. ForChosen(g)'
    BY <1>1, <1>2, <1>4, <2>1 DEF ForChosen, FilterOf
  <2> QED
    BY <1>1, <1>4, <1>5, <2>2 DEF AloneInv, Answers, FiledAsAsked
<1> QED
  BY <1>0, <1>1, <1>2, <1>3, <1>4, <1>5, GoesOnAlone

LEMMA FailsAlone == ASSUME ListsInv, AloneInv, NEW s \in Slots, LoadFails(s) PROVE AloneInv'
<1>1. /\ UNCHANGED <<active, filter, marks, selected, content, cache, known, overlap>>
      /\ flight[s] # None /\ flight[s].kind = "load" /\ flight[s].list.cmd \in OrgWide
      /\ flight' = [flight EXCEPT ![s] = None]
  BY DEF LoadFails, Is, Without, user
<1>2. ASSUME ~overlap PROVE FiledAsAsked(cache)' /\ Shown'
  <2>1. ForChosen(flight[s])
    BY <1>1, <1>2, NothingElse DEF Answers, Messages, Actions
  <2> QED
    BY <1>1, <1>2, <2>1 DEF ForChosen, Shown, AloneInv, FiledAsAsked
<1> QED
  BY <1>1, <1>2, GoesOnAlone

LEMMA StoreAlone == ASSUME ListsInv, AloneInv, NEW s \in Slots, Store(s) PROVE AloneInv'
<1> DEFINE f == flight[s]
           k == Key(f.list.cmd)
<1>1. /\ UNCHANGED <<active, filter, marks, selected, content, known, overlap>>
      /\ f # None /\ f.kind = "load" /\ f.stage = "answered"
      /\ \E e : e.list = f.list /\ cache' = [cache EXCEPT ![k] = e]
  BY DEF Store, Is, user
<1>2. f \in Loads
  BY <1>1 DEF ListsInv, GoodFlights, GoodFlight, GoodLoad, Messages, Actions
<1>0. PICK g : g = Load("sent", f.list, f.asked)
  OBVIOUS
<1>3. flight' = [flight EXCEPT ![s] = g]
  <2>1. f = Load("answered", f.list, f.asked)
    BY <1>1, <1>2 DEF Loads, Load
  <2>2. g = [f EXCEPT !.stage = "sent"]
    BY <1>0, <2>1 DEF Load
  <2>3. flight' = [flight EXCEPT ![s] = [f EXCEPT !.stage = "sent"]]
    BY DEF Store
  <2> QED
    BY <2>2, <2>3
<1>4. g \in Loads /\ g # None /\ g.list = f.list /\ g.stage = "sent"
  BY <1>0, <1>2, TuiAssumption DEF Loads, Load, Flights
<1>5. ASSUME ~overlap PROVE FiledAsAsked(cache)' /\ Answers(g)'
  <2>1. ForChosen(f) /\ FiledAsAsked(cache)
    BY <1>1, <1>2, <1>5, NothingElse DEF Answers, Messages, Actions
  <2>2. ForChosen(g)'
    BY <1>1, <1>4, <2>1 DEF ForChosen, FilterOf
  <2>3. k[2] = f.list.filter
    BY <2>1 DEF ForChosen, Key
  <2>4. DOMAIN cache = Keys
    BY DEF ListsInv, GoodCache
  <2>5. FiledAsAsked(cache)'
    BY <1>1, <2>1, <2>3, <2>4 DEF FiledAsAsked, ForChosen
  <2> QED
    BY <1>4, <2>2, <2>5 DEF Answers
<1> QED
  BY <1>1, <1>3, <1>4, <1>5, GoesOnAlone

LEMMA ShowAlone == ASSUME ListsInv, AloneInv, NEW s \in Slots, Show(s) PROVE AloneInv'
<1>1. /\ UNCHANGED <<active, filter, marks, selected, cache, known, overlap>>
      /\ flight[s] # None /\ flight[s].kind = "load" /\ flight[s].stage = "sent"
      /\ content' = flight[s].list
      /\ flight' = [flight EXCEPT ![s] = None]
  BY DEF Show, Is, Without, user
<1>2. flight[s].list \in Lists
  BY <1>1 DEF ListsInv, GoodFlights, GoodFlight, GoodLoad, Loads, Messages, Actions
<1>3. ASSUME ~overlap PROVE FiledAsAsked(cache)' /\ Shown'
  <2>1. ForChosen(flight[s]) /\ FiledAsAsked(cache)
    BY <1>1, <1>3, NothingElse DEF Answers, Messages, Actions
  <2>2. content' # None
    BY <1>1, <1>2, TuiAssumption
  <2> QED
    BY <1>1, <2>1, <2>2 DEF ForChosen, Shown, FilterOf, FiledAsAsked
<1> QED
  BY <1>1, <1>3, GoesOnAlone

LEMMA SelectionAlone == ASSUME ListsInv, AloneInv, NEW s \in Slots, SelectionArrives(s) PROVE AloneInv'
<1>1. /\ UNCHANGED <<active, filter, marks, content, cache, known>>
      /\ flight[s] # None /\ flight[s].kind = "selection"
      /\ selected' = flight[s].repos
      /\ \/ active = None /\ flight' = Without(s) /\ UNCHANGED overlap
         \/ active # None /\ LoadCommand(active, selected', FilterOf(active), FALSE, cache', Without(s))
  BY DEF SelectionArrives
<1>2. selected' \in SUBSET Repos /\ flight[s] \in Messages
  BY <1>1 DEF ListsInv, GoodFlights, GoodFlight, GoodLoad, Loads, Messages, Actions
<1>3. ~overlap => selected' = marks' /\ FiledAsAsked(cache)'
  BY <1>1, <1>2, NothingElse DEF Answers, Loads, Messages, Actions, FiledAsAsked
<1>4. CASE active = None
  <2>1. flight' = [flight EXCEPT ![s] = None] /\ UNCHANGED overlap
    BY <1>1, <1>4 DEF Without
  <2>2. ~overlap => Shown'
    BY <1>1, <1>3, <1>4 DEF Shown
  <2> QED
    BY <1>1, <1>3, <2>1, <2>2, GoesOnAlone
<1>5. CASE active # None
  <2>1. active \in Commands /\ active' = active
    BY <1>1, <1>5 DEF ListsInv, KeyTypes
  <2>2. FilterOf(active)' = FilterOf(active) /\ FilterOf(active) \in 0 .. Options
    BY <1>1, <2>1, FilterIsKey DEF FilterOf, ListsInv
  <2>3. GoodCache(cache', known') /\ known'[active] \in Nat /\ DOMAIN Without(s) = Slots
    BY <1>1, <2>1 DEF ListsInv, KeyTypes, GoodFlights, Without
  <2>4. ~overlap => FiledAsAsked(cache')
    BY <1>3 DEF FiledAsAsked
  <2> QED
    BY <1>1, <1>2, <1>3, <1>5, <2>1, <2>2, <2>3, <2>4, ChosenIsLoaded
<1> QED
  BY <1>4, <1>5

LEMMA RunAlone ==
  ASSUME ListsInv, AloneInv, NEW s \in Slots, NEW done \in BOOLEAN, NEW reported \in {"success", "failure"},
         RunAction(s, done, reported)
  PROVE  AloneInv'
<1> DEFINE f == flight[s]
<1>1. /\ UNCHANGED <<active, filter, marks, selected, content, cache, known, overlap>>
      /\ f # None /\ f.kind = "action"
      /\ flight' = [flight EXCEPT ![s] = [f EXCEPT !.stage = reported]]
  BY DEF RunAction, Is, user
<1>2. f \in Actions
  BY <1>1 DEF ListsInv, GoodFlights, GoodFlight, GoodLoad, Loads, Messages
<1>3. PICK g : g = [f EXCEPT !.stage = reported]
  OBVIOUS
<1>4. g \in Actions /\ g # None
  <2>1. PICK c, r, stage : f = [kind |-> "action", stage |-> stage, cmd |-> c, row |-> r]
    BY <1>2 DEF Actions
  <2>4. c \in Commands /\ r \in Repos
    BY <1>2, <2>1 DEF Actions
  <2>2. g = [kind |-> "action", stage |-> reported, cmd |-> c, row |-> r]
    BY <1>3, <2>1
  <2>3. g \in Actions
    BY <2>2, <2>4 DEF Actions
  <2> QED
    BY <2>3, TuiAssumption DEF Flights
<1>5. ASSUME ~overlap PROVE FiledAsAsked(cache)' /\ Answers(g)'
  <2>1. Shown /\ FiledAsAsked(cache)
    BY <1>1, <1>2, <1>5, NothingElse DEF Answers, Loads, Messages, Actions
  <2>2. Shown'
    BY <1>1, <2>1 DEF Shown, FilterOf
  <2> QED
    BY <1>1, <1>4, <2>1, <2>2 DEF Answers, FiledAsAsked
<1> QED
  BY <1>1, <1>3, <1>4, <1>5, GoesOnAlone

LEMMA ResultAlone == ASSUME ListsInv, PanelTypes, AloneInv, NEW s \in Slots, ResultArrives(s) PROVE AloneInv'
<1>1. /\ UNCHANGED <<active, filter, marks, selected, content>>
      /\ flight[s] # None /\ flight[s].kind = "action"
  BY DEF ResultArrives, Is, user
<1>2. ~overlap => Shown /\ FiledAsAsked(cache) /\ \A t \in Slots : t # s => flight[t] = None
  BY <1>1, NothingElse DEF Answers, Loads, Messages
<1>3. CASE Is(s, "action", "failure")
  <2>1. flight' = [flight EXCEPT ![s] = None] /\ UNCHANGED <<cache, known, overlap>>
    BY <1>3 DEF ResultArrives, Is, Without
  <2>2. ~overlap => FiledAsAsked(cache)' /\ Shown'
    BY <1>1, <1>2, <2>1 DEF Shown, FilterOf, FiledAsAsked
  <2> QED
    BY <1>1, <2>1, <2>2, GoesOnAlone
<1>4. CASE Is(s, "action", "success")
  <2>0. PICK c : c = flight[s].cmd
    OBVIOUS
  <2> DEFINE fl == Overtaken(c, s)
  <2>1. /\ known' = [known EXCEPT ![c] = @ + 1]
        /\ cache' = Invalidated(c)
        /\ \/ active = c /\ LoadCommand(c, selected, FilterOf(c), TRUE, cache', fl)
           \/ active # c /\ flight' = fl /\ UNCHANGED overlap
    BY <1>4, <2>0 DEF ResultArrives, Is
  <2>2. c \in Commands /\ known' \in [Commands -> Nat] /\ GoodCache(cache', known')
    BY <1>4, <2>0, <2>1, ToldKept
  <2>3. ~overlap => FiledAsAsked(cache') /\ FiledAsAsked(cache)'
    BY <1>2, <2>1, ForgottenIsFiled DEF FiledAsAsked
  <2>4. DOMAIN fl = Slots
    BY DEF Overtaken
  <2>5. CASE active = c
    <3>1. LoadCommand(c, selected', FilterOf(c), TRUE, cache', fl)
      BY <1>1, <2>1, <2>5
    <3>2. FilterOf(c)' = FilterOf(c) /\ FilterOf(c) \in 0 .. Options
      BY <1>1, <2>2, FilterIsKey DEF FilterOf, ListsInv
    <3>3. ~overlap => selected' = marks'
      BY <1>1, <1>2 DEF Shown
    <3>4. active' = c /\ selected' \in SUBSET Repos /\ known'[c] \in Nat
      BY <1>1, <2>2, <2>5 DEF PanelTypes
    <3> QED
      BY <2>2, <2>3, <2>4, <3>1, <3>2, <3>3, <3>4, ChosenIsLoaded
  <2>6. CASE active # c
    <3>1. ASSUME ~overlap PROVE \A t \in Slots : fl[t] = None
      BY <1>2, <3>1 DEF Overtaken
    <3>2. ASSUME ~overlap PROVE Shown'
      <4>1. active # None => known'[active] = known[active]
        BY <2>1, <2>6 DEF ListsInv, KeyTypes
      <4> QED
        BY <1>1, <1>2, <3>2, <4>1 DEF Shown, FilterOf
    <3> QED
      BY <2>1, <2>3, <2>6, <3>1, <3>2 DEF AloneInv, Quiet
  <2> QED
    BY <2>5, <2>6
<1> QED
  BY <1>3, <1>4 DEF ResultArrives

LEMMA ExpireAlone == ASSUME ListsInv, AloneInv, NEW k \in Keys, Expire(k) PROVE AloneInv'
<1>1. /\ UNCHANGED <<active, filter, marks, selected, content, flight, known, overlap>>
      /\ cache[k] # None
      /\ cache' = [cache EXCEPT ![k] = [cache[k] EXCEPT !.stale = TRUE]]
  BY DEF Expire, user
<1>2. PICK e : e = [cache[k] EXCEPT !.stale = TRUE]
  OBVIOUS
<1>3. e.list = cache[k].list /\ DOMAIN cache = Keys
  <2>1. cache[k] \in Entries /\ DOMAIN cache = Keys
    BY <1>1 DEF ListsInv, GoodCache, GoodEntry
  <2>2. cache[k] = [list |-> cache[k].list, repoKey |-> cache[k].repoKey, stale |-> cache[k].stale]
    BY <2>1 DEF Entries
  <2>3. e = [list |-> cache[k].list, repoKey |-> cache[k].repoKey, stale |-> TRUE]
    BY <1>2, <2>2
  <2> QED
    BY <2>1, <2>3
<1>4. FiledAsAsked(cache) => FiledAsAsked(cache)'
  BY <1>1, <1>2, <1>3 DEF FiledAsAsked
<1> QED
  BY <1>1, <1>4 DEF AloneInv, Quiet, Alone, Answers, ForChosen, Shown, FilterOf

\* ShowsSelection: as long as goroutines never overlap, the panel ends up showing
\* the active command under its filter for the marked repositories, with every
\* action in it that the loop was told of (Update, loadCommand, dataCache).
THEOREM PanelShowsSelection == Spec => []ShowsSelection
<1>1. Init => AloneInv
  BY DEF Init, AloneInv, FiledAsAsked, Quiet, Shown
<1>2. ListsInv /\ PanelTypes /\ AloneInv /\ [Next]_vars => AloneInv'
  <2> SUFFICES ASSUME ListsInv, PanelTypes, AloneInv, [Next]_vars PROVE AloneInv'
    OBVIOUS
  <2>1. CASE UNCHANGED vars
    BY <2>1, SameIsAlone DEF vars
  <2>2. ASSUME NEW r \in Repos, AskConfirm(r) PROVE AloneInv'
    BY <2>2, SameIsAlone DEF AskConfirm, user
  <2>3. CASE Decline
    BY <2>3, SameIsAlone DEF Decline, Close, user
  <2>4. CASE UserStep
    BY <2>2, <2>3, <2>4, ChangeAlone, SelectAlone, RefreshAlone, AcceptAlone DEF UserStep
  <2>5. ASSUME NEW s \in Slots, GoroutineStep(s) PROVE AloneInv'
    BY <2>5, AnsweredAlone, FailsAlone, StoreAlone, ShowAlone, SelectionAlone, RunAlone, ResultAlone
       DEF GoroutineStep
  <2> QED
    BY <2>1, <2>4, <2>5, ExpireAlone DEF Next
<1>3. AloneInv => ShowsSelection
  BY DEF AloneInv, Quiet, Alone, Shown, ShowsSelection
<1> QED
  BY Invariance, <1>1, <1>2, <1>3, PTL DEF Spec

-----------------------------------------------------------------------------
(* TuiWatch: its types, and that a watch that is on always has a link of a *)
(* chain under way.  The two are inductive together.                       *)

WatchInv == WatchTypeOK /\ WatchIsAlive

\* Nothing is watched at first.
LEMMA WatchInitially == WatchInit => WatchInv
<1> SUFFICES ASSUME WatchInit PROVE WatchInv
  OBVIOUS
<1>1. NoLink \in Links /\ NoDetail \in Details /\ 0 \in 0 .. MaxPanelKeys
  BY WatchAssumption DEF NoLink, Links, NoDetail, Details
<1> QED BY <1>1 DEF WatchInit, WatchInv, WatchTypeOK, WatchIsAlive

\* Starting a watch sets its flag and its run and puts a tick into a free chain.
LEMMA StartIsAlive ==
  ASSUME WatchTypeOK, NEW r \in Runs, StartWatch(r)
  PROVE  /\ watching' = TRUE /\ watchRun' = r
         /\ chain' \in [Chains -> Links]
         /\ \E c \in Chains : chain'[c] # NoLink
<1>1. PICK c \in Chains : chain[c] = NoLink /\ chain' = [chain EXCEPT ![c] = Tick]
  BY DEF StartWatch
<1>2. Tick \in Links /\ Tick # NoLink
  BY DEF Tick, Links, NoLink
<1>3. chain' \in [Chains -> Links] /\ chain'[c] # NoLink
  BY <1>1, <1>2 DEF WatchTypeOK
<1> QED BY <1>3 DEF StartWatch

\* Every step keeps the types and the watch alive.
LEMMA WatchKept == WatchInv /\ [WatchNext]_watchVars => WatchInv'
<1> SUFFICES ASSUME WatchInv, [WatchNext]_watchVars PROVE WatchInv'
  OBVIOUS
<1> USE DEF panel, watch
<1>1. ASSUME NEW r \in Runs, ToggleWatch(r) PROVE WatchInv'
  <2>1. CASE watching
    <3>1. StopWatch
      BY <1>1, <2>1 DEF ToggleWatch
    <3>2. panelKeys' \in 0 .. MaxPanelKeys
      BY <1>1, WatchAssumption DEF ToggleWatch, PressPanelKey, WatchInv, WatchTypeOK
    <3>3. UNCHANGED <<onWorkflows, focus, visible, load, ended>>
      BY <1>1 DEF ToggleWatch
    <3> QED BY <3>1, <3>2, <3>3 DEF StopWatch, WatchInv, WatchTypeOK, WatchIsAlive
  <2>2. CASE ~watching
    <3>1. StartWatch(r)
      BY <1>1, <2>2 DEF ToggleWatch
    <3>2. /\ watching' = TRUE /\ watchRun' = r /\ chain' \in [Chains -> Links]
          /\ \E c \in Chains : chain'[c] # NoLink
      BY <3>1, StartIsAlive DEF WatchInv
    <3> QED BY <1>1, <3>2, WatchAssumption DEF ToggleWatch, PressPanelKey, WatchInv, WatchTypeOK, WatchIsAlive
  <2> QED BY <2>1, <2>2
<1>2. ASSUME NEW row \in Runs \cup {NoRun}, LoadDetail(row) PROVE WatchInv'
  <2>1. PICK l \in DetailLoads : load' = [load EXCEPT ![l] = [stage |-> "asking", run |-> row]]
    BY <1>2 DEF LoadDetail
  <2>2. load' \in [DetailLoads -> Details]
    BY <2>1 DEF WatchInv, WatchTypeOK, Details
  <2> QED BY <1>2, <2>2, WatchAssumption DEF LoadDetail, PressPanelKey, WatchInv, WatchTypeOK, WatchIsAlive
<1>3. ASSUME NEW r \in Runs, RunEnds(r) PROVE WatchInv'
  BY <1>3 DEF RunEnds, WatchInv, WatchTypeOK, WatchIsAlive
<1>4. CASE CloseDetail
  BY <1>4 DEF CloseDetail, StopWatch, WatchInv, WatchTypeOK, WatchIsAlive
<1>5. CASE HideDetail
  BY <1>5 DEF HideDetail, WatchInv, WatchTypeOK, WatchIsAlive
<1>6. CASE SwitchCommand
  BY <1>6 DEF SwitchCommand, WatchInv, WatchTypeOK, WatchIsAlive
<1>7. CASE MoveFocus
  BY <1>7 DEF MoveFocus, WatchInv, WatchTypeOK, WatchIsAlive
<1>8. ASSUME NEW l \in DetailLoads, NEW title \in Titles, DetailShown(l, title) PROVE WatchInv'
  <2>1. load' \in [DetailLoads -> Details]
    <3>1. NoDetail \in Details
      BY DEF NoDetail, Details
    <3> QED BY <1>8, <3>1 DEF DetailShown, WatchInv, WatchTypeOK
  <2>2. ASSUME NEW r \in Runs, StartWatch(r) PROVE WatchInv'
    BY <1>8, <2>1, <2>2, StartIsAlive, WatchAssumption DEF DetailShown, WatchInv, WatchTypeOK, WatchIsAlive
  <2>3. load[l].stage = "autoWatch" => load[l].run \in Runs
    BY DEF WatchInv, WatchTypeOK, Details
  <2>4. watching => watchRun \in Runs
    BY DEF WatchInv, WatchTypeOK
  <2>5. CASE StopWatch
    BY <1>8, <2>1, <2>5 DEF DetailShown, StopWatch, WatchInv, WatchTypeOK, WatchIsAlive
  <2>6. CASE UNCHANGED <<watch, chain>>
    BY <1>8, <2>1, <2>6 DEF DetailShown, watch, WatchInv, WatchTypeOK, WatchIsAlive
  <2> QED
    BY <1>8, <2>2, <2>3, <2>4, <2>5, <2>6 DEF DetailShown
<1>9. ASSUME NEW l \in DetailLoads, NEW ok \in BOOLEAN, DetailAnswered(l, ok) PROVE WatchInv'
  BY <1>9 DEF DetailAnswered, WatchInv, WatchTypeOK, WatchIsAlive, Details
<1>10. ASSUME NEW c \in Chains, TickFires(c) PROVE WatchInv'
  <2>1. watching => [link |-> "request", run |-> watchRun] \in Links \ {NoLink}
    BY DEF WatchInv, WatchTypeOK, Links, NoLink
  <2>2. chain' \in [Chains -> Links] /\ (watching => chain'[c] # NoLink)
    BY <1>10, <2>1 DEF TickFires, WatchInv, WatchTypeOK, Links, NoLink
  <2> QED BY <1>10, <2>2 DEF TickFires, WatchInv, WatchTypeOK, WatchIsAlive
<1>11. ASSUME NEW c \in Chains, NEW ok \in BOOLEAN, RequestAnswered(c, ok) PROVE WatchInv'
  <2>1. chain[c].run \in Runs
    BY <1>11 DEF RequestAnswered, WatchInv, WatchTypeOK, Links
  <2>2. chain' \in [Chains -> Links] /\ chain'[c] # NoLink
    BY <1>11, <2>1 DEF RequestAnswered, WatchInv, WatchTypeOK, Links, NoLink
  <2> QED BY <1>11, <2>2 DEF RequestAnswered, WatchInv, WatchTypeOK, WatchIsAlive
<1>12. ASSUME NEW c \in Chains, AnswerShown(c) PROVE WatchInv'
  <2>1. Tick \in Links \ {NoLink} /\ NoLink \in Links
    BY DEF Tick, Links, NoLink
  <2>2. chain' \in [Chains -> Links] /\ (watching' => chain'[c] # NoLink)
    BY <1>12, <2>1 DEF AnswerShown, WatchInv, WatchTypeOK
  <2> QED BY <1>12, <2>2 DEF AnswerShown, WatchInv, WatchTypeOK, WatchIsAlive
<1>13. ASSUME NEW l \in DetailLoads, OtherAnswered(l) PROVE WatchInv'
  BY <1>13 DEF OtherAnswered, WatchInv, WatchTypeOK, WatchIsAlive, Details
<1>14. CASE UNCHANGED watchVars
  BY <1>14 DEF watchVars, WatchInv, WatchTypeOK, WatchIsAlive
<1> QED BY <1>1, <1>2, <1>3, <1>4, <1>5, <1>6, <1>7, <1>8, <1>9, <1>10, <1>11, <1>12, <1>13, <1>14
        DEF WatchNext, ChainStep

\* The inductive invariant holds throughout.
THEOREM WatchInvariance == WatchSpec => []WatchInv
  BY WatchInitially, WatchKept, PTL DEF WatchSpec

\* Every variable of the panel keeps its type, and the focus is never on a panel
\* that is closed.
THEOREM WatchTypes == WatchSpec => []WatchTypeOK
<1>1. WatchInv => WatchTypeOK
  BY DEF WatchInv
<1> QED BY <1>1, WatchInvariance, PTL

\* A watch that is on is never left without a tick, a request or an answer, whatever
\* the number of runs, of chains and of details being loaded.
THEOREM WatchStaysAlive == WatchSpec => []WatchIsAlive
<1>1. WatchInv => WatchIsAlive
  BY DEF WatchInv
<1> QED BY <1>1, WatchInvariance, PTL
=============================================================================
