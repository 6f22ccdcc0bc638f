--------------------------- MODULE PrPromptProofs ---------------------------
(***************************************************************************)
(* Theorems about the pull request prompt, for any pull requests and any   *)
(* number of keys: what it asks of GitHub was agreed to, and its diff is   *)
(* always cut inside its lines.                                            *)
(***************************************************************************)
EXTENDS PrPrompt, TLAPS

-----------------------------------------------------------------------------
(* DiffIsInside.                                                            *)

\* What the arithmetic of the scroll keys needs.
DiffTypes == diffLines \in Nat /\ diffScroll \in Nat /\ height \in Int

DiffInv == DiffTypes /\ diffScroll <= diffLines

LEMMA VisibleIsPositive == ASSUME DiffTypes PROVE Visible \in Nat \ {0}
BY DEF DiffTypes, Visible, Larger

\* The keys that scroll.
LEMMA ScrollsInside ==
  ASSUME DiffInv,
         ScrollDown \/ ScrollUp \/ PageDown \/ PageUp \/ GoToTop \/ GoToBottom
  PROVE  DiffInv'
<1>1. Visible \in Nat \ {0}
  BY VisibleIsPositive DEF DiffInv
<1>2. diffLines' = diffLines /\ height' = height
  BY DEF ScrollDown, ScrollUp, PageDown, PageUp, GoToTop, GoToBottom, Scrolls
<1>3. CASE ScrollDown \/ ScrollUp \/ GoToTop
  BY <1>1, <1>2, <1>3 DEF ScrollDown, ScrollUp, GoToTop, Scrolls, DiffInv, DiffTypes
<1>4. CASE PageDown \/ PageUp \/ GoToBottom
  BY <1>1, <1>2, <1>4 DEF PageDown, PageUp, GoToBottom, Scrolls, Bottom, Larger, DiffInv, DiffTypes
<1> QED
  BY <1>3, <1>4

\* What opens the diff, closes it or changes its size.
LEMMA OverlayInside ==
  ASSUME DiffInv, CloseDiff \/ Resize \/ (\E n \in Lengths : DiffLoadedMsg(n))
  PROVE  DiffInv'
<1>1. CASE CloseDiff
  BY <1>1 DEF CloseDiff, DiffInv, DiffTypes
<1>2. CASE Resize
  BY <1>2, PromptAssumption DEF Resize, DiffInv, DiffTypes
<1>3. ASSUME NEW n \in Lengths, DiffLoadedMsg(n) PROVE DiffInv'
  <2>1. n \in Nat /\ Heights \subseteq Int
    BY PromptAssumption
  <2>2. CASE showDiff
    <3>1. diffLines' = diffLines /\ diffScroll' = diffScroll /\ height' = height
      BY <1>3, <2>2 DEF DiffLoadedMsg, overlay
    <3> QED
      BY <3>1 DEF DiffInv, DiffTypes
  <2>3. CASE ~showDiff
    <3>1. diffLines' = n /\ diffScroll' = 0 /\ height' \in Heights
      BY <1>3, <2>3 DEF DiffLoadedMsg
    <3> QED
      BY <2>1, <3>1 DEF DiffInv, DiffTypes
  <2> QED
    BY <2>2, <2>3
<1> QED
  BY <1>1, <1>2, <1>3

\* All the rest leaves the overlay alone.
LEMMA RestKeepsOverlay ==
  ASSUME PromptNext,
         ~(ScrollDown \/ ScrollUp \/ PageDown \/ PageUp \/ GoToTop \/ GoToBottom),
         ~(CloseDiff \/ Resize \/ (\E n \in Lengths : DiffLoadedMsg(n)))
  PROVE  UNCHANGED overlay
<1>1. CASE Press
  BY <1>1 DEF Press, PressStatus, PressAction, PressDiff, PressRefresh, PressMove, PressQuit, PressYes
<1>2. CASE Goroutines
  BY <1>2 DEF Goroutines, ReadDetails, GiveUp, Act, Reread, Update, ReadList
<1>3. CASE Messages
  BY <1>3 DEF Messages, ConfirmMsg, EventMsg, SectionEvent, RefreshEvent
<1>4. CASE \E p \in Prs : \E state \in States : OthersAct(p, state)
  BY <1>4 DEF OthersAct
<1> QED
  BY <1>1, <1>2, <1>3, <1>4 DEF PromptNext

\* DiffIsInside: View's diffLines[diffScroll:end] never panics, for diffs of any
\* length and screens of any height, which may change at any time.
THEOREM DiffNeverPanics == PromptSpec => []DiffIsInside
<1>1. PromptInit => DiffInv
  BY DEF PromptInit, DiffInv, DiffTypes
<1>2. DiffInv /\ [PromptNext]_promptVars => DiffInv'
  <2> SUFFICES ASSUME DiffInv, [PromptNext]_promptVars PROVE DiffInv'
    OBVIOUS
  <2>1. CASE UNCHANGED overlay
    BY <2>1 DEF overlay, DiffInv, DiffTypes
  <2> QED
    BY <2>1, ScrollsInside, OverlayInside, RestKeepsOverlay DEF promptVars
<1>3. DiffInv => DiffIsInside
  BY DEF DiffInv, DiffTypes, DiffIsInside
<1> QED
  BY <1>1, <1>2, <1>3, PTL DEF PromptSpec

-----------------------------------------------------------------------------
(* ActsAsConfirmed.  A key gives its command a number of its own; under it *)
(* there is first a prompt, then, once that is confirmed, one event.       *)

IsEvent(e) ==
  e = [id |-> e.id, type |-> e.type, pr |-> e.pr, step |-> e.step, state |-> e.state, good |-> e.good]

NothingAsked(id) == \A a \in DOMAIN acts : a.id # id

\* Nothing has come of the prompt of this number.
Unanswered(id) ==
  /\ \A e \in events : e.id # id
  /\ NothingAsked(id)

NumbersAreOld ==
  /\ pressed \in Nat
  /\ confirmPending = None \/ confirmPending.id \in 1..pressed
  /\ \A c \in prompts : c.id \in 1..pressed
  /\ \A e \in events : e.id \in 1..pressed
  /\ \A a \in DOMAIN acts : a.id \in 1..pressed

PromptsAreUnanswered ==
  /\ \A c \in prompts : c.type \in Types /\ Unanswered(c.id) /\ c.id # confirmPending.id
  /\ \A c, d \in prompts : c.id = d.id => c = d
  /\ confirmPending # None => confirmPending.type \in Types /\ Unanswered(confirmPending.id)

\* The requests an event has behind it, at the step where it is.
AskedSoFar(e) ==
  /\ e.step \in {"sent", "read"} => NothingAsked(e.id)
  /\ e.step = "approve" => e.type \in {"APPROVE", "APPROVE_MERGE"} /\ NothingAsked(e.id)
  /\ e.step = "close" => e.type = "CLOSE" /\ NothingAsked(e.id)
  /\ e.step = "merge" =>
       \/ e.type = "MERGE" /\ NothingAsked(e.id)
       \/ /\ e.type = "APPROVE_MERGE" /\ Accepted(e.id, "approve")
          /\ \A a \in DOMAIN acts : a.id = e.id => a.what # "merge"

Agreed(e) == \E c \in confirmed : c.id = e.id /\ c.type = e.type /\ c.pr = e.pr

EventsAreAgreed ==
  /\ \A e \in events :
       /\ IsEvent(e) /\ e.type \in Types \cup {"STATUS"}
       /\ e.type # "STATUS" => Agreed(e)
       /\ AskedSoFar(e)
  /\ \A e, f \in events : e.id = f.id => e = f

PromptInv == NumbersAreOld /\ PromptsAreUnanswered /\ EventsAreAgreed /\ ActsAsConfirmed

\* An event that moves on without a request.
LEMMA EventMoves ==
  ASSUME PromptInv, NEW e \in events, NEW new, IsEvent(new),
         new.id = e.id, new.type = e.type, new.pr = e.pr, AskedSoFar(new),
         events' = (events \ {e}) \cup {new},
         UNCHANGED <<pressed, confirmPending, prompts, confirmed, acts>>
  PROVE  PromptInv'
<1>1. NumbersAreOld'
  BY DEF PromptInv, NumbersAreOld
<1>2. PromptsAreUnanswered'
  BY DEF PromptInv, PromptsAreUnanswered, Unanswered, NothingAsked
<1>3. EventsAreAgreed'
  BY DEF PromptInv, EventsAreAgreed, IsEvent, Agreed, AskedSoFar, NothingAsked, Accepted
<1>4. ActsAsConfirmed'
  BY DEF PromptInv, ActsAsConfirmed, Accepted
<1> QED
  BY <1>1, <1>2, <1>3, <1>4 DEF PromptInv

\* An event, a prompt or the panel that goes without any request.
LEMMA EventGoes ==
  ASSUME PromptInv, events' \subseteq events, prompts' \subseteq prompts, confirmPending' \in {confirmPending, None},
         pressed' \in {pressed, pressed + 1}, UNCHANGED <<confirmed, acts>>
  PROVE  PromptInv'
<1>1. NumbersAreOld'
  BY DEF PromptInv, NumbersAreOld, None
<1>2. PromptsAreUnanswered'
  BY DEF PromptInv, NumbersAreOld, PromptsAreUnanswered, Unanswered, NothingAsked, None
<1>3. EventsAreAgreed'
  BY DEF PromptInv, EventsAreAgreed, IsEvent, Agreed, AskedSoFar, NothingAsked, Accepted
<1>4. ActsAsConfirmed'
  BY DEF PromptInv, ActsAsConfirmed, Accepted
<1> QED
  BY <1>1, <1>2, <1>3, <1>4 DEF PromptInv

\* A key with a command of its own, which gets the next number: an event of
\* "s", a prompt of the actions, a diff or another list.
LEMMA StatusKept == ASSUME PromptInv, NEW p \in Prs, PressStatus(p) PROVE PromptInv'
<1>1. /\ pressed' = pressed + 1 /\ events' = events \cup {NewEvent(pressed', "STATUS", p)}
      /\ confirmPending' = None
      /\ UNCHANGED <<prompts, confirmed, acts>>
  BY DEF PressStatus, Makes, history
<1>2. PICK e : e = NewEvent(pressed + 1, "STATUS", p)
  OBVIOUS
<1>3. /\ e.id = pressed + 1 /\ e.type = "STATUS" /\ e.step = "sent" /\ IsEvent(e)
      /\ events' = events \cup {e}
  BY <1>1, <1>2 DEF NewEvent, IsEvent
<1>4. \A f \in events : f.id # e.id
  BY <1>3 DEF PromptInv, NumbersAreOld
<1>5. NothingAsked(e.id)
  BY <1>3 DEF PromptInv, NumbersAreOld, NothingAsked
<1>6. NumbersAreOld'
  BY <1>1, <1>3 DEF PromptInv, NumbersAreOld, None
<1>7. PromptsAreUnanswered'
  BY <1>1, <1>3 DEF PromptInv, NumbersAreOld, PromptsAreUnanswered, Unanswered, NothingAsked, None
<1>8. EventsAreAgreed'
  BY <1>1, <1>3, <1>4, <1>5 DEF PromptInv, EventsAreAgreed, IsEvent, Agreed, AskedSoFar, NothingAsked, Accepted
<1>9. ActsAsConfirmed'
  BY <1>1 DEF PromptInv, ActsAsConfirmed, Accepted
<1> QED
  BY <1>6, <1>7, <1>8, <1>9 DEF PromptInv

LEMMA ActionKept == ASSUME PromptInv, NEW type \in Types, NEW p \in Prs, PressAction(type, p) PROVE PromptInv'
<1>1. /\ pressed' = pressed + 1 /\ confirmPending' = None
      /\ UNCHANGED <<events, confirmed, acts>>
  BY DEF PressAction, Makes, history
<1>2. PICK c : c = [id |-> pressed + 1, type |-> type, pr |-> p]
  OBVIOUS
<1>3. c.id = pressed + 1 /\ c.type \in Types /\ prompts' = prompts \cup {c}
  BY <1>1, <1>2 DEF PressAction, Makes
<1>4. NumbersAreOld'
  BY <1>1, <1>3 DEF PromptInv, NumbersAreOld, None
<1>5. Unanswered(c.id) /\ \A d \in prompts : d.id # c.id
  BY <1>3 DEF PromptInv, NumbersAreOld, Unanswered, NothingAsked
<1>6. PromptsAreUnanswered'
  BY <1>1, <1>3, <1>5 DEF PromptInv, NumbersAreOld, PromptsAreUnanswered, Unanswered, NothingAsked, None
<1>7. EventsAreAgreed' /\ ActsAsConfirmed'
  BY <1>1 DEF PromptInv, EventsAreAgreed, IsEvent, Agreed, AskedSoFar, NothingAsked, Accepted, ActsAsConfirmed
<1> QED
  BY <1>4, <1>6, <1>7 DEF PromptInv

\* "y": the prompt's number becomes that of an event.
LEMMA YesKept == ASSUME PromptInv, PressYes PROVE PromptInv'
<1>1. /\ confirmPending' = None /\ confirmPending # None
      /\ confirmed' = confirmed \cup {confirmPending}
      /\ events' = events \cup {NewEvent(confirmPending.id, confirmPending.type, confirmPending.pr)}
      /\ UNCHANGED <<pressed, prompts, acts>>
  BY DEF PressYes
<1>2. PICK e : e = NewEvent(confirmPending.id, confirmPending.type, confirmPending.pr)
  OBVIOUS
<1>3. /\ e.id = confirmPending.id /\ e.type = confirmPending.type /\ e.pr = confirmPending.pr
      /\ e.step = "sent" /\ IsEvent(e) /\ events' = events \cup {e}
  BY <1>1, <1>2 DEF NewEvent, IsEvent
<1>4. e.id \in 1..pressed /\ e.type \in Types /\ Unanswered(e.id)
  BY <1>1, <1>3 DEF PromptInv, NumbersAreOld, PromptsAreUnanswered
<1>5. NumbersAreOld'
  BY <1>1, <1>3, <1>4 DEF PromptInv, NumbersAreOld
<1>6. PromptsAreUnanswered'
  BY <1>1, <1>3, <1>4
     DEF PromptInv, NumbersAreOld, PromptsAreUnanswered, Unanswered, NothingAsked, None
<1>7. EventsAreAgreed'
  <2>1. Agreed(e)' /\ AskedSoFar(e)'
    BY <1>1, <1>3, <1>4 DEF Agreed, AskedSoFar, Unanswered, NothingAsked
  <2>2. \A f \in events : AskedSoFar(f)' /\ (f.type # "STATUS" => Agreed(f)')
    BY <1>1 DEF PromptInv, EventsAreAgreed, Agreed, AskedSoFar, NothingAsked, Accepted
  <2> QED
    BY <1>3, <1>4, <2>1, <2>2 DEF PromptInv, EventsAreAgreed, Unanswered
<1>8. ActsAsConfirmed'
  BY <1>1 DEF PromptInv, ActsAsConfirmed, Accepted
<1> QED
  BY <1>5, <1>6, <1>7, <1>8 DEF PromptInv

\* The prompt arrives, unless a diff is shown.
LEMMA ConfirmKept == ASSUME PromptInv, NEW c \in prompts, ConfirmMsg(c) PROVE PromptInv'
<1>1. /\ prompts' = prompts \ {c} /\ confirmPending' \in {confirmPending, c}
      /\ UNCHANGED <<pressed, events, confirmed, acts>>
  BY DEF ConfirmMsg, history
<1>2. CASE confirmPending' = confirmPending
  BY <1>1, <1>2, EventGoes
<1>3. CASE confirmPending' = c
  <2>1. NumbersAreOld' /\ PromptsAreUnanswered'
    BY <1>1, <1>3 DEF PromptInv, NumbersAreOld, PromptsAreUnanswered, Unanswered, NothingAsked
  <2>2. EventsAreAgreed' /\ ActsAsConfirmed'
    BY <1>1 DEF PromptInv, EventsAreAgreed, IsEvent, Agreed, AskedSoFar, NothingAsked, Accepted,
                ActsAsConfirmed
  <2> QED
    BY <2>1, <2>2 DEF PromptInv
<1> QED
  BY <1>1, <1>2, <1>3

\* A request to GitHub, whatever becomes of it.
LEMMA ActKept ==
  ASSUME PromptInv, NEW e \in events, NEW done \in BOOLEAN, NEW answered \in BOOLEAN, Act(e, done, answered)
  PROVE  PromptInv'
<1> DEFINE new == Afterwards(e, done /\ answered)
           p == Target(e.step, e.pr)
           a == [id |-> e.id, pr |-> p, what |-> e.step, accepted |-> done /\ answered]
<1>1. /\ e.step \in {"approve", "merge", "close"}
      /\ events' = (events \ {e}) \cup {new} /\ acts' = BagAdd(acts, a)
      /\ UNCHANGED <<pressed, confirmPending, prompts, confirmed>>
  BY DEF Act, Update
<1>2. IsEvent(e) /\ Agreed(e) /\ AskedSoFar(e)
  BY <1>1 DEF PromptInv, EventsAreAgreed, AskedSoFar
<1>3. /\ IsEvent(new) /\ new.id = e.id /\ new.type = e.type /\ new.pr = e.pr
      /\ new.step \in {"show", "reread", "merge"}
      /\ new.step = "merge" => e.type = "APPROVE_MERGE" /\ e.step = "approve" /\ a.accepted
  BY <1>2 DEF IsEvent, Afterwards, Failed
<1>4. a.id = e.id /\ a.pr = Target(a.what, e.pr) /\ a.what = e.step /\ a \notin DOMAIN acts
  BY <1>1, <1>2 DEF AskedSoFar, NothingAsked
<1>5. /\ DOMAIN acts' = DOMAIN acts \cup {a} /\ acts'[a] = 1
      /\ \A b \in DOMAIN acts : acts'[b] = acts[b]
  BY <1>1, <1>4 DEF BagAdd
<1> HIDE DEF new, a
<1>6. NumbersAreOld'
  BY <1>1, <1>3, <1>4, <1>5 DEF PromptInv, NumbersAreOld
<1>7. PromptsAreUnanswered'
  BY <1>1, <1>3, <1>4, <1>5 DEF PromptInv, PromptsAreUnanswered, Unanswered, NothingAsked
<1>8. EventsAreAgreed'
  <2>1. AskedSoFar(new)'
    BY <1>1, <1>2, <1>3, <1>4, <1>5 DEF AskedSoFar, NothingAsked, Accepted
  <2>2. ASSUME NEW f \in events, f # e PROVE AskedSoFar(f)' /\ f.id # e.id
    <3>1. f.id # e.id /\ AskedSoFar(f)
      BY <2>2 DEF PromptInv, EventsAreAgreed
    <3> QED
      BY <1>4, <1>5, <3>1 DEF AskedSoFar, NothingAsked, Accepted
  <2> QED
    BY <1>1, <1>2, <1>3, <2>1, <2>2 DEF PromptInv, EventsAreAgreed, Agreed
<1>9. ActsAsConfirmed'
  <2>1. ASSUME NEW b \in DOMAIN acts
        PROVE  /\ acts'[b] = 1
               /\ \E c \in confirmed' :
                    /\ c.id = b.id /\ b.pr = Target(b.what, c.pr) /\ b.what \in Wants(c.type)
                    /\ c.type = "APPROVE_MERGE" /\ b.what = "merge" => Accepted(b.id, "approve")'
    BY <1>1, <1>5 DEF PromptInv, ActsAsConfirmed, Accepted
  <2>2. PICK c \in confirmed : c.id = e.id /\ c.type = e.type /\ c.pr = e.pr
    BY <1>2 DEF Agreed
  <2>3. a.what \in Wants(c.type)
    BY <1>1, <1>2, <1>4, <2>2 DEF AskedSoFar, Wants
  <2>4. c.type = "APPROVE_MERGE" /\ a.what = "merge" => Accepted(a.id, "approve")'
    BY <1>2, <1>4, <1>5, <2>2 DEF AskedSoFar, Accepted
  <2> QED
    BY <1>1, <1>4, <1>5, <2>1, <2>2, <2>3, <2>4 DEF ActsAsConfirmed
<1> QED
  BY <1>6, <1>7, <1>8, <1>9 DEF PromptInv

LEMMA GoroutinesKept == ASSUME PromptInv, Goroutines PROVE PromptInv'
<1>1. ASSUME NEW e \in events, NEW ok \in BOOLEAN, ReadDetails(e, ok) PROVE PromptInv'
  <2>1. IsEvent(e) /\ AskedSoFar(e) /\ e.type \in Types \cup {"STATUS"} /\ e.step = "read"
    BY <1>1 DEF PromptInv, EventsAreAgreed, ReadDetails
  <2>2. PICK new : new = IF ok THEN [e EXCEPT !.step = FirstStep(e.type), !.state = prState[e.pr]]
                         ELSE [e EXCEPT !.step = "show", !.state = "error", !.good = FALSE]
    OBVIOUS
  <2>3. /\ IsEvent(new) /\ new.id = e.id /\ new.type = e.type /\ new.pr = e.pr
        /\ new.step \in {FirstStep(e.type), "show"}
    BY <2>1, <2>2 DEF IsEvent
  <2>4. AskedSoFar(new)
    BY <2>1, <2>3 DEF AskedSoFar, FirstStep, Types
  <2> QED
    BY <1>1, <2>2, <2>3, <2>4, EventMoves DEF ReadDetails, Update
<1>2. ASSUME NEW e \in events, GiveUp(e) PROVE PromptInv'
  <2>1. IsEvent(e)
    BY DEF PromptInv, EventsAreAgreed
  <2>2. PICK new : new = Failed(e)
    OBVIOUS
  <2>3. IsEvent(new) /\ new.id = e.id /\ new.type = e.type /\ new.pr = e.pr /\ new.step = "show"
    BY <2>1, <2>2 DEF IsEvent, Failed
  <2>4. AskedSoFar(new)
    BY <2>3 DEF AskedSoFar
  <2> QED
    BY <1>2, <2>2, <2>3, <2>4, EventMoves DEF GiveUp, Update
<1>3. ASSUME NEW e \in events, NEW ok \in BOOLEAN, Reread(e, ok) PROVE PromptInv'
  <2>1. IsEvent(e)
    BY DEF PromptInv, EventsAreAgreed
  <2>2. PICK new : new = [e EXCEPT !.step = "show", !.state = IF ok THEN prState[e.pr] ELSE "error"]
    OBVIOUS
  <2>3. IsEvent(new) /\ new.id = e.id /\ new.type = e.type /\ new.pr = e.pr /\ new.step = "show"
    BY <2>1, <2>2 DEF IsEvent
  <2>4. AskedSoFar(new)
    BY <2>3 DEF AskedSoFar
  <2> QED
    BY <1>3, <2>2, <2>3, <2>4, EventMoves DEF Reread, Update
<1>4. ASSUME NEW l \in lists, NEW ok \in BOOLEAN, ReadList(l, ok) PROVE PromptInv'
  BY <1>4, EventGoes DEF ReadList, history
<1> QED
  BY <1>1, <1>2, <1>3, <1>4, ActKept DEF Goroutines

LEMMA MessagesKept == ASSUME PromptInv, Messages PROVE PromptInv'
<1>1. ASSUME NEW e \in events, EventMsg(e) PROVE PromptInv'
  <2>1. UNCHANGED <<pressed, confirmPending, prompts, confirmed, acts>> /\ e.step = "sent"
    BY <1>1 DEF EventMsg, history
  <2>2. CASE events' = events \ {e}
    BY <2>1, <2>2, EventGoes
  <2>3. CASE events' = (events \ {e}) \cup {[e EXCEPT !.step = "read"]}
    <3>1. IsEvent(e) /\ AskedSoFar(e)
      BY DEF PromptInv, EventsAreAgreed
    <3>2. PICK new : new = [e EXCEPT !.step = "read"]
      OBVIOUS
    <3>3. IsEvent(new) /\ new.id = e.id /\ new.type = e.type /\ new.pr = e.pr /\ new.step = "read"
      BY <3>1, <3>2 DEF IsEvent
    <3>4. AskedSoFar(new)
      BY <2>1, <3>1, <3>3 DEF AskedSoFar
    <3> QED
      BY <2>1, <2>3, <3>2, <3>3, <3>4, EventMoves
  <2> QED
    BY <1>1, <2>2, <2>3 DEF EventMsg
<1>2. ASSUME NEW e \in events, SectionEvent(e) PROVE PromptInv'
  BY <1>2, EventGoes DEF SectionEvent, history
<1>3. ASSUME NEW l \in lists, RefreshEvent(l) PROVE PromptInv'
  BY <1>3, EventGoes DEF RefreshEvent, history
<1>4. ASSUME NEW n \in Lengths, DiffLoadedMsg(n) PROVE PromptInv'
  BY <1>4, EventGoes DEF DiffLoadedMsg, history
<1> QED
  BY <1>1, <1>2, <1>3, <1>4, ConfirmKept DEF Messages

LEMMA PressKept == ASSUME PromptInv, Press PROVE PromptInv'
<1>1. CASE PressDiff \/ PressRefresh \/ PressMove \/ PressQuit
  BY <1>1, EventGoes DEF PressDiff, PressRefresh, PressMove, PressQuit, Makes, commands, history
<1>2. CASE ScrollDown \/ ScrollUp \/ PageDown \/ PageUp \/ GoToTop \/ GoToBottom \/ CloseDiff \/ Resize
  BY <1>2, EventGoes
     DEF ScrollDown, ScrollUp, PageDown, PageUp, GoToTop, GoToBottom, Scrolls, CloseDiff, Resize, commands,
         history
<1> QED
  BY <1>1, <1>2, StatusKept, ActionKept, YesKept DEF Press

LEMMA PromptInitial == PromptInit => PromptInv
<1> SUFFICES ASSUME PromptInit PROVE PromptInv
  OBVIOUS
<1>1. pressed = 0 /\ confirmPending = None /\ prompts = {} /\ events = {} /\ DOMAIN acts = {}
  BY DEF PromptInit, EmptyBag, SetToBag
<1> QED
  BY <1>1 DEF PromptInv, NumbersAreOld, PromptsAreUnanswered, EventsAreAgreed, ActsAsConfirmed

LEMMA PromptInvKept == PromptInv /\ [PromptNext]_promptVars => PromptInv'
<1> SUFFICES ASSUME PromptInv, [PromptNext]_promptVars PROVE PromptInv'
  OBVIOUS
<1>1. CASE UNCHANGED promptVars
  BY <1>1, EventGoes DEF promptVars, commands, history
<1>2. ASSUME NEW p \in Prs, NEW state \in States, OthersAct(p, state) PROVE PromptInv'
  BY <1>2, EventGoes DEF OthersAct, commands, history
<1> QED
  BY <1>1, <1>2, PressKept, GoroutinesKept, MessagesKept DEF PromptNext

\* ActsAsConfirmed: however many prompts, refreshes and answers are under way
\* and in whatever order they arrive, what is asked of GitHub was confirmed for
\* that pull request or, of a merge, for the one whose repository's name resolves
\* to it, and is asked once (processEventMsg, Update, MergePullRequest).
THEOREM OnlyWhatWasConfirmed == PromptSpec => []ActsAsConfirmed
<1>1. PromptInv => ActsAsConfirmed
  BY DEF PromptInv
<1> QED
  BY PromptInitial, PromptInvKept, <1>1, PTL DEF PromptSpec

-----------------------------------------------------------------------------
(* SuccessIsShown.                                                         *)

AllAccepted(e) == \A what \in Wants(e.type) : Accepted(e.id, what)
IsMerge(e) == "merge" \in Wants(e.type)
IsMerged(p) == prState[MergesAs[p]] = "MERGED"

\* An action whose requests were all accepted looks at the details of after
\* them, and a pull request that was merged stays merged.
Succeeds(e) ==
  e.type \in Types =>
    /\ e.step = "reread" => AllAccepted(e) /\ (IsMerge(e) => IsMerged(e.pr))
    /\ e.step = "show" /\ e.good =>
         /\ AllAccepted(e)
         /\ IsMerge(e) =>
              IsMerged(e.pr) /\ (MergesAs[e.pr] = e.pr => e.state \in {"MERGED", "error"})

ShownInv ==
  /\ \A e \in events : e.pr \in DOMAIN prState /\ Succeeds(e)
  /\ confirmPending # None => confirmPending.pr \in DOMAIN prState
  /\ \A c \in prompts : c.pr \in DOMAIN prState
  /\ DOMAIN prState = Prs
  /\ sections # None => sections.type \in Types \cup {"STATUS"} /\ sections.pr \in DOMAIN prState
  /\ SuccessIsShown

\* What GitHub has accepted or merged stays so.
HubOnlyGoesOn ==
  /\ \A a \in DOMAIN acts : a \in DOMAIN acts'
  /\ DOMAIN prState' = DOMAIN prState
  /\ \A p \in DOMAIN prState : prState[p] = "MERGED" => prState'[p] = "MERGED"

LEMMA AcceptedStays ==
  ASSUME HubOnlyGoesOn, NEW id, NEW what, Accepted(id, what) PROVE Accepted(id, what)'
BY DEF HubOnlyGoesOn, Accepted

LEMMA MergedStays ==
  ASSUME ShownInv, HubOnlyGoesOn, NEW p \in Prs, IsMerged(p) PROVE IsMerged(p)'
<1>1. MergesAs[p] \in DOMAIN prState
  BY PromptAssumption DEF ShownInv
<1> QED
  BY <1>1 DEF HubOnlyGoesOn, IsMerged

\* A step after which each event is an old one or one that keeps Succeeds.
LEMMA ShownKept ==
  ASSUME ShownInv, HubOnlyGoesOn,
         \A e \in events' : e \in events \/ (e.pr \in Prs /\ Succeeds(e)'),
         \A c \in prompts' : c \in prompts \/ c.pr \in Prs,
         confirmPending' \in {confirmPending, None} \/ confirmPending' \in prompts,
         sections' \in {sections, None} \/ (sections' \in events /\ sections'.step = "show"
                                               /\ sections'.type \in Types \cup {"STATUS"})
  PROVE  ShownInv'
<1>1. ASSUME NEW e \in events PROVE Succeeds(e)'
  BY AcceptedStays, MergedStays DEF ShownInv, Succeeds, AllAccepted, IsMerge
<1>2. SuccessIsShown'
  <2>1. CASE sections' = sections
    <3> SUFFICES ASSUME sections # None PROVE SuccessIsShown'
      BY <2>1 DEF SuccessIsShown
    <3>1. PICK p \in Prs : p = sections.pr
      BY DEF ShownInv
    <3>2. IsMerged(p) => IsMerged(p)'
      BY MergedStays
    <3> QED
      BY <2>1, <3>1, <3>2, AcceptedStays DEF ShownInv, SuccessIsShown, IsMerged
  <2>2. CASE sections' = None
    BY <2>2 DEF SuccessIsShown
  <2>3. CASE /\ sections' \in events /\ sections'.step = "show"
             /\ sections'.type \in Types \cup {"STATUS"}
    <3>1. PICK e \in events : e = sections'
      BY <2>3
    <3>2. Succeeds(e) /\ e.step = "show" /\ e.type \in Types \cup {"STATUS"} /\ e.pr \in Prs
      BY <2>3, <3>1 DEF ShownInv
    <3>3. IsMerged(e.pr) => IsMerged(e.pr)'
      BY <3>2, MergedStays
    <3> QED
      BY <3>1, <3>2, <3>3, AcceptedStays DEF SuccessIsShown, Succeeds, AllAccepted, IsMerge, IsMerged
  <2> QED
    BY <2>1, <2>2, <2>3
<1>3. DOMAIN prState' = Prs
  BY DEF ShownInv, HubOnlyGoesOn
<1> QED
  BY <1>1, <1>2, <1>3 DEF ShownInv

LEMMA NewEventSucceeds ==
  ASSUME NEW id, NEW type, NEW p PROVE Succeeds(NewEvent(id, type, p))'
BY DEF Succeeds, NewEvent

\* Steps that change neither GitHub nor an event.
LEMMA PressShown == ASSUME PromptInv, ShownInv, Press PROVE ShownInv'
<1>1. acts' = acts /\ prState' = prState
  BY DEF Press, PressStatus, PressAction, PressDiff, PressRefresh, PressMove, PressQuit, PressYes, ScrollDown,
         ScrollUp, PageDown, PageUp, GoToTop, GoToBottom, Scrolls, CloseDiff, Resize, history
<1>2. HubOnlyGoesOn
  BY <1>1 DEF HubOnlyGoesOn
<1>3. ASSUME NEW p \in Prs, PressStatus(p) PROVE ShownInv'
  <2>1. PICK e : e = NewEvent(pressed', "STATUS", p)
    OBVIOUS
  <2>2. e.pr = p /\ Succeeds(e)' /\ events' = events \cup {e}
    BY <1>3, <2>1, NewEventSucceeds DEF PressStatus, NewEvent
  <2> QED
    BY <1>2, <1>3, <2>2, ShownKept DEF PressStatus, panel
<1>4. ASSUME NEW type \in Types, NEW p \in Prs, PressAction(type, p) PROVE ShownInv'
  <2>1. PICK c : c = [id |-> pressed', type |-> type, pr |-> p]
    OBVIOUS
  <2>2. c.pr = p /\ prompts' = prompts \cup {c}
    BY <1>4, <2>1 DEF PressAction
  <2> QED
    BY <1>2, <1>4, <2>2, ShownKept DEF PressAction, panel
<1>5. CASE PressYes
  <2>1. PICK e : e = NewEvent(confirmPending.id, confirmPending.type, confirmPending.pr)
    OBVIOUS
  <2>2. e.pr \in Prs /\ Succeeds(e)' /\ events' = events \cup {e}
    BY <1>5, <2>1, NewEventSucceeds DEF PressYes, NewEvent, ShownInv
  <2> QED
    BY <1>2, <1>5, <2>2, ShownKept DEF PressYes
<1>6. CASE PressDiff \/ PressRefresh \/ PressMove \/ PressQuit
  BY <1>2, <1>6, ShownKept DEF PressDiff, PressRefresh, PressMove, PressQuit, panel, commands
<1>7. CASE ScrollDown \/ ScrollUp \/ PageDown \/ PageUp \/ GoToTop \/ GoToBottom \/ CloseDiff \/ Resize
  BY <1>2, <1>7, ShownKept
     DEF ScrollDown, ScrollUp, PageDown, PageUp, GoToTop, GoToBottom, Scrolls, CloseDiff, Resize, commands, panel
<1> QED
  BY <1>3, <1>4, <1>5, <1>6, <1>7 DEF Press

LEMMA MessagesShown == ASSUME PromptInv, ShownInv, Messages PROVE ShownInv'
<1>1. HubOnlyGoesOn
  BY DEF Messages, ConfirmMsg, EventMsg, SectionEvent, RefreshEvent, DiffLoadedMsg, history, HubOnlyGoesOn
<1>2. ASSUME NEW c \in prompts, ConfirmMsg(c) PROVE ShownInv'
  BY <1>1, <1>2, ShownKept DEF ConfirmMsg, panel
<1>3. ASSUME NEW e \in events, EventMsg(e) PROVE ShownInv'
  <2>1. IsEvent(e)
    BY DEF PromptInv, EventsAreAgreed
  <2>2. PICK new : new = [e EXCEPT !.step = "read"]
    OBVIOUS
  <2>3. new.pr = e.pr /\ new.step = "read"
    BY <2>1, <2>2 DEF IsEvent
  <2>4. Succeeds(new)' /\ new.pr \in Prs
    BY <2>3 DEF Succeeds, ShownInv
  <2>5. \A f \in events' : f \in events \/ f = new
    BY <1>3, <2>2 DEF EventMsg
  <2> QED
    BY <1>1, <1>3, <2>4, <2>5, ShownKept DEF EventMsg, panel
<1>4. ASSUME NEW e \in events, SectionEvent(e) PROVE ShownInv'
  <2>1. e.type \in Types \cup {"STATUS"} /\ e.step = "show"
    BY <1>4 DEF PromptInv, EventsAreAgreed, SectionEvent
  <2> QED
    BY <1>1, <1>4, <2>1, ShownKept DEF SectionEvent, panel
<1>5. ASSUME NEW l \in lists, RefreshEvent(l) PROVE ShownInv'
  BY <1>1, <1>5, ShownKept DEF RefreshEvent, panel
<1>6. ASSUME NEW n \in Lengths, DiffLoadedMsg(n) PROVE ShownInv'
  BY <1>1, <1>6, ShownKept DEF DiffLoadedMsg, panel
<1> QED
  BY <1>2, <1>3, <1>4, <1>5, <1>6 DEF Messages

\* An event that moves on without a request.
LEMMA MoveShown ==
  ASSUME PromptInv, ShownInv, NEW e \in events, NEW new, new.pr = e.pr, Succeeds(new)',
         Update(e, new), UNCHANGED <<prState, acts>>
  PROVE  ShownInv'
<1>1. HubOnlyGoesOn
  BY DEF HubOnlyGoesOn
<1>2. new.pr \in Prs
  BY DEF ShownInv
<1> QED
  BY <1>1, <1>2, ShownKept DEF Update, panel

LEMMA ActShown ==
  ASSUME PromptInv, ShownInv, NEW e \in events, NEW done \in BOOLEAN, NEW answered \in BOOLEAN,
         Act(e, done, answered)
  PROVE  ShownInv'
<1> DEFINE new == Afterwards(e, done /\ answered)
           p == Target(e.step, e.pr)
           a == [id |-> e.id, pr |-> p, what |-> e.step, accepted |-> done /\ answered]
<1>1. /\ e.step \in {"approve", "merge", "close"}
      /\ Update(e, new) /\ acts' = BagAdd(acts, a)
      /\ done /\ e.step # "approve" => prState[p] = "OPEN"
      /\ prState' = IF ~done \/ e.step = "approve" THEN prState
                    ELSE [prState EXCEPT ![p] = IF e.step = "merge" THEN "MERGED" ELSE "CLOSED"]
  BY DEF Act
<1>2. IsEvent(e) /\ AskedSoFar(e) /\ e.pr \in Prs /\ DOMAIN prState = Prs
  BY DEF PromptInv, EventsAreAgreed, ShownInv
<1>3. DOMAIN acts' = DOMAIN acts \cup {a}
  BY <1>1 DEF BagAdd
<1>4. HubOnlyGoesOn
  BY <1>1, <1>2, <1>3 DEF HubOnlyGoesOn
<1>5. CASE ~(done /\ answered)
  <2>1. new.pr = e.pr /\ new.step = "show" /\ ~new.good
    BY <1>2, <1>5 DEF IsEvent, Afterwards, Failed
  <2>2. Succeeds(new)'
    BY <2>1 DEF Succeeds
  <2> QED
    BY <1>1, <1>2, <1>4, <2>1, <2>2, ShownKept DEF Update, panel
<1>6. CASE done /\ answered /\ e.type = "APPROVE_MERGE" /\ e.step = "approve"
  <2>1. new.pr = e.pr /\ new.step = "merge"
    BY <1>2, <1>6 DEF IsEvent, Afterwards
  <2>2. Succeeds(new)'
    BY <2>1 DEF Succeeds
  <2> QED
    BY <1>1, <1>2, <1>4, <2>1, <2>2, ShownKept DEF Update, panel
<1>7. CASE done /\ answered /\ ~(e.type = "APPROVE_MERGE" /\ e.step = "approve")
  <2>1. new.pr = e.pr /\ new.id = e.id /\ new.type = e.type /\ new.step = "reread"
    BY <1>2, <1>7 DEF IsEvent, Afterwards
  <2>2. Accepted(e.id, e.step)'
    <3>1. a \in DOMAIN acts' /\ a.id = e.id /\ a.what = e.step /\ a.accepted
      BY <1>3, <1>7
    <3> HIDE DEF a
    <3> QED
      BY <3>1 DEF Accepted
  <2>3. e.type = "APPROVE_MERGE" => e.step = "merge" /\ Accepted(e.id, "approve")'
    BY <1>1, <1>2, <1>4, <1>7, AcceptedStays DEF AskedSoFar
  <2>4. AllAccepted(new)'
    BY <1>1, <1>2, <2>1, <2>2, <2>3 DEF AllAccepted, AskedSoFar, Wants
  <2>5. IsMerge(new) => e.step = "merge"
    BY <1>1, <1>2, <2>1, <2>3 DEF IsMerge, AskedSoFar, Wants
  <2>6. e.step = "merge" => IsMerged(e.pr)'
    BY <1>1, <1>2, <1>7, PromptAssumption DEF IsMerged, Target
  <2>7. Succeeds(new)'
    BY <2>1, <2>4, <2>5, <2>6 DEF Succeeds, IsMerge
  <2> QED
    BY <1>1, <1>2, <1>4, <2>1, <2>7, ShownKept DEF Update, panel
<1> QED
  BY <1>5, <1>6, <1>7

LEMMA GoroutinesShown == ASSUME PromptInv, ShownInv, Goroutines PROVE ShownInv'
<1>1. \A e \in events : IsEvent(e)
  BY DEF PromptInv, EventsAreAgreed
<1>2. ASSUME NEW e \in events, NEW ok \in BOOLEAN, ReadDetails(e, ok) PROVE ShownInv'
  <2>1. PICK new : new = IF ok THEN [e EXCEPT !.step = FirstStep(e.type), !.state = prState[e.pr]]
                         ELSE [e EXCEPT !.step = "show", !.state = "error", !.good = FALSE]
    OBVIOUS
  <2>2. /\ new.pr = e.pr /\ new.type = e.type
        /\ (new.step = "show" /\ ~new.good) \/ new.step = FirstStep(e.type)
    BY <1>1, <2>1 DEF IsEvent
  <2>3. Succeeds(new)'
    BY <2>2 DEF Succeeds, FirstStep, Types
  <2> QED
    BY <1>2, <2>1, <2>2, <2>3, MoveShown DEF ReadDetails
<1>3. ASSUME NEW e \in events, GiveUp(e) PROVE ShownInv'
  <2>1. PICK new : new = Failed(e)
    OBVIOUS
  <2>2. new.pr = e.pr /\ new.step = "show" /\ ~new.good
    BY <1>1, <2>1 DEF IsEvent, Failed
  <2>3. Succeeds(new)'
    BY <2>2 DEF Succeeds
  <2> QED
    BY <1>3, <2>1, <2>2, <2>3, MoveShown DEF GiveUp
<1>4. ASSUME NEW e \in events, NEW ok \in BOOLEAN, Reread(e, ok) PROVE ShownInv'
  <2>1. PICK new : new = [e EXCEPT !.step = "show", !.state = IF ok THEN prState[e.pr] ELSE "error"]
    OBVIOUS
  <2>2. /\ new.pr = e.pr /\ new.id = e.id /\ new.type = e.type /\ new.step = "show"
        /\ new.state = (IF ok THEN prState[e.pr] ELSE "error")
    BY <1>1, <2>1 DEF IsEvent
  <2>3. e.step = "reread" /\ Succeeds(e) /\ acts' = acts /\ prState' = prState
    BY <1>4 DEF Reread, ShownInv
  <2>4. Succeeds(new)'
    BY <2>2, <2>3 DEF Succeeds, AllAccepted, Accepted, IsMerge, IsMerged
  <2> QED
    BY <1>4, <2>1, <2>2, <2>4, MoveShown DEF Reread
<1>5. ASSUME NEW l \in lists, NEW ok \in BOOLEAN, ReadList(l, ok) PROVE ShownInv'
  <2>1. HubOnlyGoesOn
    BY <1>5 DEF ReadList, history, HubOnlyGoesOn
  <2> QED
    BY <1>5, <2>1, ShownKept DEF ReadList, panel
<1> QED
  BY <1>2, <1>3, <1>4, <1>5, ActShown DEF Goroutines

\* SuccessIsShown: an action is said to have succeeded only when GitHub has
\* accepted all of it, and a merge when the pull request that was merged is; if it
\* is the one shown, its details are those of after it, whatever others do to it
\* meanwhile (processEventMsg).
THEOREM SuccessIsTrue == PromptSpec => []SuccessIsShown
<1>1. PromptInit => PromptInv /\ ShownInv
  BY PromptInitial DEF PromptInit, ShownInv, SuccessIsShown
<1>2. PromptInv /\ ShownInv /\ [PromptNext]_promptVars => PromptInv' /\ ShownInv'
  <2> SUFFICES ASSUME PromptInv, ShownInv, [PromptNext]_promptVars PROVE ShownInv'
    BY PromptInvKept
  <2>1. CASE UNCHANGED promptVars
    BY <2>1, ShownKept DEF promptVars, commands, panel, history, HubOnlyGoesOn
  <2>2. ASSUME NEW p \in Prs, NEW state \in States, OthersAct(p, state) PROVE ShownInv'
    <3>1. HubOnlyGoesOn
      BY <2>2 DEF OthersAct, history, HubOnlyGoesOn, ShownInv
    <3> QED
      BY <2>2, <3>1, ShownKept DEF OthersAct, commands, panel
  <2> QED
    BY <2>1, <2>2, PressShown, GoroutinesShown, MessagesShown DEF PromptNext
<1>3. ShownInv => SuccessIsShown
  BY DEF ShownInv
<1> QED
  BY <1>1, <1>2, <1>3, PTL DEF PromptSpec
=============================================================================
