------------------------------ MODULE TeamPages ------------------------------
(***************************************************************************)
(* pkg/team: GetTeamAndMembers, which reads an owner's teams page by page  *)
(* and, with --all, page by page the members of each.  A query asks for a  *)
(* page of teams and has one member cursor for all the teams on it.        *)
(***************************************************************************)
EXTENDS Integers, SequencesExt

CONSTANTS
  Logins,        \* logins of users, as positive numbers in their order
  Matching,      \* the numbers of teams --team may match
  TeamPageSize,  \* 100 in the code
  NoOfMembers    \* --members

VARIABLES
  members,         \* GitHub: the members of each matching team
  AllMembers,      \* --all
  teamCursor, memberCursor,  \* the last team, the last login, of the page before; 0 for nil
  teams,           \* the teams collected, each with its number and its members
  currentMembers,  \* the members collected of the team being paged through
  step             \* "query", "done" or "failed"

teamVars == <<members, AllMembers, teamCursor, memberCursor, teams, currentMembers, step>>

TeamInit ==
  /\ \E n \in Matching : members \in [1..n -> SUBSET Logins]
  /\ AllMembers \in BOOLEAN
  /\ teamCursor = 0 /\ memberCursor = 0
  /\ teams = <<>> /\ currentMembers = <<>> /\ step = "query"

InOrder(logins) == SetToSortSeq(logins, <)
Shorter(m, n) == IF m < n THEN m ELSE n

\* GitHub orders members by login, so a cursor is a login to go on from.
After(t) == InOrder({m \in members[t] : m > memberCursor})
MembersPage(t) == SubSeq(After(t), 1, Shorter(NoOfMembers, Len(After(t))))
MoreMembers(t) == Len(After(t)) > NoOfMembers

LastOfPage == Shorter(teamCursor + TeamPageSize, Len(members))
TeamsPage == teamCursor + 1 .. LastOfPage

\* The team whose members go on: the loop over the page stops at the first.
GoesOn == {t \in TeamsPage : AllMembers /\ MoreMembers(t)}
StopsAt == IF GoesOn = {} THEN LastOfPage + 1 ELSE CHOOSE t \in GoesOn : \A u \in GoesOn : t <= u

\* What was collected before goes to the first team of the page.
Collected(t) == (IF t = teamCursor + 1 THEN currentMembers ELSE <<>>) \o MembersPage(t)

\* One turn of the loop.  The page of teams is asked for again when one of them
\* has more members, all of its teams, with the cursor of that one.
QueryPage ==
  /\ step = "query"
  /\ teams' = teams \o [i \in 1 .. StopsAt - teamCursor - 1 |->
                          [team |-> teamCursor + i, members |-> Collected(teamCursor + i)]]
  /\ IF GoesOn # {}
       THEN /\ currentMembers' = Collected(StopsAt)
            /\ memberCursor' = Last(MembersPage(StopsAt))
            /\ UNCHANGED <<teamCursor, step>>
       ELSE /\ currentMembers' = IF TeamsPage = {} THEN currentMembers ELSE <<>>
            /\ memberCursor' = 0
            /\ teamCursor' = LastOfPage
            /\ step' = IF LastOfPage < Len(members) THEN "query" ELSE "done"
  /\ UNCHANGED <<members, AllMembers>>

\* A query that fails ends the command, which shows nothing.
QueryFails ==
  /\ step = "query"
  /\ step' = "failed" /\ teams' = <<>>
  /\ UNCHANGED <<members, AllMembers, teamCursor, memberCursor, currentMembers>>

TeamNext == QueryPage \/ QueryFails

TeamSpec == TeamInit /\ [][TeamNext]_teamVars

-----------------------------------------------------------------------------
\* With --all every matching team is listed once, with all of its members ("list
\* all members in the team", cmd/team/team.go:90).  The code does not keep this
\* when --team, which is a search, matches more than one.
MembersAreComplete ==
  step = "done" /\ AllMembers =>
    teams = [t \in 1 .. Len(members) |-> [team |-> t, members |-> InOrder(members[t])]]
=============================================================================
