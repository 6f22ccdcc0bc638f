-------------------------- MODULE ProtectedBranch --------------------------
(***************************************************************************)
(* pkg/protectedbranch: `protected-branch update` in a session of          *)
(* RepoCommands.  It lists the rules of the branch first, then replaces    *)
(* the rule of every selected repository by a whole new one, made from the *)
(* request, the config and the rule it has read there, if it has.          *)
(***************************************************************************)
EXTENDS RepoCommands

CONSTANTS
  Users,
  Page,            \* allowances of each kind that a query reads: 10 in the code
  AllowancesRead,  \* AllowancesRead[S]: those of S that it reads, in GitHub's order
  Neighbour,       \* Neighbour[r]: where r's branch is not among the first 20 whose names
                   \*   resemble its own, the rule of the branch taken for it
  Words,           \* Words[p]: what a search for the words of the pattern p finds
  Defaults,    \* config: the users a new rule lets bypass reviews and push
  Requests,    \* bound: what is asked for: users to add and to remove, lock, checks
  OldRules,    \* bound: the rules of the repositories at first
  Edits        \* bound: how often somebody else changes a rule

\* Not protected; by a rule of its own; by a ruleset, whose bypass actors are no users.
Rule ==
  [type : {"none", "rule", "ruleset"},
   bypass : SUBSET Users, push : SUBSET Users, lock : BOOLEAN, checks : BOOLEAN]

ASSUME ReadingAssumption ==
  /\ Page \in Nat \ {0}
  /\ AllowancesRead \in [SUBSET Users -> SUBSET Users]
  /\ \A S \in SUBSET Users :
       /\ AllowancesRead[S] \subseteq S /\ Cardinality(AllowancesRead[S]) <= Page
       /\ Cardinality(S) <= Page => AllowancesRead[S] = S
  /\ DOMAIN Neighbour \subseteq Names /\ \A r \in DOMAIN Neighbour : Neighbour[r] \in Rule
  /\ Words \in [SUBSET Names -> SUBSET Names]

ASSUME RequestAssumption ==
  /\ Defaults \subseteq Users /\ OldRules \subseteq [Names -> Rule] /\ Edits \in Nat
  /\ Requests # {} /\ Requests \subseteq [addBypass : SUBSET Users, removeBypass : SUBSET Users,
                         addPush : SUBSET Users, removePush : SUBSET Users,
                         lock : BOOLEAN, removeStatusChecks : BOOLEAN]

NoRule == [type |-> "none", bypass |-> {}, push |-> {}, lock |-> FALSE, checks |-> FALSE]

VARIABLES
  rules,     \* GitHub: the rule of the branch in each repository
  request,   \* the update's flags
  stage,     \* the update's first listing: "before", "reading", "read"
  toRead,    \* the repositories it has still to read
  existing,  \* protectedbranchMap: the rules it has read, NoRule for the others
  wasRead,   \* history: the repositories whose entry comes from an answer about the branch
  edits,     \* history: the changes of others so far
  settled    \* history: the rules the first round left in the repositories it reported done

pb == <<rules, request, stage, toRead, existing, wasRead, edits, settled>>
pbVars == <<vars, pb>>

Updating == cmd.kind = "protectedBranchUpdate"
Unread == [r \in Names |-> NoRule]

PbTypeOK ==
  /\ TypeOK
  /\ rules \in [Names -> Rule] /\ existing \in [Names -> Rule]
  /\ request \in Requests /\ stage \in {"before", "reading", "read"}
  /\ toRead \subseteq Names /\ wasRead \subseteq Names /\ edits \in 0..Edits

PbInit ==
  /\ Init
  /\ IF Updating
       THEN /\ request \in Requests
            /\ \E old \in OldRules : rules = [r \in Names |-> IF r \in repos THEN old[r] ELSE NoRule]
       ELSE request = (CHOOSE q \in Requests : TRUE) /\ rules = Unread
  /\ stage = "before" /\ toRead = {} /\ existing = Unread /\ wasRead = {}
  /\ edits = 0 /\ settled = <<>>

-----------------------------------------------------------------------------
(* ListProtectedBranches.                                                  *)

\* A search answers for every repository whose name contains the words.
Found(r) == ({r} \cup Fuzzy[r]) \cap repos

\* getQueryString without a repository: all of the owner's or, if it has one
\* include pattern, what is found by that pattern without its stars.
Searched == repos \cap (IF owner.present /\ Cardinality(owner.includes) = 1
                          THEN UNION {Words[p] : p \in owner.includes} ELSE Names)

\* At most one -r: the pages of one search.  More: one search for each that is
\* left of them.
ReadBegins ==
  LET typed == ActualRepositoryNamesUsingFzf(cmd.repository, owner.known)
  IN /\ Updating /\ pc = "resolve" /\ ~Previews /\ stage = "before"
     /\ stage' = "reading"
     /\ toRead' = IF Len(cmd.repository) = 0 THEN Searched
                  ELSE IF Len(cmd.repository) = 1 THEN UNION {Found(n) : n \in NamesIn(typed)}
                  ELSE NamesIn(ResolveRepositoryNames(owner, typed, cmd.except))
     /\ UNCHANGED <<vars, rules, request, existing, wasRead, edits, settled>>

\* What the query answers of a rule: the first allowances of each kind.
Reading(rule) ==
  [type |-> rule.type, bypass |-> AllowancesRead[rule.bypass], push |-> AllowancesRead[rule.push],
   lock |-> rule.lock, checks |-> rule.checks]

\* getSelectedBranchRef: the branch itself, else the first that resembles it.
Entry(r) == IF r \in DOMAIN Neighbour THEN Neighbour[r] ELSE Reading(rules[r])

ReadRule(r) ==
  LET found == IF Len(cmd.repository) > 1 THEN Found(r) ELSE {r}
  IN /\ stage = "reading" /\ r \in toRead
     /\ toRead' = toRead \ {r}
     /\ existing' = [m \in Names |-> IF m \in found THEN Entry(m) ELSE existing[m]]
     /\ wasRead' = wasRead \cup (found \ DOMAIN Neighbour)
     /\ UNCHANGED <<vars, rules, request, stage, edits, settled>>

\* An error ends the pages; of one repository of several it is its entry, and
\* takes the place of one that another search may have brought.
ReadFails(r) ==
  /\ stage = "reading" /\ r \in toRead
  /\ toRead' = IF Len(cmd.repository) > 1 THEN toRead \ {r} ELSE {}
  /\ existing' = [existing EXCEPT ![r] = NoRule]
  /\ wasRead' = wasRead \ {r}
  /\ UNCHANGED <<vars, rules, request, stage, edits, settled>>

ReadEnds ==
  /\ stage = "reading" /\ toRead = {}
  /\ stage' = "read"
  /\ UNCHANGED <<vars, rules, request, toRead, existing, wasRead, edits, settled>>

-----------------------------------------------------------------------------
(* createRequestPayload.                                                   *)

\* Mutant: the default users are taken for every rule.
DefaultsAlways(old, asked, add, remove) == (Defaults \cup asked \cup add) \ remove

\* Mutant: the users to add are put in the place of the old ones.
AddedOnly(old, asked, add, remove) ==
  ((IF old.type = "none" THEN Defaults ELSE {}) \cup (IF add = {} THEN asked ELSE add)) \ remove

\* The default users of a rule that was not there, those of one that was, those
\* to add, without those to remove.
allowance(old, asked, add, remove) ==
  ((IF old.type = "none" THEN Defaults ELSE {}) \cup asked \cup add) \ remove

addUsersToBypassPullRequestReview(old) ==
  allowance(old, old.bypass, request.addBypass, request.removeBypass)

addRestrictions(old) == allowance(old, old.push, request.addPush, request.removePush)

addStatusChecks == [lock |-> request.lock, checks |-> ~request.removeStatusChecks]

createRequestPayload(r) ==
  [type |-> "rule",
   bypass |-> addUsersToBypassPullRequestReview(existing[r]), push |-> addRestrictions(existing[r]),
   lock |-> addStatusChecks.lock, checks |-> addStatusChecks.checks]

\* The PUT of one job.  The names of rulesets stand where users should be, and
\* GitHub refuses them.
PutRule(j) ==
  /\ Updating /\ existing[j[2]].type # "ruleset"
  /\ CallAnswered(j) \/ AnswerLost(j)
  /\ rules' = [rules EXCEPT ![j[2]] = createRequestPayload(j[2])]
  /\ UNCHANGED <<request, stage, toRead, existing, wasRead, edits, settled>>

-----------------------------------------------------------------------------
\* Somebody else lets a user bypass the reviews, or no longer, after the update
\* has read the rule; before that it makes no difference.
RuleEdited(r) ==
  /\ pc = "run" /\ r \in wasRead /\ existing[r] = Reading(rules[r])
  /\ edits < Edits /\ rules[r].type = "rule"
  /\ \E u \in Users :
       rules' = [rules EXCEPT ![r].bypass = IF u \in @ THEN @ \ {u} ELSE @ \cup {u}]
  /\ edits' = edits + 1
  /\ UNCHANGED <<vars, request, stage, toRead, existing, wasRead, settled>>

\* The update's first round is over: the next one reads anew.
Settle ==
  /\ RunAgain
  /\ settled' = IF dryRun THEN <<>>
                ELSE [r \in {j[2] : j \in {j \in jobs : outcome[j] = "ok"}} |-> rules[r]]
  /\ stage' = "before" /\ toRead' = {} /\ existing' = Unread /\ wasRead' = {}
  /\ UNCHANGED <<rules, request, edits>>

MayGoOn == Updating /\ pc = "resolve" /\ ~Previews => stage = "read"

PbNext ==
  \/ ReadBegins \/ ReadEnds \/ Settle
  \/ \E r \in Names : ReadRule(r) \/ ReadFails(r) \/ RuleEdited(r)
  \/ \E j \in jobs : PutRule(j)
  \/ ~Updating /\ Operate /\ UNCHANGED pb
  \/ (\E a \in BOOLEAN : SearchEnds(a)) /\ UNCHANGED pb
  \/ Updating /\ (\E j \in jobs : CallFails(j)) /\ UNCHANGED pb
  \/ MayGoOn /\ Select /\ UNCHANGED pb
  \/ Finish /\ UNCHANGED pb
  \/ (\E r \in Names : HeadMoves(r) \/ RepositoryCreated(r)) /\ UNCHANGED pb

PbSpec == PbInit /\ [][PbNext]_pbVars

-----------------------------------------------------------------------------
OnePage(users) == Cardinality(users) <= Page

\* A rule that was read, and that nobody touched since, keeps its users: the
\* update gives it those it was asked to add and takes those it was asked to
\* remove, and neither it nor any other repository's update lets anybody else in;
\* nor does it shut anybody out if the rule's users were all read.
UsersKept ==
  [][\A j \in jobs :
       PutRule(j) /\ j[2] \in wasRead /\ existing[j[2]] = Reading(rules[j[2]])
         /\ rules[j[2]].type = "rule" =>
         LET old == rules[j[2]] new == rules'[j[2]]
             bypass == (old.bypass \cup request.addBypass) \ request.removeBypass
             push == (old.push \cup request.addPush) \ request.removePush
         IN /\ new.bypass \subseteq bypass /\ new.push \subseteq push
            /\ OnePage(old.bypass) => new.bypass = bypass
            /\ OnePage(old.push) => new.push = push]_pbVars

\* Nobody is lost, however long the rule.  The code does not keep this: it reads
\* ten users of each kind and writes them back for the whole.
LongRulesKept ==
  [][\A j \in jobs :
       PutRule(j) /\ j[2] \in wasRead /\ existing[j[2]] = Reading(rules[j[2]])
         /\ rules[j[2]].type = "rule" =>
         rules[j[2]].push \ request.removePush \subseteq rules'[j[2]].push]_pbVars

\* The same update twice is the same update: what the first round left in a
\* repository it reported as done, the second leaves as it is, if it could read
\* it all and nobody else changed it, however the first came to it.
UpdateIsIdempotent ==
  Updating /\ round = 2 /\ pc \in {"run", "done"} /\ edits = 0 =>
    \A r \in DOMAIN settled \cap wasRead :
      OnePage(settled[r].bypass) /\ OnePage(settled[r].push) => rules[r] = settled[r]

\* Default users come with a new rule ("Add default bypass users while creating
\* new protected branch", pkg/protectedbranch/protectedbranch.go:431).  The code
\* does not keep this: a rule it failed to read looks like one that is not there.
DefaultsOnlyWhenNew ==
  [][\A j \in jobs :
       PutRule(j) /\ rules[j[2]].type = "rule" =>
         rules'[j[2]].bypass \subseteq rules[j[2]].bypass \cup request.addBypass]_pbVars
=============================================================================
