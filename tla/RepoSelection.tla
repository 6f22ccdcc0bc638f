--------------------------- MODULE RepoSelection ---------------------------
(***************************************************************************)
(* Which repositories a command acts on: names are resolved against the    *)
(* owner's known repositories (internal/config), and the owner's include   *)
(* and exclude patterns and the names given with -e take some away.        *)
(*                                                                         *)
(* A pattern is the set of the names it matches.  A name fuzzily matches   *)
(* the names it is a subsequence of, the nearest by edit distance first.   *)
(***************************************************************************)
EXTENDS Naturals, Sequences, FiniteSets

CONSTANTS
  Names,     \* repository names: what GitHub has and what a user may type
  Fuzzy,     \* Fuzzy[n]: the other names that n matches
  Distance   \* Distance[n][m]: edit distance

ASSUME FuzzyAssumption ==
  /\ IsFiniteSet(Names)
  /\ Fuzzy \in [Names -> SUBSET Names]
  /\ Distance \in [Names -> [Names -> Nat]]

\* One owner in the config file.
Owner ==
  [present : BOOLEAN,             \* it has an entry
   type : {"", "Organization"},   \* the cached owner type
   known : SUBSET Names,          \* its repositories, the dictionary of -r
   includes : SUBSET SUBSET Names,
   excludes : SUBSET SUBSET Names]

matchPatterns(patterns, name) == \E p \in patterns : name \in p

CanSelectRepositoryForProcessing(owner, name) ==
  /\ ~matchPatterns(owner.excludes, name)
  /\ owner.includes = {} \/ matchPatterns(owner.includes, name)

\* An exact name, else the nearest fuzzy match, else the name as it was typed.
resolveRepoName(name, known) ==
  LET matches == Fuzzy[name] \cap known
  IN IF name \in known \/ matches = {} THEN name
     ELSE CHOOSE m \in matches : \A k \in matches : Distance[name][m] <= Distance[name][k]

\* The repositories a command goes through are a set of jobs: the place in the
\* list and the name.  Asked for by name, they keep their places; a listing of
\* the owner has every name once.
NamesIn(jobs) == {j[2] : j \in jobs}
InPlace(list) == {<<i, list[i]>> : i \in DOMAIN list}
Once(names) == {<<0, n>> : n \in names}

\* Resolved names are taken once each; without a dictionary, as they are.
ActualRepositoryNamesUsingFzf(list, known) ==
  IF known = {} THEN InPlace(list)
  ELSE LET actual(i) == resolveRepoName(list[i], known)
       IN {<<i, actual(i)>> : i \in {i \in DOMAIN list : \A k \in 1..(i - 1) : actual(k) # actual(i)}}

\* What is left of the candidates: the patterns apply to them however they
\* were asked for, then the names given with -e, resolved as those of -r are.
ResolveRepositoryNames(owner, candidates, except) ==
  LET excluded == NamesIn(ActualRepositoryNamesUsingFzf(except, owner.known))
  IN {j \in candidates : CanSelectRepositoryForProcessing(owner, j[2]) /\ j[2] \notin excluded}

\* ownerQualifier: an owner whose type is not cached is asked for, and the
\* answer is written into the config, as a new entry if there is none.
OwnerDetected(owner) == [owner EXCEPT !.type = "Organization", !.present = TRUE]

\* GetReposForOrg: the owner's repositories that the patterns select, if the
\* owner is in the config; they become known names.
ListedRepositories(owner, all) ==
  IF owner.present THEN {n \in all : CanSelectRepositoryForProcessing(owner, n)} ELSE {}

\* Mutant: the names found are not kept.
NamesForgotten(owner, all) == owner

SaveRepositoryNamesForFuzzySearch(owner, all) ==
  [owner EXCEPT !.known = @ \cup ListedRepositories(owner, all)]
=============================================================================
