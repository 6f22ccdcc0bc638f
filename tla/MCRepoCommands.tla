--------------------------- MODULE MCRepoCommands ---------------------------
EXTENDS RepoCommands

CONSTANTS api, gateway, legacy

MCFuzzy == [n \in Names |-> IF n = api THEN {gateway} ELSE {}]
MCDistance == [n \in Names |-> [m \in Names |-> IF n = m THEN 0 ELSE 1]]
MCTyped == {<<>>, <<api>>, <<legacy>>, <<api, gateway>>}
MCExcepted == {<<>>, <<api>>}
MCOwner(present, type, known) ==
  [present |-> present, type |-> type, known |-> known, includes |-> {},
   excludes |-> IF present THEN {{legacy}} ELSE {}]
MCOwners ==
  {MCOwner(FALSE, "", {}), MCOwner(TRUE, "", {gateway})}
  \cup {[MCOwner(TRUE, "Organization", {}) EXCEPT !.includes = {{api, gateway}}],
        MCOwner(TRUE, "Organization", {api, gateway})}
MCRepositories == {{api, gateway, legacy}, {gateway, legacy}}
MCKinds == DOMAIN Commands
=============================================================================
