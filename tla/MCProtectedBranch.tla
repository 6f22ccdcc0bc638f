------------------------- MODULE MCProtectedBranch -------------------------
EXTENDS ProtectedBranch, MCRepoCommands

CONSTANTS ann, bot, eve

MCRequest(add, remove, lock) ==
  [addBypass |-> add, removeBypass |-> remove, addPush |-> add, removePush |-> {},
   lock |-> lock, removeStatusChecks |-> lock]
MCRule(type, bypass, push) ==
  [type |-> type, bypass |-> bypass, push |-> push, lock |-> FALSE, checks |-> TRUE]
MCOne == MCRule("rule", {ann}, {ann, bot, eve})
MCOldRules ==
  {[r \in Names |-> IF r = gateway THEN NoRule ELSE MCOne],
   [r \in Names |-> IF r = gateway THEN MCOne ELSE MCRule("ruleset", {}, {})]}
MCAllowancesRead == [S \in SUBSET Users |-> IF S = Users THEN S \ {bot} ELSE S]
MCNeighbour == [r \in {legacy} |-> MCRule("rule", {bot}, {})]
MCWords == [p \in SUBSET Names |-> p \ {gateway}]
MCRequests == {MCRequest({ann}, {}, FALSE), MCRequest({}, {ann}, TRUE)}
=============================================================================
