CONSTANTS
  api = api
  gateway = gateway
  legacy = legacy
  ann = ann
  bot = bot
  eve = eve
  Names = {api, gateway, legacy}
  Fuzzy <- MCFuzzy
  Distance <- MCDistance
  Workers = 2
  Commits = 2
  Typed <- MCTyped
  Excepted <- MCExcepted
  Owners <- MCOwners
  Repositories <- MCRepositories
  Kinds <- MCKinds
  Users = {ann, bot, eve}
  Defaults = {bot}
  Page = 2
  AllowancesRead <- MCAllowancesRead
  Neighbour <- MCNeighbour
  Words <- MCWords
  Requests <- MCRequests
  OldRules <- MCOldRules
  Edits = 1
SPECIFICATION PbSpec
INVARIANTS SuccessIsReal NamedExclusionsHold PreviewHonoured UpdateIsIdempotent
PROPERTIES UsersKept
CHECK_DEADLOCK FALSE
