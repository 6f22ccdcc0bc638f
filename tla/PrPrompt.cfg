CONSTANTS
  a = a
  b = b
  Prs = {a, b}
  MergesAs <- MCMergesAs
  Presses = 2
  Lengths = {0, 3}
  Heights = {1, 2}
SPECIFICATION PromptSpec
INVARIANTS ActsAsConfirmed SuccessIsShown DiffIsInside
PROPERTIES ProcessingEnds
CHECK_DEADLOCK FALSE
