SPECIFICATION Spec
CONSTANTS
  MaxRounds = 3
  MaxNoProgress = 1
  MaxTokens = 2
  MaxCost = 1
  Contents = {"draft", "ready"}
  Required = {"ready"}
  r1 = r1
  r2 = r2
  r3 = r3
  Runs = {r1, r2}
  None = None
  Mortal = {r1}
  Stalled = {r1}
  Roaming = {r2}
  Overlapping = FALSE
CHECK_DEADLOCK FALSE
INVARIANTS
  TypeOK
  VerdictsSound
  UsageWithinBudget
  ReleasedAtEnd
