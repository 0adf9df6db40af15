SPECIFICATION Spec
CONSTANTS
  MaxRounds = 2
  MaxNoProgress = 1
  MaxTokens = 3
  MaxCost = 1
  Contents = {"draft", "ready"}
  Required = {"ready"}
  r1 = r1
  r2 = r2
  r3 = r3
  Runs = {r1, r2}
  None = None
  Mortal = {}
  Stalled = {}
  Roaming = {}
  Overlapping = TRUE
CHECK_DEADLOCK FALSE
PROPERTY SupersededEvidenceStands
