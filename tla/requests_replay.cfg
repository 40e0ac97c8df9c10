SPECIFICATION RequestsSpec
CONSTANTS
  Ids = {r1}
  Payloads = {p1, p2}
  Calls = {c1, c2, c3}
  None = None
  PendingTTL = 3
  ReplayTTL = 4
  MaxRun = 2
  MaxEffects = 2
  Horizon = 10
  MaxTime = 11
SYMMETRY Symmetry
CHECK_DEADLOCK FALSE
INVARIANTS
  AnswerIsStable
PROPERTY
  EffectIsFenced
