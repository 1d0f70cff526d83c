SPECIFICATION Spec
CONSTANTS
  Chats = {c1}
  Fresh = {f1, f2, f3}
  Runs = {l1, r1, r2}
  LegacyRuns = {l1}
  None = None
  MaxMishaps = 2
  MaxFaults = 1
SYMMETRY StoreSymmetry
CHECK_DEADLOCK FALSE
INVARIANTS StoreInv TalkHasRuns LegacyKept
PROPERTY DurableForward
