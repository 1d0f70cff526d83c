SPECIFICATION Spec
CONSTANTS
  Requests = {r1, r2, r3}
  Directs = {d1}
  Resets = {}
  Loops = {g1, g2}
  Cancellable = {r1, r2, r3}
  NoRequest = NoRequest
  NoLoop = NoLoop
  Nobody = Nobody
SYMMETRY Symmetry
INVARIANT TypeOK
INVARIANT SerialInv
INVARIANT NoMessageLost
INVARIANT CancelHonoured
PROPERTY OneOutcome
CHECK_DEADLOCK FALSE
