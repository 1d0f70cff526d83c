SPECIFICATION Spec
CONSTANTS
  Requests = {r1, r2}
  Directs = {}
  Resets = {}
  Loops = {g1}
  Cancellable = {}
  NoRequest = NoRequest
  NoLoop = NoLoop
  Nobody = Nobody
SYMMETRY Symmetry
INVARIANT MergedIntoLatest
CHECK_DEADLOCK FALSE
