SPECIFICATION FairSpec
CONSTANTS
  Requests = {r1, r2}
  Directs = {}
  Resets = {h1}
  Loops = {g1, g2}
  Cancellable = {}
  NoRequest = NoRequest
  NoLoop = NoLoop
  Nobody = Nobody
INVARIANT ResetIsolates
INVARIANT NoOrphanLoop
PROPERTY EveryRunCloses
PROPERTY ResetCompletes
PROPERTY ImplementsSessionLog
CHECK_DEADLOCK FALSE
