SPECIFICATION Spec
CONSTANTS
  Texts = {t1}
  Apis = {}
  Rejecting = {}
  Cancels = {c1}
  Origins = {o1}
  Nobody = Nobody
  Calls = 2
  MaxRetries = 1
  MaxResets = 1
  MaxCrashes = 0
INVARIANT StepsNotRepeated
CHECK_DEADLOCK FALSE
