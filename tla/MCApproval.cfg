SPECIFICATION Spec
CONSTANTS
  Texts = {t1}
  Apis = {p1}
  Rejecting = {p1}
  Cancels = {c1}
  Origins = {o1, o2}
  Nobody = Nobody
  Calls = 2
  MaxRetries = 1
  MaxResets = 1
  MaxCrashes = 1
SYMMETRY Symmetry
INVARIANT TypeOK
INVARIANT AtMostOneWaiting
INVARIANT WaitingIsResumable
INVARIANT OneDecisionPerCall
PROPERTY OutcomesAreFinal
CHECK_DEADLOCK FALSE
