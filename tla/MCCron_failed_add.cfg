SPECIFICATION Spec
CONSTANTS
  Adders = {a1, a2}
  OneShots = {a1}
  Removers = {x1}
  Delays = {1, 2}
  MaxSleep = 2
  MaxTime = 3
  MaxFaults = 1
  MaxCrashes = 1
  NoJob = NoJob
INVARIANT FailedAddNeverFires
