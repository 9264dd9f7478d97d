CONSTANTS
  Owners = {a1}
  RequestIDs = {r1, r2}
  MaxJobs = 1
  GlobalLimit = 2
  OwnLimit = 2
  Procs = {w1, w2}
  MaxFaults = 2
  Handlers = {h1}
SPECIFICATION FairSpec
PROPERTIES
  EveryJobSettles
  CancelledStops
