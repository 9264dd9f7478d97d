CONSTANTS
  Owners = {a1}
  RequestIDs = {r1, r2}
  MaxJobs = 2
  GlobalLimit = 2
  OwnLimit = 2
  Procs = {w1, w2}
  MaxFaults = 2
  Handlers = {h1}
SPECIFICATION Spec
SYMMETRY Symmetry
INVARIANTS
  SourcesRemoved
