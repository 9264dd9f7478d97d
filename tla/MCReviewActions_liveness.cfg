CONSTANTS
  Pages = {p1, p2}
  Requests = {r1, r2}
  MaxGen = 2
  MaxAttempts = 3
  MaxActive = 2
  Workers = {w1}
SPECIFICATION FairSpec
PROPERTIES
  EveryInstructionResolves
