CONSTANTS
  Pages = {p1, p2}
  Requests = {r1, r2}
  MaxGen = 4
  MaxAttempts = 3
  MaxActive = 2
  Workers = {w1, w2}
SPECIFICATION Spec
SYMMETRY Symmetry
INVARIANTS
  TypeOK
  OneRunning
  ReadyIsResolved
  CorrectionsAreAnswers
  AnswersAreTrue
PROPERTIES
  ResolvedOnce
  ImplementsLedger
