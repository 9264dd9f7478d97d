SPECIFICATION ServicesSpec
CONSTANTS
  p1 = p1
  p2 = p2
  p3 = p3
  ai = ai
  h1 = h1
  h2 = h2
  e4 = e4
  d4 = d4
  r1 = r1
  r2 = r2
  a1 = a1
  a2 = a2
  a3 = a3
  q1 = q1
  q2 = q2
  Nothing = Nothing
INVARIANTS
  LearnedIsTrue
  ReviewSound
  RotationSafe
  LibraryTrue
PROPERTIES
  AdmissionSound
CHECK_DEADLOCK FALSE
