SPECIFICATION Spec
CONSTANTS
  e4 = e4
  d4 = d4
  e5 = e5
  d5 = d5
  c5 = c5
  teh = teh
  recieve = recieve
  None = None
INVARIANTS
  DocumentSound
  ReopenedIsSaved
  EditTakesEffect
  BoardCurrent
  PreviewCurrent
PROPERTIES
  EditsStayLocal
  DivisionsSound
  ChecksCurrent
CHECK_DEADLOCK FALSE
