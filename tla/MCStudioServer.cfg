SPECIFICATION StudioSpec
CONSTANTS
  A = A
  B = B
  NoCourse = NoCourse
  t1 = t1
  t2 = t2
  f1 = f1
  f2 = f2
  screened = screened
INVARIANTS
  ReservationsSound
  StagedIsWhole
  SavedIsTrue
  PublishedAsReviewed
  PanelSound
PROPERTIES
  WorkKept
  NoUnseenOverwrite
  NoBlindReview
CHECK_DEADLOCK FALSE
