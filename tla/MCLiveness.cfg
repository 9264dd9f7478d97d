SPECIFICATION LiveSpec
CONSTANTS
  t1 = t1
  t2 = t2
  f1 = f1
  A = A
  NoCourse = NoCourse
  screened = screened
  e4 = e4
  d4 = d4
  e5 = e5
  d5 = d5
  r1 = r1
  r2 = r2
  Nothing = Nothing
PROPERTIES
  BrowserSettles
  ServicesSettle
CHECK_DEADLOCK FALSE
