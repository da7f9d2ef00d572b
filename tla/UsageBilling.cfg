SPECIFICATION FairSpec
CONSTANTS
  p1 = p1
  p2 = p2
  t1 = t1
  t2 = t2
  Polls = {p1, p2}
  Asks <- MCAsks
  Tasks = {t1, t2}
  Timed = {t1}
  FullPrice = 2
  BasePrice = 1
  SubLimit = 1
  Policy = "sample"
  MaxDay = 1
  MaxFaults = 1
CHECK_DEADLOCK FALSE
INVARIANTS BooksBalance UsageOfWindow LogIsCharged
PROPERTIES FinishedIsCharged
