SPECIFICATION Spec
CONSTANTS
  r1 = r1
  r2 = r2
  r3 = r3
  good = good
  bare = bare
  NoRow = NoRow
  NoContent = NoContent
  Rows <- MCRows
  Order <- MCOrder
  Waiting <- MCWaiting
  Found <- MCFound
  Contents <- MCContents
  Plain <- MCPlain
  Blocked <- MCBlocked
  Similar <- MCSimilar
  MaxTasks = 2
  MaxKeys = 3
  MaxLate = 1
  MaxOthers = 1
PROPERTY DecidesOnSight
CHECK_DEADLOCK FALSE
