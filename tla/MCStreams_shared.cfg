SPECIFICATION FairSpec
CONSTANTS
  w1 = w1
  w2 = w2
  s1 = s1
  s2 = s2
  r1 = r1
  Writers = {w1, w2}
  Messages <- TwoAndOne
  Sessions = {s1, s2}
  Readers = {r1}
  ReaderOf <- SharedReader
  Limit = 1
  NoWriter = NoWriter
  Horizon = 3
INVARIANTS WellFormed NothingPassedOver PublishedOnce
PROPERTIES ImplementsLog ReadersCatchUp
CHECK_DEADLOCK FALSE
