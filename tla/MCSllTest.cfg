SPECIFICATION FairSpec
CONSTANTS
  Producers = {p1, p2, p3}
  Consumers = {c1, c2}
  NULL = NULL
  deleted = deleted
INVARIANTS
  TypeOK
  AssertsHold
  NoDataRace
  NodesAreExclusive
PROPERTY
  AllReturn
