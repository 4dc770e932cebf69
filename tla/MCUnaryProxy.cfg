SPECIFICATION FairSpec
CONSTANTS
  c1 = c1
  c2 = c2
  t1 = t1
  t2 = t2
  Denied = Denied
  Call = {c1, c2}
  Header <- Headers
  BrokerErr = {Denied}
  Slots = 1
INVARIANTS Inv OwnToken OutcomeTrue AtMostOnce
PROPERTIES AbandonedDoNotStarve
