SPECIFICATION FairSpec
CONSTANTS
  q1 = q1
  q2 = q2
  Committed = Committed
  WrongOffset = WrongOffset
  Denied = Denied
  Req = {q1, q2}
  Refusal = {WrongOffset}
  BrokerErr = {Denied}
  Window = 1
  MaxSent = 3
INVARIANTS Inv CommitIsWhole BrokerReceivesPrefix
PROPERTIES ImplementsAppendTransaction AppendReleased AppendAnswered
