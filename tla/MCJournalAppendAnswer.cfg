SPECIFICATION Spec
CONSTANTS
  q1 = q1
  q2 = q2
  Committed = Committed
  WrongOffset = WrongOffset
  Denied = Denied
  Req = {q1, q2}
  Refusal = {WrongOffset}
  BrokerErr = {Denied}
  Window = 1
  MaxSent = 2
INVARIANTS AnswerReachesClient
