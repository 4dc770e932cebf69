SPECIFICATION FairSpec
CONSTANTS
  i1 = i1
  i2 = i2
  Forbidden = Forbidden
  undefined = undefined
  empty = empty
  NotJSON = NotJSON
  d1 = d1
  Item = {i1, i2}
  MaxItems = 2
  Status = {Forbidden}
  Refused = {"ETCD_TRANSACTION_FAILED"}
  Code = {"PRIMARY", "FAILED"}
  Derived = {d1, empty}
  Falsy = {undefined, empty}
  Slash = 0
  Value <- Values
  Journal <- Journals
  MaxLabels = 2
INVARIANTS Inv RequestAsksSelection PrefixSelectsDirectory OkIsWhole
INVARIANTS ErrIsServed RejectsUnreadable SidesHold
PROPERTIES AnswerSettles
