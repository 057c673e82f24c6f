SPECIFICATION FairSpec
CHECK_DEADLOCK FALSE
CONSTANTS
  w1 = w1
  w2 = w2
  NoMsg = NoMsg
  Workers <- TwoWorkers
  Msgs <- OneOfEachKind
  Ids <- MCIds
  MsgId <- MCMsgId
  Kind <- MCKind
  MaxDeliver = 2
  MaxFaults = 2
INVARIANTS
  AppliedAtMostOnce
  SettledOnlyIfAccounted
  DropNeedsBrokenDelivery
PROPERTIES
  EventuallyAccounted
