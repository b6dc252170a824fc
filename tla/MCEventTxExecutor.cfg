SPECIFICATION Spec
CONSTANTS
  Events <- MCEvents
  Senders <- MCSenders
  Order <- MCOrder
  OnFail = "onFail"
  CallsBy <- MCCallsBy
  Catching = {"second"}
  MaxFails = 2
INVARIANTS
  TypeOK
  OneInFlightPerSender
  SequentialSentOnce
  StoredBeforeResolved
PROPERTIES
  BlockedOnlyAfterFailure
  AnsweredUnlessSenderFailed
CHECK_DEADLOCK FALSE
