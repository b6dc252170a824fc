SPECIFICATION Spec
CONSTANTS
  Events <- MCEvents
  Senders <- MCSenders
  Order <- MCOrder
  OnFail = "onFail"
  CallsBy <- MCCallsBy
  Catching = {"second"}
  MaxFails = 1
PROPERTY OnFailRuns
CHECK_DEADLOCK FALSE
