SPECIFICATION Spec
CONSTANTS
  Protos <- MCProtos
  Layouts <- Both
  Taken = {"tcp"}
  MayFail = {}
  ApiMayFail = FALSE
  Keys = {k1}
  NoKey = none
PROPERTY ListenFailureEndsProcess
CHECK_DEADLOCK FALSE
