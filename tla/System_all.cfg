SPECIFICATION SystemSpec
CONSTANTS
  s1 = s1
  ip1 = ip1
  ip2 = ip2
  Subdomains = {s1}
  Values = {v1, token}
  CheckTokens = {token}
  Requests = {c1, c2}
  Names = {label}
  Addresses = {ip1, ip2}
  CipherKeys = {}
  NoValue = NoValue
  NoAddress = NoAddress
  NoKey = NoKey
  AllowFroms <- SomeLists
  MaxTime = 2
  MaxPasswords = 2
  ClockMayStepBack = FALSE
  InsertMayFail = FALSE
  CommitMayFail = TRUE
  DbMayFail = TRUE
  ServerMayRestart = TRUE
  OwnDomain <- Own
  Static <- MCStatic
  QueryNames <- MCQueryNames
  QueryTypes = {"A", "TXT"}
SYMMETRY Interchangeable
INVARIANTS TypeOK RegistrationHasTwoRows FirstOfItsSecondSurvives AnswersHold AcknowledgedUnlessDeleted LastSourceWrote RowsStayDeleted UpdateIsVisible ResponsesAreSound
