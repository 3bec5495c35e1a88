SPECIFICATION DbSpec
CONSTANTS
  Subdomains = {s1}
  Values = {v1, v2, v3}
  Names = {label}
  Addresses = {ip1}
  CipherKeys = {}
  NoValue = NoValue
  NoAddress = NoAddress
  NoKey = NoKey
  AllowFroms <- Unrestricted
  MaxTime = 3
  MaxPasswords = 1
  ClockMayStepBack = FALSE
  InsertMayFail = FALSE
  CommitMayFail = FALSE
INVARIANT LastTwoServed
