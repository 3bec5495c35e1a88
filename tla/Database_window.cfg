SPECIFICATION SpacedSpec
CONSTANTS
  Subdomains = {s1, s2}
  Values = {v1, v2}
  Names = {label}
  Addresses = {}
  CipherKeys = {k1}
  NoValue = NoValue
  NoAddress = NoAddress
  NoKey = NoKey
  AllowFroms <- Unrestricted
  MaxTime = 3
  MaxPasswords = 2
  ClockMayStepBack = TRUE
  InsertMayFail = FALSE
  CommitMayFail = TRUE
VIEW WithoutHistory
INVARIANT ShownPasswordAuthenticates
PROPERTY RollingWindow
