SPECIFICATION Spec
CONSTANTS
  Addresses = {ip1, ip2}
  Tokens = {t1, t2}
  Logins = {l1}
  MaxFailures = 2
  Lockout = 2
  TTL = 2
INVARIANT LockNeedsMaxFailures
