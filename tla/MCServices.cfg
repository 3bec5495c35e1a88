SPECIFICATION Spec
CONSTANTS
  Sources = {"ip1", "ip2"}
  Tokens = {"t1", "t2"}
  Logins = {"l1", "l2"}
  MaxFailures = 2
  Lockout = 2
  TTL = 2
  LockLookups = {"q1"}
  Reads = {"r1"}
  Writes = {"w1", "w2"}
  DefaultTimeout = 2
  ReadTimeout = 1
  PoolSize = 1
  Resolvers = 3
  QueryTimeout = 5
  PollInterval = 3
  TxtTimeout = 30
  Slack = 30
  QueryTimes = {0, 1, 5}
  DbTimes = {0}
  Truncation = FALSE
  Requests = {"c1", "c2"}
  Ips = {"ip1", "ip2"}
  HostNames = {"h1"}
  NoHost = "none"
  PtrSlots = 1
  Ttl = 1
  Subdomains = {"s1", "s2"}
  Values = {}
  NoValue = "none"
  Names = {"d1", "d2", "unlabelled"}
  Addresses = {}
  NoAddress = "none"
  AllowFroms <- Unrestricted
  CipherKeys = {}
  NoKey = "none"
  MaxTime = 1
  MaxPasswords = 2
  ClockMayStepBack = FALSE
  InsertMayFail = FALSE
  CommitMayFail = FALSE
  Candidates = {"d1", "d2"}
  Lists <- OneOrTwoCandidates
  Stranger = "stranger"
  DbMayFail = TRUE
  MaxCrashes = 3
  CreateMayFail = FALSE
  DeleteMayFail = FALSE
  StatementMayFail = TRUE
  ReadMayFail = TRUE
  Protos = {"udp", "tcp"}
  Layouts <- OneOrTwoServers
  Taken = {"tcp"}
  MayFail = {"udp", "tcp"}
  ApiMayFail = TRUE
  Keys = {"k1", "k2"}
  NoChallenge = "none"
INVARIANTS
  TypeOK
  GuessesBounded
  WaitsAreBounded
  HostsAreFresh
  VerdictsAreTrue
  SchemaIsSound
  OwnChallengeAnswered
PROPERTIES
  MatchRunsAreTrue
  LocksAndSessionsHold
  NothingWaitsForever
  ValuesSurviveRestarts
  EventuallyCurrent
