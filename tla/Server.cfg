SPECIFICATION MCSpec
CONSTANTS
  Keys = {"k1", "k2"}
  Tenants = {"t1"}
  TenantOf <- OneTenant
  Requests = {"r1", "r2"}
  Admins = {"a1", "a2"}
  Nothing = "nothing"
  IdemKeys = {"one", "two", "other"}
  IdemTenantOf <- TwoTenants
  Bodies = {"x", "y"}
  IdemRequests = {"q1", "q2", "q3"}
  TenantCap = 1
  GlobalCap = 2
  MaxKeys = 2
  RingRequests = {"r1", "r2"}
  MaxSeconds = 1
  MaxMints = 5
  MaxRingSuspensions = 1
  Clients = {"c1", "c2"}
  RegRequests = {"r1", "r2"}
  PerIP = 2
  Global = 1
  MaxTenants = 1
  MaxEntries = 1
  Window = 1
  MaxTime = 3
  MaxMade = 3
  Columns <- TwoColumns
  MasterKeys = {"k1", "k2"}
  FirstKey = "k1"
  MaxBackups = 1
  MaxRestores = 1
  Services = {"w"}
  Sandboxes = {"s"}
  MaxUse = 2
  MaxRestarts = 1
  MaxLines = 5
  MaxLogSize = 3
  FlushBytes = 2
  TailLines = 1
  Buffer = 2
  LogFails = TRUE
  Snaps = {"s1", "s2"}
  UsedSnaps = {"s1"}
  MaxPerService = 1
  MaxSnapFaults = 1
  MaxSnapCrashes = 1
  Creates = {"c1", "c2"}
  MaxPullFaults = 1
  Ids = {"p1", "p2"}
  MaxPreviewsPerEnv = 2
  MaxSuspensions = 1
  MaxFaults = 1
  MaxCrashes = 1
CHECK_DEADLOCK FALSE
INVARIANTS
  TypesOK
  NoStaleEntry
  DeadKeyRefused
  OneRunPerKey
  RunnersKnown
  CapsHeld
  RecoveryCostsOneKey
  SecretsReadable
  BilledOnce
  LogsComplete
  ImagesKept
  PreviewsServed
PROPERTIES
  StoredUntilExpiry
