CONSTANTS
  Users = {"u1", "u2"}
  Emails = {"a", "b"}
  Subjects = {"p", "q"}
  OidcStates = {"s1"}
  Callbacks = {"h1", "h2"}
  TabIds = {"t1", "t2"}
  Window = 2
  MaxAttempts = 2
  StateTtl = 1
  SessionTtl = 1
  Horizon = 3
  MaxSessions = 2
  Projects = {"p", "q"}
  Sources = {"s"}
  AdminPatterns <- MCAdminPatterns
  RolePermissions <- MCRolePermissions
  MaxAccessSteps = 4
  Browsers = {"b1", "b2"}
  SourceIds = {"s1", "s2"}
  Secrets = {"k1"}
  First = "k0"
  Cases <- MCCases
  MaxSourceSteps = 2
  MaxRequests = 1
  Files <- MCFiles
  Addresses = {"a", "b"}
  Passwords = {"p1", "p2"}
  Slugs = {"default", "x", "y"}
  Titles = {"X", "Y"}
  SourceNames = {"n", "m"}
  Configs = {"c1", "c2"}
  RoleSlugs = {"admin", "viewer"}
  Statements = 2
  MaxStarts = 3
  MaxRouteCalls = 2
  Callers = {"ready", "w1", "w2"}
  WindowConfigs = {"k1", "k2"}
  MaxBackends = 3
  MaxLaunches = 2
SPECIFICATION ServerSpec
INVARIANTS SignInIsSafe AccessIsTrue SecretsAreSafe StoreIsRestored BackendIsSafe
PROPERTIES ServerKeepsFaith
CHECK_DEADLOCK FALSE
