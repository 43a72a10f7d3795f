CONSTANTS
  Risk = {0, 1}
  AttemptBound = 1
  Artifact = {"a1", "a2"}
  MaxCreated = 2
  Host = {"h1", "h2", "h3"}
  HostList = {{}, {"h1"}, {"h1", "h3"}}
  PrivateHost = {"h2"}
  PrivateAddr = {"h3"}
  RedirectLimit = 2
  MaxFetches = 2
  BaseDelay = 1
  MaxDelay = 3
  RetryAfter = {0, 5}
  Candidate = {"c1", "c2", "c3", "c4"}
  candUrl <- MCUrl
  candDomain <- MCDomain
  Configs <- MCConfigs
  Preferences <- MCPreferences
  DomainLists = {{}, {"d1"}}
  MaxQueries = 2
  MaxProviderCalls = 2
  MaxResults = 2
  MaxSources = 2
  MinResults = 2
  RvFound <- MCRvFound
  RvPage = {"p1", "p2"}
  RvMax = 2
  Tokens = {0, 1, 3}
  TextBound = 5
  Proc = {"w1", "w2"}
  IdxArtifact = {"a1", "b1"}
  Old = {"a1", "b1"}
  Outside = {"b1"}
  DemoArtifact = {"b1"}
  DemoRun = {2}
  RunBound = 2
  OpBound = 3
  Torn = Torn
  OutArtifact = {"r1", "r2", "r3", "r4"}
  outKind <- MCKind
  outAge <- MCAge
  OutRestricted = {"r1"}
  OutUnredacted = {"r2"}
  MaxSelected = {1, 2}
  WoPlan <- MCWoPlan
  WoEdits = 2
  TxFile <- MCTxFile
  TxPlan <- MCTxPlan
  VrScripts = {{}, {"test"}, {"typecheck", "test", "build"}}
  VrAsked = {{}, {"test"}, {"typecheck", "test"}, {"typecheck", "test", "build"}, {"e2e"}}
  EvScenarios <- MCScenarios
  EvRoutes <- MCRoutes
  EvOutcome <- MCOutcome
SPECIFICATION Spec
CHECK_DEADLOCK FALSE
INVARIANTS
  StepAccounted
  FetchInPolicy
  ResearchHonest
  ResearchShown
  CallsAccounted
  IndexTrustworthy
  OutputsTraceable
  OrdersRestOnEvidence
  BenchmarkFair
  PatchesLandWhole
  VerificationHonest
