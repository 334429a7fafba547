CONSTANTS
  e1 = e1
  e2 = e2
  k = k
  fresh = fresh
  p1 = p1
  p2 = p2
  Artifact <- MCArtifact
  Tenant <- MCTenant
  OwnerOf <- MCOwnerOf
  Executor <- MCExecutor
  Scope <- MCScope
  MaxHash = 3
  MaxBegun = 2
  ArtifactFile <- MCArtifactFile
  TenantOfFile <- MCTenantOfFile
  RunOfFile <- MCRunOfFile
  Reader <- MCReader
  ListLimit = 2
  SecretTenant = {"a", "b"}
  Ref <- MCRef
  TenantOfRef <- MCTenantOfRef
  Key = {k}
  Fresh = fresh
  BodyOf <- MCBodyOf
  Step <- MCStep
  Field <- MCField
  Post <- MCPost
  Document <- MCDocument
  TextOf <- MCTextOf
  Untitled = {"d3"}
  PageSize = 2
  MaxPages = 2
  EmptyReads = 2
  MaxReads = 4
  OperatorAllows = FALSE
  MaxRuns = 2
  MaxMoves = 1
  User = {"tokOwner", "tokViewer"}
  Session = {"sesOwner", "sesOper"}
  RoleOf <- MCRoleOf
  TenantOf <- MCTenantOf
  ExpiresAt <- MCExpiresAt
  HasCsrf = {"sesOwner", "sesOper"}
  LocalRole = "operator"
  Page = {"p1", "p2"}
  Requests <- MCRequests
  MaxPending = 2
  MaxTime = 2
  Target <- MCTarget
  SchemeOf <- MCSchemeOf
  Address <- MCAddress
  KindOf <- MCKindOf
  Literal = {"10.0.0.5"}
  OwnOrigin = {}
  OwnPort = {"127.0.0.1:4310"}
  Entry <- MCEntry
  CoversOf <- MCCoversOf
  Operators <- MCOperators
  Records <- MCRecords
  MaxAge = 1
  Skew = 1
  MaxTick = 4
  Flow <- MCFlow
  RunEnv <- MCRunEnv
SPECIFICATION RequestsSpec
PROPERTY RecipeSurvives
CHECK_DEADLOCK FALSE
