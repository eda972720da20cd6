CONSTANTS
  Beans = 2
  AdapterCount = 3
  SingletonAdapters = {2, 3}
  Watched = 2
  Silence = 1
  BootGrace = 1
  AcceptLimit = 1
  CutGrace = 1
  Delay = 1
  DelayMax = 1
  ResetAfter = 1
  MaxTroubles = 2
  Members = {1, 2}
  Targets = {1, 2}
  Requests = {1, 2}
  Askers = {1}
  MaxVersion = 1
  MaxEvents = 2
  Blocks = {"a", "b"}
  Doors = {"web", "job"}
  Scaling <- DoorScaling
  ShareBy <- DoorSharing
  Ports = {1, 2}
  Classes = {1, 2, 3}
  Threads = {"t1", "t2"}
  MaxFailures = 1
  Events = {"a", "b", "c", "x"}
  Exempt = {"x"}
  Handlers <- EventHandlers
  MaxPending = 2
  Loggers = {"w"}
  Parent = "s"
  Capacity = 2
  MaxRecords = 2
  MaxKilled = 1
  CtxTasks = {"r", "s"}
  CtxKeys = {"request_id", "k"}
  MaxDicts = 4
  Writes = 2
  ReadErrors = 1
  MaxWsMessages = 2
  Callers = {"t1", "t2"}
  MaxCert = 2
  MaxAttempts = 2
  MaxChannels = 2
  Names = {"x", "y", "z"}
  ServerIds <- GrpcServers
  MessageOf <- RequestOf
  MaxFields = 2
  MaxEdits = 3
  MaxStops = 1
  Commands = {"c"}
  Uploads = {"u"}
  Downloads = {"d"}
  QueueSize = 1
  MaxOpen = 2
  MaxChunks = 1
  Filters <- TopicFilters
  Topics <- TopicNames
  RpcRoutes = {2}
  MaxMessages = 2
  MaxHandlers = 1
  MaxDrops = 1
  Layouts <- FieldLayouts
  Watches = 1
  MaxGap = 1
  ReadLimit = 4
  Deadband = 1
  MaxConcurrency = 1
  MaxValue = 2
  MaxMoves = 1
  UaNodes = {"level", "setpoint"}
  Handled = {"setpoint"}
  UaWatches <- NodeWatches
  MaxUaValue = 1
  MaxUaWrites = 2
  MaxUaMoves = 1
  MaxServers = 2
  Procs = {"p1", "p2"}
  TTL = 1
  TotalMax = 6
  MaxClock = 1
  RequestTask = "t1"
  SpawnedTask = "t2"
  MaxDepth = 2
  MaxSessions = 3
  PutTasks = {"p", "q"}
  SizeOf <- PutSizes
  DownloadTasks = {"d"}
  MaxRequests = 2
  MaxDeletes = 1
  JwtSetups <- GateSetups
  WebPaths <- GatePaths
  HealthPath <- Healthz
  IssuerKeys = {1, 2}
  TokenLife = 1
  Leeway = 0
  MaxTokenClock = 1
  ServedFields <- ServedModel
  ServedValues = {1}
  WordOrders <- Orders
  MaxWriteHandlers = 1
  MaxPlantEvents = 2
  RunApp <- HostRuns
  BlockOrder <- RunBlocks
  FamilyOf <- BlockFamily
  WorkersPerRun = 1
  MaxMishaps = 1
  NativeServers <- RunServers
  PortOf <- ServerPort
  Traces <- TraceFlags
  Scripts <- NativeScripts
  QueueCapacity = 2
  RatePerSecond = 1
  MaxFlushMisses = 1
  EndpointSetups <- Endpoints
  ErrorMaps <- GrpcErrorMaps
  Supertypes <- ErrorTypes
  MaxRotations = 2
  MaxFetchErrors = 1
  MaxStreamed = 2
  Programs <- MainFiles
  MaxCalls = 2
  SiteSetups <- SiteFiles
  SiteIds <- WebSites
  Types <- AppTypes
  KindOf <- AppKinds
  SegmentOf <- AppSegments
  MethodsOf <- AppMethods
  TakesOf <- AppTakes
  DefaultSegments = {"domain"}
  Packages <- AppPackages
  Exclusions = {{}}
  BindTargets <- AppTargets
  Factories <- AppFactories
  Rules <- AppRules
  Overrides = {{}, {"P"}, {"A"}}
  Registered = {"B", "X"}
  MaxDeclared = 3
  BaseFiles <- AppFiles
  ProfileFiles <- ProdFiles
  Keys <- FileKeys
  SecretKeys = {"secret"}
SPECIFICATION PartsSpec
INVARIANT PartsTypeOK
INVARIANT LifeIsOrderly
INVARIANT WatchdogIsSound
INVARIANT ReloadReachesAll
 
INVARIANT ContainerIsSound
INVARIANT BusIsHonest
INVARIANT AppliedIsServed
INVARIANT ChannelsAreSound
INVARIANT UploadIsWhole
INVARIANT AnswerIsOwed
INVARIANT StoreIsSound
INVARIANT ScopesAreSound
 
INVARIANT FilesAreSound
 
INVARIANT OtherPartsAreSound
PROPERTY WorkerEnds
PROPERTY BlockedEnds
PROPERTY WatchCatchesUp
CHECK_DEADLOCK FALSE
