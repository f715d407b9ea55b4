SPECIFICATION MCSpec
CONSTANTS
    PipelineMenu <- MCPipelineMenu
    ScopeMenu <- MCScopeMenu
    TopLevelMenu <- MCTopLevelMenu
    AfterMenu <- MCAfterMenu
    RoutedRequests <- MCRoutedRequests
    ParamValues <- MCParamValues
    MaxBuilderCalls = 3
    Chains <- MCChains
    PlugRequests <- MCPlugRequests
    StaticPaths = {"/static/app.js", "/static/logo.png"}
    CompressiblePaths = {"/static/app.js"}
    HeaderSize = 40
    VersionSize = 7
    MaxExchanges = 3
    MaxVersion = 2
    MaxChanges = 1
    Workers = {w1, w2}
    Requests <- MCRequests
    ItemsSent <- MCItemsSent
    StatusesSent = {"ready"}
    PricesSent = {7}
    ChatsSent <- MCChatsSent
    InitFlavors <- MCInitFlavors
    OrderIds = {1, 2}
    Deltas <- MCDeltas
    MinPrice = 2
    MaxSigned = 7
    MaxCalls = 4
    MaxTicks = 2
    MaxSims = 2
    PresenceTopics = {"room"}
    Keys = {"ann", "bob"}
    Metas = {1, 2}
    Watchers = {x1, x2}
    MaxCommands = 3
    MaxPending = 2
    Peers = {p1, p2}
    Broadcasters = {"b1", "b2"}
    MaxSent = 2
    MaxPolls = 2
    MaxRestarts = 1
    Tasks = {"t1", "t2"}
    EventNames <- MCEventNames
    AttachPrefixes <- MCPrefixes
    MaxHandlers = 3
    MaxEvents = 3
    MaxDepth = 2
    NumWorkers = 2
    MaxLives = 2
CHECK_DEADLOCK FALSE
INVARIANTS RanAsPlanned PathForResolves
INVARIANTS ClientShowsCurrent FramedAsDeclared WritesFit
INVARIANTS PoisonedForACause StreamShowsMovedPrices AnnouncedUnlessRaced
INVARIANTS WatcherConverges ClusterViewMatches RelayFollows DeliveredOnceInOrder
INVARIANTS StartReportsPanics
PROPERTIES StepsBackOnlyInARace
VIEW MCView
