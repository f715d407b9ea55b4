SPECIFICATION RoutingSpec
CONSTANTS
    PipelineMenu <- MCPipelineMenu
    ScopeMenu <- MCScopeMenu
    TopLevelMenu <- MCTopLevelMenu
    AfterMenu <- MCAfterMenu
    RoutedRequests <- MCRoutedRequests
    ParamValues <- MCParamValues
    MaxBuilderCalls = 3
    Chains <- MCChains
    PlugRequests <- MCPlugRequests
    StaticPaths = {"/static/app.js", "/static/logo.png"}
    CompressiblePaths = {"/static/app.js"}
    HeaderSize = 40
    VersionSize = 7
    MaxExchanges = 3
    MaxVersion = 2
    MaxChanges = 1
CHECK_DEADLOCK FALSE
INVARIANTS FirstRegisteredWins
