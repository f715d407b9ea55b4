--------------------------- MODULE MCRequestCycle ---------------------------
(* Paths spelt in every way the builder accepts: with and without leading   *)
(* and trailing slashes, parameters in prefixes, the root, static segments  *)
(* that shadow parameters, the same resource in two scopes, two patterns    *)
(* that conflict, a pipeline name nobody registers. Apart from that, the    *)
(* standard plugs in two orders around a handler: a behaviour explores the  *)
(* router or the plugs, and leaves the other as it starts.                  *)
EXTENDS RequestCycle, StandardPlugs

VARIABLE part

Users == Static("users")
Api   == Static("api")
New   == Static("new")
Val   == Static("v")
Id    == Param("id")
Org   == Param("org")

Named(s) == <<<<Static(s)>>, "">>

MCPipelineMenu ==
    {[name |-> "auth", plugs |-> <<1, 2>>], [name |-> "log", plugs |-> <<3>>],
     [name |-> "auth", plugs |-> <<>>]}

Decl(method, path, name) == [method |-> method, path |-> path, name |-> name]
ScopeCall(prefix, names, body) == [prefix |-> prefix, names |-> names, body |-> body]

MCScopeMenu ==
    {ScopeCall(<<Empty, Api>>, <<"auth", "log">>,
               <<Decl("resources", <<Empty, Users>>, NoName)>>),
     ScopeCall(<<Api, Empty>>, <<"log", "ghost", "auth">>,
               <<Decl("GET", Root, Named("api")), Decl("GET", <<Id>>, Named("item"))>>),
     ScopeCall(Root, <<"auth">>, <<Decl("resources", <<Users>>, NoName)>>),
     ScopeCall(<<Empty>>, <<"log">>,
               <<Decl("GET", <<Empty, Users, New>>, Named("new")),
                 Decl("PATCH", <<Empty, Users, Id, Empty>>, Named("slashed"))>>),
     ScopeCall(<<Empty, Org>>, <<"auth">>,
               <<Decl("GET", <<Users, Id>>, Named("member")),
                 Decl("GET", <<Empty>>, Named("item"))>>)}

MCTopLevelMenu ==
    {Decl("GET", Root, Named("root")), Decl("GET", <<Api, Users>>, NoName),
     Decl("POST", <<Empty, Users>>, Named("new"))}

Sent(method, path) == [method |-> method, path |-> path]

MCRoutedRequests ==
    {Sent("GET", Root), Sent("HEAD", <<Empty, Api>>), Sent("GET", <<Empty, Api, Val>>),
     Sent("GET", <<Empty, Api, Users, New>>), Sent("DELETE", <<Empty, Api, Users, Val>>),
     Sent("GET", <<Empty, Users, New>>), Sent("PATCH", <<Empty, Users, Val, Empty>>),
     Sent("POST", <<Empty, Users>>), Sent("OPTIONS", <<Empty, Users>>)}

MCParamValues == {Val, New, Api}
MCAfterMenu == {<<>>, <<4, 5>>}

PlugRequest(method, path, accept, csrf, id, query) ==
    [method |-> method, path |-> path, accept |-> accept, csrf |-> csrf, id |-> id, query |-> query]

MCPlugRequests ==
    {PlugRequest("GET", "/static/app.js", {"br", "gzip"}, "none", "none", {}),
     PlugRequest("GET", "/static/app.js", {}, "none", "r1", {}),
     PlugRequest("HEAD", "/static/app.js", {"br"}, "none", "none", {}),
     PlugRequest("POST", "/static/app.js", {}, "valid", "none", {}),
     PlugRequest("GET", "/static/logo.png", {"br"}, "none", "none", {}),
     PlugRequest("GET", "/page", {}, "none", "none", {"q"}),
     PlugRequest("HEAD", "/page", {}, "none", "none", {}),
     PlugRequest("POST", "/page", {}, "valid", "none", {}),
     PlugRequest("POST", "/page", {}, "forged", "none", {}),
     PlugRequest("GET", "/events", {}, "none", "none", {}),
     PlugRequest("GET", "/odd", {}, "none", "none", {})}

MCChains ==
    {<<"logger_start", "request_id", "csrf", "secure_headers", "handler",
       "etag", "static_files", "logger_finish">>,
     <<"static_files", "handler", "etag">>}

-----------------------------------------------------------------------------
RoutingInit ==
    /\ RequestInit /\ PlugsInit
    /\ part # "plugs" => exchange.chain = CHOOSE c \in Chains : TRUE

RoutingStep == \/ part = "router" /\ RequestNext /\ UNCHANGED plugVars
               \/ part = "plugs" /\ PlugsNext /\ UNCHANGED requestVars

RoutingSpec == /\ part \in {"router", "plugs"} /\ RoutingInit
               /\ [][RoutingStep /\ UNCHANGED part]_<<part, requestVars, plugVars>>
=============================================================================
