---------------------------- MODULE RequestCycle ----------------------------
(* A router from its builder to the requests it serves: the builder's calls *)
(* (pipeline, scope, the top-level routes), the endpoint that takes the     *)
(* router over, and execute_request: resolve, the route's pipelines plug by *)
(* plug, its handler (or the error handler), the after-plugs. Any plug may  *)
(* halt the conn.                                                           *)
EXTENDS Router, SequencesExt

CONSTANTS
    PipelineMenu,   \* pipelines a program registers: [name, plugs]
    ScopeMenu,      \* scope() calls: [prefix, names, body]
    TopLevelMenu,   \* top-level route calls: [method, path, name]
    AfterMenu,      \* after-plugs an endpoint may be given: sequences of plugs
    RoutedRequests, \* requests: [method, path]
    ParamValues,    \* non-empty segments that path_for is given for parameters
    MaxBuilderCalls \* bound: calls made on the builder

(* A path is never the empty sequence, as split never yields one. The plugs *)
(* of a program are told apart by numbers.                                  *)
Segments == [kind : {"empty", "static", "param"}, name : STRING]
Paths    == Seq(Segments) \ {<<>>}

ASSUME MenuAssumption ==
    /\ \A p \in PipelineMenu : p.plugs \in Seq(Nat)
    /\ \A s \in ScopeMenu : /\ s.prefix \in Paths /\ s.names \in Seq(STRING)
                           /\ s.body \in Seq(ToSet(s.body))
                           /\ \A d \in ToSet(s.body) :
                                d.path \in Paths /\ d.method \in Methods \cup {"resources"}
    /\ \A t \in TopLevelMenu : t.path \in Paths /\ t.method \in Methods
    /\ AfterMenu \subseteq Seq(Nat)
    /\ \A r \in RoutedRequests : r.path \in Paths
    /\ \A v \in ParamValues : NonEmpty(v)

VARIABLES
    builderCalls,   \* builder calls made so far
    pipelines,      \* MahaloRouter.pipelines: name -> plugs
    routes,         \* MahaloRouter.routes
    nameIndex,      \* MahaloRouter.name_index: name -> index in routes
    compiled,       \* MahaloRouter.compiled is initialized
    server,         \* the endpoint: [errorHandler, after]
    pc,             \* where the program, or the request it serves, is
    request,        \* the request being served
    route,          \* index of the resolved route, 0 for None
    todo,           \* plugs still to run, one sequence per resolved pipeline
    after,          \* after-plugs still to run
    pathParams,     \* Conn.path_params
    halted,         \* Conn.halted
    ran             \* history: [step, id, halts] of everything that ran

routerVars == <<builderCalls, pipelines, routes, nameIndex>>
connVars   == <<request, route, todo, after, pathParams, halted, ran>>
requestVars == <<routerVars, connVars, compiled, server, pc>>

NoRequest == [method |-> "", path |-> <<>>]

RequestInit ==
    /\ builderCalls = 0 /\ pipelines = <<>> /\ routes = <<>> /\ nameIndex = <<>>
    /\ compiled = FALSE
    /\ server = [errorHandler |-> FALSE, after |-> <<>>]
    /\ pc = "building"
    /\ request = NoRequest /\ route = 0 /\ todo = <<>> /\ after = <<>>
    /\ pathParams = <<>> /\ halted = FALSE /\ ran = <<>>

-----------------------------------------------------------------------------
(* The builder.                                                             *)

BuilderCall ==
    /\ pc = "building" /\ builderCalls < MaxBuilderCalls
    /\ builderCalls' = builderCalls + 1
    /\ UNCHANGED <<connVars, compiled, server, pc>>

(* HashMap::insert: what was there under a key is replaced.                 *)
Inserted(map, new) ==
    [n \in DOMAIN map \cup DOMAIN new |-> IF n \in DOMAIN new THEN new[n] ELSE map[n]]

Pipeline ==
    /\ BuilderCall
    /\ \E p \in PipelineMenu : pipelines' = Inserted(pipelines, [n \in {p.name} |-> p.plugs])
    /\ UNCHANGED <<routes, nameIndex>>

(* The named routes of from..Len(rs), the later of two of a name winning.   *)
Indexed(rs, from) ==
    LET new == {i \in from..Len(rs) : rs[i].name # NoName}
    IN  [n \in {rs[i].name : i \in new} |-> Max({i \in new : rs[i].name = n})]

Register(rs) ==
    /\ routes' = routes \o rs
    /\ nameIndex' = Inserted(nameIndex, Indexed(routes \o rs, Len(routes) + 1))
    /\ UNCHANGED pipelines

(* A declaration of a scope's body is a route or a resource.                *)
Declared(scope, d) ==
    IF d.method = "resources"
    THEN Resources(scope.prefix, scope.names, d.path)
    ELSE <<ScopedRoute(scope.prefix, scope.names, d.method, d.path, d.name, "plug")>>

Scope ==
    /\ BuilderCall
    /\ \E s \in ScopeMenu : Register(FlattenSeq([i \in DOMAIN s.body |-> Declared(s, s.body[i])]))

TopLevel ==
    /\ BuilderCall
    /\ \E t \in TopLevelMenu : Register(<<TopLevelRoute(t.method, t.path, t.name)>>)

(* The endpoint takes the router; nobody can change it from here on.        *)
Serve ==
    /\ pc = "building"
    /\ \E e \in BOOLEAN, a \in AfterMenu : server' = [errorHandler |-> e, after |-> a]
    /\ pc' = "idle"
    /\ UNCHANGED <<routerVars, connVars, compiled>>

-----------------------------------------------------------------------------
(* execute_request.                                                         *)

Receive ==
    /\ pc \in {"idle", "done", "panicked"}
    /\ \E r \in RoutedRequests : request' = r
    /\ pc' = "resolve"
    /\ route' = 0 /\ todo' = <<>> /\ after' = server.after
    /\ pathParams' = <<>> /\ halted' = FALSE /\ ran' = <<>>
    /\ UNCHANGED <<routerVars, compiled, server>>

(* compile() panics inside get_or_init, which leaves the cell empty.        *)
ResolvePanics ==
    /\ pc = "resolve" /\ ~compiled /\ CompileFails(routes)
    /\ pc' = "panicked"
    /\ UNCHANGED <<routerVars, connVars, compiled, server>>

(* The registered ones of the route's pipelines, in the route's order.      *)
ResolvedPipelines(r) ==
    LET names == Kept(r.pipelineNames,
                      {i \in DOMAIN r.pipelineNames : r.pipelineNames[i] \in DOMAIN pipelines})
    IN  [i \in DOMAIN names |-> pipelines[names[i]]]

Resolve ==
    /\ pc = "resolve" /\ (compiled \/ ~CompileFails(routes))
    /\ compiled' = TRUE
    /\ LET i == RouteAt(routes, request.method, request.path)
       IN  /\ route' = i
           /\ IF i = 0
              THEN pc' = "not_found" /\ UNCHANGED <<todo, pathParams>>
              ELSE /\ pc' = "pipelines"
                   /\ todo' = ResolvedPipelines(routes[i])
                   /\ pathParams' = PathParams(routes[i], request.path)
    /\ UNCHANGED <<routerVars, server, request, after, halted, ran>>

(* One plug, handler or error handler runs to its end; it may halt.         *)
Run(step, id, mayHalt) ==
    \E h \in BOOLEAN :
        /\ h => mayHalt
        /\ halted' = (halted \/ h)
        /\ ran' = Append(ran, [step |-> step, id |-> id, halts |-> h])

PipelinePlug ==
    /\ pc = "pipelines" /\ todo # <<>>
    /\ Head(todo) # <<>> /\ ~halted
    /\ Run("plug", Head(Head(todo)), TRUE)
    /\ todo' = <<Tail(Head(todo))>> \o Tail(todo)
    /\ UNCHANGED <<routerVars, compiled, server, pc, request, route, after, pathParams>>

PipelineEnds ==
    /\ pc = "pipelines" /\ todo # <<>>
    /\ Head(todo) = <<>> \/ halted
    /\ todo' = Tail(todo)
    /\ UNCHANGED <<routerVars, compiled, server, pc, request, route, after, pathParams, halted, ran>>

(* Fault: the handler runs although the last pipeline halted.               *)
PipelinesEndAlways ==
    /\ pc = "pipelines" /\ todo = <<>>
    /\ pc' = "handler"
    /\ UNCHANGED <<routerVars, connVars, compiled, server>>

PipelinesEnd ==
    /\ pc = "pipelines" /\ todo = <<>>
    /\ pc' = IF halted THEN "after" ELSE "handler"
    /\ UNCHANGED <<routerVars, connVars, compiled, server>>

Handle ==
    /\ pc = "handler"
    /\ Run("handler", route, TRUE)
    /\ pc' = "after"
    /\ UNCHANGED <<routerVars, compiled, server, request, route, todo, after, pathParams>>

NotFound ==
    /\ pc = "not_found"
    /\ Run("not_found", 0, server.errorHandler)
    /\ pc' = "after"
    /\ UNCHANGED <<routerVars, compiled, server, request, route, todo, after, pathParams>>

AfterPlug ==
    /\ pc = "after" /\ after # <<>> /\ ~halted
    /\ Run("after", Head(after), TRUE)
    /\ after' = Tail(after)
    /\ UNCHANGED <<routerVars, compiled, server, pc, request, route, todo, pathParams>>

Executed ==
    /\ pc = "after" /\ (after = <<>> \/ halted)
    /\ pc' = "done"
    /\ UNCHANGED <<routerVars, connVars, compiled, server>>

Builder == Pipeline \/ Scope \/ TopLevel \/ Serve
Cycle   == \/ ResolvePanics \/ Resolve \/ PipelinePlug \/ PipelineEnds \/ PipelinesEnd
           \/ Handle \/ NotFound \/ AfterPlug \/ Executed
RequestNext == Builder \/ Receive \/ Cycle

RequestSpec == RequestInit /\ [][RequestNext]_requestVars

-----------------------------------------------------------------------------
(* Properties.                                                              *)

Steps == [step : {"plug", "handler", "not_found", "after"}, id : Nat, halts : BOOLEAN]

(* Every variable has its type; the name index points into the routes.     *)
TypeOK ==
    /\ builderCalls \in 0..MaxBuilderCalls /\ compiled \in BOOLEAN /\ halted \in BOOLEAN
    /\ pc \in {"building", "idle", "resolve", "panicked", "pipelines", "handler",
               "not_found", "after", "done"}
    /\ route \in 0..Len(routes)
    /\ \A n \in DOMAIN nameIndex : nameIndex[n] \in DOMAIN routes
    /\ \A i \in DOMAIN ran : ran[i] \in Steps
    /\ request \in RoutedRequests \cup {NoRequest}

(* What a request is to run: the plugs of its scope's pipelines in the      *)
(* order the scope names them, then the handler, or else the error handler, *)
(* then the after-plugs.                                                    *)
Plan ==
    LET Planned(step, ids) ==
            [i \in DOMAIN ids |-> [step |-> step, id |-> ids[i]]]
        plugs == FlattenSeq(ResolvedPipelines(routes[route]))
    IN  (IF route = 0 THEN Planned("not_found", <<0>>)
         ELSE Planned("plug", plugs) \o Planned("handler", <<route>>))
        \o Planned("after", server.after)

(* What runs for a request is a prefix of that plan, in its order; it is    *)
(* all of it unless something halted, and nothing at all runs after a halt  *)
(* - neither in the same pipeline, nor in the next ones, nor the handler,   *)
(* nor an after-plug.                                                       *)
RanAsPlanned ==
    pc \in {"pipelines", "handler", "not_found", "after", "done"} =>
        LET did == [i \in DOMAIN ran |-> [step |-> ran[i].step, id |-> ran[i].id]]
        IN  /\ IsPrefix(did, Plan)
            /\ \A i \in DOMAIN ran : ran[i].halts => i = Len(ran)
            /\ halted <=> ran # <<>> /\ Last(ran).halts
            /\ pc = "done" => halted \/ did = Plan

(* Spelt without a trailing or a doubled slash.                             *)
Neat(path) == \A i \in 2..Len(path) : NonEmpty(path[i])

(* The routes whose path is neat or "/", in a scope whose prefix is neat    *)
(* but for slashes at its end. (The paths of a resource at "/" begin with   *)
(* two slashes.)                                                            *)
NeatRoutes ==
    LET top     == {t \in TopLevelMenu : Neat(t.path) \/ t.path = Root}
        scopes  == {s \in ScopeMenu : Neat(TrimEnd(s.prefix))}
        body(s) == {d \in ToSet(s.body) : Neat(d.path) \/ (d.path = Root /\ d.method # "resources")}
    IN  {TopLevelRoute(t.method, t.path, t.name) : t \in top}
        \cup UNION {UNION {ToSet(Declared(s, d)) : d \in body(s)} : s \in scopes}

ParamNames(r) == ToSet(ExtractParamKeys(r.segments))

(* Every total or partial assignment of values to the parameters.          *)
Assignments(r) ==
    UNION {[ks -> ParamValues] : ks \in SUBSET ParamNames(r)}

(* The route a name stands for: the last one registered under it, over all  *)
(* scopes and top-level calls.                                              *)
LastNamed(n) == Max({i \in DOMAIN routes : routes[i].name = n})

(* Reverse routing undoes routing: the path that path_for builds under a    *)
(* name resolves, under the method of the last route of that name, to this  *)
(* route with the same parameter values, all under interned keys (resolve   *)
(* would leak a new one per request), or to a route matchit prefers for a   *)
(* static segment, whatever else is registered before or after it and       *)
(* however its prefix was spelt. path_for is None just when a parameter is  *)
(* missing. Left out are paths spelt with a trailing or a doubled slash,    *)
(* whose segments lose the slash that the matchit path keeps: what path_for *)
(* builds for them is answered with 404. That a static segment wins         *)
(* whatever was registered first is what matchit does, and not what the     *)
(* documents say: see FirstRegisteredWins.                                  *)
PathForResolves ==
    pc = "idle" /\ ~CompileFails(routes) =>
        \A n \in {routes[i].name : i \in DOMAIN routes} \ {NoName} :
            LET due == routes[LastNamed(n)]
            IN  due \in NeatRoutes => \A params \in Assignments(due) :
                    LET path  == PathFor(routes[nameIndex[n]], params)
                        i     == RouteAt(routes, due.method, path)
                        found == PathParams(due, path)
                    IN  IF DOMAIN params # ParamNames(due) THEN path = <<>>
                        ELSE \/ /\ i = LastNamed(n)
                                /\ \A k \in DOMAIN found :
                                     /\ params[found[k][1]] = found[k][2]
                                     /\ found[k][1] \in ToSet(due.paramKeys)
                             \/ i # 0 /\ Beats(routes[i].matchitPath, due.matchitPath)

-----------------------------------------------------------------------------
(* What the documents say and the code does not do.                         *)

(* docs/routing.md: "Routes are matched in registration order. The first    *)
(* route matching both the HTTP method and path pattern wins." resolve()    *)
(* asks matchit, which prefers a static segment whenever it was registered. *)
FirstRegisteredWins ==
    route # 0 =>
        route = Min({i \in DOMAIN routes :
                       /\ routes[i].method = routes[route].method
                       /\ Matches(routes[i].matchitPath, request.path)})
=============================================================================
