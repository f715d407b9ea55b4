------------------------------- MODULE Router -------------------------------
(* The routing table of mahalo-router: how the builder turns the paths of   *)
(* scopes and routes into the two descriptions each route keeps, its        *)
(* segments (for reverse routing) and its matchit path (for matching), and  *)
(* how a request is resolved against the matchit paths.                     *)
(*                                                                          *)
(* A path is the sequence of segments that split('/') yields: "/a/:b" is    *)
(* <<Empty, Static("a"), Param("b")>>, "" is <<Empty>>, "/" is              *)
(* <<Empty, Empty>>. Gluing two strings glues the last segment of one to    *)
(* the first of the other; it is only ever done where one of them is empty. *)
EXTENDS Subsequences, FiniteSets, FiniteSetsExt

Empty     == [kind |-> "empty",  name |-> ""]
Static(s) == [kind |-> "static", name |-> s]
Param(s)  == [kind |-> "param",  name |-> s]

IsParam(seg)  == seg.kind = "param"
NonEmpty(seg) == seg # Empty
Root          == <<Empty, Empty>>
StartsWithSlash(path) == Len(path) > 1 /\ Head(path) = Empty

-----------------------------------------------------------------------------
(* The paths a route is described by.                                       *)

ParseSegments(path) == Kept(path, {i \in DOMAIN path : NonEmpty(path[i])})

ExtractParamKeys(segments) ==
    LET params == Kept(segments, {i \in DOMAIN segments : IsParam(segments[i])})
    IN  [i \in DOMAIN params |-> params[i].name]

(* The path from its first, or up to its last, non-empty segment.           *)
TrimStart(path) ==
    SubSeq(path, Min({Len(path)} \cup {i \in DOMAIN path : NonEmpty(path[i])}), Len(path))
TrimEnd(path) ==
    SubSeq(path, 1, Max({1} \cup {i \in DOMAIN path : NonEmpty(path[i])}))

(* Leading slashes collapse into one; inner and trailing ones stay.         *)
ColonToBrace(path) == <<Empty>> \o TrimStart(path)

(* Fault: the trailing slash of a prefix stays.                             *)
NormalizePrefixKeepsSlash(prefix) ==
    IF StartsWithSlash(prefix) THEN prefix ELSE <<Empty>> \o prefix

NormalizePrefix(prefix) ==
    LET trimmed == TrimEnd(prefix)
    IN  IF StartsWithSlash(trimmed) THEN trimmed ELSE <<Empty>> \o trimmed

BuildMatchitPath(prefix, path) ==
    ColonToBrace(IF path \in {Root, <<Empty>>} THEN prefix
                 ELSE prefix \o (IF StartsWithSlash(path) THEN Tail(path) ELSE path))

-----------------------------------------------------------------------------
(* The methods a builder has calls for, each with a table of its own.       *)
Methods == {"GET", "POST", "PUT", "PATCH", "DELETE"}

(* Routes. A name is a path and a suffix (what format!("{}_index") builds); *)
(* NoName is None. A handler is "plug" or the action of a controller.       *)

NoName == <<>>

Route(method, segments, matchitPath, handler, names, name) ==
    [method |-> method, segments |-> segments, matchitPath |-> matchitPath,
     handler |-> handler, pipelineNames |-> names, name |-> name,
     paramKeys |-> ExtractParamKeys(segments)]

(* ScopeBuilder::add_route and add_named_route.                             *)
ScopedRoute(prefix, names, method, path, name, handler) ==
    Route(method, ParseSegments(prefix) \o ParseSegments(path),
          BuildMatchitPath(NormalizePrefix(prefix), path), handler, names, name)

(* The five routes of ScopeBuilder::resources.                              *)
Resources(prefix, names, path) ==
    LET withId == path \o <<Param("id")>>
        Crud(method, p, action) ==
            ScopedRoute(prefix, names, method, p, <<TrimStart(path), action>>, action)
    IN  <<Crud("GET", path, "index"), Crud("GET", withId, "show"),
          Crud("POST", path, "create"), Crud("PUT", withId, "update"),
          Crud("DELETE", withId, "delete")>>

TopLevelRoute(method, path, name) ==
    Route(method, ParseSegments(path), ColonToBrace(path), "plug", <<>>, name)

-----------------------------------------------------------------------------
(* matchit: a parameter matches one non-empty segment, a static segment     *)
(* beats a parameter at the first place two matching patterns differ, and   *)
(* two patterns that differ in parameter names only cannot both be in.      *)

SameShape(p, q) ==
    /\ Len(p) = Len(q)
    /\ \A i \in DOMAIN p : p[i] = q[i] \/ (IsParam(p[i]) /\ IsParam(q[i]))

Matches(pattern, path) ==
    /\ Len(pattern) = Len(path)
    /\ \A i \in DOMAIN path :
         IF IsParam(pattern[i]) THEN NonEmpty(path[i]) ELSE pattern[i] = path[i]

Beats(p, q) ==
    \E i \in DOMAIN p :
        /\ ~IsParam(p[i]) /\ IsParam(q[i])
        /\ \A j \in 1..(i - 1) : IsParam(p[j]) <=> IsParam(q[j])

(* One insert of compile() fails, and its unwrap panics.                    *)
CompileFails(table) ==
    \E i, j \in DOMAIN table :
        /\ i < j
        /\ table[i].method = table[j].method
        /\ SameShape(table[i].matchitPath, table[j].matchitPath)

(* The table of a method: HEAD is looked up in GET's, OPTIONS has none.     *)
TableMethod(method) == IF method = "HEAD" THEN "GET" ELSE method

(* resolve: the index of the matched route, 0 for None.                     *)
RouteAt(table, method, path) ==
    LET hits == {i \in DOMAIN table :
                    /\ table[i].method = TableMethod(method)
                    /\ Matches(table[i].matchitPath, path)}
    IN  IF hits = {} THEN 0
        ELSE CHOOSE i \in hits : \A j \in hits \ {i} :
                 Beats(table[i].matchitPath, table[j].matchitPath)

(* The (key, value) pairs in the order of the pattern.                      *)
PathParams(route, path) ==
    LET pattern == route.matchitPath
        params  == Kept([i \in DOMAIN pattern |-> <<pattern[i], path[i]>>],
                        {i \in DOMAIN pattern : IsParam(pattern[i])})
    IN  [i \in DOMAIN params |-> <<params[i][1].name, params[i][2]>>]

(* path_for on a route found by name; <<>> is None, as no path is empty.    *)
PathFor(route, params) ==
    LET segments == route.segments
        parts == [i \in DOMAIN segments |->
                    IF IsParam(segments[i]) THEN params[segments[i].name] ELSE segments[i]]
    IN  CASE \E i \in DOMAIN segments :
                IsParam(segments[i]) /\ segments[i].name \notin DOMAIN params -> <<>>
          [] segments = <<>> -> Root
          [] OTHER           -> <<Empty>> \o parts
=============================================================================
