---------------------------- MODULE StandardPlugs ----------------------------
(* The plugs of mahalo-plug around a handler, on a keep-alive connection    *)
(* that makes a Conn for each request and reuses its response buffer: a     *)
(* caching client asks for pages, static files (with precompressed          *)
(* variants) and an event stream, while files and pages change. A chain is  *)
(* what a request runs: plugs, "handler", after-plugs; a conn that is       *)
(* halted runs no more of it. A body is [of, enc, version]; an ETag, a hash *)
(* of a body, is the body itself.                                           *)
EXTENDS Naturals, Sequences, SequencesExt, FiniteSets

CONSTANTS
    Chains,             \* what programs run: sequences of plugs
    PlugRequests,       \* requests: [method, path, accept, csrf, id, query]
    StaticPaths,        \* the paths below the prefix of StaticFiles
    CompressiblePaths,  \* those of a compressible type
    HeaderSize,         \* bytes of a response header on the wire
    VersionSize,        \* bytes by which a version of a body grows
    MaxExchanges,       \* bound: requests
    MaxVersion,         \* bound: versions of a file or page
    MaxChanges          \* bound: changes of files and pages

Plugs == {"logger_start", "logger_finish", "request_id", "csrf", "secure_headers", "handler", "etag",
          "static_files"}

ASSUME SizeAssumption == HeaderSize \in Nat /\ VersionSize \in Nat /\ MaxVersion \in Nat

(* A program runs plugs around the one handler of a route; its static files *)
(* are below a prefix of their own.                                         *)
ASSUME ChainAssumption ==
    /\ Chains \subseteq Seq(Plugs)
    /\ \A chain \in Chains : \E i \in DOMAIN chain : \A j \in DOMAIN chain : chain[j] = "handler" <=> j = i
ASSUME RequestAssumption ==
    \A r \in PlugRequests : {"method", "path", "accept", "csrf", "id", "query"} \subseteq DOMAIN r
ASSUME PathAssumption == StaticPaths \cap {"/page", "/events", "/odd"} = {}

VARIABLES
    conn,               \* the Conn of the request being served
    exchange,           \* [pc, chain, todo, count, changes]
    disk,               \* per static path and encoding, the version there; 0 for no file
    page,               \* the version the handler renders
    alive,              \* history: bodies that existed since the request came
    cache,              \* the client's: per path [body, etag]
    wire,               \* what the last response wrote: [status, declared, bytes, unsafe]
    capacity            \* capacity of the response buffer

plugVars == <<conn, exchange, disk, page, alive, cache, wire, capacity>>

Encodings == <<"br", "zstd", "gzip">>
Identity  == "identity"
EmptyBody == [of |-> "", enc |-> Identity, version |-> 0]
Body(path, enc, version) == [of |-> path, enc |-> enc, version |-> version]
BodyLen(body) == body.version * VersionSize
Nothing == [of |-> "nothing"]
NoRequestYet == [method |-> "GET", path |-> "/", accept |-> {}, csrf |-> "none", id |-> "none",
                 query |-> {}, ifNoneMatch |-> Nothing]

-----------------------------------------------------------------------------
(* Conn. query and assigns are Options: <<>> for None, <<x>> for Some(x).    *)

(* A map with a key set.                                                    *)
With(f, key, v) == [x \in DOMAIN f \cup {key} |-> IF x = key THEN v ELSE f[x]]

UnwrapOr(option, default) == IF option = <<>> THEN default ELSE option[1]

ConnNew(r) ==
    [method |-> r.method, path |-> r.path, headers |-> r, query |-> <<>>, status |-> 200,
     resp |-> <<>>, respBody |-> EmptyBody, halted |-> FALSE, assigns |-> <<>>]

PutStatus(c, status)     == [c EXCEPT !.status = status]
PutHeader(c, name, v)    == [c EXCEPT !.resp = With(@, name, v)]
PutBody(c, body)         == [c EXCEPT !.respBody = body]
Halt(c)                  == [c EXCEPT !.halted = TRUE]
Assigns(c)               == UnwrapOr(c.assigns, <<>>)
Assign(c, key, v)        == [c EXCEPT !.assigns = <<With(Assigns(c), key, v)>>]
ParseQueryParams(c)      == IF c.headers.query = {} THEN c ELSE [c EXCEPT !.query = <<c.headers.query>>]

-----------------------------------------------------------------------------
(* The plugs.                                                               *)

LoggerStart(c) == Assign(c, "start_time", TRUE)

RequestId(c, fresh) ==
    LET id == IF c.headers.id = "none" THEN fresh ELSE c.headers.id
    IN  PutHeader(Assign(c, "request_id", id), "x-request-id", id)

CsrfProtection(c, fresh) ==
    IF c.method \in {"GET", "HEAD", "OPTIONS"}
    THEN PutHeader(Assign(c, "csrf", fresh), "x-csrf-token", fresh)
    ELSE IF c.headers.csrf = "valid" THEN Assign(c, "csrf", "valid")
    ELSE Halt(PutBody(PutStatus(c, 403), Body("forbidden", Identity, 1)))

SecureNames ==
    {"x-content-type-options", "x-frame-options", "x-xss-protection", "strict-transport-security",
     "x-download-options", "x-permitted-cross-domain-policies", "referrer-policy"}

SecureHeaders(c) ==
    [c EXCEPT !.resp = [n \in DOMAIN @ \cup SecureNames |-> IF n \in SecureNames THEN TRUE ELSE @[n]]]

(* Fault: a 304 goes out with the body it stands for.                       *)
NotModifiedKeepsBody(c) == Halt(PutStatus(c, 304))

NotModified(c) == Halt(PutBody(PutStatus(c, 304), EmptyBody))

ETag(c) ==
    IF c.status # 200 \/ c.respBody = EmptyBody THEN c
    ELSE LET tagged == PutHeader(c, "etag", c.respBody)
         IN  IF c.headers.ifNoneMatch = c.respBody THEN NotModified(tagged) ELSE tagged

(* Fault: the tag is that of the file, whichever variant is sent.           *)
TagOfFile(body) == Body(body.of, Identity, disk[body.of][Identity])

(* check_etag hashes the bytes it is given: those to be sent.               *)
CheckEtag(body) == body

(* A file, or a variant of it, has been read: 304, the head, or all of it.  *)
ServeFile(c, body) ==
    LET etag    == CheckEtag(body)
        typed   == PutHeader(PutHeader(PutStatus(c, 200), "content-type", TRUE), "cache-control", TRUE)
        encoded == IF body.enc = Identity THEN typed ELSE PutHeader(typed, "content-encoding", body.enc)
        varied  == IF body.of \in CompressiblePaths THEN PutHeader(encoded, "vary", TRUE) ELSE encoded
        served  == PutHeader(PutHeader(varied, "content-length", BodyLen(body)), "etag", etag)
    IN  IF c.headers.ifNoneMatch = etag THEN NotModified(served)
        ELSE Halt(IF c.method = "HEAD" THEN served ELSE PutBody(served, body))

(* The first variant that is accepted, there and readable, else the file.   *)
StaticFiles(c, readable) ==
    LET there    == {e \in readable : disk[c.path][e] # 0}
        variants == {i \in DOMAIN Encodings : Encodings[i] \in there \cap c.headers.accept}
        choice   == IF c.path \in CompressiblePaths /\ variants # {} THEN Encodings[Min(variants)]
                    ELSE Identity
    IN  IF \/ c.method \notin {"GET", "HEAD"} \/ c.path \notin StaticPaths
           \/ disk[c.path][Identity] = 0 \/ choice \notin there
        THEN c
        ELSE ServeFile(c, Body(c.path, choice, disk[c.path][choice]))

(* sse_response: status, two headers, and the receiver among the assigns.   *)
SseResponse(c) ==
    Assign(PutHeader(PutHeader(PutStatus(c, 200), "content-type", TRUE), "cache-control", TRUE),
           "sse_stream", TRUE)

(* The program's: a page, an event stream, an odd status, or no route.      *)
RouteHandler(c) ==
    CASE c.path = "/page"   -> PutBody(ParseQueryParams(c), Body("/page", Identity, page))
      [] c.path = "/events" -> SseResponse(c)
      [] c.path = "/odd"    -> PutStatus(c, 511)
      [] OTHER              -> PutBody(PutStatus(c, 404), Body("missing", Identity, 1))

CallPlug(plug, c, fresh, readable) ==
    CASE plug = "logger_start"   -> LoggerStart(c)
      [] plug = "logger_finish"  -> c
      [] plug = "request_id"     -> RequestId(c, fresh)
      [] plug = "csrf"           -> CsrfProtection(c, fresh)
      [] plug = "secure_headers" -> SecureHeaders(c)
      [] plug = "handler"        -> RouteHandler(c)
      [] plug = "etag"           -> ETag(c)
      [] plug = "static_files"   -> StaticFiles(c, readable)

-----------------------------------------------------------------------------
(* Serialization. The part of a response up to the connection header is     *)
(* written through a raw pointer into what was reserved.                    *)

HeaderBytes(c) == HeaderSize * Cardinality(DOMAIN c.resp)

StatusLineLen(status) ==
    CASE status = 200 -> 17 [] status = 304 -> 27 [] status \in {403, 404} -> 24 [] status = 511 -> 46

(* Exact for bodies of less than 10^10 bytes.                               *)
Digits(n) == 1 + Cardinality({k \in 1..9 : 10^k <= n})

(* Fault: only what the program put into the response is counted.           *)
NeededForPayload(c) == HeaderBytes(c) + BodyLen(c.respBody)

Needed(c) == 128 + HeaderBytes(c) + BodyLen(c.respBody)

UnsafeBytes(c) ==
    StatusLineLen(c.status) + HeaderBytes(c)
    + (IF "content-length" \in DOMAIN c.resp THEN 0 ELSE 16 + Digits(BodyLen(c.respBody)) + 2)
    + 24

SerializeResponse(c) ==
    [status   |-> c.status,
     declared |-> IF "content-length" \in DOMAIN c.resp THEN c.resp["content-length"] ELSE BodyLen(c.respBody),
     bytes    |-> IF c.method = "HEAD" THEN 0 ELSE BodyLen(c.respBody),
     unsafe   |-> UnsafeBytes(c)]

NoWire == [status |-> 0, declared |-> 0, bytes |-> 0, unsafe |-> 0]

-----------------------------------------------------------------------------
Existing ==
    {Body(p, e, disk[p][e]) : p \in StaticPaths, e \in {Identity} \cup ToSet(Encodings)}
    \cup {Body("/page", Identity, page)}

PlugsInit ==
    /\ conn = ConnNew(NoRequestYet)
    /\ \E chain \in Chains : exchange = [pc |-> "idle", chain |-> chain, todo |-> <<>>,
                                            count |-> 0, changes |-> 0]
    /\ disk = [p \in StaticPaths |-> [e \in {Identity} \cup ToSet(Encodings) |->
                                        IF e \in {Identity, "br"} THEN 1 ELSE 0]]
    /\ page = 1 /\ alive = {} /\ wire = NoWire /\ capacity = 256
    /\ cache = [p \in StaticPaths \cup {"/page"} |-> [body |-> EmptyBody, etag |-> Nothing]]

(* The client asks, with the tag of what it has; try_parse_request makes a  *)
(* Conn of it.                                                              *)
ParseRequest ==
    /\ exchange.pc \in {"idle", "answered"} /\ exchange.count < MaxExchanges
    /\ \E r \in PlugRequests :
         LET tag == IF r.path \in DOMAIN cache /\ r.method # "POST" THEN cache[r.path].etag ELSE Nothing
             req == With(r, "ifNoneMatch", tag)
         IN  conn' = ConnNew(req)
    /\ exchange' = [exchange EXCEPT !.pc = "running", !.todo = exchange.chain, !.count = @ + 1]
    /\ alive' = Existing
    /\ UNCHANGED <<disk, page, cache, wire, capacity>>

RunPlug ==
    /\ exchange.pc = "running" /\ exchange.todo # <<>> /\ ~conn.halted
    /\ \E readable \in {ToSet(Encodings) \cup {Identity}, {Identity}, {}} :
         conn' = CallPlug(Head(exchange.todo), conn, "fresh", readable)
    /\ exchange' = [exchange EXCEPT !.todo = Tail(@)]
    /\ UNCHANGED <<disk, page, alive, cache, wire, capacity>>

Finished == exchange.pc = "running" /\ (exchange.todo = <<>> \/ conn.halted)

(* The client keeps what a GET brought, and shows what it has on a 304.     *)
SendResponse ==
    /\ Finished /\ "sse_stream" \notin DOMAIN Assigns(conn)
    /\ wire' = SerializeResponse(conn)
    /\ capacity' = IF capacity < Needed(conn) THEN Needed(conn) ELSE capacity
    /\ cache' = IF conn.method = "GET" /\ conn.status = 200 /\ conn.path \in DOMAIN cache
                THEN [cache EXCEPT ![conn.path] =
                        [body |-> conn.respBody,
                         etag |-> IF "etag" \in DOMAIN conn.resp THEN conn.resp["etag"] ELSE Nothing]]
                ELSE cache
    /\ exchange' = [exchange EXCEPT !.pc = "answered"]
    /\ UNCHANGED <<conn, disk, page, alive>>

(* The receiver is taken out of the assigns, the head is written with       *)
(* checked appends, and the connection ends with the stream; the client     *)
(* opens another.                                                           *)
StreamEvents ==
    /\ Finished /\ "sse_stream" \in DOMAIN Assigns(conn)
    /\ conn' = ConnNew(NoRequestYet)
    /\ wire' = NoWire /\ capacity' = 256
    /\ exchange' = [exchange EXCEPT !.pc = "idle", !.todo = <<>>]
    /\ UNCHANGED <<disk, page, alive, cache>>

(* Somebody writes or removes a file or variant, or the page changes.       *)
ContentChanges ==
    /\ \/ /\ \E p \in StaticPaths, e \in {Identity, "br"} :
               \E v \in {0} \cup (disk[p][e] + 1)..MaxVersion : disk' = [disk EXCEPT ![p][e] = v]
          /\ UNCHANGED page
       \/ page < MaxVersion /\ page' = page + 1 /\ UNCHANGED disk
    /\ exchange.pc # "answered" /\ exchange.changes < MaxChanges
    /\ exchange' = [exchange EXCEPT !.changes = @ + 1]
    /\ alive' = alive \cup Existing'
    /\ UNCHANGED <<conn, cache, wire, capacity>>

PlugsNext == ParseRequest \/ RunPlug \/ SendResponse \/ StreamEvents \/ ContentChanges

PlugsSpec == PlugsInit /\ [][PlugsNext]_plugVars

-----------------------------------------------------------------------------
(* Properties.                                                              *)

(* What a caching client shows after a 200 or a 304 is a body that existed  *)
(* while the request was served, in an encoding the client accepts and the  *)
(* response or the cached one named - over files, variants and pages that   *)
(* change between and during requests, and tags that StaticFiles and ETag   *)
(* both hand out.                                                           *)
ClientShowsCurrent ==
    /\ exchange.pc = "answered" /\ conn.method = "GET" /\ wire.status \in {200, 304}
    /\ conn.path \in DOMAIN cache
    => LET shown == cache[conn.path].body
       IN  /\ shown \in alive
           /\ shown.enc \in conn.headers.accept \cup {Identity}
           /\ shown.enc # Identity => /\ "content-encoding" \in DOMAIN conn.resp
                                      /\ conn.resp["content-encoding"] = shown.enc

(* The peer can tell where a response ends: what follows the head is what   *)
(* content-length says, and nothing after a HEAD or a 304, whichever plug   *)
(* set the length and whichever replaced the body after it. Otherwise the   *)
(* next response on the connection is misread.                              *)
FramedAsDeclared ==
    exchange.pc = "answered" =>
        IF conn.method = "HEAD" \/ wire.status = 304 THEN wire.bytes = 0
        ELSE wire.bytes = wire.declared

(* The raw-pointer writes stay inside the response buffer, also when it is  *)
(* one that an earlier, shorter response had reserved.                      *)
WritesFit == exchange.pc = "answered" => wire.unsafe <= capacity
=============================================================================
