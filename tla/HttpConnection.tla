--------------------------- MODULE HttpConnection ---------------------------
(***************************************************************************)
(* crates/mahalo-endpoint/src/server.rs, handle_connection and what it     *)
(* calls: the HTTP/1.1 side of one connection, from accept to close or to  *)
(* the WebSocket upgrade.                                                  *)
(*                                                                         *)
(* The client's bytes are counted, not spelt: stream is the sequence of    *)
(* requests it has sent, each with the length of its head and its body,    *)
(* and a buffer is known by the position of its first byte and its length. *)
(* TCP may cut the bytes anywhere, so a read returns any non-empty part of *)
(* what has arrived and fits.  Requests are read                           *)
(*   - into a leased buffer when the stream is plain TCP and the pool has  *)
(*     a buffer left (fast path), or                                       *)
(*   - into accum, a growing Vec (TLS, no lease, or a request that was     *)
(*     left incomplete by an earlier read).                                *)
(* The application's handler is a step that always returns.                *)
(***************************************************************************)
EXTENDS Naturals, Sequences, SequencesExt, FiniteSetsExt

CONSTANTS BufSize,     \* DEFAULT_BUF_SIZE
          BodyLimit,   \* body_limit of the endpoint
          Requests,    \* the requests a client may send, see RequestAssumption
          MaxRequests, \* bound: requests on the connection
          Links,       \* the connections there may be, see ModeAssumption
          Leases,      \* subset of BOOLEAN: may the pool grant a lease
          Faults,      \* subset of {"eof", "broken"}
          MaxEvents    \* bound: events of a Server-Sent-Events stream

Kinds == {"keep", "close", "ws", "sse", "bad"}

ASSUME SizeAssumption == BufSize \in Nat \ {0} /\ BodyLimit \in Nat
ASSUME RequestAssumption ==
    Requests \subseteq [kind : Kinds, head : Nat \ {0}, body : Nat]
(* tls: over a TlsStream; pipelining: the client does not wait for the     *)
(* response to a request before it sends the next.                         *)
ASSUME ModeAssumption ==
    Links \subseteq [tls : BOOLEAN, pipelining : BOOLEAN] /\ Leases \subseteq BOOLEAN
ASSUME EventAssumption == MaxRequests \in Nat /\ MaxEvents \in Nat

VARIABLES link,    \* what kind of connection this is
          stream,  \* the requests the client has sent, in order
          starts,  \* where they start; and, last, how many bytes were sent
          eof,     \* it has shut down its sending side
          broken,  \* the connection was reset: reads and writes fail
          taken,   \* bytes the server has read
          pc,      \* where the connection's task stands, see Places
          accum,   \* the Vec: its length and how much of it is filled
          cur,     \* the request being executed
          replies, \* responses written so far
          events,  \* events the SSE handler has sent
          written, \* events written to the client
          sender   \* the handler still holds the SSE sender

clientVars == <<link, stream, starts, eof, broken>>
sseVars    == <<events, written, sender>>
vars == <<clientVars, taken, pc, accum, cur, replies, sseVars>>

(* "top"    head of the loop of handle_connection                          *)
(* "lease"  awaiting read_lease      "read"  awaiting read into accum      *)
(* "parse"  in the parse loop of vec_read_loop                             *)
(* "exec"   in execute_and_respond   "sse"   in sse_streaming_loop         *)
Places == {"top", "lease", "read", "parse", "exec", "sse", "upgraded", "closed"}

(* accum is None.                                                          *)
NoAccum == [len |-> 0, filled |-> 0]
(* No request is being executed.                                           *)
Idle == [index |-> 0, consumed |-> 0, left |-> 0, leased |-> FALSE]

-----------------------------------------------------------------------------
Size(r) == r.head + r.body
(* The request that starts at position p, if one does.                     *)
Starts(p) == {i \in 1..Len(stream) : starts[i] = p}
(* Bytes that have arrived and were not read.                              *)
Available == Last(starts) - taken

Result(status, index, consumed) ==
    [status |-> status, index |-> index, consumed |-> consumed]

(* parse_raw: the head of a bad request is as long as httparse needs to    *)
(* refuse it.                                                              *)
ParseRaw(r, n) ==
    IF n < r.head THEN "partial" ELSE IF r.kind = "bad" THEN "invalid" ELSE "complete"

(* finalize_body_and_keepalive: a declared body that exceeds the limit is  *)
(* refused before it arrives.                                              *)
FinalizeBody(r, n) ==
    IF r.body > BodyLimit THEN "too_large" ELSE IF n < Size(r) THEN "partial" ELSE "complete"

(* try_parse_request on the n bytes from position p.  Bytes that start in  *)
(* the middle of a request are no request.                                 *)
TryParse(p, n) ==
    LET i == CHOOSE j \in Starts(p) : TRUE
        raw == ParseRaw(stream[i], n)
        status == IF raw = "complete" THEN FinalizeBody(stream[i], n) ELSE raw
    IN  IF Starts(p) = {} THEN Result("invalid", 0, 0)
        ELSE Result(status, i, IF status = "complete" THEN Size(stream[i]) ELSE 0)

(* A response to request i; it is lost when the connection is broken.      *)
Write(i, code) ==
    replies' = IF broken THEN replies ELSE Append(replies, [to |-> i, code |-> code])

Responses == [to : Nat, code : {101, 200, 400, 413}]

ErrorCode(status) == IF status = "invalid" THEN 400 ELSE 413

Init ==
    /\ link \in Links
    /\ stream = << >>
    /\ starts = <<0>>
    /\ eof = FALSE
    /\ broken = FALSE
    /\ taken = 0
    /\ pc = "top"
    /\ accum = NoAccum
    /\ cur = Idle
    /\ replies = << >>
    /\ events = 0
    /\ written = 0
    /\ sender = FALSE

-----------------------------------------------------------------------------
(* The client.                                                             *)

ClientWrites(r) ==
    /\ ~eof /\ ~broken
    /\ Len(stream) < MaxRequests
    /\ link.pipelining \/ Len(stream) = Len(replies)
    /\ stream' = Append(stream, r)
    /\ starts' = Append(starts, Last(starts) + Size(r))
    /\ UNCHANGED <<link, eof, broken, taken, pc, accum, cur, replies, sseVars>>

ClientEof ==
    /\ "eof" \in Faults
    /\ ~eof
    /\ eof' = TRUE
    /\ UNCHANGED <<link, stream, starts, broken, taken, pc, accum, cur, replies, sseVars>>

ClientBreaks ==
    /\ "broken" \in Faults
    /\ ~broken
    /\ broken' = TRUE
    /\ UNCHANGED <<link, stream, starts, eof, taken, pc, accum, cur, replies, sseVars>>

-----------------------------------------------------------------------------
(* The loop of handle_connection.                                          *)

Close == pc' = "closed" /\ cur' = Idle

(* The check vec_read_loop makes in two places when the Vec is full.       *)
(* Fault: the Vec may reach the body limit only.                           *)
FullLimitBodyOnly(len) == len >= BodyLimit
(* Fault: the Vec may always grow.                                         *)
FullLimitNone(len) == FALSE

FullLimit(len) == len >= BodyLimit + BufSize

(* The loop head with data or room in accum: vec_read_loop up to its read. *)
EnterVec ==
    /\ pc = "top"
    /\ accum # NoAccum
    /\ IF accum.filled = accum.len /\ FullLimit(accum.len)
       THEN /\ Write(Len(replies) + 1, 413)
            /\ Close
            /\ UNCHANGED accum
       ELSE /\ pc' = "read"
            /\ accum' = IF accum.filled = accum.len THEN [accum EXCEPT !.len = 2 * @] ELSE accum
            /\ UNCHANGED <<cur, replies>>
    /\ UNCHANGED <<clientVars, taken, sseVars>>

(* TLS, no pool or no free buffer: start with a Vec.                       *)
StartVec ==
    /\ pc = "top"
    /\ accum = NoAccum
    /\ link.tls \/ FALSE \in Leases
    /\ accum' = [len |-> BufSize, filled |-> 0]
    /\ UNCHANGED <<clientVars, taken, pc, cur, replies, sseVars>>

TakeLease ==
    /\ pc = "top"
    /\ accum = NoAccum
    /\ ~link.tls /\ TRUE \in Leases
    /\ pc' = "lease"
    /\ UNCHANGED <<clientVars, taken, accum, cur, replies, sseVars>>

(* What a read may fill: the lease, or the tail split_off from the Vec.    *)
Capacity == IF pc = "lease" THEN BufSize ELSE accum.len - accum.filled

(* read_lease returned n bytes, which are parsed where they lie.           *)
ReadLease(n) ==
    /\ pc = "lease"
    /\ ~broken
    /\ n <= Available
    /\ taken' = taken + n
    /\ LET p == TryParse(taken, n)
       IN  \/ /\ p.status = "complete"
              /\ pc' = "exec"
              /\ cur' = [index |-> p.index, consumed |-> p.consumed,
                         left |-> n - p.consumed, leased |-> TRUE]
              /\ UNCHANGED <<accum, replies>>
           \/ /\ p.status = "partial"
              /\ pc' = "top"
              /\ accum' = [len |-> Max({BufSize, 2 * n}), filled |-> n]
              /\ UNCHANGED <<cur, replies>>
           \/ /\ p.status \in {"invalid", "too_large"}
              /\ Write(Len(replies) + 1, ErrorCode(p.status))
              /\ Close
              /\ UNCHANGED accum
    /\ UNCHANGED <<clientVars, sseVars>>

(* read into the Vec returned n bytes.  split_off has cut the Vec down to  *)
(* what was filled, so it now holds exactly the bytes read.                *)
ReadVec(n) ==
    /\ pc = "read"
    /\ ~broken
    /\ n <= Available
    /\ taken' = taken + n
    /\ accum' = [len |-> accum.filled + n, filled |-> accum.filled + n]
    /\ pc' = "parse"
    /\ UNCHANGED <<clientVars, cur, replies, sseVars>>

(* A read that returns 0 (end of stream, or no room) or an error.          *)
ReadEnds ==
    /\ pc \in {"lease", "read"}
    /\ \/ broken
       \/ eof /\ Available = 0
       \/ Capacity = 0
    /\ Close
    /\ UNCHANGED <<clientVars, taken, accum, replies, sseVars>>

(* What is in the Vec when the parser wants more.                          *)
(* Fault: the Vec is not grown when it is full.                            *)
NeedMoreNoGrowth ==
    /\ pc' = "read"
    /\ UNCHANGED <<accum, cur, replies>>

NeedMore ==
    IF accum.filled = accum.len /\ FullLimit(accum.len)
    THEN /\ Write(Len(replies) + 1, 413)
         /\ Close
         /\ UNCHANGED accum
    ELSE /\ pc' = "top"
         /\ accum' = IF accum.filled = accum.len THEN [accum EXCEPT !.len = 2 * @] ELSE accum
         /\ UNCHANGED <<cur, replies>>

(* One round of the parse loop of vec_read_loop.                           *)
ParseVec ==
    /\ pc = "parse"
    /\ LET p == TryParse(taken - accum.filled, accum.filled)
       IN  \/ /\ p.status = "complete"
              /\ pc' = "exec"
              /\ cur' = [index |-> p.index, consumed |-> p.consumed,
                         left |-> accum.filled - p.consumed, leased |-> FALSE]
              /\ UNCHANGED <<accum, replies>>
           \/ /\ p.status = "partial"
              /\ NeedMore
           \/ /\ p.status \in {"invalid", "too_large"}
              /\ Write(Len(replies) + 1, ErrorCode(p.status))
              /\ Close
              /\ UNCHANGED accum
    /\ UNCHANGED <<clientVars, taken, sseVars>>

-----------------------------------------------------------------------------
(* execute_and_respond.                                                    *)

(* What the caller does after a kept-alive response: the bytes behind the  *)
(* request stay in the Vec, or are copied from the lease into a new one,   *)
(* whose capacity Vec::reserve makes at least BufSize.                     *)
(* Fault: after a request the Vec path goes back to reading.               *)
AdvanceReads ==
    /\ cur' = Idle
    /\ pc' = "top"
    /\ accum' = IF cur.left = 0 THEN NoAccum
                ELSE IF cur.leased
                THEN [len |-> Max({BufSize, 2 * cur.left}), filled |-> cur.left]
                ELSE [accum EXCEPT !.filled = cur.left]

Advance ==
    /\ cur' = Idle
    /\ pc' = IF cur.leased \/ cur.left = 0 THEN "top" ELSE "parse"
    /\ accum' = IF cur.left = 0 THEN NoAccum
                ELSE IF cur.leased
                THEN [len |-> Max({BufSize, 2 * cur.left}), filled |-> cur.left]
                ELSE [accum EXCEPT !.filled = cur.left]

(* The WebSocket upgrade: bytes behind the request are dropped with the    *)
(* buffer, as are those behind the last request of the connection.         *)
Upgrade ==
    /\ pc = "exec"
    /\ stream[cur.index].kind = "ws"
    /\ Write(cur.index, 101)
    /\ pc' = IF broken THEN "closed" ELSE "upgraded"
    /\ cur' = Idle
    /\ UNCHANGED <<clientVars, taken, accum, sseVars>>

(* The response carried an SseStream: headers first, then the events.      *)
StartSse ==
    /\ pc = "exec"
    /\ stream[cur.index].kind = "sse"
    /\ Write(cur.index, 200)
    /\ pc' = IF broken THEN "closed" ELSE "sse"
    /\ sender' = ~broken
    /\ cur' = Idle
    /\ UNCHANGED <<clientVars, taken, accum, events, written>>

Respond ==
    /\ pc = "exec"
    /\ stream[cur.index].kind \in {"keep", "close"}
    /\ Write(cur.index, 200)
    /\ IF broken \/ stream[cur.index].kind = "close"
       THEN Close /\ UNCHANGED accum
       ELSE Advance
    /\ UNCHANGED <<clientVars, taken, sseVars>>

-----------------------------------------------------------------------------
(* sse_streaming_loop and the handler that feeds it (mahalo-sse).          *)

SseSend ==
    /\ sender
    /\ events < MaxEvents
    /\ events' = events + 1
    /\ UNCHANGED <<clientVars, taken, pc, accum, cur, replies, written, sender>>

SseDrop ==
    /\ sender
    /\ sender' = FALSE
    /\ UNCHANGED <<clientVars, taken, pc, accum, cur, replies, events, written>>

(* recv returned an event; a failed write ends the loop.                   *)
SseWrite ==
    /\ pc = "sse"
    /\ written < events
    /\ IF broken THEN pc' = "closed" /\ UNCHANGED written
                 ELSE written' = written + 1 /\ UNCHANGED pc
    /\ UNCHANGED <<clientVars, taken, accum, cur, replies, events, sender>>

(* The keep-alive interval elapsed; only a failed write has an effect.     *)
SseKeepAlive ==
    /\ pc = "sse"
    /\ written = events
    /\ broken
    /\ pc' = "closed"
    /\ UNCHANGED <<clientVars, taken, accum, cur, replies, sseVars>>

(* recv returned None: the sender is gone and the channel is empty.        *)
SseEnd ==
    /\ pc = "sse"
    /\ ~sender
    /\ written = events
    /\ pc' = "closed"
    /\ UNCHANGED <<clientVars, taken, accum, cur, replies, sseVars>>

-----------------------------------------------------------------------------
Reads == \E n \in 1..Capacity : ReadLease(n) \/ ReadVec(n)

Server == \/ EnterVec \/ StartVec \/ TakeLease
          \/ Reads \/ ReadEnds \/ ParseVec
          \/ Upgrade \/ StartSse \/ Respond
          \/ SseWrite \/ SseEnd

Next == \/ (\E r \in Requests : ClientWrites(r)) \/ ClientEof \/ ClientBreaks
        \/ Server
        \/ SseSend \/ SseDrop \/ SseKeepAlive

Spec == Init /\ [][Next]_vars

(* The executor polls the connection's task whenever it can move; handlers *)
(* return.  The client and the SSE handler owe nothing.                    *)
FairSpec == Spec /\ WF_vars(Server)

-----------------------------------------------------------------------------
(* Every variable has its type.                                            *)
TypeOK ==
    /\ link \in Links
    /\ stream \in Seq(Requests)
    /\ starts \in Seq(Nat) /\ Len(starts) = Len(stream) + 1
    /\ taken \in Nat
    /\ eof \in BOOLEAN /\ broken \in BOOLEAN /\ sender \in BOOLEAN
    /\ pc \in Places
    /\ accum \in [len : Nat, filled : Nat]
    /\ cur \in [index : Nat, consumed : Nat, left : Nat, leased : BOOLEAN]
    /\ replies \in Seq(Responses)
    /\ events \in Nat /\ written \in Nat

(* What request r must be answered with.  A head larger than BufSize may   *)
(* be refused as too large, or not, depending on how TCP cuts it.          *)
Answers(r) ==
    (IF r.head > BufSize THEN {413} ELSE {})
        \cup {CASE r.kind = "bad"                            -> 400
                [] r.kind # "bad" /\ r.body > BodyLimit      -> 413
                [] r.kind = "ws"  /\ r.body <= BodyLimit     -> 101
                [] r.kind \in {"keep", "close", "sse"} /\ r.body <= BodyLimit -> 200}

(* vec_read_loop and the lease path: whatever the sizes, the cuts and the  *)
(* path each read takes, the k-th response answers the k-th request, and   *)
(* answers it as if it had arrived alone and in one piece; in particular   *)
(* a body within the limit behind a head of at most BufSize is never 413.  *)
AnsweredAsSent ==
    \A k \in DOMAIN replies :
        /\ replies[k].to = k
        /\ k \in DOMAIN stream
        /\ replies[k].code \in Answers(stream[k])

Final(k) == \/ replies[k].code \in {400, 413}
            \/ stream[replies[k].to].kind \in {"close", "sse"}

(* The server ends a connection only after the client ended or broke it,   *)
(* or after a response that ends it; a full buffer is never taken for the  *)
(* end of the stream (a read with no room returns 0).                      *)
ClosedForAReason ==
    pc = "closed" =>
        \/ eof \/ broken
        \/ replies # << >> /\ Final(Len(replies))

(* The two growth checks of vec_read_loop bound the memory of one          *)
(* connection, whatever the client sends: a Vec never exceeds twice the    *)
(* body limit plus one read buffer.                                        *)
BufferBounded == accum.len <= 2 * (BodyLimit + BufSize)

Over == \/ broken \/ pc = "upgraded"
        \/ replies # << >> /\ Final(Len(replies))

Answered(k) == Len(replies) >= k \/ Over

(* Over TLS, which reads into the Vec only, every pipelined request that   *)
(* was sent is answered, and over plain TCP every request of a client that *)
(* waits for each response, whichever path reads it; or the connection     *)
(* ends by an upgrade, a final response or a reset.  A client that only    *)
(* closed its sending side still gets its responses.                       *)
AnsweredUnlessPipelined ==
    \A k \in 1..MaxRequests :
        (k <= Len(stream) /\ (link.tls \/ ~link.pipelining)) ~> Answered(k)

(* What lore/20260307-1800-turbine-zero-copy-integration.md says of the    *)
(* lease path, that a "pipelining leftover" falls back to the Vec "without *)
(* penalty": every request is answered on every link.  The leftover goes   *)
(* to the Vec, where a read is awaited before it is parsed.                *)
EveryRequestAnswered ==
    \A k \in 1..MaxRequests : (k <= Len(stream)) ~> Answered(k)
=============================================================================
