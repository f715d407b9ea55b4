-------------------------- MODULE MCHttpConnection --------------------------
(* Small instances of HttpConnection, for BufSize 3 and BodyLimit 5:        *)
(* requests of each kind, heads that fill a read buffer exactly, bodies     *)
(* exactly at the limit and beyond it, a head larger than the largest Vec.  *)
EXTENDS HttpConnection

Request(k, h, b) == [kind |-> k, head |-> h, body |-> b]

AllRequests ==
    {Request("keep", 1, 0), Request("keep", 3, 5), Request("keep", 3, 0),
     Request("close", 2, 5), Request("ws", 2, 0), Request("sse", 1, 0),
     Request("bad", 3, 0), Request("keep", 1, 6), Request("keep", 9, 5)}

(* A few of each.                                                           *)
FewRequests ==
    {Request("keep", 1, 0), Request("keep", 2, 2), Request("close", 1, 0),
     Request("ws", 1, 0), Request("bad", 1, 0), Request("sse", 1, 0)}

(* One kind of connection, or all.                                          *)
Link(tls, pipelining) == [tls |-> tls, pipelining |-> pipelining]
AllLinks   == [tls : BOOLEAN, pipelining : BOOLEAN]
PlainPipelined == {Link(FALSE, TRUE)}
=============================================================================
