--------------------------- MODULE MCWsTransport ---------------------------
(* Small instances of WsTransport.                                          *)
EXTENDS WsTransport

Frame(op, n) == [op |-> op, size |-> n]

(* Every opcode, and sizes around a limit of 4 with a first buffer of 2.     *)
AllFrames == {Frame("text", 1), Frame("text", 4), Frame("text", 5), Frame("ping", 3),
              Frame("pong", 1), Frame("close", 1), Frame("continuation", 1)}

FewFrames == {Frame("text", 1), Frame("ping", 2), Frame("close", 1)}
=============================================================================
