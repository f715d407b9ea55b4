---------------------------- MODULE WsTransport ----------------------------
(***************************************************************************)
(* crates/mahalo-endpoint/src/server.rs, ws_streaming_loop: the WebSocket  *)
(* side of one connection after the upgrade.                               *)
(*                                                                         *)
(*   client --frames--> reader --ws_msg--> handle_websocket --> process    *)
(*   process --ws_out--> writer task --+                                   *)
(*                       reader -------+--> wire --> client                *)
(*                                                                         *)
(* Reader and writer share the stream and each holds one reference to it.  *)
(* The channel process behind them (module ChannelConnection) appears only *)
(* as what it does to the two queues.  As in HttpConnection bytes are      *)
(* counted, not spelt, and a read returns any part of what has arrived.    *)
(* A frame goes out in two halves, one write each: the socket may take     *)
(* less than write_all offers, and others may write in between.            *)
(***************************************************************************)
EXTENDS Naturals, Sequences, SequencesExt, FiniteSets

CONSTANTS BufSize,   \* DEFAULT_BUF_SIZE
          MaxFrame,  \* WS_MAX_FRAME_SIZE
          Frames,    \* the frames a client may send
          MaxFrames, \* bound: frames sent by the client
          MaxPushes, \* bound: messages of the channel process
          Faults     \* subset of {"eof", "broken", "panic"}

Opcodes == {"text", "binary", "ping", "pong", "close", "continuation", "bad"}

ASSUME SizeAssumption ==
    BufSize \in Nat \ {0} /\ MaxFrame \in Nat /\ BufSize <= MaxFrame
ASSUME FrameAssumption == Frames \subseteq [op : Opcodes, size : Nat \ {0}]
ASSUME BoundAssumption == MaxFrames \in Nat /\ MaxPushes \in Nat

VARIABLES frames,  \* the frames the client has sent, in order
          starts,  \* where they start; and, last, how many bytes were sent
          eof, broken,
          taken,   \* bytes the reader has read
          len, filled, \* read_buf: its length, how much of it is filled
          reader,  \* where the reader stands, see ReaderPlaces
          answer,  \* the frame the reader writes, and how much is left of it
          msgs,    \* ws_msg: text messages not yet taken by handle_websocket
          casts,   \* every text the reader has put into ws_msg
          loop,    \* handle_websocket: "running" or "done"
          proc,    \* the channel process: "alive" or "dead"
          outq,    \* ws_out: messages not yet taken by the writer
          outOpen, \* a sender of ws_out is left
          pushes,  \* messages the process has sent
          writer,  \* the writer task: "recv", "write" or "done"
          push,    \* the message it writes, and how much is left of it
          wire     \* halves of frames, in the order they were written

clientVars == <<frames, starts, eof, broken>>
readVars   == <<taken, len, filled>>
chanVars   == <<loop, proc, outOpen, pushes>>
writeVars  == <<writer, push>>
vars == <<clientVars, readVars, reader, answer, msgs, casts, chanVars, outq, writeVars, wire>>

(* "top"   before the buffer check     "read"  awaiting stream.read        *)
(* "parse" in the loop over frames     "write" awaiting stream.write_all   *)
ReaderPlaces == {"top", "read", "parse", "write", "done"}

NoFrame == [op |-> "none", id |-> 0, left |-> 0]

(* What the reader may have to write.                                      *)
AnswerOps == {"pong", "close", "close1002", "close1009"}
Answers == [op : AnswerOps, id : Nat, left : 1..2] \cup {NoFrame}

-----------------------------------------------------------------------------
Available == Last(starts) - taken
(* Position of the first byte in read_buf, and the frame that starts there. *)
BufStart == taken - filled
Starting == {i \in 1..Len(frames) : starts[i] = BufStart}
FirstFrame == CHOOSE i \in Starting : TRUE

(* try_parse_frame on what is in read_buf.  A bad frame is as long as the  *)
(* parser needs to refuse it.                                              *)
TryParseFrame ==
    CASE filled = 0                     -> [op |-> "partial", id |-> 0, consumed |-> 0]
      [] filled > 0 /\ Starting = {}    -> [op |-> "bad", id |-> 0, consumed |-> 0]
      [] filled > 0 /\ Starting # {} /\ filled < frames[FirstFrame].size
                                        -> [op |-> "partial", id |-> 0, consumed |-> 0]
      [] filled > 0 /\ Starting # {} /\ filled >= frames[FirstFrame].size
                                        -> [op |-> frames[FirstFrame].op, id |-> FirstFrame,
                                            consumed |-> frames[FirstFrame].size]

(* A PONG, or a CLOSE with its code; id is the frame it answers.           *)
Answer(op, id) == [op |-> op, id |-> id, left |-> 2]

Init ==
    /\ frames = << >>
    /\ starts = <<0>>
    /\ eof = FALSE
    /\ broken = FALSE
    /\ taken = 0
    /\ len = BufSize
    /\ filled = 0
    /\ reader = "top"
    /\ answer = NoFrame
    /\ msgs = << >>
    /\ casts = << >>
    /\ loop = "running"
    /\ proc = "alive"
    /\ outq = << >>
    /\ outOpen = TRUE
    /\ pushes = 0
    /\ writer = "recv"
    /\ push = NoFrame
    /\ wire = << >>

-----------------------------------------------------------------------------
(* The client.                                                             *)

ClientSends(f) ==
    /\ ~eof /\ ~broken
    /\ Len(frames) < MaxFrames
    /\ frames' = Append(frames, f)
    /\ starts' = Append(starts, Last(starts) + f.size)
    /\ UNCHANGED <<eof, broken, readVars, reader, answer, msgs, casts, chanVars, outq, writeVars, wire>>

ClientEof ==
    /\ "eof" \in Faults
    /\ ~eof
    /\ eof' = TRUE
    /\ UNCHANGED <<frames, starts, broken, readVars, reader, answer, msgs, casts, chanVars, outq, writeVars, wire>>

ClientBreaks ==
    /\ "broken" \in Faults
    /\ ~broken
    /\ broken' = TRUE
    /\ UNCHANGED <<frames, starts, eof, readVars, reader, answer, msgs, casts, chanVars, outq, writeVars, wire>>

-----------------------------------------------------------------------------
(* The reader.                                                             *)

(* Fault: the limit is checked before the buffer is full.                  *)
TooBigEarly == len >= BufSize
(* Fault: the buffer may always grow.                                      *)
TooBigNever == FALSE

TooBig == len >= MaxFrame

(* Make room, or give up on a frame that does not end.                     *)
ReaderTop ==
    /\ reader = "top"
    /\ IF filled = len /\ TooBig
       THEN /\ reader' = "write"
            /\ answer' = Answer("close1009", FirstFrame)
            /\ UNCHANGED len
       ELSE /\ reader' = "read"
            /\ len' = IF filled = len THEN 2 * len ELSE len
            /\ UNCHANGED answer
    /\ UNCHANGED <<clientVars, taken, filled, msgs, casts, chanVars, outq, writeVars, wire>>

(* split_off has cut read_buf down to what was filled.                     *)
ReaderRead(n) ==
    /\ reader = "read"
    /\ ~broken
    /\ n <= Available
    /\ taken' = taken + n
    /\ filled' = filled + n
    /\ len' = filled + n
    /\ reader' = "parse"
    /\ UNCHANGED <<clientVars, answer, msgs, casts, chanVars, outq, writeVars, wire>>

(* A read that returns 0 or an error.                                      *)
ReaderReadEnds ==
    /\ reader = "read"
    /\ \/ broken
       \/ eof /\ Available = 0
       \/ len = filled
    /\ reader' = "done"
    /\ UNCHANGED <<clientVars, readVars, answer, msgs, casts, chanVars, outq, writeVars, wire>>

(* Unconsumed bytes move to the front of read_buf.                         *)
(* Fault: the bytes behind the frame are dropped.                          *)
ShiftDropsRest(consumed) == filled' = 0 /\ UNCHANGED <<taken, len>>

Shift(consumed) == filled' = filled - consumed /\ UNCHANGED <<taken, len>>

ReaderNeedsMore ==
    /\ reader = "parse"
    /\ TryParseFrame.op = "partial"
    /\ reader' = "top"
    /\ UNCHANGED <<clientVars, readVars, answer, msgs, casts, chanVars, outq, writeVars, wire>>

(* A text goes to handle_websocket, or ends the reader if that has gone.   *)
(* Fault: a refused text is dropped and the reader goes on.                *)
ReaderTextGoesOn ==
    /\ reader = "parse"
    /\ TryParseFrame.op = "text"
    /\ Shift(TryParseFrame.consumed)
    /\ IF loop = "running"
       THEN msgs' = Append(msgs, TryParseFrame.id) /\ casts' = Append(casts, TryParseFrame.id)
       ELSE UNCHANGED <<msgs, casts>>
    /\ UNCHANGED <<clientVars, reader, answer, chanVars, outq, writeVars, wire>>

ReaderText ==
    /\ reader = "parse"
    /\ TryParseFrame.op = "text"
    /\ IF loop = "running"
       THEN /\ msgs' = Append(msgs, TryParseFrame.id)
            /\ casts' = Append(casts, TryParseFrame.id)
            /\ Shift(TryParseFrame.consumed)
            /\ UNCHANGED reader
       ELSE /\ reader' = "done"
            /\ UNCHANGED <<readVars, msgs, casts>>
    /\ UNCHANGED <<clientVars, answer, chanVars, outq, writeVars, wire>>

(* Binary frames and PONGs are ignored.                                    *)
ReaderIgnores ==
    /\ reader = "parse"
    /\ TryParseFrame.op \in {"binary", "pong"}
    /\ Shift(TryParseFrame.consumed)
    /\ UNCHANGED <<clientVars, reader, answer, msgs, casts, chanVars, outq, writeVars, wire>>

(* A PING is answered before the next frame is looked at.                  *)
ReaderPing ==
    /\ reader = "parse"
    /\ TryParseFrame.op = "ping"
    /\ answer' = Answer("pong", TryParseFrame.id)
    /\ reader' = "write"
    /\ UNCHANGED <<clientVars, readVars, msgs, casts, chanVars, outq, writeVars, wire>>

(* CLOSE is echoed; an opcode without an arm and a parse error get 1002.   *)
CloseCode(op) == IF op = "close" THEN "close" ELSE "close1002"

ReaderCloses ==
    /\ reader = "parse"
    /\ TryParseFrame.op \in {"close", "continuation", "bad"}
    /\ answer' = Answer(CloseCode(TryParseFrame.op), TryParseFrame.id)
    /\ reader' = "write"
    /\ UNCHANGED <<clientVars, readVars, msgs, casts, chanVars, outq, writeVars, wire>>

Half(f) == [op |-> f.op, id |-> f.id]

(* write_all of the reader, one half.  Behind a PONG the loop goes         *)
(* on, behind a CLOSE the reader returns.                                  *)
ReaderWrites ==
    /\ reader = "write"
    /\ ~broken
    /\ wire' = Append(wire, Half(answer))
    /\ IF answer.left > 1
       THEN answer' = [answer EXCEPT !.left = @ - 1] /\ UNCHANGED <<reader, readVars>>
       ELSE /\ answer' = NoFrame
            /\ IF answer.op = "pong"
               THEN reader' = "parse" /\ Shift(TryParseFrame.consumed)
               ELSE reader' = "done" /\ UNCHANGED readVars
    /\ UNCHANGED <<clientVars, msgs, casts, chanVars, outq, writeVars>>

ReaderWriteFails ==
    /\ reader = "write"
    /\ broken
    /\ answer' = NoFrame
    /\ reader' = "done"
    /\ UNCHANGED <<clientVars, readVars, msgs, casts, chanVars, outq, writeVars, wire>>

-----------------------------------------------------------------------------
(* The writer task.                                                        *)

WriterTakes ==
    /\ writer = "recv"
    /\ outq # << >>
    /\ outq' = Tail(outq)
    /\ push' = [op |-> "push", id |-> Head(outq), left |-> 2]
    /\ writer' = "write"
    /\ UNCHANGED <<clientVars, readVars, reader, answer, msgs, casts, chanVars, wire>>

WriterWrites ==
    /\ writer = "write"
    /\ ~broken
    /\ wire' = Append(wire, Half(push))
    /\ push' = IF push.left > 1 THEN [push EXCEPT !.left = @ - 1] ELSE NoFrame
    /\ writer' = IF push.left > 1 THEN "write" ELSE "recv"
    /\ UNCHANGED <<clientVars, readVars, reader, answer, msgs, casts, chanVars, outq>>

(* A failed write, or recv returned None.                                  *)
(* Fault: the task ends only on a failed write.                            *)
WriterEndsOnError ==
    /\ writer = "write" /\ broken
    /\ writer' = "done"
    /\ push' = NoFrame
    /\ UNCHANGED <<clientVars, readVars, reader, answer, msgs, casts, chanVars, outq, wire>>
(* Fault: the task ends with messages still in the queue.                  *)
WriterEndsEarly ==
    /\ \/ writer = "write" /\ broken
       \/ writer = "recv" /\ ~outOpen
    /\ writer' = "done"
    /\ push' = NoFrame
    /\ UNCHANGED <<clientVars, readVars, reader, answer, msgs, casts, chanVars, outq, wire>>

WriterEnds ==
    /\ \/ writer = "write" /\ broken
       \/ writer = "recv" /\ outq = << >> /\ ~outOpen
    /\ writer' = "done"
    /\ push' = NoFrame
    /\ UNCHANGED <<clientVars, readVars, reader, answer, msgs, casts, chanVars, outq, wire>>

-----------------------------------------------------------------------------
(* handle_websocket and the channel process, as the transport sees them.   *)

(* A text is cast to the process; the loop ends when that is dead.         *)
LoopCasts ==
    /\ loop = "running"
    /\ msgs # << >>
    /\ msgs' = Tail(msgs)
    /\ loop' = IF proc = "alive" THEN "running" ELSE "done"
    /\ UNCHANGED <<clientVars, readVars, reader, answer, casts, proc, outOpen, pushes, outq, writeVars, wire>>

(* The reader has dropped ws_msg_tx: the process is killed.                *)
(* Fault: the process is left running.                                     *)
LoopEndsNoKill ==
    /\ loop = "running"
    /\ msgs = << >>
    /\ reader = "done"
    /\ loop' = "done"
    /\ UNCHANGED <<clientVars, readVars, reader, answer, msgs, casts, proc, outOpen, pushes, outq, writeVars, wire>>

LoopEnds ==
    /\ loop = "running"
    /\ msgs = << >>
    /\ reader = "done"
    /\ loop' = "done"
    /\ proc' = "dead"
    /\ UNCHANGED <<clientVars, readVars, reader, answer, msgs, casts, outOpen, pushes, outq, writeVars, wire>>

(* The process sends; a send after the writer has gone is lost.            *)
ChannelPushes ==
    /\ proc = "alive"
    /\ pushes < MaxPushes
    /\ pushes' = pushes + 1
    /\ outq' = IF writer = "done" THEN outq ELSE Append(outq, pushes + 1)
    /\ UNCHANGED <<clientVars, readVars, reader, answer, msgs, casts, loop, proc, outOpen, writeVars, wire>>

ChannelPanics ==
    /\ "panic" \in Faults
    /\ proc = "alive"
    /\ proc' = "dead"
    /\ UNCHANGED <<clientVars, readVars, reader, answer, msgs, casts, loop, outOpen, pushes, outq, writeVars, wire>>

(* The sockets and timers of a dead process are dropped, and with them     *)
(* the last sender of ws_out.                                              *)
SendersDropped ==
    /\ proc = "dead"
    /\ outOpen
    /\ outOpen' = FALSE
    /\ UNCHANGED <<clientVars, readVars, reader, answer, msgs, casts, loop, proc, pushes, outq, writeVars, wire>>

-----------------------------------------------------------------------------
ReaderStep == \/ ReaderTop \/ ReaderReadEnds \/ ReaderNeedsMore
              \/ \E n \in 1..(len - filled) : ReaderRead(n)
              \/ ReaderText \/ ReaderIgnores \/ ReaderPing \/ ReaderCloses
              \/ ReaderWrites \/ ReaderWriteFails
WriterStep == WriterTakes \/ WriterWrites \/ WriterEnds
LoopStep == LoopCasts \/ LoopEnds

Next == \/ (\E f \in Frames : ClientSends(f)) \/ ClientEof \/ ClientBreaks
        \/ ReaderStep \/ WriterStep \/ LoopStep
        \/ ChannelPushes \/ ChannelPanics \/ SendersDropped

Spec == Init /\ [][Next]_vars

(* The executor polls every task that can move, and a write makes progress *)
(* or fails.  The client and the channel process owe nothing.              *)
FairSpec == /\ Spec
            /\ WF_vars(ReaderStep) /\ WF_vars(WriterStep) /\ WF_vars(LoopStep)
            /\ WF_vars(SendersDropped)

-----------------------------------------------------------------------------
(* Every variable has its type.                                            *)
TypeOK ==
    /\ frames \in Seq(Frames)
    /\ starts \in Seq(Nat) /\ Len(starts) = Len(frames) + 1
    /\ eof \in BOOLEAN /\ broken \in BOOLEAN /\ outOpen \in BOOLEAN
    /\ taken \in Nat /\ len \in Nat /\ filled \in Nat /\ pushes \in Nat
    /\ reader \in ReaderPlaces
    /\ answer \in Answers
    /\ msgs \in Seq(Nat) /\ casts \in Seq(Nat) /\ outq \in Seq(Nat)
    /\ loop \in {"running", "done"} /\ proc \in {"alive", "dead"}
    /\ writer \in {"recv", "write", "done"}
    /\ push \in [op : {"none", "push"}, id : Nat, left : 0..2]
    /\ wire \in Seq([op : AnswerOps \cup {"push"}, id : Nat])

(* Frames whose bytes the reader has consumed.                             *)
Handled == {i \in 1..Len(frames) : starts[i + 1] <= BufStart}

(* ws_streaming_loop, reader: however TCP cuts the stream, the texts cast  *)
(* to the channel process are exactly those of the frames consumed, each   *)
(* once and in order.                                                      *)
TextsInOrder ==
    /\ Range(casts) = {i \in Handled : frames[i].op = "text"}
    /\ \A i, j \in 1..Len(casts) : i < j => casts[i] < casts[j]

Pongs == {i \in Handled : frames[i].op = "ping"}
(* What the reader has written, the channel's messages left aside.         *)
ReaderHalves == {j \in 1..Len(wire) : wire[j].op # "push"}

(* Every PING consumed has both halves of its PONG on the wire, once and   *)
(* in order, and only the frame being answered may be there in part; a     *)
(* CLOSE is the reader's last frame, and carries the code its cause calls  *)
(* for: 1009 only for a frame larger than WS_MAX_FRAME_SIZE.               *)
AnswersMatch ==
    /\ \A i \in Pongs : \E j, h \in ReaderHalves :
         j < h /\ wire[j] = [op |-> "pong", id |-> i] /\ wire[h] = wire[j]
    /\ \A j, h, g \in ReaderHalves : j < h /\ h < g => ~(wire[j] = wire[h] /\ wire[h] = wire[g])
    /\ \A j, h \in ReaderHalves : j < h =>
         \/ wire[j] = wire[h]
         \/ wire[j].op = "pong" /\ wire[j].id \in Pongs /\ wire[j].id < wire[h].id
    /\ \A j \in ReaderHalves :
         LET w == wire[j] IN
         /\ w.id \in 1..Len(frames)
         /\ w.op = "pong"      => frames[w.id].op = "ping"
         /\ w.op = "close1009" => frames[w.id].size > MaxFrame
         /\ w.op = "close"     => frames[w.id].op = "close"
         /\ w.op = "close1002" => frames[w.id].op \in {"continuation", "bad"}

(* The read buffer stays below twice WS_MAX_FRAME_SIZE.                    *)
BufferBounded == len < 2 * MaxFrame

(* Both halves of a frame are written.                                     *)
OnWire(op, id) == Cardinality({j \in DOMAIN wire : wire[j] = [op |-> op, id |-> id]}) = 2

(* A message of the channel process that the writer does not lose to a     *)
(* broken connection reaches the wire, also those queued when the process  *)
(* or the connection ends.                                                 *)
PushesReachWire ==
    \A k \in 1..MaxPushes :
        (k <= pushes) ~> \/ broken
                         \/ OnWire("push", k)

(* When the reader returns, the chain ws_msg, handle_websocket, process,   *)
(* ws_out, writer comes down and the last reference to the stream is       *)
(* dropped, so the socket is closed.                                       *)
TornDown == (reader = "done") ~> (writer = "done")

(* When the channel process has died under a client that stays, the next   *)
(* text ends handle_websocket, and one after that ends the reader, however *)
(* it is cut, whatever precedes it and whatever the queue still holds;     *)
(* then TornDown closes the socket.                                        *)
DeathNoticed ==
    /\ (proc = "dead" /\ msgs # << >>) ~> (loop = "done")
    /\ (loop = "done" /\ \E i \in 1..Len(frames) : i \notin Handled /\ frames[i].op = "text")
          ~> (reader = "done")
=============================================================================
