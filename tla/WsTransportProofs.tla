------------------------- MODULE WsTransportProofs -------------------------
(***************************************************************************)
(* Proofs about WsTransport, for every buffer size, frame limit and set of *)
(* frames.                                                                 *)
(*                                                                         *)
(* The reader has dealt with the first n frames: read_buf starts where     *)
(* frame n + 1 starts, the texts among the first n were cast and the PINGs *)
(* among them answered in full.  While the reader writes, what it writes   *)
(* answers frame n + 1; the writer task appends between the two halves     *)
(* without touching them.                                                  *)
(***************************************************************************)
EXTENDS WsTransport, TLAPS

(* Where the frames start.                                                 *)
StartInv ==
    /\ starts[1] = 0
    /\ \A i \in 1..Len(frames) : starts[i + 1] = starts[i] + frames[i].size
    /\ \A i, j \in 1..Len(starts) : i < j => starts[i] < starts[j]

(* An answer with this opcode is what frame f calls for.                   *)
Fits(op, f) ==
    /\ op = "pong"      => f.op = "ping"
    /\ op = "close1009" => f.size > MaxFrame
    /\ op = "close"     => f.op = "close"
    /\ op = "close1002" => f.op \in {"continuation", "bad"}

(* read_buf and what the reader does with its first bytes.                 *)
BufInv(n) ==
    /\ taken = starts[n + 1] + filled
    /\ taken <= starts[Len(starts)]
    /\ 0 < len /\ filled <= len /\ len < 2 * MaxFrame
    /\ reader = "top" /\ 0 < filled => filled < frames[n + 1].size
    /\ reader = "write" =>
         /\ n < Len(frames)
         /\ answer.op \in AnswerOps /\ answer.id = n + 1 /\ answer.left \in 1..2
         /\ Fits(answer.op, frames[n + 1])
         /\ answer.op = "pong" => frames[n + 1].size <= filled

CastInv(n) ==
    /\ Range(casts) = {i \in 1..n : frames[i].op = "text"}
    /\ \A i, j \in 1..Len(casts) : i < j => casts[i] < casts[j]

(* The reader's halves on the wire: those of the first n frames, which are *)
(* complete PONGs, and those of the frame being answered.                  *)
PongsWhole(n) ==
    \A i \in 1..n : frames[i].op = "ping" =>
        \E j, h \in ReaderHalves :
            j < h /\ wire[j] = [op |-> "pong", id |-> i] /\ wire[h] = wire[j]

NoThree ==
    \A j, h \in ReaderHalves : j < h /\ wire[j] = wire[h] =>
        \A g \in ReaderHalves : h < g => wire[h] # wire[g]

HalvesOrdered(n) ==
    \A j, h \in ReaderHalves : j < h =>
        \/ wire[j] = wire[h]
        \/ wire[j].op = "pong" /\ wire[j].id <= n /\ wire[j].id < wire[h].id

HalvesFit(n) ==
    \A j \in ReaderHalves :
        /\ wire[j].id \in 1..Len(frames) /\ wire[j].id <= n + 1
        /\ wire[j].id <= n => wire[j].op = "pong"
        /\ Fits(wire[j].op, frames[wire[j].id])

HalvesBegun(n) ==
    /\ reader \notin {"write", "done"} => \A j \in ReaderHalves : wire[j].id <= n
    /\ reader = "write" /\ answer.left = 2 => \A j \in ReaderHalves : wire[j].id <= n
    /\ reader = "write" /\ answer.left = 1 =>
         /\ \E j \in ReaderHalves : wire[j] = Half(answer)
         /\ \A j, h \in ReaderHalves : wire[j].id = n + 1 /\ wire[h].id = n + 1 => j = h
         /\ \A j \in ReaderHalves : wire[j].id = n + 1 => wire[j] = Half(answer)

WireInv(n) == PongsWhole(n) /\ NoThree /\ HalvesOrdered(n) /\ HalvesFit(n) /\ HalvesBegun(n)

(* The writer task has a message in hand while it writes.                  *)
PushInv == writer = "write" => push.op = "push" /\ push.left \in 1..2

DoneInv(n) == BufInv(n) /\ CastInv(n) /\ WireInv(n)

IInv == TypeOK /\ StartInv /\ PushInv /\ \E n \in 0..Len(frames) : DoneInv(n)

-----------------------------------------------------------------------------
(* The limits.                                                             *)
LEMMA SizeFacts ==
    /\ BufSize \in Nat /\ MaxFrame \in Nat /\ 0 < BufSize /\ BufSize < 2 * MaxFrame
  BY SizeAssumption

(* The frames and where they start.                                        *)
LEMMA FrameTypes ==
    ASSUME TypeOK
    PROVE  /\ Len(frames) \in Nat /\ Len(starts) = Len(frames) + 1
           /\ \A i \in 1..Len(starts) : starts[i] \in Nat
           /\ \A i \in 1..Len(frames) :
                frames[i].op \in Opcodes /\ frames[i].size \in Nat \ {0}
           /\ taken \in Nat /\ len \in Nat /\ filled \in Nat
  <1>1. /\ frames \in Seq(Frames) /\ starts \in Seq(Nat)
        /\ Len(starts) = Len(frames) + 1 /\ taken \in Nat /\ len \in Nat /\ filled \in Nat
    BY DEF TypeOK
  <1>2. \A i \in 1..Len(frames) : frames[i] \in Frames
    BY <1>1
  <1>3. \A i \in 1..Len(frames) : frames[i].op \in Opcodes /\ frames[i].size \in Nat \ {0}
    BY <1>2, FrameAssumption
  <1>4. \A i \in 1..Len(starts) : starts[i] \in Nat
    BY <1>1
  <1> QED
    BY <1>1, <1>3, <1>4

(* With n frames dealt with, the first bytes of read_buf are those of      *)
(* frame n + 1.                                                            *)
LEMMA FirstIsNext ==
    ASSUME TypeOK, StartInv, NEW n \in 0..Len(frames), taken = starts[n + 1] + filled,
           taken <= starts[Len(starts)], 0 < filled
    PROVE  n + 1 \in 1..Len(frames) /\ FirstFrame = n + 1 /\ Starting = {n + 1}
  <1>t. /\ Len(frames) \in Nat /\ Len(starts) = Len(frames) + 1 /\ filled \in Nat
        /\ \A i \in 1..Len(starts) : starts[i] \in Nat
    BY FrameTypes
  <1>0. n + 1 \in 1..Len(starts) /\ starts[n + 1] \in Nat
    BY <1>t
  <1>1. n + 1 # Len(starts)
    BY <1>t, <1>0
  <1>2. n + 1 \in 1..Len(frames)
    BY <1>t, <1>0, <1>1
  <1>3. BufStart = starts[n + 1]
    BY <1>t, <1>0 DEF BufStart
  <1>4. \A i \in 1..Len(frames) : i # n + 1 => starts[i] # starts[n + 1]
    <2> SUFFICES ASSUME NEW i \in 1..Len(frames), i # n + 1 PROVE starts[i] # starts[n + 1]
      OBVIOUS
    <2>1. i \in 1..Len(starts) /\ (i < n + 1 \/ n + 1 < i) /\ starts[i] \in Nat
      BY <1>t, <1>0
    <2> QED
      BY <1>0, <2>1 DEF StartInv
  <1>5. Starting = {n + 1}
    BY <1>2, <1>3, <1>4 DEF Starting
  <1> QED
    BY <1>2, <1>5 DEF FirstFrame

(* What try_parse_frame says of it.                                        *)
LEMMA ParseNext ==
    ASSUME TypeOK, StartInv, NEW n \in 0..Len(frames), taken = starts[n + 1] + filled,
           taken <= starts[Len(starts)]
    PROVE  LET t == TryParseFrame
               k == n + 1
           IN  /\ t.op = "partial" => filled = 0 \/ filled < frames[k].size
               /\ t.op # "partial" =>
                    /\ k \in 1..Len(frames) /\ t.op = frames[k].op /\ t.id = k
                    /\ t.consumed = frames[k].size /\ frames[k].size <= filled
  <1>t. filled \in Nat
    BY FrameTypes
  <1>1. CASE filled = 0
    BY <1>1 DEF TryParseFrame
  <1>2. CASE 0 < filled
    <2>1. n + 1 \in 1..Len(frames) /\ FirstFrame = n + 1 /\ Starting # {}
      BY <1>2, FirstIsNext
    <2>2. frames[n + 1].size \in Nat /\ frames[n + 1].op \in Opcodes
      BY <2>1, FrameTypes
    <2>3. CASE filled < frames[n + 1].size
      BY <1>t, <1>2, <2>1, <2>2, <2>3 DEF TryParseFrame
    <2>4. CASE ~(filled < frames[n + 1].size)
      <3>1. filled >= frames[n + 1].size
        BY <1>t, <2>2, <2>4
      <3>2. TryParseFrame = [op |-> frames[n + 1].op, id |-> n + 1, consumed |-> frames[n + 1].size]
        BY <1>t, <1>2, <2>1, <2>2, <3>1 DEF TryParseFrame
      <3> QED
        BY <1>t, <2>1, <2>2, <3>1, <3>2 DEF Opcodes
    <2> QED
      BY <2>3, <2>4
  <1> QED
    BY <1>t, <1>1, <1>2

(* The frames consumed are the first n.                                    *)
LEMMA HandledAre ==
    ASSUME TypeOK, StartInv, NEW n \in 0..Len(frames), taken = starts[n + 1] + filled
    PROVE  Handled = 1..n
  <1>t. /\ Len(frames) \in Nat /\ Len(starts) = Len(frames) + 1 /\ filled \in Nat
        /\ \A i \in 1..Len(starts) : starts[i] \in Nat
    BY FrameTypes
  <1>0. n + 1 \in 1..Len(starts) /\ starts[n + 1] \in Nat
    BY <1>t
  <1>1. BufStart = starts[n + 1]
    BY <1>t, <1>0 DEF BufStart
  <1>2. ASSUME NEW i \in 1..Len(frames)
        PROVE  starts[i + 1] <= starts[n + 1] <=> i <= n
    <2>1. i + 1 \in 1..Len(starts) /\ starts[i + 1] \in Nat
      BY <1>t
    <2>2. i < n => starts[i + 1] < starts[n + 1]
      BY <1>0, <2>1 DEF StartInv
    <2>3. n < i => starts[n + 1] < starts[i + 1]
      BY <1>0, <2>1 DEF StartInv
    <2>4. i = n => starts[n + 1] = starts[i + 1]
      OBVIOUS
    <2>5. i < n \/ n < i \/ i = n
      OBVIOUS
    <2> QED
      BY <1>0, <2>1, <2>2, <2>3, <2>4, <2>5
  <1>3. Handled = {i \in 1..Len(frames) : i <= n}
    BY <1>1, <1>2 DEF Handled
  <1> QED
    BY <1>t, <1>3

-----------------------------------------------------------------------------
(* The reader's halves where they are, and the frames sent so far: what    *)
(* was said of them stays true.                                            *)
LEMMA HalvesKept ==
    ASSUME NEW n \in Nat, n <= Len(frames), Len(frames) \in Nat, Len(frames') \in Nat,
           Len(frames) <= Len(frames'), \A i \in 1..Len(frames) : frames'[i] = frames[i],
           ReaderHalves' = ReaderHalves, \A j \in ReaderHalves : wire'[j] = wire[j],
           PongsWhole(n), NoThree, HalvesOrdered(n), HalvesFit(n), ReaderHalves \subseteq Nat
    PROVE  PongsWhole(n)' /\ NoThree' /\ HalvesOrdered(n)' /\ HalvesFit(n)'
  <1>1. PongsWhole(n)'
    <2> SUFFICES ASSUME NEW i \in 1..n, frames'[i].op = "ping"
                 PROVE  \E j, h \in ReaderHalves' :
                          j < h /\ wire'[j] = [op |-> "pong", id |-> i] /\ wire'[h] = wire'[j]
      BY DEF PongsWhole
    <2>1. i \in 1..Len(frames) /\ frames[i].op = "ping"
      OBVIOUS
    <2>2. PICK j \in ReaderHalves, h \in ReaderHalves :
            j < h /\ wire[j] = [op |-> "pong", id |-> i] /\ wire[h] = wire[j]
      BY <2>1 DEF PongsWhole
    <2> QED
      BY <2>2
  <1>2. NoThree'
    BY DEF NoThree
  <1>3. HalvesOrdered(n)'
    BY DEF HalvesOrdered
  <1>4. HalvesFit(n)'
    <2> SUFFICES ASSUME NEW j \in ReaderHalves'
                 PROVE  /\ wire'[j].id \in 1..Len(frames') /\ wire'[j].id <= n + 1
                        /\ wire'[j].id <= n => wire'[j].op = "pong"
                        /\ Fits(wire'[j].op, frames'[wire'[j].id])
      BY DEF HalvesFit, Fits
    <2>1. /\ j \in ReaderHalves /\ wire'[j] = wire[j]
          /\ wire[j].id \in 1..Len(frames) /\ wire[j].id <= n + 1
          /\ wire[j].id <= n => wire[j].op = "pong"
          /\ Fits(wire[j].op, frames[wire[j].id])
      BY DEF HalvesFit
    <2>2. frames'[wire[j].id] = frames[wire[j].id]
      BY <2>1
    <2> QED
      BY <2>1, <2>2
  <1> QED
    BY <1>1, <1>2, <1>3, <1>4

(* Where the reader may go without writing.                                *)
LEMMA BegunKept ==
    ASSUME NEW n \in Nat, HalvesBegun(n),
           ReaderHalves' = ReaderHalves, \A j \in ReaderHalves : wire'[j] = wire[j],
           \/ UNCHANGED <<reader, answer>>
           \/ reader' = "done"
           \/ reader \notin {"write", "done"} /\ reader' \notin {"write", "done"}
           \/ reader \notin {"write", "done"} /\ reader' = "write" /\ answer'.left = 2
    PROVE  HalvesBegun(n)'
  BY DEF HalvesBegun, Half

(* More frames of the client leave what was cast as it is.                  *)
LEMMA CastKept ==
    ASSUME NEW n \in Nat, n <= Len(frames), Len(frames) \in Nat,
           \A i \in 1..Len(frames) : frames'[i] = frames[i], CastInv(n), UNCHANGED casts
    PROVE  CastInv(n)'
  <1>1. \A i \in 1..n : frames'[i] = frames[i]
    OBVIOUS
  <1>2. {i \in 1..n : frames'[i].op = "text"} = {i \in 1..n : frames[i].op = "text"}
    BY <1>1
  <1> QED
    BY <1>2 DEF CastInv

(* The invariant, put together.                                            *)
LEMMA Together ==
    ASSUME NEW n \in Nat, n <= Len(frames'), TypeOK', StartInv', PushInv', Len(frames') \in Nat,
           BufInv(n)', CastInv(n)', PongsWhole(n)', NoThree', HalvesOrdered(n)', HalvesFit(n)',
           HalvesBegun(n)'
    PROVE  IInv'
  <1>1. DoneInv(n)'
    BY DEF DoneInv, WireInv
  <1>2. n \in 0..Len(frames')
    OBVIOUS
  <1> QED
    BY <1>1, <1>2 DEF IInv

(* Steps that leave the frames, the casts and the wire alone.              *)
LEMMA QuietStep ==
    ASSUME TypeOK, StartInv, NEW n \in 0..Len(frames), DoneInv(n),
           UNCHANGED <<frames, starts, casts, wire>>, TypeOK', PushInv', BufInv(n)',
           \/ UNCHANGED <<reader, answer>>
           \/ reader' = "done"
           \/ reader \notin {"write", "done"} /\ reader' \notin {"write", "done"}
           \/ reader \notin {"write", "done"} /\ reader' = "write" /\ answer'.left = 2
    PROVE  IInv'
  <1>0. n \in Nat /\ n <= Len(frames) /\ Len(frames) \in Nat /\ ReaderHalves \subseteq Nat
    BY FrameTypes DEF ReaderHalves
  <1>1. ReaderHalves' = ReaderHalves
    BY DEF ReaderHalves
  <1>2. /\ PongsWhole(n) /\ NoThree /\ HalvesOrdered(n) /\ HalvesFit(n) /\ HalvesBegun(n)
        /\ CastInv(n)
    BY DEF DoneInv, WireInv
  <1>3. PongsWhole(n)' /\ NoThree' /\ HalvesOrdered(n)' /\ HalvesFit(n)'
    BY <1>0, <1>1, <1>2, HalvesKept
  <1>4. HalvesBegun(n)'
    BY <1>0, <1>1, <1>2, BegunKept
  <1>5. CastInv(n)'
    BY <1>0, <1>2, CastKept
  <1>6. StartInv'
    BY DEF StartInv
  <1> QED
    BY <1>0, <1>3, <1>4, <1>5, <1>6, Together

-----------------------------------------------------------------------------
(* At the start the reader is done with no frame.                           *)
LEMMA IInvInit == Init => IInv
  <1> SUFFICES ASSUME Init PROVE IInv
    OBVIOUS
  <1>1. /\ Len(frames) = 0 /\ Len(starts) = 1 /\ starts[1] = 0 /\ Len(casts) = 0 /\ Len(wire) = 0
        /\ frames \in Seq(Frames) /\ starts \in Seq(Nat) /\ wire \in Seq([op : AnswerOps \cup {"push"}, id : Nat])
        /\ msgs \in Seq(Nat) /\ casts \in Seq(Nat) /\ outq \in Seq(Nat)
    BY DEF Init
  <1>2. TypeOK
    <2>1. answer \in Answers /\ push \in [op : {"none", "push"}, id : Nat, left : 0..2]
      BY DEF Init, NoFrame, Answers
    <2>2. /\ eof \in BOOLEAN /\ broken \in BOOLEAN /\ outOpen \in BOOLEAN
          /\ reader \in ReaderPlaces /\ loop \in {"running", "done"} /\ proc \in {"alive", "dead"}
          /\ writer \in {"recv", "write", "done"}
      BY DEF Init, ReaderPlaces
    <2>3. taken \in Nat /\ len \in Nat /\ filled \in Nat /\ pushes \in Nat
      BY SizeFacts DEF Init
    <2> QED
      BY <1>1, <2>1, <2>2, <2>3 DEF TypeOK
  <1>3. StartInv
    BY <1>1 DEF StartInv
  <1>4. PushInv
    BY DEF Init, PushInv
  <1>5. BufInv(0)
    BY <1>1, SizeFacts DEF Init, BufInv
  <1>6. CastInv(0)
    BY <1>1 DEF Init, CastInv, Range
  <1>7. WireInv(0)
    <2>1. ReaderHalves = {}
      BY <1>1 DEF ReaderHalves
    <2>2. PongsWhole(0)
      BY DEF PongsWhole
    <2>3. NoThree /\ HalvesOrdered(0) /\ HalvesFit(0) /\ HalvesBegun(0)
      BY <2>1 DEF NoThree, HalvesOrdered, HalvesFit, HalvesBegun, Init
    <2> QED
      BY <2>2, <2>3 DEF WireInv
  <1>8. 0 \in 0..Len(frames)
    BY <1>1
  <1> QED
    BY <1>2, <1>3, <1>4, <1>5, <1>6, <1>7, <1>8 DEF IInv, DoneInv

(* A frame the client sends comes behind the others.                       *)
LEMMA SendStep ==
    ASSUME IInv, NEW f \in Frames, ClientSends(f)
    PROVE  IInv'
  <1>t. TypeOK /\ StartInv /\ PushInv
    BY DEF IInv
  <1>0. PICK n \in 0..Len(frames) : DoneInv(n)
    BY DEF IInv
  <1>u. UNCHANGED <<eof, broken, taken, len, filled, reader, answer, msgs, casts, chanVars, outq,
                    writer, push, wire>>
    BY DEF ClientSends, readVars, writeVars
  <1>1. /\ frames \in Seq(Frames) /\ starts \in Seq(Nat) /\ Len(starts) = Len(frames) + 1
        /\ Len(frames) \in Nat
        /\ frames' = Append(frames, f) /\ starts' = Append(starts, Last(starts) + f.size)
    BY <1>t DEF TypeOK, ClientSends
  <1>2. f.size \in Nat \ {0} /\ Last(starts) \in Nat /\ Last(starts) = starts[Len(starts)]
    <2>1. f.size \in Nat \ {0}
      BY FrameAssumption
    <2> QED
      BY <1>1, <2>1 DEF Last
  <1>3. Last(starts) + f.size \in Nat
    BY <1>2
  <1>4. /\ frames' \in Seq(Frames) /\ Len(frames') = Len(frames) + 1
        /\ \A i \in 1..Len(frames) : frames'[i] = frames[i]
        /\ frames'[Len(frames) + 1] = f
    BY <1>1
  <1>5. /\ starts' \in Seq(Nat) /\ Len(starts') = Len(starts) + 1
        /\ \A i \in 1..Len(starts) : starts'[i] = starts[i] /\ starts[i] \in Nat
        /\ starts'[Len(starts) + 1] = Last(starts) + f.size
    BY <1>1, <1>3
  <1>6. TypeOK'
    BY <1>t, <1>u, <1>1, <1>4, <1>5 DEF TypeOK, chanVars
  <1>7. StartInv'
    <2>1. starts'[1] = 0
      BY <1>t, <1>1, <1>5 DEF StartInv
    <2>2. ASSUME NEW i \in 1..Len(frames')
          PROVE  starts'[i + 1] = starts'[i] + frames'[i].size
      <3>1. CASE i = Len(frames) + 1
        <4>1. i = Len(starts) /\ i \in 1..Len(starts) /\ i + 1 = Len(starts) + 1
          BY <1>1, <3>1
        <4> QED
          BY <1>2, <1>4, <1>5, <3>1, <4>1
      <3>2. CASE i # Len(frames) + 1
        <4>1. i \in 1..Len(frames) /\ i \in 1..Len(starts) /\ i + 1 \in 1..Len(starts)
          BY <1>1, <1>4, <3>2
        <4>2. starts[i + 1] = starts[i] + frames[i].size
          BY <1>t, <4>1 DEF StartInv
        <4> QED
          BY <1>4, <1>5, <4>1, <4>2
      <3> QED
        BY <3>1, <3>2
    <2>3. ASSUME NEW i \in 1..Len(starts'), NEW j \in 1..Len(starts'), i < j
          PROVE  starts'[i] < starts'[j]
      <3>0. i \in 1..Len(starts) /\ \A m, k \in 1..Len(starts) : m < k => starts[m] < starts[k]
        BY <1>t, <1>1, <1>5, <2>3 DEF StartInv
      <3>1. CASE j = Len(starts) + 1
        <4>1. starts'[i] = starts[i] /\ starts[i] \in Nat
          BY <1>5, <3>0
        <4>2. starts[i] <= Last(starts)
          <5>1. CASE i = Len(starts)
            BY <1>2, <4>1, <5>1
          <5>2. CASE i # Len(starts)
            <6>1. i < Len(starts) /\ Len(starts) \in 1..Len(starts)
              BY <1>1, <3>0, <5>2
            <6> QED
              BY <1>2, <3>0, <4>1, <6>1
          <5> QED
            BY <5>1, <5>2
        <4> QED
          BY <1>2, <1>5, <3>1, <4>1, <4>2, SMTT(30)
      <3>2. CASE j # Len(starts) + 1
        <4>1. j \in 1..Len(starts)
          BY <1>1, <1>5, <3>2
        <4> QED
          BY <1>5, <2>3, <3>0, <4>1
      <3> QED
        BY <3>1, <3>2
    <2> QED
      BY <2>1, <2>2, <2>3 DEF StartInv
  <1>8. BufInv(n)'
    <2>0. BufInv(n) /\ n + 1 \in 1..Len(starts)
      BY <1>0, <1>1 DEF DoneInv
    <2>1. taken' = starts'[n + 1] + filled' /\ taken' <= starts'[Len(starts')]
      <3>1. taken = starts[n + 1] + filled /\ taken <= Last(starts) /\ taken \in Nat
        BY <1>t, <1>2, <2>0 DEF BufInv, TypeOK
      <3>2. starts'[n + 1] = starts[n + 1]
        BY <1>5, <2>0
      <3>3. starts'[Len(starts')] = Last(starts) + f.size
        BY <1>5
      <3>4. taken <= Last(starts) + f.size
        BY <1>2, <3>1
      <3> QED
        BY <1>u, <3>1, <3>2, <3>3, <3>4
    <2>2. reader' = "top" /\ 0 < filled' => filled' < frames'[n + 1].size
      <3> SUFFICES ASSUME reader = "top", 0 < filled PROVE filled < frames'[n + 1].size
        BY <1>u
      <3>1. n + 1 \in 1..Len(frames)
        BY <1>t, <2>0, FirstIsNext DEF BufInv
      <3> QED
        BY <1>4, <2>0, <3>1 DEF BufInv
    <2>3. reader = "write" =>
           /\ n < Len(frames') /\ frames'[n + 1] = frames[n + 1]
           /\ answer.op \in AnswerOps /\ answer.id = n + 1 /\ answer.left \in 1..2
           /\ Fits(answer.op, frames[n + 1])
           /\ answer.op = "pong" => frames[n + 1].size <= filled
      BY <1>1, <1>4, <2>0 DEF BufInv
    <2>4. 0 < len /\ filled <= len /\ len < 2 * MaxFrame
      BY <2>0 DEF BufInv
    <2> QED
      BY <1>u, <2>1, <2>2, <2>3, <2>4 DEF BufInv, Fits
  <1>9. ReaderHalves' = ReaderHalves /\ ReaderHalves \subseteq Nat
    BY <1>u DEF ReaderHalves
  <1>10. n \in Nat /\ n <= Len(frames) /\ Len(frames') \in Nat /\ Len(frames) <= Len(frames') /\ n <= Len(frames')
    BY <1>1, <1>4
  <1>11. /\ PongsWhole(n) /\ NoThree /\ HalvesOrdered(n) /\ HalvesFit(n) /\ HalvesBegun(n)
         /\ CastInv(n)
    BY <1>0 DEF DoneInv, WireInv
  <1>12. PongsWhole(n)' /\ NoThree' /\ HalvesOrdered(n)' /\ HalvesFit(n)'
    BY <1>u, <1>1, <1>4, <1>9, <1>10, <1>11, HalvesKept
  <1>13. HalvesBegun(n)'
    BY <1>u, <1>9, <1>10, <1>11, BegunKept
  <1>14. CastInv(n)'
    BY <1>u, <1>1, <1>4, <1>10, <1>11, CastKept
  <1>15. PushInv'
    BY <1>t, <1>u DEF PushInv
  <1> QED
    BY <1>6, <1>7, <1>8, <1>10, <1>12, <1>13, <1>14, <1>15, Together

(* Steps of the others that write nothing.                                 *)
LEMMA OutsideStep ==
    ASSUME IInv,
           \/ UNCHANGED vars \/ ClientEof \/ ClientBreaks \/ WriterTakes \/ WriterEnds
           \/ LoopStep \/ ChannelPushes \/ ChannelPanics \/ SendersDropped
    PROVE  IInv'
  <1>t. TypeOK /\ StartInv /\ PushInv
    BY DEF IInv
  <1>0. PICK n \in 0..Len(frames) : DoneInv(n)
    BY DEF IInv
  <1>1. UNCHANGED <<frames, starts, taken, len, filled, reader, answer, casts, wire>>
    BY DEF vars, clientVars, readVars, ClientEof, ClientBreaks, WriterTakes, WriterEnds, LoopStep,
           LoopCasts, LoopEnds, ChannelPushes, ChannelPanics, SendersDropped
  <1>2. /\ eof' \in BOOLEAN /\ broken' \in BOOLEAN /\ outOpen' \in BOOLEAN
        /\ loop' \in {"running", "done"} /\ proc' \in {"alive", "dead"}
        /\ writer' \in {"recv", "write", "done"}
    BY <1>t DEF TypeOK, vars, clientVars, chanVars, writeVars, ClientEof, ClientBreaks, WriterTakes,
           WriterEnds, LoopStep, LoopCasts, LoopEnds, ChannelPushes, ChannelPanics, SendersDropped
  <1>3. pushes' \in Nat /\ msgs' \in Seq(Nat) /\ outq' \in Seq(Nat)
    <2>t. pushes \in Nat /\ msgs \in Seq(Nat) /\ outq \in Seq(Nat)
      BY <1>t DEF TypeOK
    <2>1. CASE WriterTakes
      BY <2>t, <2>1 DEF WriterTakes, chanVars
    <2>2. CASE LoopCasts
      BY <2>t, <2>2 DEF LoopCasts
    <2>3. CASE ChannelPushes
      BY <2>t, <2>3 DEF ChannelPushes
    <2>4. CASE ~WriterTakes /\ ~LoopCasts /\ ~ChannelPushes
      BY <2>t, <2>4 DEF vars, chanVars, ClientEof, ClientBreaks, WriterEnds, LoopStep, LoopEnds,
                        ChannelPanics, SendersDropped
    <2> QED
      BY <2>1, <2>2, <2>3, <2>4
  <1>4. push' \in [op : {"none", "push"}, id : Nat, left : 0..2] /\ PushInv'
    <2>1. CASE WriterTakes
      <3>1. Head(outq) \in Nat
        BY <1>t, <2>1, SMTT(30) DEF TypeOK, WriterTakes
      <3> QED
        BY <2>1, <3>1 DEF WriterTakes, PushInv
    <2>2. CASE WriterEnds
      BY <2>2 DEF WriterEnds, NoFrame, PushInv
    <2>3. CASE ~WriterTakes /\ ~WriterEnds
      <3>1. UNCHANGED <<writer, push>>
        BY <2>3 DEF vars, writeVars, ClientEof, ClientBreaks, LoopStep, LoopCasts, LoopEnds,
                    ChannelPushes, ChannelPanics, SendersDropped
      <3> QED
        BY <1>t, <3>1 DEF TypeOK, PushInv
    <2> QED
      BY <2>1, <2>2, <2>3
  <1>5. TypeOK'
    BY <1>t, <1>1, <1>2, <1>3, <1>4 DEF TypeOK
  <1>6. BufInv(n)'
    BY <1>0, <1>1 DEF DoneInv, BufInv
  <1> QED
    BY <1>t, <1>0, <1>1, <1>4, <1>5, <1>6, QuietStep

(* The writer task puts half a message on the wire.                        *)
LEMMA WriterStepKeeps ==
    ASSUME IInv, WriterWrites
    PROVE  IInv'
  <1>t. TypeOK /\ StartInv /\ PushInv
    BY DEF IInv
  <1>0. PICK n \in 0..Len(frames) : DoneInv(n)
    BY DEF IInv
  <1>1. /\ UNCHANGED <<frames, starts, taken, len, filled, reader, answer, casts, eof, broken, outOpen,
                       loop, proc, pushes, msgs, outq>>
        /\ writer = "write" /\ wire' = Append(wire, Half(push))
        /\ push' = (IF push.left > 1 THEN [push EXCEPT !.left = @ - 1] ELSE NoFrame)
        /\ writer' = (IF push.left > 1 THEN "write" ELSE "recv")
    BY DEF WriterWrites, clientVars, readVars, chanVars
  <1>2. push.op = "push" /\ push.left \in 1..2 /\ push \in [op : {"none", "push"}, id : Nat, left : 0..2]
    BY <1>t, <1>1 DEF PushInv, TypeOK
  <1>3. PICK w \in [op : AnswerOps \cup {"push"}, id : Nat] : w = Half(push)
    BY <1>2 DEF Half
  <1>4. /\ wire \in Seq([op : AnswerOps \cup {"push"}, id : Nat]) /\ Len(wire) \in Nat
        /\ wire' = Append(wire, w) /\ w.op = "push"
    BY <1>t, <1>1, <1>2, <1>3 DEF TypeOK, Half
  <1>5. /\ wire' \in Seq([op : AnswerOps \cup {"push"}, id : Nat]) /\ Len(wire') = Len(wire) + 1
        /\ \A j \in 1..Len(wire) : wire'[j] = wire[j]
        /\ wire'[Len(wire) + 1] = w
    BY <1>4
  <1>6. ReaderHalves' = ReaderHalves /\ ReaderHalves \subseteq Nat
    <2>1. 1..Len(wire') = 1..Len(wire) \cup {Len(wire) + 1}
      BY <1>4, <1>5
    <2> QED
      BY <1>4, <1>5, <2>1 DEF ReaderHalves
  <1>7. \A j \in ReaderHalves : wire'[j] = wire[j]
    BY <1>5 DEF ReaderHalves
  <1>8. push' \in [op : {"none", "push"}, id : Nat, left : 0..2] /\ PushInv'
        /\ writer' \in {"recv", "write", "done"}
    <2>1. CASE push.left > 1
      BY <1>1, <1>2, <2>1 DEF PushInv
    <2>2. CASE ~(push.left > 1)
      BY <1>1, <2>2 DEF PushInv, NoFrame
    <2> QED
      BY <2>1, <2>2
  <1>9. TypeOK'
    BY <1>t, <1>1, <1>5, <1>8 DEF TypeOK
  <1>10. n \in Nat /\ n <= Len(frames) /\ Len(frames) \in Nat
    BY <1>t, FrameTypes
  <1>11. /\ PongsWhole(n) /\ NoThree /\ HalvesOrdered(n) /\ HalvesFit(n) /\ HalvesBegun(n)
         /\ CastInv(n) /\ BufInv(n)
    BY <1>0 DEF DoneInv, WireInv
  <1>12. PongsWhole(n)' /\ NoThree' /\ HalvesOrdered(n)' /\ HalvesFit(n)'
    <2>1. Len(frames') = Len(frames) /\ \A i \in 1..Len(frames) : frames'[i] = frames[i]
      BY <1>1
    <2>2. Len(frames') \in Nat /\ Len(frames) <= Len(frames')
      BY <1>10, <2>1
    <2> QED
      BY <1>6, <1>7, <1>10, <1>11, <2>1, <2>2, HalvesKept
  <1>13. HalvesBegun(n)'
    BY <1>1, <1>6, <1>7, <1>10, <1>11, BegunKept
  <1>14. CastInv(n)'
    BY <1>1, <1>10, <1>11, CastKept
  <1>15. BufInv(n)' /\ StartInv'
    BY <1>t, <1>1, <1>11 DEF BufInv, StartInv
  <1> QED
    BY <1>1, <1>8, <1>9, <1>10, <1>12, <1>13, <1>14, <1>15, Together

-----------------------------------------------------------------------------
(* The reader.  Making room, or giving up: a full buffer of at least       *)
(* WS_MAX_FRAME_SIZE bytes holds the beginning of a longer frame.          *)
LEMMA ReaderTopStep ==
    ASSUME IInv, ReaderTop
    PROVE  IInv'
  <1>t. TypeOK /\ StartInv /\ PushInv
    BY DEF IInv
  <1>0. PICK n \in 0..Len(frames) : DoneInv(n)
    BY DEF IInv
  <1>1. /\ UNCHANGED <<frames, starts, taken, filled, casts, wire, eof, broken, outOpen, loop, proc,
                       pushes, msgs, outq, writer, push>>
        /\ reader = "top"
    BY DEF ReaderTop, clientVars, chanVars, writeVars
  <1>2. BufInv(n) /\ filled \in Nat /\ len \in Nat /\ PushInv'
    BY <1>t, <1>0, <1>1 DEF DoneInv, TypeOK, PushInv
  <1>3. CASE filled = len /\ TooBig
    <2>1. reader' = "write" /\ answer' = Answer("close1009", FirstFrame) /\ UNCHANGED len
      BY <1>3 DEF ReaderTop
    <2>2. 0 < filled /\ filled < frames[n + 1].size /\ len >= MaxFrame
      BY <1>1, <1>2, <1>3 DEF BufInv, TooBig
    <2>3. n + 1 \in 1..Len(frames) /\ FirstFrame = n + 1
      BY <1>t, <1>2, <2>2, FirstIsNext DEF BufInv
    <2>4. answer' = [op |-> "close1009", id |-> n + 1, left |-> 2]
      BY <2>1, <2>3 DEF Answer
    <2>5. frames[n + 1].size > MaxFrame
      <3>1. frames[n + 1].size \in Nat
        BY <1>t, <2>3, FrameTypes
      <3> QED
        BY <1>2, <1>3, <2>2, <3>1, SizeFacts
    <2>6. answer' \in Answers
      BY <2>4 DEF Answers, AnswerOps
    <2>7. TypeOK'
      BY <1>t, <1>1, <2>1, <2>6 DEF TypeOK, ReaderPlaces
    <2>8. BufInv(n)'
      <3>1. n < Len(frames)
        BY <1>t, <2>3, FrameTypes
      <3>2. /\ answer'.op \in AnswerOps /\ answer'.id = n + 1 /\ answer'.left \in 1..2
            /\ answer'.op # "pong"
        BY <2>4 DEF AnswerOps
      <3>3. Fits(answer'.op, frames[n + 1])
        BY <2>4, <2>5 DEF Fits
      <3> QED
        BY <1>1, <1>2, <2>1, <3>1, <3>2, <3>3 DEF BufInv, Fits
    <2> QED
      BY <1>t, <1>0, <1>1, <1>2, <2>1, <2>4, <2>7, <2>8, QuietStep
  <1>4. CASE ~(filled = len /\ TooBig)
    <2>1. /\ reader' = "read" /\ UNCHANGED answer
          /\ len' = (IF filled = len THEN 2 * len ELSE len)
      BY <1>4 DEF ReaderTop
    <2>2. 0 < len' /\ filled <= len' /\ len' < 2 * MaxFrame /\ len' \in Nat
      <3>1. CASE filled = len
        <4>1. ~(len >= MaxFrame) /\ 0 < len
          BY <1>2, <1>4, <3>1 DEF TooBig, BufInv
        <4> QED
          BY <1>2, <2>1, <3>1, <4>1, SizeFacts
      <3>2. CASE filled # len
        BY <1>2, <2>1, <3>2 DEF BufInv
      <3> QED
        BY <3>1, <3>2
    <2>3. TypeOK'
      BY <1>t, <1>1, <2>1, <2>2 DEF TypeOK, ReaderPlaces
    <2>4. BufInv(n)'
      BY <1>1, <1>2, <2>1, <2>2 DEF BufInv
    <2> QED
      BY <1>t, <1>0, <1>1, <1>2, <2>1, <2>3, <2>4, QuietStep
  <1> QED
    BY <1>3, <1>4

(* Reading, and coming back for more.                                      *)
LEMMA ReaderReadStep ==
    ASSUME IInv,
           \/ \E m \in 1..(len - filled) : ReaderRead(m)
           \/ ReaderReadEnds \/ ReaderNeedsMore \/ ReaderWriteFails
    PROVE  IInv'
  <1>t. TypeOK /\ StartInv /\ PushInv
    BY DEF IInv
  <1>0. PICK n \in 0..Len(frames) : DoneInv(n)
    BY DEF IInv
  <1>1. UNCHANGED <<frames, starts, casts, wire, eof, broken, outOpen, loop, proc,
                    pushes, msgs, outq, writer, push>>
    BY DEF ReaderRead, ReaderReadEnds, ReaderNeedsMore, ReaderWriteFails, clientVars, chanVars, writeVars
  <1>2. BufInv(n) /\ filled \in Nat /\ len \in Nat /\ taken \in Nat /\ PushInv'
    BY <1>t, <1>0, <1>1 DEF DoneInv, TypeOK, PushInv
  <1>3. ASSUME NEW m \in 1..(len - filled), ReaderRead(m) PROVE IInv'
    <2>1. /\ reader = "read" /\ reader' = "parse" /\ m <= Available /\ taken' = taken + m
          /\ filled' = filled + m /\ len' = filled + m /\ UNCHANGED answer
      BY <1>3 DEF ReaderRead
    <2>2. m \in Nat /\ 0 < m /\ filled + m <= len
      BY <1>2
    <2>3. n + 1 \in 1..Len(starts) /\ starts[n + 1] \in Nat /\ starts[Len(starts)] \in Nat
      BY <1>t, FrameTypes
    <2>4. taken + m <= starts[Len(starts)]
      <3>1. Available = starts[Len(starts)] - taken
        BY DEF Available, Last
      <3> QED
        BY <1>2, <2>1, <2>2, <2>3, <3>1
    <2>5. TypeOK'
      <3>1. taken' \in Nat /\ filled' \in Nat /\ len' \in Nat
        BY <1>2, <2>1, <2>2
      <3> QED
        BY <1>t, <1>1, <2>1, <3>1 DEF TypeOK, ReaderPlaces
    <2>6. BufInv(n)'
      <3>1. taken' = starts[n + 1] + filled'
        BY <1>2, <2>1, <2>2, <2>3, SMTT(30) DEF BufInv
      <3>2. 0 < len' /\ filled' <= len' /\ len' < 2 * MaxFrame
        BY <1>2, <2>1, <2>2, SizeFacts DEF BufInv
      <3> QED
        BY <1>1, <2>1, <2>4, <3>1, <3>2 DEF BufInv
    <2> QED
      BY <1>t, <1>0, <1>1, <1>2, <2>1, <2>5, <2>6, QuietStep
  <1>4. CASE ReaderReadEnds \/ ReaderWriteFails
    <2>1. reader' = "done" /\ UNCHANGED <<taken, len, filled>> /\ answer' \in {answer, NoFrame}
      BY <1>4 DEF ReaderReadEnds, ReaderWriteFails, readVars
    <2>2. TypeOK'
      BY <1>t, <1>1, <2>1 DEF TypeOK, ReaderPlaces, Answers
    <2>3. BufInv(n)'
      BY <1>1, <1>2, <2>1 DEF BufInv
    <2> QED
      BY <1>t, <1>0, <1>1, <1>2, <2>1, <2>2, <2>3, QuietStep
  <1>5. CASE ReaderNeedsMore
    <2>1. /\ reader = "parse" /\ TryParseFrame.op = "partial" /\ reader' = "top"
          /\ UNCHANGED <<taken, len, filled, answer>>
      BY <1>5 DEF ReaderNeedsMore, readVars
    <2>2. TypeOK'
      BY <1>t, <1>1, <2>1 DEF TypeOK, ReaderPlaces
    <2>3. filled = 0 \/ filled < frames[n + 1].size
      BY <1>t, <1>2, <2>1, ParseNext DEF BufInv
    <2>4. BufInv(n)'
      BY <1>1, <1>2, <2>1, <2>3 DEF BufInv
    <2> QED
      BY <1>t, <1>0, <1>1, <1>2, <2>1, <2>2, <2>4, QuietStep
  <1> QED
    BY <1>3, <1>4, <1>5

(* A PING, or a frame that ends the connection: the answer is begun.       *)
LEMMA ReaderAnswersStep ==
    ASSUME IInv, ReaderPing \/ ReaderCloses
    PROVE  IInv'
  <1>t. TypeOK /\ StartInv /\ PushInv
    BY DEF IInv
  <1>0. PICK n \in 0..Len(frames) : DoneInv(n)
    BY DEF IInv
  <1>1. /\ UNCHANGED <<frames, starts, casts, wire, eof, broken, outOpen, loop, proc,
                       pushes, msgs, outq, writer, push, taken, len, filled>>
        /\ reader = "parse" /\ reader' = "write"
        /\ TryParseFrame.op \in {"ping", "close", "continuation", "bad"}
    BY DEF ReaderPing, ReaderCloses, clientVars, chanVars, writeVars, readVars
  <1>2. BufInv(n) /\ PushInv'
    BY <1>t, <1>0, <1>1 DEF DoneInv, PushInv
  <1>3. PICK op \in {"pong", "close", "close1002"} :
          /\ answer' = Answer(op, TryParseFrame.id)
          /\ op = "pong" => TryParseFrame.op = "ping"
          /\ op = "close" => TryParseFrame.op = "close"
          /\ op = "close1002" => TryParseFrame.op \in {"continuation", "bad"}
    <2>1. CASE ReaderPing
      BY <2>1 DEF ReaderPing
    <2>2. CASE ReaderCloses
      <3>1. /\ answer' = Answer(CloseCode(TryParseFrame.op), TryParseFrame.id)
            /\ TryParseFrame.op \in {"close", "continuation", "bad"}
        BY <2>2 DEF ReaderCloses
      <3> QED
        BY <3>1 DEF CloseCode
    <2> QED
      BY <2>1, <2>2
  <1>4. /\ n + 1 \in 1..Len(frames) /\ TryParseFrame.op = frames[n + 1].op
        /\ TryParseFrame.id = n + 1 /\ frames[n + 1].size <= filled
    <2>1. TryParseFrame.op # "partial"
      BY <1>1
    <2>2. taken = starts[n + 1] + filled /\ taken <= starts[Len(starts)]
      BY <1>2 DEF BufInv
    <2> QED
      BY <1>t, <2>1, <2>2, ParseNext
  <1>5. answer' = [op |-> op, id |-> n + 1, left |-> 2]
    BY <1>3, <1>4 DEF Answer
  <1>6. answer' \in Answers
    BY <1>4, <1>5 DEF Answers, AnswerOps
  <1>7. TypeOK'
    BY <1>t, <1>1, <1>6 DEF TypeOK, ReaderPlaces
  <1>8. BufInv(n)'
    <2>1. n < Len(frames)
      BY <1>t, <1>4, FrameTypes
    <2>2. /\ answer'.op \in AnswerOps /\ answer'.id = n + 1 /\ answer'.left \in 1..2
      BY <1>5 DEF AnswerOps
    <2>3. Fits(answer'.op, frames[n + 1])
      BY <1>3, <1>4, <1>5 DEF Fits
    <2> QED
      BY <1>1, <1>2, <1>4, <2>1, <2>2, <2>3 DEF BufInv, Fits
  <1> QED
    BY <1>t, <1>0, <1>1, <1>2, <1>5, <1>7, <1>8, QuietStep

(* Frame n + 1 is consumed.                                                *)
LEMMA Consumed ==
    ASSUME TypeOK, StartInv, NEW n \in 0..Len(frames), BufInv(n), n + 1 \in 1..Len(frames),
           frames[n + 1].size <= filled, filled' = filled - frames[n + 1].size,
           UNCHANGED <<frames, starts, taken, len>>, reader' = "parse"
    PROVE  BufInv(n + 1)' /\ filled' \in Nat
  <1>t. /\ frames[n + 1].size \in Nat \ {0} /\ filled \in Nat /\ taken \in Nat /\ len \in Nat
        /\ Len(frames) \in Nat /\ Len(starts) = Len(frames) + 1
        /\ \A i \in 1..Len(starts) : starts[i] \in Nat
    BY FrameTypes
  <1>1. (n + 1) + 1 \in 1..Len(starts) /\ n + 1 \in 1..Len(starts)
    BY <1>t
  <1>2. starts[(n + 1) + 1] = starts[n + 1] + frames[n + 1].size
    BY DEF StartInv
  <1>3. taken = starts[n + 1] + filled /\ taken <= starts[Len(starts)]
    BY DEF BufInv
  <1>4. taken = starts[(n + 1) + 1] + filled'
    BY <1>t, <1>1, <1>2, <1>3, SMTT(30)
  <1>5. filled' \in Nat /\ filled' <= len
    <2>1. filled <= len
      BY DEF BufInv
    <2> QED
      BY <1>t, <2>1
  <1> QED
    BY <1>3, <1>4, <1>5 DEF BufInv

(* Texts are cast, binary frames and PONGs dropped.                        *)
LEMMA ReaderConsumesStep ==
    ASSUME IInv, ReaderText \/ ReaderIgnores
    PROVE  IInv'
  <1>t. TypeOK /\ StartInv /\ PushInv
    BY DEF IInv
  <1>0. PICK n \in 0..Len(frames) : DoneInv(n)
    BY DEF IInv
  <1>1. /\ UNCHANGED <<frames, starts, answer, wire, eof, broken, outOpen, loop, proc,
                       pushes, outq, writer, push>>
        /\ reader = "parse"
        /\ TryParseFrame.op \in {"text", "binary", "pong"}
    BY DEF ReaderText, ReaderIgnores, clientVars, chanVars, writeVars
  <1>2. BufInv(n) /\ CastInv(n) /\ PushInv' /\ Len(frames) \in Nat /\ n \in Nat
    BY <1>t, <1>0, <1>1, FrameTypes DEF DoneInv, PushInv
  <1>3. /\ n + 1 \in 1..Len(frames) /\ TryParseFrame.op = frames[n + 1].op
        /\ TryParseFrame.id = n + 1 /\ frames[n + 1].size <= filled
        /\ TryParseFrame.consumed = frames[n + 1].size
    <2>1. TryParseFrame.op # "partial"
      BY <1>1
    <2>2. taken = starts[n + 1] + filled /\ taken <= starts[Len(starts)]
      BY <1>2 DEF BufInv
    <2> QED
      BY <1>t, <2>1, <2>2, ParseNext
  <1>4. CASE reader' = "done" /\ UNCHANGED <<taken, len, filled, msgs, casts>>
    <2>1. TypeOK'
      BY <1>t, <1>1, <1>4 DEF TypeOK, ReaderPlaces
    <2>2. BufInv(n)'
      BY <1>1, <1>2, <1>4 DEF BufInv
    <2> QED
      BY <1>t, <1>0, <1>1, <1>2, <1>4, <2>1, <2>2, QuietStep
  <1>5. CASE /\ UNCHANGED <<reader, taken, len>> /\ filled' = filled - frames[n + 1].size
             /\ \/ /\ frames[n + 1].op = "text"
                   /\ msgs' = Append(msgs, n + 1) /\ casts' = Append(casts, n + 1)
                \/ /\ frames[n + 1].op \in {"binary", "pong"} /\ UNCHANGED <<msgs, casts>>
    <2>1. BufInv(n + 1)' /\ filled' \in Nat
      BY <1>t, <1>1, <1>2, <1>3, <1>5, Consumed
    <2>2. msgs' \in Seq(Nat) /\ casts' \in Seq(Nat)
      <3>1. msgs \in Seq(Nat) /\ casts \in Seq(Nat) /\ n + 1 \in Nat
        BY <1>t, <1>2 DEF TypeOK
      <3>2. PICK k \in Nat : k = n + 1
        BY <3>1
      <3>3. Append(msgs, k) \in Seq(Nat) /\ Append(casts, k) \in Seq(Nat)
        BY <3>1
      <3> QED
        BY <1>5, <3>1, <3>2, <3>3
    <2>3. TypeOK'
      BY <1>t, <1>1, <1>5, <2>1, <2>2 DEF TypeOK
    <2>4. 1..(n + 1) = 1..n \cup {n + 1}
      BY <1>2
    <2>5. CastInv(n + 1)'
      <3>1. CASE frames[n + 1].op = "text"
        <4>0. casts \in Seq(Nat) /\ casts' = Append(casts, n + 1) /\ n + 1 \in Nat /\ Len(casts) \in Nat
          <5>1. casts \in Seq(Nat) /\ n + 1 \in Nat /\ Len(casts) \in Nat
            BY <1>t, <1>2 DEF TypeOK
          <5>2. casts' = Append(casts, n + 1)
            BY <1>5, <3>1
          <5> QED
            BY <5>1, <5>2
        <4>1. /\ Len(casts') = Len(casts) + 1 /\ casts'[Len(casts) + 1] = n + 1
              /\ \A i \in 1..Len(casts) : casts'[i] = casts[i]
              /\ DOMAIN casts' = 1..Len(casts') /\ DOMAIN casts = 1..Len(casts)
          BY <4>0
        <4>2. 1..Len(casts') = 1..Len(casts) \cup {Len(casts) + 1}
          BY <4>0, <4>1
        <4>3. Range(casts') = Range(casts) \cup {n + 1}
          BY <4>1, <4>2 DEF Range
        <4>4. {i \in 1..(n + 1) : frames[i].op = "text"} = {i \in 1..n : frames[i].op = "text"} \cup {n + 1}
          BY <2>4, <3>1
        <4>5. Range(casts') = {i \in 1..(n + 1) : frames'[i].op = "text"}
          BY <1>1, <1>2, <4>3, <4>4 DEF CastInv
        <4>6. ASSUME NEW i \in 1..Len(casts'), NEW j \in 1..Len(casts'), i < j
              PROVE  casts'[i] < casts'[j]
          <5>1. i \in 1..Len(casts)
            BY <4>0, <4>1, <4>6
          <5>2. casts[i] \in 1..n
            BY <1>2, <4>1, <5>1 DEF CastInv, Range
          <5>3. CASE j = Len(casts) + 1
            BY <1>2, <4>1, <5>1, <5>2, <5>3
          <5>4. CASE j # Len(casts) + 1
            <6>1. j \in 1..Len(casts)
              BY <4>0, <4>1, <5>4
            <6> QED
              BY <1>2, <4>1, <4>6, <5>1, <6>1 DEF CastInv
          <5> QED
            BY <5>3, <5>4
        <4> QED
          BY <4>5, <4>6 DEF CastInv
      <3>2. CASE frames[n + 1].op # "text"
        <4>1. {i \in 1..(n + 1) : frames[i].op = "text"} = {i \in 1..n : frames[i].op = "text"}
          BY <2>4, <3>2
        <4>2. UNCHANGED casts
          BY <1>5, <3>2
        <4> QED
          BY <1>1, <1>2, <4>1, <4>2 DEF CastInv
      <3> QED
        BY <3>1, <3>2
    <2>6. ReaderHalves' = ReaderHalves /\ ReaderHalves \subseteq Nat
      BY <1>1 DEF ReaderHalves
    <2>7. PongsWhole(n) /\ NoThree /\ HalvesOrdered(n) /\ HalvesFit(n) /\ HalvesBegun(n)
      BY <1>0 DEF DoneInv, WireInv
    <2>8. ReaderHalves \subseteq 1..Len(wire) /\ \A j \in ReaderHalves : wire[j].id \in Nat /\ wire[j].id <= n
      <3>1. \A j \in ReaderHalves : wire[j].id <= n
        BY <1>1, <2>7 DEF HalvesBegun
      <3>2. \A j \in ReaderHalves : wire[j].id \in Nat
        BY <2>7 DEF HalvesFit
      <3> QED
        BY <3>1, <3>2 DEF ReaderHalves
    <2>9. PongsWhole(n + 1)'
      <3>1. ASSUME NEW i \in 1..(n + 1), frames[i].op = "ping"
            PROVE  \E j, h \in ReaderHalves :
                     j < h /\ wire[j] = [op |-> "pong", id |-> i] /\ wire[h] = wire[j]
        <4>1. i \in 1..n
          BY <1>5, <2>4, <3>1
        <4> QED
          BY <2>7, <3>1, <4>1 DEF PongsWhole
      <3> QED
        BY <1>1, <2>6, <3>1 DEF PongsWhole
    <2>10. NoThree'
      BY <1>1, <2>6, <2>7 DEF NoThree
    <2>11. HalvesOrdered(n + 1)'
      <3>1. \A j, h \in ReaderHalves : j < h =>
              \/ wire[j] = wire[h]
              \/ wire[j].op = "pong" /\ wire[j].id <= n + 1 /\ wire[j].id < wire[h].id
        BY <1>2, <2>7, <2>8 DEF HalvesOrdered
      <3> QED
        BY <1>1, <2>6, <3>1 DEF HalvesOrdered
    <2>12. HalvesFit(n + 1)'
      <3>1. \A j \in ReaderHalves :
              /\ wire[j].id \in 1..Len(frames) /\ wire[j].id <= (n + 1) + 1
              /\ wire[j].id <= n + 1 => wire[j].op = "pong"
              /\ Fits(wire[j].op, frames[wire[j].id])
        BY <1>2, <2>7, <2>8 DEF HalvesFit
      <3> QED
        BY <1>1, <2>6, <3>1 DEF HalvesFit, Fits
    <2>13. HalvesBegun(n + 1)'
      <3>1. \A j \in ReaderHalves : wire[j].id <= n + 1
        BY <1>2, <2>8
      <3> QED
        BY <1>1, <1>5, <2>6, <3>1 DEF HalvesBegun
    <2>14. n + 1 \in Nat /\ n + 1 <= Len(frames') /\ Len(frames') \in Nat
      BY <1>1, <1>2, <1>3
    <2>15. StartInv'
      BY <1>t, <1>1 DEF StartInv
    <2> QED
      BY <1>2, <2>1, <2>3, <2>5, <2>9, <2>10, <2>11, <2>12, <2>13, <2>14, <2>15, Together
  <1>6. CASE ReaderText
    BY <1>1, <1>3, <1>4, <1>5, <1>6 DEF ReaderText, Shift, readVars
  <1>7. CASE ReaderIgnores
    BY <1>1, <1>3, <1>5, <1>7 DEF ReaderIgnores, Shift
  <1> QED
    BY <1>6, <1>7

(* The reader puts half an answer on the wire.  The first half comes       *)
(* behind whole PONGs only; the second completes the answer.               *)
LEMMA ReaderWritesStep ==
    ASSUME IInv, ReaderWrites
    PROVE  IInv'
  <1>t. TypeOK /\ StartInv /\ PushInv
    BY DEF IInv
  <1>0. PICK n \in 0..Len(frames) : DoneInv(n)
    BY DEF IInv
  <1>1. /\ UNCHANGED <<frames, starts, casts, eof, broken, outOpen, loop, proc, pushes, msgs, outq,
                       writer, push>>
        /\ reader = "write" /\ wire' = Append(wire, Half(answer))
    BY DEF ReaderWrites, clientVars, chanVars, writeVars
  <1>2. /\ BufInv(n) /\ CastInv(n) /\ PushInv' /\ Len(frames) \in Nat /\ n \in Nat /\ n <= Len(frames)
        /\ StartInv'
    <2>1. Len(frames) \in Nat /\ n \in Nat /\ n <= Len(frames)
      BY <1>t, FrameTypes
    <2>2. PushInv' /\ StartInv'
      BY <1>t, <1>1 DEF PushInv, StartInv
    <2> QED
      BY <1>0, <2>1, <2>2 DEF DoneInv
  <1>3. /\ n < Len(frames) /\ answer.op \in AnswerOps /\ answer.id = n + 1 /\ answer.left \in 1..2
        /\ Fits(answer.op, frames[n + 1])
        /\ answer.op = "pong" => frames[n + 1].size <= filled
    BY <1>1, <1>2 DEF BufInv
  <1>4. n + 1 \in 1..Len(frames)
    BY <1>2, <1>3
  <1>5. PICK w \in [op : AnswerOps \cup {"push"}, id : Nat] : w = Half(answer)
    <2>1. n + 1 \in Nat
      BY <1>2
    <2>2. Half(answer) \in [op : AnswerOps \cup {"push"}, id : Nat]
      BY <1>3, <2>1 DEF Half
    <2> QED
      BY <2>2
  <1>6. w.op = answer.op /\ w.id = n + 1 /\ w.op # "push"
    BY <1>3, <1>5 DEF Half, AnswerOps
  <1>7. /\ wire' \in Seq([op : AnswerOps \cup {"push"}, id : Nat]) /\ Len(wire') = Len(wire) + 1
        /\ \A j \in 1..Len(wire) : wire'[j] = wire[j]
        /\ wire'[Len(wire) + 1] = w /\ Len(wire) \in Nat
    <2>1. wire \in Seq([op : AnswerOps \cup {"push"}, id : Nat]) /\ wire' = Append(wire, w)
      BY <1>t, <1>1, <1>5 DEF TypeOK
    <2> QED
      BY <2>1
  <1>8. PICK l \in Nat : l = Len(wire) + 1
    BY <1>7
  <1>9. /\ ReaderHalves' = ReaderHalves \cup {l} /\ ReaderHalves \subseteq Nat
        /\ \A j \in ReaderHalves : j < l /\ wire'[j] = wire[j]
        /\ wire'[l] = w
    <2>1. 1..Len(wire') = 1..Len(wire) \cup {l}
      BY <1>7, <1>8
    <2>2. \A j \in 1..Len(wire) : j < l /\ j \in Nat
      BY <1>7, <1>8
    <2>3. ReaderHalves' = ReaderHalves \cup {l}
      BY <1>6, <1>7, <1>8, <2>1 DEF ReaderHalves
    <2> QED
      BY <1>7, <1>8, <2>2, <2>3 DEF ReaderHalves
  <1>10. PongsWhole(n) /\ NoThree /\ HalvesOrdered(n) /\ HalvesFit(n) /\ HalvesBegun(n)
    BY <1>0 DEF DoneInv, WireInv
  <1>11. \A j \in ReaderHalves : wire[j].id \in Nat /\ (wire[j].id <= n \/ wire[j].id = n + 1)
    BY <1>2, <1>10 DEF HalvesFit
  (* What is behind the other halves is the first or the second half of    *)
  (* the answer.                                                           *)
  <1>12. \A j \in ReaderHalves : wire[j].id = n + 1 => wire[j] = w /\ answer.left = 1
    <2>1. CASE answer.left = 2
      BY <1>1, <1>2, <1>10, <2>1 DEF HalvesBegun
    <2>2. CASE answer.left = 1
      BY <1>1, <1>5, <1>10, <2>2 DEF HalvesBegun
    <2> QED
      BY <1>3, <2>1, <2>2
  <1>13. \A j, h \in ReaderHalves : wire[j].id = n + 1 /\ wire[h].id = n + 1 => j = h
    <2>1. CASE answer.left = 2
      BY <1>1, <1>2, <1>10, <2>1 DEF HalvesBegun
    <2>2. CASE answer.left = 1
      BY <1>1, <1>10, <2>2 DEF HalvesBegun
    <2> QED
      BY <1>3, <2>1, <2>2
  <1>14. PongsWhole(n)'
    <2> SUFFICES ASSUME NEW i \in 1..n, frames'[i].op = "ping"
                 PROVE  \E j, h \in ReaderHalves' :
                          j < h /\ wire'[j] = [op |-> "pong", id |-> i] /\ wire'[h] = wire'[j]
      BY DEF PongsWhole
    <2>1. PICK j \in ReaderHalves, h \in ReaderHalves :
            j < h /\ wire[j] = [op |-> "pong", id |-> i] /\ wire[h] = wire[j]
      BY <1>1, <1>10 DEF PongsWhole
    <2>2. wire'[j] = wire[j] /\ wire'[h] = wire[h] /\ j \in ReaderHalves' /\ h \in ReaderHalves'
      BY <1>9
    <2> QED
      BY <2>1, <2>2
  <1>15. NoThree'
    <2>1. ASSUME NEW j \in ReaderHalves', NEW h \in ReaderHalves', j < h, wire'[j] = wire'[h],
                 NEW g \in ReaderHalves', h < g
          PROVE  wire'[h] # wire'[g]
      <3>0. j \in Nat /\ h \in Nat /\ g \in Nat /\ l \in Nat
        BY <1>9
      <3>1. h # l /\ j # l
        <4>1. g \in ReaderHalves \/ g = l
          BY <1>9
        <4>2. g <= l
          BY <1>9, <3>0, <4>1
        <4> QED
          BY <2>1, <3>0, <4>2
      <3>2. /\ j \in ReaderHalves /\ h \in ReaderHalves /\ wire'[j] = wire[j] /\ wire'[h] = wire[h]
            /\ wire[j] = wire[h] /\ j # h
        BY <1>9, <2>1, <3>0, <3>1
      <3>3. CASE g = l
        <4>1. wire[h].id # n + 1
          BY <1>13, <3>2
        <4> QED
          BY <1>6, <1>9, <3>2, <3>3, <4>1
      <3>4. CASE g # l
        <4>1. g \in ReaderHalves /\ wire'[g] = wire[g]
          BY <1>9, <3>4
        <4> QED
          BY <1>10, <2>1, <3>2, <4>1 DEF NoThree
      <3> QED
        BY <3>3, <3>4
    <2> QED
      BY <2>1 DEF NoThree
  <1>16. HalvesOrdered(n)'
    <2>1. ASSUME NEW j \in ReaderHalves', NEW h \in ReaderHalves', j < h
          PROVE  \/ wire'[j] = wire'[h]
                 \/ wire'[j].op = "pong" /\ wire'[j].id <= n /\ wire'[j].id < wire'[h].id
      <3>0. j \in Nat /\ h \in Nat /\ l \in Nat
        BY <1>9
      <3>1. j # l
        <4>1. h \in ReaderHalves \/ h = l
          BY <1>9
        <4>2. h <= l
          BY <1>9, <3>0, <4>1
        <4> QED
          BY <2>1, <3>0, <4>2
      <3>2. j \in ReaderHalves /\ wire'[j] = wire[j]
        BY <1>9, <3>1
      <3>3. CASE h = l
        <4>1. CASE wire[j].id = n + 1
          BY <1>9, <1>12, <3>2, <3>3, <4>1
        <4>2. CASE wire[j].id <= n
          <5>1. wire[j].op = "pong"
            BY <1>10, <3>2, <4>2 DEF HalvesFit
          <5>2. wire'[h].id = n + 1 /\ wire[j].id \in Nat
            BY <1>6, <1>9, <1>11, <3>2, <3>3
          <5>3. wire[j].id < n + 1
            BY <1>2, <4>2, <5>2
          <5> QED
            BY <3>2, <4>2, <5>1, <5>2, <5>3
        <4> QED
          BY <1>11, <3>2, <4>1, <4>2
      <3>4. CASE h # l
        <4>1. h \in ReaderHalves /\ wire'[h] = wire[h]
          BY <1>9, <3>4
        <4> QED
          BY <1>10, <2>1, <3>2, <4>1 DEF HalvesOrdered
      <3> QED
        BY <3>3, <3>4
    <2> QED
      BY <2>1 DEF HalvesOrdered
  <1>17. HalvesFit(n)'
    <2>1. ASSUME NEW j \in ReaderHalves'
          PROVE  /\ wire'[j].id \in 1..Len(frames) /\ wire'[j].id <= n + 1
                 /\ wire'[j].id <= n => wire'[j].op = "pong"
                 /\ Fits(wire'[j].op, frames[wire'[j].id])
      <3>1. CASE j = l
        BY <1>2, <1>3, <1>4, <1>6, <1>9, <3>1
      <3>2. CASE j # l
        <4>1. j \in ReaderHalves /\ wire'[j] = wire[j]
          BY <1>9, <3>2
        <4> QED
          BY <1>10, <4>1 DEF HalvesFit
      <3> QED
        BY <3>1, <3>2
    <2> QED
      BY <1>1, <2>1 DEF HalvesFit, Fits
  <1>18. CASE answer.left > 1
    <2>1. answer' = [answer EXCEPT !.left = @ - 1] /\ UNCHANGED <<reader, taken, len, filled>>
      BY <1>18 DEF ReaderWrites, readVars
    <2>2. answer.left = 2 /\ answer \in [op : AnswerOps, id : Nat, left : 1..2]
      <3>1. answer.left = 2 /\ answer \in Answers
        BY <1>t, <1>3, <1>18, SMTT(30) DEF TypeOK
      <3>2. answer # NoFrame
        BY <3>1 DEF NoFrame
      <3> QED
        BY <3>1, <3>2 DEF Answers
    <2>3. /\ answer' \in [op : AnswerOps, id : Nat, left : 1..2]
          /\ answer'.op = answer.op /\ answer'.id = answer.id /\ answer'.left = 1
      BY <2>1, <2>2
    <2>4. TypeOK'
      BY <1>t, <1>1, <1>7, <2>1, <2>3 DEF TypeOK, Answers
    <2>5. BufInv(n)'
      BY <1>1, <1>2, <1>3, <2>1, <2>3 DEF BufInv, Fits
    <2>6. CastInv(n)'
      BY <1>1, <1>2, CastKept
    <2>7. HalvesBegun(n)'
      <3>1. Half(answer') = w
        BY <1>5, <2>3 DEF Half
      <3>2. \A j \in ReaderHalves : wire[j].id # n + 1
        BY <1>12, <2>2
      <3>3. \A j \in ReaderHalves' : wire'[j].id = n + 1 => j = l
        BY <1>9, <3>2
      <3> QED
        <4>1. l \in ReaderHalves' /\ wire'[l] = Half(answer')
          BY <1>9, <3>1
        <4>2. \A j, h \in ReaderHalves' : wire'[j].id = n + 1 /\ wire'[h].id = n + 1 => j = h
          BY <3>3
        <4>3. \A j \in ReaderHalves' : wire'[j].id = n + 1 => wire'[j] = Half(answer')
          BY <3>3, <4>1
        <4>4. reader' = "write" /\ answer'.left = 1
          BY <1>1, <2>1, <2>3
        <4> QED
          BY <4>1, <4>2, <4>3, <4>4 DEF HalvesBegun, Half
    <2> QED
      BY <1>1, <1>2, <1>14, <1>15, <1>16, <1>17, <2>4, <2>5, <2>6, <2>7, Together
  <1>19. CASE ~(answer.left > 1) /\ answer.op # "pong"
    <2>1. answer' = NoFrame /\ reader' = "done" /\ UNCHANGED <<taken, len, filled>>
      BY <1>19 DEF ReaderWrites, readVars
    <2>2. TypeOK'
      BY <1>t, <1>1, <1>7, <2>1 DEF TypeOK, Answers, ReaderPlaces
    <2>3. BufInv(n)'
      BY <1>1, <1>2, <2>1 DEF BufInv
    <2>4. CastInv(n)'
      BY <1>1, <1>2, CastKept
    <2>5. HalvesBegun(n)'
      BY <2>1 DEF HalvesBegun
    <2> QED
      BY <1>1, <1>2, <1>14, <1>15, <1>16, <1>17, <2>2, <2>3, <2>4, <2>5, Together
  <1>20. CASE ~(answer.left > 1) /\ answer.op = "pong"
    <2>0. answer.left = 1 /\ frames[n + 1].op = "ping" /\ frames[n + 1].size <= filled
      BY <1>3, <1>20 DEF Fits
    <2>1. answer' = NoFrame /\ reader' = "parse" /\ Shift(TryParseFrame.consumed)
      BY <1>20 DEF ReaderWrites
    <2>2. TryParseFrame.consumed = frames[n + 1].size
      <3>1. taken = starts[n + 1] + filled /\ taken <= starts[Len(starts)]
        BY <1>2 DEF BufInv
      <3>2. frames[n + 1].size \in Nat \ {0} /\ filled \in Nat
        BY <1>t, <1>4, FrameTypes
      <3>3. TryParseFrame.op # "partial"
        <4>1. ~(filled = 0 \/ filled < frames[n + 1].size)
          BY <2>0, <3>2
        <4> QED
          BY <1>t, <3>1, <4>1, ParseNext
      <3> QED
        BY <1>t, <3>1, <3>3, ParseNext
    <2>3. filled' = filled - frames[n + 1].size /\ UNCHANGED <<taken, len>>
      BY <2>1, <2>2 DEF Shift
    <2>4. BufInv(n + 1)' /\ filled' \in Nat
      BY <1>t, <1>1, <1>2, <1>4, <2>0, <2>1, <2>3, Consumed
    <2>5. TypeOK'
      BY <1>t, <1>1, <1>7, <2>1, <2>3, <2>4 DEF TypeOK, Answers, ReaderPlaces
    <2>6. 1..(n + 1) = 1..n \cup {n + 1}
      BY <1>2
    <2>7. CastInv(n + 1)'
      <3>1. {i \in 1..(n + 1) : frames[i].op = "text"} = {i \in 1..n : frames[i].op = "text"}
        BY <2>0, <2>6
      <3> QED
        BY <1>1, <1>2, <3>1 DEF CastInv
    <2>8. PongsWhole(n + 1)'
      <3>1. ASSUME NEW i \in 1..(n + 1), frames'[i].op = "ping"
            PROVE  \E j, h \in ReaderHalves' :
                     j < h /\ wire'[j] = [op |-> "pong", id |-> i] /\ wire'[h] = wire'[j]
        <4>1. CASE i = n + 1
          <5>1. PICK j \in ReaderHalves : wire[j] = w
            BY <1>1, <1>5, <1>10, <2>0 DEF HalvesBegun
          <5>2. w = [op |-> "pong", id |-> i]
            BY <1>5, <1>3, <1>20, <4>1 DEF Half
          <5>3. j \in ReaderHalves' /\ l \in ReaderHalves' /\ j < l /\ wire'[j] = w /\ wire'[l] = w
            BY <1>9, <5>1
          <5> QED
            BY <5>2, <5>3
        <4>2. CASE i # n + 1
          <5>1. i \in 1..n
            BY <2>6, <4>2
          <5> QED
            BY <1>14, <3>1, <5>1 DEF PongsWhole
        <4> QED
          BY <4>1, <4>2
      <3> QED
        BY <3>1 DEF PongsWhole
    <2>9. \A j \in ReaderHalves' : wire'[j].id \in Nat /\ wire'[j].id <= n + 1
      BY <1>17 DEF HalvesFit
    <2>10. HalvesOrdered(n + 1)'
      <3>1. \A j, h \in ReaderHalves' : j < h =>
              \/ wire'[j] = wire'[h]
              \/ wire'[j].op = "pong" /\ wire'[j].id <= n + 1 /\ wire'[j].id < wire'[h].id
        BY <1>16, <2>9 DEF HalvesOrdered
      <3> QED
        BY <3>1 DEF HalvesOrdered
    <2>11. HalvesFit(n + 1)'
      <3>1. \A j \in ReaderHalves' : wire'[j].id = n + 1 => wire'[j].op = "pong"
        <4>1. ASSUME NEW j \in ReaderHalves', wire'[j].id = n + 1 PROVE wire'[j] = w
          BY <1>9, <1>12, <4>1
        <4> QED
          BY <1>6, <1>20, <4>1
      <3>2. \A j \in ReaderHalves' :
              /\ wire'[j].id \in 1..Len(frames') /\ wire'[j].id <= (n + 1) + 1
              /\ wire'[j].id <= n + 1 => wire'[j].op = "pong"
              /\ Fits(wire'[j].op, frames'[wire'[j].id])
        <4> SUFFICES ASSUME NEW j \in ReaderHalves'
                     PROVE  /\ wire'[j].id \in 1..Len(frames') /\ wire'[j].id <= (n + 1) + 1
                            /\ wire'[j].id <= n + 1 => wire'[j].op = "pong"
                            /\ Fits(wire'[j].op, frames'[wire'[j].id])
          OBVIOUS
        <4>1. /\ wire'[j].id \in 1..Len(frames') /\ wire'[j].id <= n + 1
              /\ wire'[j].id <= n => wire'[j].op = "pong"
              /\ Fits(wire'[j].op, frames'[wire'[j].id])
          BY <1>17 DEF HalvesFit, Fits
        <4>2. wire'[j].id <= (n + 1) + 1 /\ (wire'[j].id <= n \/ wire'[j].id = n + 1)
          BY <1>2, <2>9, <4>1
        <4> QED
          BY <3>1, <4>1, <4>2
      <3> QED
        BY <3>2 DEF HalvesFit, Fits
    <2>12. HalvesBegun(n + 1)'
      BY <2>1, <2>9 DEF HalvesBegun
    <2>13. n + 1 \in Nat /\ n + 1 <= Len(frames') /\ Len(frames') \in Nat
      BY <1>1, <1>2, <1>4
    <2> QED
      BY <1>2, <1>15, <2>4, <2>5, <2>7, <2>8, <2>10, <2>11, <2>12, <2>13, Together
  <1> QED
    BY <1>18, <1>19, <1>20

(* Every step keeps the number of frames done, or adds one.                 *)
LEMMA IInvStep == IInv /\ [Next]_vars => IInv'
  <1> SUFFICES ASSUME IInv, [Next]_vars PROVE IInv'
    OBVIOUS
  <1>1. ASSUME NEW f \in Frames, ClientSends(f) PROVE IInv'
    BY <1>1, SendStep
  <1>2. CASE \/ UNCHANGED vars \/ ClientEof \/ ClientBreaks \/ WriterTakes \/ WriterEnds
             \/ LoopStep \/ ChannelPushes \/ ChannelPanics \/ SendersDropped
    BY <1>2, OutsideStep
  <1>3. CASE WriterWrites
    BY <1>3, WriterStepKeeps
  <1>4. CASE ReaderTop
    BY <1>4, ReaderTopStep
  <1>5. CASE \/ \E m \in 1..(len - filled) : ReaderRead(m)
             \/ ReaderReadEnds \/ ReaderNeedsMore \/ ReaderWriteFails
    BY <1>5, ReaderReadStep
  <1>6. CASE ReaderPing \/ ReaderCloses
    BY <1>6, ReaderAnswersStep
  <1>7. CASE ReaderText \/ ReaderIgnores
    BY <1>7, ReaderConsumesStep
  <1>8. CASE ReaderWrites
    BY <1>8, ReaderWritesStep
  <1> QED
    BY <1>1, <1>2, <1>3, <1>4, <1>5, <1>6, <1>7, <1>8 DEF Next, ReaderStep, WriterStep

(* The invariant holds in every reachable state.                            *)
LEMMA AlwaysIInv == Spec => []IInv
  BY IInvInit, IInvStep, PTL DEF Spec

-----------------------------------------------------------------------------
(* ws_streaming_loop: every variable keeps its type; in particular the     *)
(* reader never writes an answer to a frame that does not exist.           *)
THEOREM TypeCorrect == Spec => []TypeOK
  <1>1. IInv => TypeOK
    BY DEF IInv
  <1> QED
    BY <1>1, AlwaysIInv, PTL

(* ws_streaming_loop: whatever the client sends, read_buf stays below      *)
(* twice WS_MAX_FRAME_SIZE.                                                *)
THEOREM ReadBufferBounded == Spec => []BufferBounded
  <1>1. IInv => BufferBounded
    BY DEF IInv, DoneInv, BufInv, BufferBounded
  <1> QED
    BY <1>1, AlwaysIInv, PTL

(* ws_streaming_loop, reader: however TCP cuts the stream, the texts cast  *)
(* to the channel process are those of the frames consumed, each once and  *)
(* in order.                                                               *)
THEOREM TextsCastInOrder == Spec => []TextsInOrder
  <1>1. ASSUME IInv PROVE TextsInOrder
    <2>1. PICK n \in 0..Len(frames) : DoneInv(n)
      BY <1>1 DEF IInv
    <2>2. Handled = 1..n
      <3>1. taken = starts[n + 1] + filled
        BY <2>1 DEF DoneInv, BufInv
      <3> QED
        BY <1>1, <3>1, HandledAre DEF IInv
    <2> QED
      BY <2>1, <2>2 DEF DoneInv, CastInv, TextsInOrder
  <1> QED
    BY <1>1, AlwaysIInv, PTL

(* ws_streaming_loop: every PING consumed has its whole PONG on the wire,  *)
(* in order, with the writer task writing in between; a CLOSE is the       *)
(* reader's last frame and carries the code its cause calls for.           *)
THEOREM PingsAnsweredClosesLast == Spec => []AnswersMatch
  <1>1. ASSUME IInv PROVE AnswersMatch
    <2>1. PICK n \in 0..Len(frames) : DoneInv(n)
      BY <1>1 DEF IInv
    <2>t. Len(frames) \in Nat /\ n \in Nat /\ n <= Len(frames)
      BY <1>1, FrameTypes DEF IInv
    <2>2. Pongs = {i \in 1..n : frames[i].op = "ping"}
      <3>1. taken = starts[n + 1] + filled
        BY <2>1 DEF DoneInv, BufInv
      <3>2. Handled = 1..n
        BY <1>1, <3>1, HandledAre DEF IInv
      <3> QED
        BY <3>2 DEF Pongs
    <2>3. PongsWhole(n) /\ NoThree /\ HalvesOrdered(n) /\ HalvesFit(n)
      BY <2>1 DEF DoneInv, WireInv
    <2>4. \A i \in Pongs : \E j, h \in ReaderHalves :
            j < h /\ wire[j] = [op |-> "pong", id |-> i] /\ wire[h] = wire[j]
      BY <2>2, <2>3 DEF PongsWhole
    <2>5. \A j, h, g \in ReaderHalves : j < h /\ h < g => ~(wire[j] = wire[h] /\ wire[h] = wire[g])
      BY <2>3 DEF NoThree
    <2>6. ASSUME NEW j \in ReaderHalves, NEW h \in ReaderHalves, j < h
          PROVE  \/ wire[j] = wire[h]
                 \/ wire[j].op = "pong" /\ wire[j].id \in Pongs /\ wire[j].id < wire[h].id
      <3>1. \/ wire[j] = wire[h]
            \/ wire[j].op = "pong" /\ wire[j].id <= n /\ wire[j].id < wire[h].id
        BY <2>3, <2>6 DEF HalvesOrdered
      <3>2. wire[j].id \in 1..Len(frames) /\ Fits(wire[j].op, frames[wire[j].id])
        BY <2>3 DEF HalvesFit
      <3>3. wire[j].op = "pong" /\ wire[j].id <= n => wire[j].id \in Pongs
        BY <2>t, <2>2, <3>2 DEF Fits
      <3> QED
        BY <3>1, <3>3
    <2>7. \A j \in ReaderHalves :
            /\ wire[j].id \in 1..Len(frames)
            /\ Fits(wire[j].op, frames[wire[j].id])
      BY <2>3 DEF HalvesFit
    <2> QED
      BY <2>4, <2>5, <2>6, <2>7 DEF AnswersMatch, Fits
  <1> QED
    BY <1>1, AlwaysIInv, PTL
=============================================================================
