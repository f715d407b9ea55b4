------------------------ MODULE HttpConnectionProofs ------------------------
(***************************************************************************)
(* Proofs about HttpConnection, for every buffer size, body limit and set  *)
(* of requests.                                                            *)
(*                                                                         *)
(* That a connection is never closed without a reason needs to know that   *)
(* no read is started on a full Vec, since such a read returns 0 and the   *)
(* code takes that for the end of the stream.  A Vec is full after every   *)
(* read (split_off cuts it down), so the claim rests on what happens       *)
(* between two reads: the Vec is doubled, or a request is consumed, or     *)
(* the Vec is given up.  BufInv says where the Vec has room and how much   *)
(* a finished request frees; ReasonInv carries the reason to the close.    *)
(***************************************************************************)
EXTENDS HttpConnection, TLAPS

(* The variables the argument needs, typed.                                *)
TypeInv ==
    /\ TypeOK
    /\ pc = "exec" => cur.index \in DOMAIN stream

(* Room in the Vec, by the place where the task stands.                    *)
BufInv ==
    /\ accum.filled <= accum.len
    /\ accum.len <= 2 * (BodyLimit + BufSize)
    /\ accum # NoAccum /\ pc \in {"top", "read"} => accum.filled < accum.len
    /\ pc \in {"read", "parse"} => accum # NoAccum
    /\ pc = "exec" => IF cur.leased THEN cur.left < BufSize
                                    ELSE cur.left < accum.filled
    /\ pc = "lease" => accum = NoAccum

(* Once the task is past its last response, that response is final.        *)
ReasonInv ==
    pc \in {"sse", "closed"} =>
        \/ eof \/ broken
        \/ /\ replies # << >>
           /\ LET last == replies[Len(replies)] IN
              \/ last.code \in {400, 413}
              \/ last.to \in DOMAIN stream /\ stream[last.to].kind \in {"close", "sse"}

IInv == TypeInv /\ BufInv /\ ReasonInv

-----------------------------------------------------------------------------
(* The larger of two numbers.                                              *)
LEMMA MaxOfTwo ==
    ASSUME NEW a \in Nat, NEW b \in Nat
    PROVE  Max({a, b}) = IF a >= b THEN a ELSE b
  BY DEF Max

(* A complete request lies in the bytes parsed and is not empty.           *)
LEMMA ParseFacts ==
    ASSUME NEW p, NEW n \in Nat, stream \in Seq(Requests),
           TryParse(p, n).status = "complete"
    PROVE  /\ TryParse(p, n).index \in DOMAIN stream
           /\ TryParse(p, n).consumed \in 1..n
  <1> DEFINE i == CHOOSE j \in Starts(p) : TRUE
  <1>1. Starts(p) # {}
    BY DEF TryParse, Result
  <1>2. i \in DOMAIN stream
    <2>1. i \in Starts(p)
      BY <1>1
    <2>2. Starts(p) \subseteq DOMAIN stream
      BY DEF Starts
    <2> QED
      BY <2>1, <2>2
  <1>3. stream[i] \in [kind : Kinds, head : Nat \ {0}, body : Nat]
    BY <1>2, RequestAssumption
  <1>4. Size(stream[i]) \in Nat \ {0}
    BY <1>3 DEF Size
  <1>5. /\ TryParse(p, n) = Result("complete", i, Size(stream[i]))
        /\ ~(n < Size(stream[i]))
    BY <1>1 DEF TryParse, ParseRaw, FinalizeBody, Result
  <1> HIDE DEF i
  <1> QED
    BY <1>2, <1>4, <1>5 DEF Result

(* The bound on memory leaves room for one read buffer and its double.     *)
LEMMA SizeFacts ==
    /\ BufSize \in Nat /\ BodyLimit \in Nat
    /\ 0 < BufSize
    /\ 2 * BufSize <= 2 * (BodyLimit + BufSize)
  BY SizeAssumption

(* A request the client sends comes behind the others.                     *)
LEMMA SentFacts ==
    ASSUME TypeOK, NEW r \in Requests, ClientWrites(r)
    PROVE  /\ stream' \in Seq(Requests) /\ starts' \in Seq(Nat)
           /\ Len(stream) \in Nat /\ Len(stream') = Len(stream) + 1
           /\ Len(starts) = Len(stream) + 1 /\ Len(starts') = Len(stream') + 1
           /\ DOMAIN stream \subseteq DOMAIN stream'
           /\ \A i \in DOMAIN stream : stream'[i] = stream[i]
           /\ \A i \in DOMAIN starts : starts'[i] = starts[i]
           /\ stream'[Len(stream) + 1] = r /\ Size(r) \in Nat \ {0}
           /\ starts'[Len(stream) + 2] = starts[Len(stream) + 1] + Size(r)
  <1>1. /\ stream \in Seq(Requests) /\ starts \in Seq(Nat) /\ Len(starts) = Len(stream) + 1
        /\ stream' = Append(stream, r) /\ starts' = Append(starts, Last(starts) + Size(r))
    BY DEF TypeOK, ClientWrites
  <1>2. Last(starts) = starts[Len(stream) + 1] /\ Last(starts) \in Nat
    BY <1>1 DEF Last
  <1>3. Size(r) \in Nat \ {0}
    BY RequestAssumption DEF Size
  <1>4. Last(starts) + Size(r) \in Nat
    BY <1>2, <1>3
  <1>5. stream' \in Seq(Requests) /\ starts' \in Seq(Nat) /\ Len(stream) \in Nat
    BY <1>1, <1>4
  <1>6. /\ Len(stream') = Len(stream) + 1 /\ Len(starts') = Len(stream') + 1
        /\ \A i \in 1..Len(stream) : stream'[i] = stream[i]
        /\ stream'[Len(stream) + 1] = r
    BY <1>1, <1>4
  <1>7. /\ \A i \in 1..Len(starts) : starts'[i] = starts[i]
        /\ starts'[Len(stream) + 2] = Last(starts) + Size(r)
    BY <1>1, <1>4, <1>5
  <1>8. /\ DOMAIN stream = 1..Len(stream) /\ DOMAIN starts = 1..Len(starts)
        /\ DOMAIN stream' = 1..Len(stream')
    BY <1>1, <1>5
  <1>9. DOMAIN stream \subseteq DOMAIN stream'
    BY <1>5, <1>6, <1>8
  <1> QED
    BY <1>1, <1>2, <1>3, <1>5, <1>6, <1>7, <1>8, <1>9

(* A request is known by a number.                                         *)
LEMMA IndexFacts ==
    ASSUME IInv, NEW i \in DOMAIN stream
    PROVE  i \in Nat \ {0} /\ i \in 1..Len(stream) /\ stream[i] \in Requests
  <1>1. stream \in Seq(Requests)
    BY DEF IInv, TypeInv, TypeOK
  <1> QED
    BY <1>1

(* The initial states.                                                     *)
LEMMA IInvInit == Init => IInv
  <1> SUFFICES ASSUME Init PROVE IInv
    OBVIOUS
  <1>4. TypeInv
    <2>1. stream \in Seq(Requests) /\ starts \in Seq(Nat) /\ Len(starts) = Len(stream) + 1
      BY DEF Init
    <2>2. accum \in [len : Nat, filled : Nat]
      BY DEF Init, NoAccum
    <2>3. cur \in [index : Nat, consumed : Nat, left : Nat, leased : BOOLEAN]
      BY DEF Init, Idle
    <2>4. replies \in Seq(Responses)
      BY DEF Init
    <2>5. TypeOK
      BY <2>1, <2>2, <2>3, <2>4 DEF Init, TypeOK, Places
    <2> QED
      BY <2>5 DEF TypeInv, Init
  <1>5. BufInv
    BY SizeFacts DEF Init, BufInv, NoAccum
  <1>6. ReasonInv
    BY DEF Init, ReasonInv
  <1> QED
    BY <1>4, <1>5, <1>6 DEF IInv

(* Steps of the client and of the SSE handler, which move nothing of the   *)
(* server's.                                                               *)
LEMMA OutsideStep ==
    ASSUME IInv,
           (\E r \in Requests : ClientWrites(r)) \/ ClientEof \/ ClientBreaks \/ SseSend \/ SseDrop
    PROVE  IInv'
  <1> USE DEF clientVars, sseVars
  <1>0. UNCHANGED <<link, taken, pc, accum, cur, replies>>
    BY DEF ClientWrites, ClientEof, ClientBreaks, SseSend, SseDrop
  <1>1. /\ stream' \in Seq(Requests) /\ starts' \in Seq(Nat) /\ Len(starts') = Len(stream') + 1
        /\ DOMAIN stream \subseteq DOMAIN stream' /\ \A i \in DOMAIN stream : stream'[i] = stream[i]
    <2>1. ASSUME NEW r \in Requests, ClientWrites(r)
          PROVE  /\ stream' \in Seq(Requests) /\ starts' \in Seq(Nat) /\ Len(starts') = Len(stream') + 1
                 /\ DOMAIN stream \subseteq DOMAIN stream' /\ \A i \in DOMAIN stream : stream'[i] = stream[i]
      BY <2>1, SentFacts DEF IInv, TypeInv
    <2>2. CASE UNCHANGED <<stream, starts>>
      BY <2>2 DEF IInv, TypeInv, TypeOK
    <2> QED
      BY <2>1, <2>2 DEF ClientEof, ClientBreaks, SseSend, SseDrop
  <1>2. TypeInv'
    <2>0. TypeInv
      BY DEF IInv
    <2>2. eof' \in BOOLEAN /\ broken' \in BOOLEAN /\ sender' \in BOOLEAN
      BY <2>0 DEF TypeInv, TypeOK, ClientWrites, ClientEof, ClientBreaks, SseSend, SseDrop
    <2>3. events' \in Nat /\ written' \in Nat
      <3>1. CASE SseSend
        BY <2>0, <3>1 DEF TypeInv, TypeOK, SseSend
      <3>2. CASE ~SseSend
        BY <2>0, <3>2 DEF TypeInv, TypeOK, ClientWrites, ClientEof, ClientBreaks, SseDrop
      <3> QED
        BY <3>1, <3>2
    <2> QED
      BY <1>0, <1>1, <2>0, <2>2, <2>3 DEF TypeInv, TypeOK
  <1>3. BufInv'
    BY <1>0 DEF IInv, BufInv
  <1>4. (eof => eof') /\ (broken => broken')
    BY DEF ClientWrites, ClientEof, ClientBreaks, SseSend, SseDrop
  <1>5. ReasonInv'
    BY <1>0, <1>1, <1>4 DEF IInv, ReasonInv
  <1> QED
    BY <1>2, <1>3, <1>5 DEF IInv

(* Ending a connection behind a 400 or a 413.                              *)
LEMMA RefuseStep ==
    ASSUME IInv, NEW code \in {400, 413}, Write(Len(replies) + 1, code), Close,
           UNCHANGED <<clientVars, accum, sseVars>>, taken' \in Nat
    PROVE  IInv'
  <1>1. Len(replies) + 1 \in Nat
    BY DEF IInv, TypeInv, TypeOK
  <1>2. /\ replies' \in Seq(Responses)
        /\ ~broken => replies' # << >>
        /\ ~broken => replies'[Len(replies')] = [to |-> Len(replies) + 1, code |-> code]
    <2>1. code \in {101, 200, 400, 413}
      OBVIOUS
    <2>2. replies \in Seq(Responses)
      BY DEF IInv, TypeInv, TypeOK
    <2>3. CASE broken
      BY <2>2, <2>3 DEF Write
    <2>4. CASE ~broken
      <3> DEFINE r == [to |-> Len(replies) + 1, code |-> code]
      <3>1. r \in Responses
        BY <1>1, <2>1 DEF Responses
      <3> HIDE DEF r
      <3>2. replies' = Append(replies, r)
        BY <2>4 DEF Write, r
      <3>3. /\ replies' \in Seq(Responses) /\ replies' # << >>
            /\ replies'[Len(replies')] = r
        BY <2>2, <3>1, <3>2
      <3> QED
        BY <3>3 DEF r
    <2> QED
      BY <2>3, <2>4
  <1>3. TypeInv'
    BY <1>2 DEF IInv, TypeInv, TypeOK, Close, Idle, Places, clientVars, sseVars
  <1>4. BufInv'
    BY DEF IInv, BufInv, Close
  <1>5. ReasonInv'
    BY <1>2 DEF ReasonInv, clientVars
  <1> QED
    BY <1>3, <1>4, <1>5 DEF IInv

(* The loop head.                                                          *)
LEMMA TopStep ==
    ASSUME IInv, EnterVec \/ StartVec \/ TakeLease
    PROVE  IInv'
  <1>1. CASE EnterVec
    <2>1. accum.filled # accum.len
      BY <1>1 DEF EnterVec, IInv, BufInv, TypeInv, TypeOK
    <2>2. /\ pc' = "read" /\ UNCHANGED <<clientVars, taken, accum, cur, replies, sseVars>>
          /\ accum # NoAccum /\ pc = "top"
      BY <1>1, <2>1 DEF EnterVec
    <2>3. TypeInv'
      BY <2>2 DEF IInv, TypeInv, TypeOK, Places, clientVars, sseVars
    <2>4. BufInv'
      BY <2>2 DEF IInv, BufInv
    <2>5. ReasonInv'
      BY <2>2 DEF ReasonInv
    <2> QED
      BY <2>3, <2>4, <2>5 DEF IInv
  <1>2. CASE StartVec
    <2>1. TypeInv'
      BY <1>2, SizeFacts DEF StartVec, IInv, TypeInv, TypeOK, clientVars, sseVars
    <2>2. BufInv'
      BY <1>2, SizeFacts DEF StartVec, IInv, BufInv, NoAccum
    <2>3. ReasonInv'
      BY <1>2 DEF StartVec, ReasonInv
    <2> QED
      BY <2>1, <2>2, <2>3 DEF IInv
  <1>3. CASE TakeLease
    <2>1. TypeInv'
      BY <1>3 DEF TakeLease, IInv, TypeInv, TypeOK, Places, clientVars, sseVars
    <2>2. BufInv'
      BY <1>3 DEF TakeLease, IInv, BufInv
    <2>3. ReasonInv'
      BY <1>3 DEF TakeLease, ReasonInv
    <2> QED
      BY <2>1, <2>2, <2>3 DEF IInv
  <1> QED
    BY <1>1, <1>2, <1>3

(* Reads.  A read on the Vec has room, so it ends only with the stream.    *)
LEMMA ReadStep ==
    ASSUME IInv, Reads \/ ReadEnds
    PROVE  IInv'
  <1>0. Capacity \in Nat \ {0} \/ pc \notin {"lease", "read"}
    <2>1. CASE pc = "lease"
      BY <2>1, SizeFacts DEF Capacity
    <2>2. CASE pc = "read"
      BY <2>2 DEF Capacity, IInv, TypeInv, TypeOK, BufInv
    <2> QED
      BY <2>1, <2>2
  <1>1. CASE ReadEnds
    <2>1. eof \/ broken
      BY <1>0, <1>1 DEF ReadEnds
    <2>2. TypeInv'
      BY <1>1 DEF ReadEnds, Close, IInv, TypeInv, TypeOK, Idle, Places, clientVars, sseVars
    <2>3. BufInv'
      BY <1>1 DEF ReadEnds, Close, IInv, BufInv
    <2>4. ReasonInv'
      BY <1>1, <2>1 DEF ReadEnds, ReasonInv, clientVars
    <2> QED
      BY <2>2, <2>3, <2>4 DEF IInv
  <1>2. ASSUME Reads PROVE IInv'
    <2>1. PICK n \in 1..Capacity : ReadLease(n) \/ ReadVec(n)
      BY <1>2 DEF Reads
    <2>2. pc \in {"lease", "read"} /\ Capacity \in Nat /\ n \in Nat /\ 0 < n /\ n <= Capacity
      BY <1>0, <2>1 DEF ReadLease, ReadVec
    <2>3. taken' \in Nat
      BY <2>1, <2>2, SMTT(30) DEF ReadLease, ReadVec, IInv, TypeInv, TypeOK
    <2>4. CASE ReadVec(n)
      <3>1. accum.filled + n \in Nat /\ accum.filled + n <= accum.len /\ 0 < accum.filled + n
        BY <2>2, <2>4, SMTT(30) DEF ReadVec, Capacity, IInv, TypeInv, TypeOK, BufInv
      <3>2. TypeInv'
        BY <2>3, <2>4, <3>1 DEF ReadVec, IInv, TypeInv, TypeOK, Places, clientVars, sseVars
      <3>3. BufInv'
        BY <2>4, <3>1, SizeFacts, SMTT(30) DEF ReadVec, IInv, TypeInv, TypeOK, BufInv, NoAccum
      <3>4. ReasonInv'
        BY <2>4 DEF ReadVec, ReasonInv
      <3> QED
        BY <3>2, <3>3, <3>4 DEF IInv
    <2>5. CASE ReadLease(n)
      <3>0. /\ pc = "lease" /\ n <= BufSize
            /\ UNCHANGED <<clientVars, sseVars>> /\ accum = NoAccum
        BY <2>2, <2>5 DEF ReadLease, Capacity, IInv, BufInv
      <3> DEFINE p == TryParse(taken, n)
      <3>1. CASE p.status = "complete"
        <4>1. p.index \in DOMAIN stream /\ p.consumed \in 1..n
          BY <2>2, <3>1, ParseFacts DEF IInv, TypeInv, TypeOK
        <4> HIDE DEF p
        <4>2. /\ pc' = "exec" /\ UNCHANGED <<accum, replies>>
              /\ cur' = [index |-> p.index, consumed |-> p.consumed,
                          left |-> n - p.consumed, leased |-> TRUE]
          BY <2>5, <3>1 DEF ReadLease, p
        <4>3. /\ p.index \in Nat /\ p.consumed \in Nat /\ n - p.consumed \in Nat
              /\ n - p.consumed < BufSize
          BY <2>2, <3>0, <4>1, SizeFacts, IndexFacts
        <4>4. TypeInv'
          BY <2>3, <3>0, <4>1, <4>2, <4>3 DEF IInv, TypeInv, TypeOK, Places, clientVars, sseVars
        <4>5. BufInv'
          BY <4>2, <4>3 DEF IInv, BufInv
        <4>6. ReasonInv'
          BY <4>2 DEF ReasonInv
        <4> QED
          BY <4>4, <4>5, <4>6 DEF IInv
      <3>2. CASE p.status = "partial"
        <4>1. /\ pc' = "top" /\ UNCHANGED <<cur, replies>>
              /\ accum' = [len |-> Max({BufSize, 2 * n}), filled |-> n]
          BY <2>5, <3>2 DEF ReadLease
        <4>2. /\ Max({BufSize, 2 * n}) \in Nat /\ n < Max({BufSize, 2 * n})
              /\ Max({BufSize, 2 * n}) <= 2 * BufSize
          <5>1. 2 * n \in Nat
            BY <2>2
          <5>2. Max({BufSize, 2 * n}) = IF BufSize >= 2 * n THEN BufSize ELSE 2 * n
            BY <5>1, SizeFacts, MaxOfTwo
          <5> QED
            BY <2>2, <3>0, <5>2, SizeFacts
        <4>3. TypeInv'
          BY <2>2, <2>3, <3>0, <4>1, <4>2 DEF IInv, TypeInv, TypeOK, Places, clientVars, sseVars
        <4>4. BufInv'
          BY <2>2, <4>1, <4>2, SizeFacts DEF IInv, BufInv
        <4>5. ReasonInv'
          BY <4>1 DEF ReasonInv
        <4> QED
          BY <4>3, <4>4, <4>5 DEF IInv
      <3>3. CASE p.status \in {"invalid", "too_large"}
        <4>1. /\ Write(Len(replies) + 1, ErrorCode(p.status)) /\ Close /\ UNCHANGED accum
          BY <2>5, <3>3 DEF ReadLease
        <4>2. ErrorCode(p.status) \in {400, 413}
          BY DEF ErrorCode
        <4> QED
          BY <2>3, <3>0, <4>1, <4>2, RefuseStep
      <3> QED
        BY <2>5, <3>1, <3>2, <3>3 DEF ReadLease
    <2> QED
      BY <2>1, <2>4, <2>5
  <1> QED
    BY <1>1, <1>2

(* The parse loop.  A consumed request leaves room behind the rest; a Vec  *)
(* that is full and may not grow ends the connection.                      *)
LEMMA ParseStep ==
    ASSUME IInv, ParseVec
    PROVE  IInv'
  <1> DEFINE p == TryParse(taken - accum.filled, accum.filled)
  <1>0. /\ pc = "parse" /\ UNCHANGED <<clientVars, taken, sseVars>>
        /\ accum.filled \in Nat /\ accum.len \in Nat /\ taken' \in Nat
    BY DEF ParseVec, IInv, TypeInv, TypeOK
  <1>1. CASE p.status = "complete"
    <2>1. p.index \in DOMAIN stream /\ p.consumed \in 1..accum.filled
      BY <1>0, <1>1, ParseFacts DEF IInv, TypeInv, TypeOK
    <2> HIDE DEF p
    <2>2. /\ pc' = "exec" /\ UNCHANGED <<accum, replies>>
          /\ cur' = [index |-> p.index, consumed |-> p.consumed,
                      left |-> accum.filled - p.consumed, leased |-> FALSE]
      BY <1>1 DEF ParseVec, p
    <2>3. /\ p.index \in Nat /\ p.consumed \in Nat /\ accum.filled - p.consumed \in Nat
          /\ accum.filled - p.consumed < accum.filled
      BY <1>0, <2>1, IndexFacts
    <2>4. TypeInv'
      BY <1>0, <2>1, <2>2, <2>3 DEF IInv, TypeInv, TypeOK, Places, clientVars, sseVars
    <2>5. BufInv'
      BY <2>2, <2>3 DEF IInv, BufInv
    <2>6. ReasonInv'
      BY <2>2 DEF ReasonInv
    <2> QED
      BY <2>4, <2>5, <2>6 DEF IInv
  <1>2. CASE p.status = "partial"
    <2>1. NeedMore
      BY <1>2 DEF ParseVec
    <2>2. CASE accum.filled = accum.len /\ FullLimit(accum.len)
      BY <1>0, <2>1, <2>2, RefuseStep DEF NeedMore
    <2>3. CASE ~(accum.filled = accum.len /\ FullLimit(accum.len))
      <3>1. /\ pc' = "top" /\ UNCHANGED <<cur, replies>>
            /\ accum' = IF accum.filled = accum.len THEN [accum EXCEPT !.len = 2 * @] ELSE accum
        BY <2>1, <2>3 DEF NeedMore
      <3>2. 0 < accum.len
        BY <1>0 DEF IInv, TypeInv, TypeOK, BufInv, NoAccum
      <3>3. /\ accum' \in [len : Nat, filled : Nat]
            /\ accum'.filled < accum'.len
            /\ accum'.len <= 2 * (BodyLimit + BufSize)
        <4>1. CASE accum.filled = accum.len
          <5>1. accum.len < BodyLimit + BufSize
            BY <1>0, <2>3, <4>1, SizeFacts DEF FullLimit
          <5>2. accum' = [len |-> 2 * accum.len, filled |-> accum.filled]
            BY <3>1, <4>1 DEF IInv, TypeInv, TypeOK
          <5> QED
            BY <1>0, <3>2, <4>1, <5>1, <5>2, SizeFacts
        <4>2. CASE accum.filled # accum.len
          BY <1>0, <3>1, <4>2 DEF IInv, TypeInv, TypeOK, BufInv
        <4> QED
          BY <4>1, <4>2
      <3>4. TypeInv'
        BY <1>0, <3>1, <3>3 DEF IInv, TypeInv, TypeOK, Places, clientVars, sseVars
      <3>5. BufInv'
        BY <3>1, <3>3 DEF BufInv
      <3>6. ReasonInv'
        BY <3>1 DEF ReasonInv
      <3> QED
        BY <3>4, <3>5, <3>6 DEF IInv
    <2> QED
      BY <2>2, <2>3
  <1>3. CASE p.status \in {"invalid", "too_large"}
    <2>1. Write(Len(replies) + 1, ErrorCode(p.status)) /\ Close /\ UNCHANGED accum
      BY <1>3 DEF ParseVec
    <2>2. ErrorCode(p.status) \in {400, 413}
      BY DEF ErrorCode
    <2> QED
      BY <1>0, <2>1, <2>2, RefuseStep
  <1> QED
    BY <1>1, <1>2, <1>3 DEF ParseVec

(* execute_and_respond.                                                    *)
LEMMA RespondStep ==
    ASSUME IInv, Upgrade \/ StartSse \/ Respond
    PROVE  IInv'
  <1>0. /\ pc = "exec" /\ cur.index \in DOMAIN stream /\ cur.index \in Nat
        /\ cur.left \in Nat /\ UNCHANGED <<clientVars, taken>>
        /\ accum \in [len : Nat, filled : Nat]
    BY DEF Upgrade, StartSse, Respond, IInv, TypeInv, TypeOK
  <1>1. \E code \in {101, 200} : Write(cur.index, code)
    BY DEF Upgrade, StartSse, Respond
  <1>2. /\ replies' \in Seq(Responses)
        /\ ~broken => replies' # << >>
        /\ ~broken => replies'[Len(replies')].to = cur.index
    <2>1. PICK code \in {101, 200} : Write(cur.index, code)
      BY <1>1
    <2>2. replies \in Seq(Responses)
      BY DEF IInv, TypeInv, TypeOK
    <2>3. code \in {101, 200, 400, 413}
      OBVIOUS
    <2>4. CASE broken
      BY <2>1, <2>2, <2>4 DEF Write
    <2>5. CASE ~broken
      <3> DEFINE r == [to |-> cur.index, code |-> code]
      <3>1. r \in Responses
        BY <1>0, <2>3 DEF Responses
      <3> HIDE DEF r
      <3>2. replies' = Append(replies, r)
        BY <2>1, <2>5 DEF Write, r
      <3>3. /\ replies' \in Seq(Responses) /\ replies' # << >>
            /\ replies'[Len(replies')] = r
        BY <2>2, <3>1, <3>2
      <3> QED
        BY <3>3 DEF r
    <2> QED
      BY <2>4, <2>5
  <1>3. CASE Upgrade
    <2>1. TypeInv'
      BY <1>0, <1>2, <1>3 DEF Upgrade, IInv, TypeInv, TypeOK, Idle, Places, clientVars, sseVars
    <2>2. BufInv'
      BY <1>0, <1>3 DEF Upgrade, IInv, BufInv
    <2>3. ReasonInv'
      BY <1>3 DEF Upgrade, ReasonInv, clientVars
    <2> QED
      BY <2>1, <2>2, <2>3 DEF IInv
  <1>4. CASE StartSse
    <2>0. sender' \in BOOLEAN
      BY <1>4 DEF StartSse
    <2>1. TypeInv'
      BY <1>0, <1>2, <1>4, <2>0 DEF StartSse, IInv, TypeInv, TypeOK, Idle, Places, clientVars
    <2>2. BufInv'
      BY <1>0, <1>4 DEF StartSse, IInv, BufInv
    <2>3. ReasonInv'
      BY <1>0, <1>2, <1>4 DEF StartSse, ReasonInv, clientVars
    <2> QED
      BY <2>1, <2>2, <2>3 DEF IInv
  <1>5. CASE Respond /\ (broken \/ stream[cur.index].kind = "close")
    <2>0. Close /\ UNCHANGED <<accum, sseVars>>
      BY <1>5 DEF Respond
    <2>1. TypeInv'
      BY <1>0, <1>2, <2>0 DEF Close, IInv, TypeInv, TypeOK, Idle, Places, clientVars, sseVars
    <2>2. BufInv'
      BY <1>0, <2>0 DEF Close, IInv, BufInv
    <2>3. ReasonInv'
      BY <1>0, <1>2, <1>5 DEF ReasonInv, clientVars
    <2> QED
      BY <2>1, <2>2, <2>3 DEF IInv
  <1>6. CASE Respond /\ ~(broken \/ stream[cur.index].kind = "close")
    <2>0. Advance /\ UNCHANGED sseVars
      BY <1>6 DEF Respond
    <2>1. /\ accum' \in [len : Nat, filled : Nat]
          /\ accum'.filled <= accum'.len
          /\ accum'.len <= 2 * (BodyLimit + BufSize)
          /\ accum' # NoAccum => accum'.filled < accum'.len
          /\ pc' = "parse" => accum' # NoAccum
      <3>1. CASE cur.left = 0
        BY <2>0, <3>1, SizeFacts DEF Advance, NoAccum
      <3>2. CASE cur.left # 0 /\ cur.leased
        <4>1. /\ accum' = [len |-> Max({BufSize, 2 * cur.left}), filled |-> cur.left]
              /\ pc' = "top"
          BY <2>0, <3>2 DEF Advance
        <4>2. cur.left < BufSize
          BY <1>0, <3>2 DEF IInv, BufInv
        <4>3. Max({BufSize, 2 * cur.left}) = IF BufSize >= 2 * cur.left THEN BufSize ELSE 2 * cur.left
          <5>1. 2 * cur.left \in Nat
            BY <1>0
          <5> QED
            BY <5>1, SizeFacts, MaxOfTwo
        <4> QED
          BY <1>0, <3>2, <4>1, <4>2, <4>3, SizeFacts
      <3>3. CASE cur.left # 0 /\ ~cur.leased
        <4>1. accum' = [len |-> accum.len, filled |-> cur.left] /\ pc' = "parse"
          BY <1>0, <2>0, <3>3 DEF Advance
        <4>2. /\ cur.left < accum.filled /\ accum.filled <= accum.len
              /\ accum.len <= 2 * (BodyLimit + BufSize)
          BY <1>0, <3>3 DEF IInv, BufInv
        <4>3. accum.len \in Nat /\ accum.filled \in Nat
          BY <1>0
        <4> QED
          BY <1>0, <3>3, <4>1, <4>2, <4>3 DEF NoAccum
      <3> QED
        BY <3>1, <3>2, <3>3
    <2>2. pc' \in {"top", "parse"} /\ cur' = Idle
      BY <2>0 DEF Advance
    <2>3. TypeInv'
      BY <1>0, <1>2, <2>0, <2>1, <2>2 DEF IInv, TypeInv, TypeOK, Idle, Places, clientVars, sseVars
    <2>4. BufInv'
      BY <2>1, <2>2 DEF BufInv
    <2>5. ReasonInv'
      BY <2>2 DEF ReasonInv
    <2> QED
      BY <2>3, <2>4, <2>5 DEF IInv
  <1> QED
    BY <1>3, <1>4, <1>5, <1>6

(* sse_streaming_loop.                                                     *)
LEMMA SseStep ==
    ASSUME IInv, SseWrite \/ SseKeepAlive \/ SseEnd
    PROVE  IInv'
  <1>0. /\ pc = "sse" /\ pc' \in {"sse", "closed"}
        /\ UNCHANGED <<clientVars, taken, accum, cur, replies, events, sender>>
        /\ written' \in Nat
    BY SMTT(30) DEF SseWrite, SseKeepAlive, SseEnd, sseVars, IInv, TypeInv, TypeOK
  <1>1. TypeInv'
    BY <1>0 DEF IInv, TypeInv, TypeOK, Places, clientVars
  <1>2. BufInv'
    BY <1>0 DEF IInv, BufInv
  <1>3. ReasonInv'
    BY <1>0 DEF IInv, ReasonInv, clientVars
  <1> QED
    BY <1>1, <1>2, <1>3 DEF IInv

(* Every step preserves the inductive invariant.                           *)
LEMMA IInvStep == IInv /\ [Next]_vars => IInv'
  <1> SUFFICES ASSUME IInv, [Next]_vars PROVE IInv'
    OBVIOUS
  <1>1. CASE UNCHANGED vars
    BY <1>1 DEF vars, clientVars, sseVars, IInv, TypeInv, TypeOK, BufInv, ReasonInv
  <1>2. CASE (\E r \in Requests : ClientWrites(r)) \/ ClientEof \/ ClientBreaks \/ SseSend \/ SseDrop
    BY <1>2, OutsideStep
  <1>3. CASE EnterVec \/ StartVec \/ TakeLease
    BY <1>3, TopStep
  <1>4. CASE Reads \/ ReadEnds
    BY <1>4, ReadStep
  <1>5. CASE ParseVec
    BY <1>5, ParseStep
  <1>6. CASE Upgrade \/ StartSse \/ Respond
    BY <1>6, RespondStep
  <1>7. CASE SseWrite \/ SseKeepAlive \/ SseEnd
    BY <1>7, SseStep
  <1> QED
    BY <1>1, <1>2, <1>3, <1>4, <1>5, <1>6, <1>7 DEF Next, Server

(* The invariant holds throughout.                                         *)
LEMMA AlwaysIInv == Spec => []IInv
  BY IInvInit, IInvStep, PTL DEF Spec

-----------------------------------------------------------------------------
(* handle_connection: the Vec a connection accumulates requests in never   *)
(* exceeds twice the body limit plus one read buffer, whatever the client  *)
(* sends and however TCP cuts it.                                          *)
THEOREM MemoryIsBounded == Spec => []BufferBounded
  <1>1. IInv => BufferBounded
    BY DEF IInv, BufInv, BufferBounded
  <1> QED
    BY <1>1, AlwaysIInv, PTL

(* handle_connection: the server closes only behind a client that ended or *)
(* broke the connection or behind a response that ends it.  A full Vec is  *)
(* never mistaken for the end of the stream.                               *)
THEOREM NeverClosesForNothing == Spec => []ClosedForAReason
  <1>1. IInv => ClosedForAReason
    BY DEF IInv, ReasonInv, ClosedForAReason, Final
  <1> QED
    BY <1>1, AlwaysIInv, PTL

-----------------------------------------------------------------------------
(* Every request is answered as it was sent.  The argument follows the     *)
(* position in the stream: between two requests the bytes in the buffer    *)
(* start where the first unanswered request starts, although a read cuts   *)
(* anywhere and the bytes move between the lease and the Vec.              *)

(* Where the requests start.                                               *)
StartInv ==
    /\ starts[1] = 0
    /\ \A i \in 1..Len(stream) : starts[i + 1] = starts[i] + Size(stream[i])
    /\ \A i, j \in 1..Len(starts) : i < j => starts[i] < starts[j]

(* The request that comes next.                                            *)
Due == Len(replies) + 1

PosInv ==
    /\ taken <= starts[Len(starts)]
    /\ pc \in {"top", "lease", "read", "parse"} =>
         Due \in 1..Len(starts) /\ taken = starts[Due] + accum.filled
    /\ pc = "parse" => 0 < accum.filled
    /\ pc = "exec" =>
         /\ cur.index = Due /\ Due \in 1..Len(stream)
         /\ taken = starts[Due + 1] + cur.left
         /\ stream[Due].kind # "bad" /\ stream[Due].body <= BodyLimit

AnswerInv == StartInv /\ PosInv /\ AnsweredAsSent

(* What TypeOK says of the stream and of the positions in it.               *)
LEMMA StreamTypes ==
    ASSUME TypeOK
    PROVE  /\ stream \in Seq(Requests) /\ starts \in Seq(Nat) /\ Len(stream) \in Nat
           /\ Len(starts) = Len(stream) + 1 /\ taken \in Nat /\ replies \in Seq(Responses)
           /\ Len(replies) \in Nat /\ DOMAIN stream = 1..Len(stream)
           /\ \A i \in 1..Len(starts) : starts[i] \in Nat
           /\ \A i \in 1..Len(stream) :
                /\ i \in 1..Len(starts) /\ i + 1 \in 1..Len(starts)
                /\ stream[i].kind \in Kinds /\ stream[i].head \in Nat \ {0} /\ stream[i].body \in Nat
                /\ Size(stream[i]) = stream[i].head + stream[i].body
  <1>1. /\ stream \in Seq(Requests) /\ starts \in Seq(Nat)
        /\ Len(starts) = Len(stream) + 1 /\ taken \in Nat /\ replies \in Seq(Responses)
    BY DEF TypeOK
  <1>2. \A i \in 1..Len(stream) : stream[i] \in Requests
    BY <1>1
  <1>3. \A i \in 1..Len(stream) : i \in 1..Len(starts) /\ i + 1 \in 1..Len(starts)
    BY <1>1
  <1>4. \A i \in 1..Len(stream) :
          stream[i].kind \in Kinds /\ stream[i].head \in Nat \ {0} /\ stream[i].body \in Nat
    BY <1>2, RequestAssumption
  <1>5. \A i \in 1..Len(starts) : starts[i] \in Nat
    BY <1>1
  <1> QED
    BY <1>1, <1>3, <1>4, <1>5, SMTT(30) DEF Size

(* What the parser says of n bytes that start where request k starts.      *)
LEMMA ParseAt ==
    ASSUME TypeOK, StartInv, NEW k \in 1..Len(stream), NEW n \in Nat, NEW p \in Nat, p = starts[k]
    PROVE  LET t == TryParse(p, n)
               r == stream[k]
           IN  /\ t.index = k
               /\ t.status \in {"complete", "partial", "invalid", "too_large"}
               /\ t.status = "complete" =>
                    /\ t.consumed = Size(r) /\ Size(r) <= n
                    /\ r.kind # "bad" /\ r.body <= BodyLimit
               /\ t.status = "partial" =>
                    n < r.head \/ (r.kind # "bad" /\ r.body <= BodyLimit /\ n < Size(r))
               /\ t.status = "invalid" => r.kind = "bad"
               /\ t.status = "too_large" => r.kind # "bad" /\ r.body > BodyLimit
  <1>s. stream[k].head \in Nat /\ stream[k].body \in Nat /\ Size(stream[k]) = stream[k].head + stream[k].body
    BY StreamTypes
  <1>t. /\ k \in 1..Len(starts) /\ \A i \in 1..Len(stream) : i \in 1..Len(starts)
        /\ \A i \in 1..Len(starts) : starts[i] \in Nat
        /\ stream[k].head \in Nat /\ stream[k].body \in Nat /\ Size(stream[k]) \in Nat
        /\ BodyLimit \in Nat
    <2>1. k \in 1..Len(starts) /\ \A i \in 1..Len(stream) : i \in 1..Len(starts)
      BY StreamTypes
    <2>2. \A i \in 1..Len(starts) : starts[i] \in Nat
      BY StreamTypes
    <2>3. Size(stream[k]) \in Nat
      BY <1>s
    <2> QED
      BY <1>s, <2>1, <2>2, <2>3, SizeAssumption
  <1>1. Starts(p) = {k}
    <2>1. \A i \in 1..Len(stream) : i # k => starts[i] # starts[k]
      <3> SUFFICES ASSUME NEW i \in 1..Len(stream), i # k PROVE starts[i] # starts[k]
        OBVIOUS
      <3>1. i < k \/ k < i
        OBVIOUS
      <3> QED
        BY <1>t, <3>1 DEF StartInv
    <2> QED
      BY <2>1 DEF Starts
  <1>2. (CHOOSE j \in Starts(p) : TRUE) = k
    BY <1>1
  <1> DEFINE raw == ParseRaw(stream[k], n)
             status == IF raw = "complete" THEN FinalizeBody(stream[k], n) ELSE raw
  <1>3. TryParse(p, n) = Result(status, k, IF status = "complete" THEN Size(stream[k]) ELSE 0)
    BY <1>1, <1>2 DEF TryParse
  <1>4. /\ status \in {"complete", "partial", "invalid", "too_large"}
        /\ status = "complete" =>
             Size(stream[k]) <= n /\ stream[k].kind # "bad" /\ stream[k].body <= BodyLimit
        /\ status = "partial" =>
             \/ n < stream[k].head
             \/ stream[k].kind # "bad" /\ stream[k].body <= BodyLimit /\ n < Size(stream[k])
        /\ status = "invalid" => stream[k].kind = "bad"
        /\ status = "too_large" => stream[k].kind # "bad" /\ stream[k].body > BodyLimit
    BY <1>t DEF ParseRaw, FinalizeBody
  <1> HIDE DEF status
  <1> QED
    BY <1>3, <1>4 DEF Result

(* As long as bytes lie in the buffer, the request that is due was sent.   *)
LEMMA DueWasSent ==
    ASSUME TypeOK, StartInv, Due \in 1..Len(starts), NEW n \in Nat \ {0},
           starts[Due] + n <= starts[Len(starts)]
    PROVE  Due \in 1..Len(stream)
  <1>1. Due # Len(starts)
    BY StreamTypes
  <1> QED
    BY <1>1, StreamTypes

(* A response to the request that is due keeps the answers right.          *)
LEMMA AnswerWritten ==
    ASSUME TypeOK, AnsweredAsSent, Due \in 1..Len(stream), NEW code \in Answers(stream[Due]),
           Write(Due, code), UNCHANGED stream
    PROVE  /\ AnsweredAsSent'
           /\ ~broken => Len(replies') = Len(replies) + 1
  <1>1. replies \in Seq(Responses) /\ DOMAIN stream = 1..Len(stream) /\ Len(replies) \in Nat
    BY StreamTypes
  <1>2. CASE broken
    BY <1>2 DEF Write, AnsweredAsSent
  <1>3. CASE ~broken
    <2>1. PICK r : r = [to |-> Due, code |-> code]
      OBVIOUS
    <2>2. replies' = Append(replies, r)
      BY <1>3, <2>1 DEF Write
    <2>3. /\ Len(replies') = Len(replies) + 1 /\ DOMAIN replies' = 1..(Len(replies) + 1)
          /\ \A i \in 1..Len(replies) : replies'[i] = replies[i] /\ i \in DOMAIN replies
          /\ replies'[Due] = r
      <3>1. code \in {101, 200, 400, 413}
        <4>1. stream[Due].kind \in Kinds /\ stream[Due].body \in Nat /\ BodyLimit \in Nat
          BY StreamTypes, SizeAssumption
        <4> QED
          BY <4>1 DEF Answers, Kinds
      <3>2. r \in Responses
        BY <1>1, <2>1, <3>1 DEF Responses, Due
      <3> QED
        BY <1>1, <2>2, <3>2 DEF Due
    <2>4. ASSUME NEW k \in DOMAIN replies'
          PROVE  replies'[k].to = k /\ k \in DOMAIN stream /\ replies'[k].code \in Answers(stream[k])
      <3>1. CASE k = Due
        BY <1>1, <2>1, <2>3, <3>1
      <3>2. CASE k # Due
        <4>1. k \in 1..Len(replies)
          BY <1>1, <2>3, <3>2 DEF Due
        <4> QED
          BY <2>3, <4>1 DEF AnsweredAsSent
      <3> QED
        BY <3>1, <3>2
    <2> QED
      BY <2>3, <2>4 DEF AnsweredAsSent
  <1> QED
    BY <1>2, <1>3

(* Before the first request the position is the start of the stream.        *)
LEMMA AnswerInit == Init => AnswerInv
  <1> SUFFICES ASSUME Init PROVE AnswerInv
    OBVIOUS
  <1>1. /\ stream = << >> /\ starts = <<0>> /\ taken = 0 /\ replies = << >> /\ pc = "top"
        /\ accum.filled = 0
    BY DEF Init, NoAccum
  <1>2. Len(starts) = 1 /\ starts[1] = 0 /\ Len(stream) = 0 /\ Len(replies) = 0
    BY <1>1
  <1>3. StartInv
    BY <1>2 DEF StartInv
  <1>4. PosInv
    BY <1>1, <1>2 DEF PosInv, Due
  <1>5. AnsweredAsSent
    BY <1>1 DEF AnsweredAsSent
  <1> QED
    BY <1>3, <1>4, <1>5 DEF AnswerInv

(* The client sends a request behind the others.                           *)
LEMMA AnswerClient ==
    ASSUME TypeOK, AnswerInv, NEW r \in Requests, ClientWrites(r)
    PROVE  AnswerInv'
  <1>0. UNCHANGED <<taken, pc, accum, cur, replies>>
    BY DEF ClientWrites
  <1>1. /\ Len(stream') = Len(stream) + 1 /\ Len(starts) = Len(stream) + 1
        /\ Len(starts') = Len(stream) + 2 /\ Len(stream) \in Nat
        /\ \A i \in 1..Len(stream) : stream'[i] = stream[i]
        /\ \A i \in 1..Len(starts) : starts'[i] = starts[i] /\ starts[i] \in Nat
    <2>1. DOMAIN stream = 1..Len(stream) /\ DOMAIN starts = 1..Len(starts)
      BY DEF TypeOK
    <2>2. \A i \in 1..Len(starts) : starts[i] \in Nat
      BY StreamTypes
    <2>3. Len(starts') = Len(stream') + 1 /\ Len(stream) \in Nat /\ Len(stream') = Len(stream) + 1
      BY SentFacts
    <2>4. /\ \A i \in DOMAIN stream : stream'[i] = stream[i]
          /\ \A i \in DOMAIN starts : starts'[i] = starts[i]
          /\ Len(starts) = Len(stream) + 1
      BY SentFacts
    <2>5. Len(starts') = Len(stream) + 2
      BY <2>3
    <2> QED
      BY <2>1, <2>2, <2>3, <2>4, <2>5
  <1>2. /\ stream'[Len(stream) + 1] = r /\ Size(r) \in Nat \ {0}
        /\ starts'[Len(starts) + 1] = starts[Len(starts)] + Size(r)
    BY <1>1, SentFacts
  <1>3. StartInv'
    <2>1. starts'[1] = 0
      BY <1>1 DEF AnswerInv, StartInv
    <2>2. ASSUME NEW i \in 1..Len(stream')
          PROVE  starts'[i + 1] = starts'[i] + Size(stream'[i])
      <3>1. CASE i = Len(stream) + 1
        BY <1>1, <1>2, <3>1
      <3>2. CASE i # Len(stream) + 1
        <4>1. i \in 1..Len(stream) /\ i \in 1..Len(starts) /\ i + 1 \in 1..Len(starts)
          BY <1>1, <3>2
        <4>2. starts[i + 1] = starts[i] + Size(stream[i])
          BY <4>1 DEF AnswerInv, StartInv
        <4> QED
          BY <1>1, <4>1, <4>2
      <3> QED
        BY <3>1, <3>2
    <2>3. ASSUME NEW i \in 1..Len(starts'), NEW j \in 1..Len(starts'), i < j
          PROVE  starts'[i] < starts'[j]
      <3>0. i \in 1..Len(starts) /\ \A m, n \in 1..Len(starts) : m < n => starts[m] < starts[n]
        BY <1>1, <2>3 DEF AnswerInv, StartInv
      <3>1. CASE j = Len(starts) + 1
        <4>1. starts'[i] = starts[i] /\ starts[i] \in Nat /\ starts[Len(starts)] \in Nat
          BY <1>1, <3>0
        <4>2. starts[i] <= starts[Len(starts)]
          <5>1. CASE i = Len(starts)
            BY <4>1, <5>1
          <5>2. CASE i # Len(starts)
            <6>1. i < Len(starts) /\ Len(starts) \in 1..Len(starts)
              BY <1>1, <3>0, <5>2
            <6> QED
              BY <3>0, <4>1, <6>1
          <5> QED
            BY <5>1, <5>2
        <4> QED
          BY <1>2, <3>1, <4>1, <4>2
      <3>2. CASE j # Len(starts) + 1
        <4>1. j \in 1..Len(starts)
          BY <1>1, <3>2
        <4> QED
          BY <1>1, <2>3, <3>0, <4>1
      <3> QED
        BY <3>1, <3>2
    <2> QED
      BY <2>1, <2>2, <2>3 DEF StartInv
  <1>4. PosInv'
    <2>1. PICK d : d = Due
      OBVIOUS
    <2>2. Due' = d
      BY <1>0, <2>1 DEF Due
    <2>3. taken' <= starts'[Len(starts')]
      <3>1. taken <= starts[Len(starts)] /\ taken \in Nat
        BY StreamTypes DEF AnswerInv, PosInv
      <3>2. Len(starts') = Len(starts) + 1 /\ starts[Len(starts)] \in Nat
        BY <1>1
      <3> QED
        BY <1>0, <1>2, <3>1, <3>2
    <2>4. pc \in {"top", "lease", "read", "parse"} =>
            d \in 1..Len(starts') /\ taken = starts'[d] + accum.filled
      BY <1>1, <2>1 DEF AnswerInv, PosInv
    <2>5. pc = "exec" =>
         /\ cur.index = d /\ d \in 1..Len(stream')
         /\ taken = starts'[d + 1] + cur.left
         /\ stream'[d].kind # "bad" /\ stream'[d].body <= BodyLimit
      <3> SUFFICES ASSUME pc = "exec"
                   PROVE  /\ cur.index = d /\ d \in 1..Len(stream')
                          /\ taken = starts'[d + 1] + cur.left
                          /\ stream'[d].kind # "bad" /\ stream'[d].body <= BodyLimit
        OBVIOUS
      <3>1. /\ cur.index = d /\ d \in 1..Len(stream)
            /\ taken = starts[d + 1] + cur.left
            /\ stream[d].kind # "bad" /\ stream[d].body <= BodyLimit
        BY <2>1 DEF AnswerInv, PosInv
      <3>2. d + 1 \in 1..Len(starts) /\ d \in 1..Len(stream')
        BY <1>1, <3>1
      <3> QED
        BY <1>1, <3>1, <3>2
    <2> QED
      BY <1>0, <2>2, <2>3, <2>4, <2>5 DEF AnswerInv, PosInv
  <1>5. AnsweredAsSent'
    <2>1. ASSUME NEW k \in DOMAIN replies'
          PROVE  replies'[k].to = k /\ k \in DOMAIN stream' /\ replies'[k].code \in Answers(stream'[k])
      <3>1. k \in DOMAIN stream /\ replies'[k].to = k /\ replies'[k].code \in Answers(stream[k])
        BY <1>0 DEF AnswerInv, AnsweredAsSent
      <3>2. stream'[k] = stream[k] /\ k \in DOMAIN stream'
        BY <3>1, SentFacts
      <3> QED
        BY <3>1, <3>2
    <2> QED
      BY <2>1 DEF AnsweredAsSent
  <1> QED
    BY <1>3, <1>4, <1>5 DEF AnswerInv

(* Steps that neither answer nor read: the buffer keeps its position.      *)
LEMMA AnswerQuiet ==
    ASSUME AnswerInv, UNCHANGED <<stream, starts, taken, replies>>,
           \/ pc' \in {"upgraded", "sse", "closed"}
           \/ UNCHANGED <<pc, accum, cur>>
           \/ /\ pc \in {"top", "read", "lease", "parse"} /\ pc' \in {"top", "read", "lease"}
              /\ accum'.filled = accum.filled
    PROVE  AnswerInv'
  <1>1. StartInv'
    BY DEF AnswerInv, StartInv
  <1>2. PosInv'
    BY DEF AnswerInv, PosInv, Due
  <1>3. AnsweredAsSent'
    BY DEF AnswerInv, AnsweredAsSent
  <1> QED
    BY <1>1, <1>2, <1>3 DEF AnswerInv

(* A refusal that the request which is due deserves.                       *)
LEMMA AnswerRefuse ==
    ASSUME TypeOK, AnswerInv, Due \in 1..Len(stream), NEW code \in Answers(stream[Due]),
           Write(Due, code), Close, UNCHANGED <<stream, starts>>, taken' <= starts[Len(starts)]
    PROVE  AnswerInv'
  <1>1. StartInv'
    BY DEF AnswerInv, StartInv
  <1>2. PosInv'
    BY DEF AnswerInv, PosInv, Close
  <1>3. AnsweredAsSent'
    BY AnswerWritten DEF AnswerInv
  <1> QED
    BY <1>1, <1>2, <1>3 DEF AnswerInv

(* The loop head.                                                          *)
LEMMA AnswerTop ==
    ASSUME IInv, AnswerInv, EnterVec \/ StartVec \/ TakeLease
    PROVE  AnswerInv'
  <1>1. CASE EnterVec
    <2>1. accum.filled # accum.len
      BY <1>1 DEF EnterVec, IInv, BufInv, TypeInv, TypeOK
    <2>2. /\ pc = "top" /\ pc' = "read"
          /\ UNCHANGED <<stream, starts, taken, accum, replies>>
      BY <1>1, <2>1 DEF EnterVec, clientVars
    <2> QED
      BY <2>2, AnswerQuiet
  <1>2. CASE StartVec
    <2>1. accum'.filled = accum.filled /\ UNCHANGED <<stream, starts, taken, replies, pc>> /\ pc = "top"
      BY <1>2 DEF StartVec, NoAccum, clientVars
    <2> QED
      BY <2>1, AnswerQuiet
  <1>3. CASE TakeLease
    <2>1. UNCHANGED <<stream, starts, taken, replies, accum>> /\ pc = "top" /\ pc' = "lease"
      BY <1>3 DEF TakeLease, clientVars
    <2> QED
      BY <2>1, AnswerQuiet
  <1> QED
    BY <1>1, <1>2, <1>3

(* What n bytes from the start of the request that is due lead to: p is    *)
(* what the parser says, b the bytes behind the request.                   *)
LEMMA AnswerParsed ==
    ASSUME TypeOK, AnswerInv, NEW n \in Nat \ {0}, Due \in 1..Len(starts),
           NEW q \in Nat, q = starts[Due], q + n <= starts[Len(starts)],
           NEW p, p = TryParse(q, n), UNCHANGED <<stream, starts>>, taken' = q + n,
           \/ /\ p.status = "complete" /\ pc' = "exec" /\ UNCHANGED replies
              /\ cur'.index = p.index /\ cur'.left = n - p.consumed
           \/ /\ p.status = "partial" /\ pc' = "top" /\ UNCHANGED replies
              /\ accum'.filled = n
           \/ /\ p.status = "partial" /\ n >= BodyLimit + BufSize
              /\ Write(Due, 413) /\ Close
           \/ /\ p.status \in {"invalid", "too_large"}
              /\ Write(Due, ErrorCode(p.status)) /\ Close
    PROVE  AnswerInv'
  <1>1. StartInv' /\ StartInv
    BY DEF AnswerInv, StartInv
  <1>2. Due \in 1..Len(stream)
    BY DueWasSent, <1>1
  <1>3. PICK d : d = Due
    OBVIOUS
  <1>t. /\ stream[d].kind \in Kinds /\ stream[d].head \in Nat /\ stream[d].body \in Nat
        /\ Size(stream[d]) = stream[d].head + stream[d].body
        /\ starts[d + 1] = q + Size(stream[d]) /\ d \in 1..Len(stream)
    <2>1. starts[d + 1] = q + Size(stream[d])
      BY <1>1, <1>2, <1>3 DEF StartInv
    <2> QED
      BY <1>2, <1>3, <2>1, StreamTypes
  <1>4. /\ p.index = d
        /\ p.status \in {"complete", "partial", "invalid", "too_large"}
        /\ p.status = "complete" =>
             /\ p.consumed = Size(stream[d]) /\ Size(stream[d]) <= n
             /\ stream[d].kind # "bad" /\ stream[d].body <= BodyLimit
        /\ p.status = "partial" =>
             \/ n < stream[d].head
             \/ stream[d].kind # "bad" /\ stream[d].body <= BodyLimit /\ n < Size(stream[d])
        /\ p.status = "invalid" => stream[d].kind = "bad"
        /\ p.status = "too_large" => stream[d].kind # "bad" /\ stream[d].body > BodyLimit
    <2>1. d \in 1..Len(stream) /\ q = starts[d] /\ n \in Nat
      BY <1>2, <1>3
    <2> QED
      BY <1>1, <2>1, ParseAt, SMTT(30)
  <1>5. CASE p.status = "complete" /\ pc' = "exec" /\ UNCHANGED replies
    <2>1. Due' = d
      BY <1>3, <1>5 DEF Due
    <2>2. cur'.index = d /\ cur'.left = n - Size(stream[d])
      BY <1>4, <1>5
    <2>3. taken' = starts[d + 1] + cur'.left
      BY <1>t, <2>2, SMTT(30)
    <2>4. AnsweredAsSent'
      BY <1>5 DEF AnswerInv, AnsweredAsSent
    <2>5. PosInv'
      BY <1>t, <1>4, <1>5, <2>1, <2>2, <2>3 DEF PosInv
    <2> QED
      BY <1>1, <2>4, <2>5 DEF AnswerInv
  <1>6. CASE p.status = "partial" /\ pc' = "top" /\ UNCHANGED replies
    <2>1. Due' = d
      BY <1>3, <1>6 DEF Due
    <2>2. accum'.filled = n
      BY <1>6 DEF Close
    <2>4. AnsweredAsSent'
      BY <1>6 DEF AnswerInv, AnsweredAsSent
    <2>5. PosInv'
      BY <1>3, <1>6, <2>1, <2>2 DEF PosInv
    <2> QED
      BY <1>1, <2>4, <2>5 DEF AnswerInv
  <1>7. CASE p.status = "partial" /\ n >= BodyLimit + BufSize /\ Write(Due, 413) /\ Close
    <2>1. stream[d].head > BufSize
      BY <1>t, <1>4, <1>7, SizeAssumption, SMTT(30)
    <2>2. 413 \in Answers(stream[d])
      BY <2>1 DEF Answers
    <2> QED
      BY <1>2, <1>3, <1>7, <2>2, AnswerRefuse
  <1>8. CASE p.status \in {"invalid", "too_large"} /\ Write(Due, ErrorCode(p.status)) /\ Close
    <2>1. ErrorCode(p.status) \in Answers(stream[d])
      <3>1. CASE p.status = "invalid"
        BY <1>4, <3>1 DEF Answers, ErrorCode
      <3>2. CASE p.status = "too_large"
        BY <1>t, <1>4, <3>2, SizeAssumption, SMTT(30) DEF Answers, ErrorCode
      <3> QED
        BY <1>8, <3>1, <3>2
    <2> QED
      BY <1>2, <1>3, <1>8, <2>1, AnswerRefuse
  <1> QED
    BY <1>5, <1>6, <1>7, <1>8

(* Reads.                                                                  *)
LEMMA AnswerRead ==
    ASSUME IInv, AnswerInv, Reads \/ ReadEnds
    PROVE  AnswerInv'
  <1>t. TypeOK
    BY DEF IInv, TypeInv
  <1>1. CASE ReadEnds
    <2>1. pc' = "closed" /\ UNCHANGED <<stream, starts, taken, replies>>
      BY <1>1 DEF ReadEnds, Close, clientVars
    <2> QED
      BY <2>1, AnswerQuiet
  <1>2. ASSUME Reads PROVE AnswerInv'
    <2>1. PICK n \in 1..Capacity : ReadLease(n) \/ ReadVec(n)
      BY <1>2 DEF Reads
    <2>2. n \in Nat \ {0}
      <3>1. Capacity \in Int
        BY <1>t, SizeAssumption DEF Capacity, TypeOK
      <3> QED
        BY <3>1
    <2>3. /\ n <= Available /\ UNCHANGED <<stream, starts>> /\ taken' = taken + n
          /\ pc \in {"lease", "read"}
      BY <2>1 DEF ReadLease, ReadVec, clientVars
    <2>4. taken + n <= starts[Len(starts)]
      <3>1. Available = starts[Len(starts)] - taken
        BY <1>t DEF Available, Last, TypeOK
      <3>2. taken \in Nat /\ starts[Len(starts)] \in Nat
        BY <1>t, StreamTypes
      <3> QED
        BY <2>2, <2>3, <3>1, <3>2
    <2>5. Due \in 1..Len(starts) /\ taken = starts[Due] + accum.filled
      BY <2>3 DEF AnswerInv, PosInv
    <2>6. starts[Due] \in Nat /\ accum.filled \in Nat
      BY <1>t, <2>5, StreamTypes DEF TypeOK
    <2>7. CASE ReadVec(n)
      <3>1. /\ pc' = "parse" /\ UNCHANGED replies /\ accum'.filled = accum.filled + n
        BY <2>7 DEF ReadVec
      <3>2. StartInv' /\ AnsweredAsSent'
        BY <2>3, <3>1 DEF AnswerInv, StartInv, AnsweredAsSent
      <3>3. Due' = Due
        BY <3>1 DEF Due
      <3>4. taken' = starts[Due] + accum'.filled /\ 0 < accum'.filled
        BY <2>2, <2>3, <2>5, <2>6, <3>1
      <3>5. PosInv'
        BY <2>3, <2>4, <2>5, <3>1, <3>3, <3>4 DEF PosInv
      <3> QED
        BY <3>2, <3>5 DEF AnswerInv
    <2>8. CASE ReadLease(n)
      <3>0. accum.filled = 0
        BY <2>8 DEF ReadLease, IInv, BufInv, NoAccum
      <3>1. PICK q \in Nat : q = taken
        BY <1>t DEF TypeOK
      <3>2. PICK p : p = TryParse(q, n)
        OBVIOUS
      <3>3. q = starts[Due] /\ q + n <= starts[Len(starts)] /\ taken' = q + n
        BY <2>3, <2>4, <2>5, <2>6, <3>0, <3>1
      <3>4. \/ /\ p.status = "complete" /\ pc' = "exec" /\ UNCHANGED replies
               /\ cur' = [index |-> p.index, consumed |-> p.consumed,
                          left |-> n - p.consumed, leased |-> TRUE]
            \/ /\ p.status = "partial" /\ pc' = "top" /\ UNCHANGED replies
               /\ accum' = [len |-> Max({BufSize, 2 * n}), filled |-> n]
            \/ /\ p.status \in {"invalid", "too_large"}
               /\ Write(Due, ErrorCode(p.status)) /\ Close
        BY <2>8, <3>1, <3>2 DEF ReadLease, Due
      <3>5. \/ /\ p.status = "complete" /\ pc' = "exec" /\ UNCHANGED replies
               /\ cur'.index = p.index /\ cur'.left = n - p.consumed
            \/ /\ p.status = "partial" /\ pc' = "top" /\ UNCHANGED replies
               /\ accum'.filled = n
            \/ /\ p.status \in {"invalid", "too_large"}
               /\ Write(Due, ErrorCode(p.status)) /\ Close
        BY <3>4
      <3> QED
        BY <1>t, <2>2, <2>3, <2>5, <3>2, <3>3, <3>5, AnswerParsed
    <2> QED
      BY <2>1, <2>7, <2>8
  <1> QED
    BY <1>1, <1>2

(* The parse loop.                                                         *)
LEMMA AnswerParse ==
    ASSUME IInv, AnswerInv, ParseVec
    PROVE  AnswerInv'
  <1>t. TypeOK /\ accum.filled \in Nat /\ accum.len \in Nat
    BY DEF IInv, TypeInv, TypeOK
  <1>1. pc = "parse" /\ UNCHANGED <<stream, starts, taken>>
    BY DEF ParseVec, clientVars
  <1>2. /\ Due \in 1..Len(starts) /\ taken = starts[Due] + accum.filled /\ 0 < accum.filled
        /\ taken <= starts[Len(starts)]
    BY <1>1 DEF AnswerInv, PosInv
  <1>3. PICK n \in Nat \ {0} : n = accum.filled
    BY <1>t, <1>2
  <1>4. starts[Due] \in Nat
    BY <1>t, <1>2, StreamTypes
  <1>5. PICK q \in Nat : q = starts[Due]
    BY <1>4
  <1>6. q = taken - accum.filled /\ q + n <= starts[Len(starts)] /\ taken' = q + n
    BY <1>1, <1>2, <1>3, <1>5, <1>t
  <1>7. PICK p : p = TryParse(q, n)
    OBVIOUS
  <1>8. \/ /\ p.status = "complete" /\ pc' = "exec" /\ UNCHANGED replies
           /\ cur' = [index |-> p.index, consumed |-> p.consumed,
                      left |-> accum.filled - p.consumed, leased |-> FALSE]
        \/ /\ p.status = "partial" /\ NeedMore
        \/ /\ p.status \in {"invalid", "too_large"}
           /\ Write(Due, ErrorCode(p.status)) /\ Close
    BY <1>3, <1>6, <1>7 DEF ParseVec, Due
  <1>9. NeedMore => \/ pc' = "top" /\ UNCHANGED replies /\ accum'.filled = n
                    \/ n >= BodyLimit + BufSize /\ Write(Due, 413) /\ Close
    <2>1. ASSUME NeedMore, ~(accum.filled = accum.len /\ FullLimit(accum.len))
          PROVE  pc' = "top" /\ UNCHANGED replies /\ accum'.filled = n
      BY <1>3, <2>1 DEF NeedMore, IInv, TypeInv, TypeOK
    <2>2. ASSUME NeedMore, accum.filled = accum.len, FullLimit(accum.len)
          PROVE  n >= BodyLimit + BufSize /\ Write(Due, 413) /\ Close
      BY <1>3, <2>2 DEF NeedMore, FullLimit, Due
    <2> QED
      BY <2>1, <2>2
  <1>10. \/ /\ p.status = "complete" /\ pc' = "exec" /\ UNCHANGED replies
            /\ cur'.index = p.index /\ cur'.left = n - p.consumed
         \/ /\ p.status = "partial" /\ pc' = "top" /\ UNCHANGED replies
            /\ accum'.filled = n
         \/ /\ p.status = "partial" /\ n >= BodyLimit + BufSize
            /\ Write(Due, 413) /\ Close
         \/ /\ p.status \in {"invalid", "too_large"}
            /\ Write(Due, ErrorCode(p.status)) /\ Close
    BY <1>3, <1>8, <1>9
  <1> QED
    BY <1>t, <1>1, <1>2, <1>5, <1>6, <1>7, <1>10, AnswerParsed

(* execute_and_respond: the bytes behind the request start the next one.   *)
LEMMA AnswerRespond ==
    ASSUME IInv, AnswerInv, Upgrade \/ StartSse \/ Respond
    PROVE  AnswerInv'
  <1>t. /\ TypeOK /\ accum \in [len : Nat, filled : Nat] /\ cur.left \in Nat
        /\ BodyLimit \in Nat /\ Len(replies) \in Nat
    BY StreamTypes, SizeAssumption DEF IInv, TypeInv, TypeOK
  <1>0. /\ pc = "exec" /\ UNCHANGED <<stream, starts, taken>>
        /\ cur.index = Due /\ Due \in 1..Len(stream)
        /\ taken = starts[Due + 1] + cur.left
        /\ stream[Due].kind # "bad" /\ stream[Due].body <= BodyLimit
        /\ taken <= starts[Len(starts)]
    BY DEF Upgrade, StartSse, Respond, clientVars, AnswerInv, PosInv
  <1>1. StartInv'
    BY <1>0 DEF AnswerInv, StartInv
  <1>2. AnsweredAsSent' /\ (~broken => Len(replies') = Len(replies) + 1)
    <2>0. stream[Due].body \in Nat
      BY <1>t, <1>0, StreamTypes
    <2>1. CASE Upgrade
      <3>1. stream[Due].kind = "ws" /\ Write(Due, 101)
        BY <1>0, <2>1 DEF Upgrade
      <3>2. 101 \in Answers(stream[Due])
        BY <1>t, <1>0, <2>0, <3>1 DEF Answers
      <3> QED
        BY <1>t, <1>0, <3>1, <3>2, AnswerWritten DEF AnswerInv
    <2>2. CASE StartSse \/ Respond
      <3>1. stream[Due].kind \in {"keep", "close", "sse"} /\ Write(Due, 200)
        BY <1>0, <2>2 DEF StartSse, Respond
      <3>2. 200 \in Answers(stream[Due])
        BY <1>t, <1>0, <2>0, <3>1 DEF Answers
      <3> QED
        BY <1>t, <1>0, <3>1, <3>2, AnswerWritten DEF AnswerInv
    <2> QED
      BY <2>1, <2>2
  <1>3. CASE pc' \in {"upgraded", "sse", "closed"}
    <2>1. PosInv'
      BY <1>0, <1>3 DEF PosInv
    <2> QED
      BY <1>1, <1>2, <2>1 DEF AnswerInv
  <1>4. CASE pc' \notin {"upgraded", "sse", "closed"}
    <2>1. Respond /\ ~broken /\ Advance
      BY <1>4 DEF Upgrade, StartSse, Respond, Close
    <2>2. PICK d : d = Due
      OBVIOUS
    <2>3. Due' = d + 1
      BY <1>t, <1>2, <2>1, <2>2 DEF Due
    <2>4. pc' \in {"top", "parse"} /\ (pc' = "parse" => cur.left # 0)
      BY <2>1 DEF Advance
    <2>5. accum'.filled = cur.left
      <3>1. CASE cur.left = 0
        BY <2>1, <3>1 DEF Advance, NoAccum
      <3>2. CASE cur.left # 0 /\ cur.leased
        BY <2>1, <3>2 DEF Advance
      <3>3. CASE cur.left # 0 /\ ~cur.leased
        BY <1>t, <2>1, <3>3 DEF Advance
      <3> QED
        BY <3>1, <3>2, <3>3
    <2>6. d + 1 \in 1..Len(starts)
      BY <1>t, <1>0, <2>2, StreamTypes
    <2>7. PosInv'
      BY <1>t, <1>0, <2>2, <2>3, <2>4, <2>5, <2>6 DEF PosInv
    <2> QED
      BY <1>1, <1>2, <2>7 DEF AnswerInv
  <1> QED
    BY <1>3, <1>4

(* Every step keeps the buffer at the first unanswered request.             *)
LEMMA AnswerStep == IInv /\ AnswerInv /\ [Next]_vars => AnswerInv'
  <1> SUFFICES ASSUME IInv, AnswerInv, [Next]_vars PROVE AnswerInv'
    OBVIOUS
  <1>1. CASE UNCHANGED vars \/ ClientEof \/ ClientBreaks \/ SseSend \/ SseDrop
    <2>1. UNCHANGED <<stream, starts, taken, replies, pc, accum, cur>>
      BY <1>1 DEF vars, clientVars, sseVars, ClientEof, ClientBreaks, SseSend, SseDrop
    <2> QED
      BY <2>1, AnswerQuiet
  <1>2. ASSUME NEW r \in Requests, ClientWrites(r) PROVE AnswerInv'
    BY <1>2, AnswerClient DEF IInv, TypeInv
  <1>3. CASE EnterVec \/ StartVec \/ TakeLease
    BY <1>3, AnswerTop
  <1>4. CASE Reads \/ ReadEnds
    BY <1>4, AnswerRead
  <1>5. CASE ParseVec
    BY <1>5, AnswerParse
  <1>6. CASE Upgrade \/ StartSse \/ Respond
    BY <1>6, AnswerRespond
  <1>7. CASE SseWrite \/ SseKeepAlive \/ SseEnd
    <2>1. UNCHANGED <<stream, starts, taken, replies, accum, cur>> /\ pc = "sse" /\ pc' \in {"sse", "closed"}
      BY <1>7 DEF SseWrite, SseKeepAlive, SseEnd, clientVars, sseVars
    <2> QED
      BY <2>1, AnswerQuiet
  <1> QED
    BY <1>1, <1>2, <1>3, <1>4, <1>5, <1>6, <1>7 DEF Next, Server

(* handle_connection: however TCP cuts the bytes, whatever is pipelined    *)
(* and whichever of the two read paths each read takes, the k-th response  *)
(* answers the k-th request, and as that request deserves: no bytes are    *)
(* lost or read twice between the lease and the Vec, and a request within  *)
(* the limits is never refused.                                            *)
THEOREM AnsweredInOrder == Spec => []AnsweredAsSent
  <1>1. AnswerInv => AnsweredAsSent
    BY DEF AnswerInv
  <1> QED
    BY <1>1, AlwaysIInv, AnswerInit, AnswerStep, PTL DEF Spec
=============================================================================
