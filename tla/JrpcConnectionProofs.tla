------------------------- MODULE JrpcConnectionProofs -------------------------
(***************************************************************************)
(* Proofs about JrpcConnection, for any clients, requests, byte layouts    *)
(* and bounds that satisfy the module's assumptions: what it keeps, and    *)
(* then what it is to its clients: of the replies none is wrong, none      *)
(* comes twice or out of order and none is forgotten, and each step, seen  *)
(* from the clients, is one of RpcChannel's or none.                       *)
(***************************************************************************)
EXTENDS JrpcConnection, SequenceTheorems, TLAPS

\* The bytes of message n of connection c.
Size(c, n) == Len(Shape[sent[c][n].req])

\* The stream is the messages' bytes, one message after the other.
StreamInv ==
    \A c \in Client :
        /\ Start(c, 1) = 0
        /\ \A n \in 1..Len(sent[c]) :
              /\ Start(c, n + 1) = Start(c, n) + Size(c, n)
              /\ Start(c, n + 1) <= Len(stream[c])
        /\ \A n \in 1..Len(sent[c]) : \A o \in 1..Size(c, n) :
              stream[c][Start(c, n) + o] = [msg |-> n, off |-> o]

\* The message with which the buffer of c begins.
First(c) ==
    IF pc = "respond" /\ cur = c THEN Len(served[c]) ELSE Len(served[c]) + 1

\* The buffer is a window on the stream that begins at a message, as long as
\* no byte was lost.
WindowInv ==
    pc # "dead" => \A c \in Client : conn[c] = "open" /\ c \notin torn =>
        /\ First(c) \in 1..(Len(sent[c]) + 1)
        /\ received[c] = Start(c, First(c)) + Len(buffer[c])
        /\ \A i \in 1..Len(buffer[c]) :
              buffer[c][i] = stream[c][Start(c, First(c)) + i]

RoomInv == \A c \in Client : conn[c] = "open" => Len(buffer[c]) < buffer_size[c]

FreshInv == \A c \in Client :
    /\ received[c] <= Len(stream[c])
    /\ conn[c] \in {"idle", "backlog"} =>
          received[c] = 0 /\ served[c] = <<>> /\ replies[c] = <<>>

\* The loop writes to an open connection, and what it writes answers the
\* request in its buffer.
LoopInv ==
    /\ pc \in {"respond", "refuse"} => conn[cur] = "open"
    /\ pc = "respond" =>
          /\ end_ptr \in 1..Len(buffer[cur])
          /\ IsReply(out.body)
          /\ cur \notin torn =>
                /\ Parses(cur, buffer[cur], end_ptr)
                /\ out = [id |-> Len(served[cur]), body |-> Answer(cur, Len(served[cur]))]
    /\ pc = "refuse" => out = [id |-> 0, body |-> ErrorReply]

IInv == TypeOK /\ StreamInv /\ WindowInv /\ RoomInv /\ FreshInv /\ LoopInv /\ ServedInOrder

-----------------------------------------------------------------------------
(* The types of what is sent.                                              *)
LEMMA SentType ==
    ASSUME TypeOK, NEW c \in Client
    PROVE  /\ Len(sent[c]) \in Nat /\ Len(stream[c]) \in Nat
           /\ \A n \in 1..Len(sent[c]) :
                 /\ sent[c][n].req \in Request
                 /\ sent[c][n].at \in Nat
                 /\ Size(c, n) \in Nat
           /\ \A n \in 1..(Len(sent[c]) + 1) : Start(c, n) \in Nat
<1>1. /\ sent[c] \in Seq(Message)
      /\ stream[c] \in Seq(Byte)
  BY DEF TypeOK
<1>2. Len(sent[c]) \in Nat /\ Len(stream[c]) \in Nat
  BY <1>1, LenProperties
<1>3. ASSUME NEW n \in 1..Len(sent[c])
      PROVE  sent[c][n] \in Message
  BY <1>1, ElementOfSeq, Zenon
<1>4. ASSUME NEW n \in 1..Len(sent[c])
      PROVE  sent[c][n].req \in Request /\ sent[c][n].at \in Nat /\ Size(c, n) \in Nat
  <2>1. sent[c][n].req \in Request /\ sent[c][n].at \in Nat
    BY <1>3 DEF Message
  <2>2. Shape[sent[c][n].req] \in Seq(Class)
    BY <2>1, ShapeAssumption
  <2>3. QED BY <2>1, <2>2, LenProperties DEF Size
<1>5. ASSUME NEW n \in 1..(Len(sent[c]) + 1)
      PROVE  Start(c, n) \in Nat
  <2>1. CASE n <= Len(sent[c])
    <3>1. n \in 1..Len(sent[c]) BY <1>2, <2>1
    <3>2. QED BY <1>4, <2>1, <3>1 DEF Start
  <2>2. CASE ~(n <= Len(sent[c]))
    BY <1>2, <2>2 DEF Start
  <2>3. QED BY <2>1, <2>2
<1>6. QED BY <1>2, <1>4, <1>5

(* Whatever the parser accepts at the head of a window that begins at      *)
(* message k is exactly message k.                                         *)
LEMMA ParsesFirst ==
    ASSUME TypeOK, StreamInv,
           NEW c \in Client, NEW b \in Seq(Byte),
           NEW k \in 1..(Len(sent[c]) + 1),
           Start(c, k) + Len(b) <= Len(stream[c]),
           \A i \in 1..Len(b) : b[i] = stream[c][Start(c, k) + i],
           NEW e \in 1..Len(b), Parses(c, b, e)
    PROVE  /\ k \in 1..Len(sent[c])
           /\ e = Size(c, k)
           /\ \A i \in 1..e : b[i] = [msg |-> k, off |-> i]
<1> DEFINE s == Shape[sent[c][k].req]
<1>0. /\ Len(sent[c]) \in Nat /\ Len(stream[c]) \in Nat /\ Len(b) \in Nat
      /\ \A n \in 1..(Len(sent[c]) + 1) : Start(c, n) \in Nat
  BY SentType
<1>1. k \in 1..Len(sent[c])
  <2>1. ASSUME k = Len(sent[c]) + 1 PROVE FALSE
    <3>1. Start(c, k) = Len(stream[c])
      BY <1>0, <2>1 DEF Start
    <3>2. QED BY <1>0, <3>1
  <2>2. QED BY <1>0, <2>1
<1>2. sent[c][k].req \in Request
  BY <1>1, SentType
<1>3. /\ s \in Seq(Class)
      /\ ShapeOf(s)
      /\ Len(s) = Size(c, k)
      /\ Len(s) \in Nat
      /\ DOMAIN s = 1..Len(s)
  BY <1>2, ShapeAssumption DEF Size
<1>4. ASSUME NEW i \in 1..Len(b), i <= Len(s)
      PROVE  b[i] = [msg |-> k, off |-> i] /\ ClassOf(c, b[i]) = s[i]
  <2>1. i \in 1..Size(c, k)
    BY <1>0, <1>3, <1>4
  <2>2. stream[c][Start(c, k) + i] = [msg |-> k, off |-> i]
    BY <1>1, <2>1 DEF StreamInv
  <2>3. QED BY <2>2 DEF ClassOf
<1>5. PICK q \in 1..Len(s) :
        /\ s[q] = "eoh"
        /\ \A i \in 1..Len(s) : i < q => s[i] = "hdr"
        /\ \A i \in 1..Len(s) : i > q =>
               s[i] \in {"json", "text", "bad"} \/ (s[i] = "end" /\ i = Len(s))
  BY <1>3 DEF ShapeOf
<1>6. PICK h \in 1..Len(b) :
        /\ HeaderEnds(c, b, h)
        /\ e \in (h + 1)..Len(b)
        /\ ClassOf(c, b[e]) = "end"
        /\ InBody(c, b, h, e - 1)
  BY DEF Parses
<1>7. h = q
  <2>1. CASE h < q
    <3>1. h \in 1..Len(s) /\ h <= Len(s)
      BY <1>0, <1>3, <2>1
    <3>2. ClassOf(c, b[h]) = "hdr"
      BY <1>4, <1>5, <2>1, <3>1
    <3>3. QED BY <1>6, <3>2 DEF HeaderEnds
  <2>2. CASE q < h
    <3>1. q \in 1..Len(b) /\ q \in 1..(h - 1)
      BY <1>0, <1>3, <2>2
    <3>0. q <= Len(s)
      BY <1>3
    <3>2. ClassOf(c, b[q]) = "eoh"
      BY <1>4, <1>5, <3>0, <3>1
    <3>3. QED BY <1>6, <3>1, <3>2 DEF HeaderEnds
  <2>3. QED BY <1>0, <1>3, <2>1, <2>2
<1>8. e <= Len(s)
  <2>1. ASSUME e > Len(s) PROVE FALSE
    <3> DEFINE j == Len(s) + 1
               t == Shape[sent[c][k + 1].req]
    <3>1. j \in 1..Len(b) /\ j \in (h + 1)..e
      <4>1. h \in Nat /\ e \in Nat /\ h < e /\ e <= Len(b)
        <5>1. e \in (h + 1)..Len(b) /\ h \in 1..Len(b)
          BY <1>6
        <5>2. QED BY <1>0, <5>1
      <4>2. h <= Len(s) /\ Len(s) < e /\ Len(s) \in Nat
        BY <1>3, <1>7, <2>1
      <4> HIDE DEF s
      <4>3. QED BY <1>0, <4>1, <4>2
    <3>2. Start(c, k + 1) = Start(c, k) + Len(s)
      BY <1>1, <1>3 DEF StreamInv
    <3>3. Start(c, k) \in Nat /\ Start(c, k + 1) \in Nat
      <4>1. k + 1 \in 1..(Len(sent[c]) + 1)
        BY <1>0, <1>1
      <4>2. QED BY <1>0, <4>1
    <3>4. Start(c, k + 1) < Len(stream[c])
      <4>1. Len(s) + 1 <= Len(b)
        BY <1>3, <3>1
      <4>2. Start(c, k) + Len(b) <= Len(stream[c])
        OBVIOUS
      <4>3. Len(s) \in Nat
        BY <1>3
      <4> HIDE DEF s
      <4>4. QED BY <1>0, <3>2, <3>3, <4>1, <4>2, <4>3
    <3>5. k + 1 \in 1..Len(sent[c])
      BY <1>0, <1>1, <3>4 DEF Start
    <3>6. sent[c][k + 1].req \in Request
      BY <3>5, SentType
    <3>7. /\ t \in Seq(Class) /\ ShapeOf(t)
          /\ Len(t) = Size(c, k + 1) /\ Len(t) \in Nat /\ DOMAIN t = 1..Len(t)
      BY <3>6, ShapeAssumption DEF Size
    <3>8. Len(t) >= 1 /\ t[1] \in {"hdr", "eoh"}
      <4>1. PICK p \in 1..Len(t) : t[p] = "eoh" /\ \A i \in 1..Len(t) : i < p => t[i] = "hdr"
        BY <3>7 DEF ShapeOf
      <4> HIDE DEF t
      <4>2. Len(t) \in Nat /\ p >= 1 /\ p <= Len(t) /\ Len(t) >= 1
        BY <3>7, <4>1
      <4>3. CASE p = 1
        BY <4>1, <4>2, <4>3
      <4>4. CASE p # 1
        <5>1. 1 \in 1..Len(t) /\ 1 < p
          BY <4>1, <4>2, <4>4
        <5>2. QED BY <4>1, <4>2, <5>1
      <4>5. QED BY <4>3, <4>4
    <3>9. b[j] = [msg |-> k + 1, off |-> 1]
      <4>1. 1 \in 1..Size(c, k + 1)
        BY <3>7, <3>8
      <4>2. stream[c][Start(c, k + 1) + 1] = [msg |-> k + 1, off |-> 1]
        BY <3>5, <4>1 DEF StreamInv
      <4>3. Start(c, k + 1) + 1 = Start(c, k) + j
        BY <1>3, <3>2, <3>3
      <4>4. QED BY <3>1, <4>2, <4>3
    <3>10. ClassOf(c, b[j]) \in {"hdr", "eoh"}
      BY <3>8, <3>9 DEF ClassOf
    <3>11. CASE j = e
      BY <1>6, <3>10, <3>11
    <3>12. CASE j # e
      <4>1. j \in (h + 1)..(e - 1)
        BY <1>3, <3>1, <3>12
      <4>2. QED BY <1>6, <3>10, <4>1 DEF InBody
    <3>13. QED BY <3>11, <3>12
  <2>2. QED BY <1>3, <2>1
<1>9. e \in 1..Len(s) /\ e > q
  BY <1>0, <1>3, <1>6, <1>7, <1>8
<1>10. b[e] = [msg |-> k, off |-> e] /\ s[e] = "end"
  BY <1>4, <1>6, <1>9
<1>11. e = Len(s)
  BY <1>5, <1>9, <1>10
<1>12. ASSUME NEW i \in 1..e PROVE b[i] = [msg |-> k, off |-> i]
  BY <1>0, <1>3, <1>4, <1>11
<1>13. QED BY <1>1, <1>3, <1>11, <1>12

-----------------------------------------------------------------------------
(* IInv holds initially.                                                   *)
LEMMA InitIInv == Init => IInv
<1> SUFFICES ASSUME Init PROVE IInv
  OBVIOUS
<1>1. TypeOK
  BY DEF Init, TypeOK, None
<1>2. StreamInv
  <2>1. \A c \in Client : Len(sent[c]) = 0 /\ Len(stream[c]) = 0
    BY DEF Init
  <2>2. ASSUME NEW c \in Client PROVE Start(c, 1) = 0
    <3>1. ~(1 <= Len(sent[c]))
      BY <2>1
    <3>2. QED BY <2>1, <3>1 DEF Start
  <2>3. ASSUME NEW c \in Client PROVE 1..Len(sent[c]) = {}
    BY <2>1
  <2>4. QED BY <2>2, <2>3 DEF StreamInv
<1>3. WindowInv /\ RoomInv /\ FreshInv /\ LoopInv /\ ServedInOrder
  BY DEF Init, WindowInv, RoomInv, FreshInv, LoopInv, ServedInOrder
<1>4. QED BY <1>1, <1>2, <1>3 DEF IInv

LEMMA StreamFrame ==
    ASSUME StreamInv, UNCHANGED <<sent, stream>>
    PROVE  StreamInv' /\ \A d, n : Start(d, n)' = Start(d, n) /\ Size(d, n)' = Size(d, n)
<1>1. sent' = sent /\ stream' = stream
  OBVIOUS
<1>2. \A d, n : Start(d, n)' = Start(d, n) /\ Size(d, n)' = Size(d, n)
  BY <1>1 DEF Start, Size
<1>3. QED BY <1>1, <1>2 DEF StreamInv

(* Steps that touch neither the stream, the buffers nor the loop.          *)
LEMMA QuietSteps ==
    ASSUME IInv, NEW c \in Client,
           Connect(c) \/ HalfClose(c) \/ Leave(c) \/ TakeReply(c)
    PROVE  IInv'
<1>1. TypeOK'
  <2>1. TypeOK
    BY DEF IInv
  <2>2. CASE Connect(c)
    BY <2>1, <2>2 DEF TypeOK, Connect, clientVars, loopVars
  <2>3. CASE HalfClose(c)
    BY <2>1, <2>3 DEF TypeOK, HalfClose, loopVars
  <2>4. CASE Leave(c)
    BY <2>1, <2>4 DEF TypeOK, Leave, loopVars
  <2>5. CASE TakeReply(c)
    <3>1. taken \in [Client -> Nat]
      BY <2>1 DEF TypeOK
    <3>2. taken' = [taken EXCEPT ![c] = taken[c] + 1]
      BY <2>5 DEF TakeReply
    <3>3. taken' \in [Client -> Nat]
      BY <3>1, <3>2
    <3>4. QED BY <2>1, <2>5, <3>3 DEF TypeOK, TakeReply, loopVars
  <2>6. QED BY <2>2, <2>3, <2>4, <2>5
<1>2. UNCHANGED <<sent, stream, received, replies, buffer, buffer_size, pc, cur, out,
                  end_ptr, served, torn>>
  BY DEF Connect, HalfClose, Leave, TakeReply, clientVars, loopVars
<1>3. \A d \in Client : (conn[d] = "open" <=> conn'[d] = "open")
                       /\ (conn'[d] \in {"idle", "backlog"} => conn[d] \in {"idle", "backlog"})
  BY DEF IInv, TypeOK, Connect, HalfClose, Leave, TakeReply
<1>4. StreamInv'
  BY <1>2, StreamFrame DEF IInv
<1>5. WindowInv'
  BY <1>2, <1>3 DEF IInv, WindowInv, First, Start
<1>6. RoomInv' /\ FreshInv' /\ ServedInOrder'
  BY <1>2, <1>3 DEF IInv, RoomInv, FreshInv, ServedInOrder
<1>7. LoopInv'
  <2>1. Parses(cur, buffer[cur], end_ptr)' <=> Parses(cur, buffer[cur], end_ptr)
    <3>1. sent' = sent /\ buffer' = buffer /\ cur' = cur /\ end_ptr' = end_ptr
      BY <1>2
    <3>2. QED BY <3>1 DEF Parses, HeaderEnds, InBody, ClassOf
  <2>2. Answer(cur, Len(served[cur]))' = Answer(cur, Len(served[cur]))
    BY <1>2, Zenon DEF Answer
  <2>3. cur \in Client
    BY DEF IInv, TypeOK
  <2>4. QED BY <1>2, <1>3, <2>1, <2>2, <2>3 DEF IInv, LoopInv, IsReply
<1>8. QED BY <1>1, <1>4, <1>5, <1>6, <1>7 DEF IInv

(* A new connection has an empty buffer with room.                         *)
LEMMA AcceptStep ==
    ASSUME IInv, NEW c \in Client, accept_cb(c)
    PROVE  IInv'
<1> USE DEF clientVars, loopVars
<1>1. TypeOK'
  <2>1. /\ conn \in [Client -> {"idle", "backlog", "open", "closed"}]
        /\ buffer \in [Client -> Seq(Byte)] /\ buffer_size \in [Client -> Nat]
    BY DEF IInv, TypeOK
  <2>2. <<>> \in Seq(Byte)
    BY EmptySeq
  <2>3. /\ conn' \in [Client -> {"idle", "backlog", "open", "closed"}]
        /\ buffer' \in [Client -> Seq(Byte)] /\ buffer_size' \in [Client -> Nat]
    BY <2>1, <2>2, BoundsAssumption DEF accept_cb
  <2>4. QED BY <2>3 DEF IInv, TypeOK, accept_cb
<1>2. /\ UNCHANGED <<sent, stream, received, replies, pc, cur, out, served, torn>>
      /\ pc = "poll" /\ conn[c] = "backlog"
  BY DEF accept_cb
<1>3. StreamInv' /\ \A d, n : Start(d, n)' = Start(d, n)
  BY <1>2, StreamFrame DEF IInv
<1>4. \A d \in Client \ {c} :
         conn'[d] = conn[d] /\ buffer'[d] = buffer[d] /\ buffer_size'[d] = buffer_size[d]
  BY DEF IInv, TypeOK, accept_cb
<1>5. conn'[c] = "open" /\ buffer'[c] = <<>> /\ buffer_size'[c] = InitialSize
  BY DEF IInv, TypeOK, accept_cb
<1>6. WindowInv'
  <2>1. received[c] = 0 /\ served[c] = <<>>
    BY <1>2 DEF IInv, FreshInv
  <2>2. Start(c, 1) = 0 /\ Len(sent[c]) \in Nat
    BY SentType DEF IInv, StreamInv
  <2>3. ASSUME NEW d \in Client, conn'[d] = "open", d \notin torn'
        PROVE  /\ First(d)' \in 1..(Len(sent'[d]) + 1)
               /\ received'[d] = Start(d, First(d))' + Len(buffer'[d])
               /\ \A i \in 1..Len(buffer'[d]) :
                     buffer'[d][i] = stream'[d][Start(d, First(d))' + i]
    <3>1. First(d)' = Len(served[d]) + 1 /\ First(d) = Len(served[d]) + 1
      BY <1>2 DEF First
    <3>2. CASE d = c
      BY <1>2, <1>3, <1>5, <2>1, <2>2, <3>1, <3>2
    <3>3. CASE d # c
      BY <1>2, <1>3, <1>4, <2>3, <3>1, <3>3 DEF IInv, WindowInv
    <3>4. QED BY <3>2, <3>3
  <2>4. QED BY <2>3 DEF WindowInv
<1>7. RoomInv'
  BY <1>4, <1>5, BoundsAssumption DEF IInv, RoomInv
<1>8. FreshInv' /\ ServedInOrder'
  BY <1>2, <1>4, <1>5 DEF IInv, FreshInv, ServedInOrder
<1>9. LoopInv'
  BY <1>2 DEF LoopInv
<1>10. QED BY <1>1, <1>3, <1>6, <1>7, <1>8, <1>9 DEF IInv

(* A callback that closes the connection, or a process that ends.          *)
LEMMA EndingSteps ==
    ASSUME IInv, NEW c \in Client,
           ReallocFails(c) \/ ReadEnds(c) \/ Sigpipe(c)
    PROVE  IInv'
<1> USE DEF clientVars, loopVars
<1>1. CASE Sigpipe(c)
  <2>1. TypeOK'
    BY <1>1 DEF IInv, TypeOK, Sigpipe
  <2>2. StreamInv'
    BY <1>1, StreamFrame DEF IInv, Sigpipe
  <2>3. QED
    BY <1>1, <2>1, <2>2 DEF IInv, WindowInv, RoomInv, FreshInv, LoopInv, ServedInOrder, Sigpipe
<1>2. CASE ReallocFails(c) \/ ReadEnds(c)
  <2>1. /\ UNCHANGED <<peer, sent, stream, taken, received, replies, reset, pc, cur, out,
                        end_ptr, served, torn>>
        /\ pc = "poll"
        /\ close_connection(c)
    BY <1>2 DEF ReallocFails, ReadEnds, Readable
  <2>2. TypeOK'
    <3>1. /\ conn \in [Client -> {"idle", "backlog", "open", "closed"}]
          /\ buffer \in [Client -> Seq(Byte)] /\ buffer_size \in [Client -> Nat]
      BY DEF IInv, TypeOK
    <3>2. <<>> \in Seq(Byte)
      BY EmptySeq
    <3>3. /\ conn' \in [Client -> {"idle", "backlog", "open", "closed"}]
          /\ buffer' \in [Client -> Seq(Byte)] /\ buffer_size' \in [Client -> Nat]
      BY <2>1, <3>1, <3>2 DEF close_connection
    <3>4. QED BY <2>1, <3>3 DEF IInv, TypeOK
  <2>3. StreamInv' /\ \A d, n : Start(d, n)' = Start(d, n)
    BY <2>1, StreamFrame DEF IInv
  <2>4. \A d \in Client \ {c} :
           conn'[d] = conn[d] /\ buffer'[d] = buffer[d] /\ buffer_size'[d] = buffer_size[d]
    BY <2>1 DEF IInv, TypeOK, close_connection
  <2>5. conn'[c] = "closed"
    BY <2>1 DEF IInv, TypeOK, close_connection
  <2>6. \A d \in Client : First(d)' = First(d)
    BY <2>1 DEF First
  <2>7. WindowInv'
    BY <2>1, <2>3, <2>4, <2>5, <2>6 DEF IInv, WindowInv
  <2>8. RoomInv' /\ FreshInv' /\ LoopInv' /\ ServedInOrder'
    BY <2>1, <2>4, <2>5 DEF IInv, RoomInv, FreshInv, LoopInv, ServedInOrder
  <2>9. QED BY <2>2, <2>3, <2>7, <2>8 DEF IInv
<1>3. QED BY <1>1, <1>2

(* A request is appended to its client's stream.                           *)
LEMMA SendStep ==
    ASSUME IInv, NEW c \in Client, NEW r \in Request, Send(c, r)
    PROVE  IInv'
<1> DEFINE blk == [i \in 1..Len(Shape[r]) |-> [msg |-> Len(sent[c]) + 1, off |-> i]]
           new == [req |-> r, at |-> Len(stream[c])]
<1>1. /\ UNCHANGED <<peer, taken, conn, received, replies, reset, buffer, buffer_size,
                     pc, cur, out, end_ptr, served, torn>>
      /\ sent' = [sent EXCEPT ![c] = Append(sent[c], new)]
      /\ stream' = [stream EXCEPT ![c] = stream[c] \o blk]
  BY DEF Send, loopVars
<1>2. /\ sent \in [Client -> Seq(Message)] /\ stream \in [Client -> Seq(Byte)]
      /\ Len(sent[c]) \in Nat /\ Len(stream[c]) \in Nat
  BY SentType DEF IInv, TypeOK
<1> PICK m \in Nat : m = Len(sent[c])
  BY <1>2
<1>3. Shape[r] \in Seq(Class) /\ Len(Shape[r]) \in Nat
  BY ShapeAssumption, LenProperties
<1>4. blk \in Seq(Byte) /\ Len(blk) = Len(Shape[r]) /\ new \in Message
  <2>1. \A i \in 1..Len(Shape[r]) : [msg |-> Len(sent[c]) + 1, off |-> i] \in Byte
    BY <1>2, <1>3 DEF Byte
  <2>2. blk \in Seq(Byte) /\ Len(blk) = Len(Shape[r])
    BY <1>3, <2>1, IsASeq
  <2>3. QED BY <1>2, <2>2 DEF Message
<1> HIDE DEF blk, new
<1>5. /\ sent'[c] \in Seq(Message)
      /\ Len(sent'[c]) = Len(sent[c]) + 1
      /\ \A n \in 1..Len(sent[c]) : sent'[c][n] = sent[c][n]
      /\ sent'[c][Len(sent[c]) + 1] = new
  BY <1>1, <1>2, <1>4, AppendProperties
<1>6. /\ stream'[c] \in Seq(Byte)
      /\ Len(stream'[c]) = Len(stream[c]) + Len(Shape[r])
      /\ \A p \in 1..Len(stream[c]) : stream'[c][p] = stream[c][p]
      /\ \A o \in 1..Len(Shape[r]) :
            stream'[c][Len(stream[c]) + o] = [msg |-> Len(sent[c]) + 1, off |-> o]
  <2>1. stream'[c] = stream[c] \o blk
    BY <1>1, <1>2
  <2>2. /\ stream'[c] \in Seq(Byte)
        /\ Len(stream'[c]) = Len(stream[c]) + Len(Shape[r])
        /\ \A p \in 1..Len(stream[c]) + Len(Shape[r]) :
              stream'[c][p] = IF p <= Len(stream[c]) THEN stream[c][p]
                                                     ELSE blk[p - Len(stream[c])]
    <3>1. /\ stream[c] \o blk \in Seq(Byte)
          /\ Len(stream[c] \o blk) = Len(stream[c]) + Len(blk)
          /\ \A p \in 1..Len(stream[c]) + Len(blk) :
                (stream[c] \o blk)[p] = IF p <= Len(stream[c]) THEN stream[c][p]
                                                              ELSE blk[p - Len(stream[c])]
      <4>1. stream[c] \in Seq(Byte)
        BY <1>2
      <4>2. QED BY <1>4, <4>1, ConcatProperties, Zenon
    <3>2. QED BY <1>4, <2>1, <3>1
  <2>3. ASSUME NEW o \in 1..Len(Shape[r])
        PROVE  stream'[c][Len(stream[c]) + o] = blk[o]
    <3> DEFINE p == Len(stream[c]) + o
    <3>1. /\ p \in 1..Len(stream[c]) + Len(Shape[r])
          /\ ~(p <= Len(stream[c])) /\ p - Len(stream[c]) = o
      BY <1>2, <1>3
    <3> HIDE DEF p
    <3>2. stream'[c][p] = blk[o]
      BY <2>2, <3>1
    <3>3. QED BY <3>2 DEF p
  <2>4. ASSUME NEW o \in 1..Len(Shape[r])
        PROVE  blk[o] = [msg |-> Len(sent[c]) + 1, off |-> o]
    BY DEF blk
  <2>5. ASSUME NEW p \in 1..Len(stream[c]) PROVE stream'[c][p] = stream[c][p]
    <3>1. p \in 1..Len(stream[c]) + Len(Shape[r]) /\ p <= Len(stream[c])
      BY <1>2, <1>3
    <3>2. QED BY <2>2, <3>1
  <2>6. QED BY <2>2, <2>3, <2>4, <2>5
<1>7. \A d \in Client \ {c} : sent'[d] = sent[d] /\ stream'[d] = stream[d]
  BY <1>1, <1>2
<1>8. TypeOK'
  <2>1. sent' \in [Client -> Seq(Message)] /\ stream' \in [Client -> Seq(Byte)]
    BY <1>1, <1>2, <1>5, <1>6
  <2>2. QED BY <1>1, <2>1 DEF IInv, TypeOK
<1>9. ASSUME NEW n \in 1..(Len(sent[c]) + 1)
      PROVE  Start(c, n)' = Start(c, n)
  <2>1. CASE n \in 1..Len(sent[c])
    BY <1>2, <1>5, <2>1 DEF Start
  <2>2. CASE n = Len(sent[c]) + 1
    BY <1>2, <1>5, <2>2 DEF Start, new
  <2>3. QED BY <1>2, <2>1, <2>2
<1>10. Start(c, m + 2)' = Len(stream[c]) + Len(Shape[r])
  BY <1>2, <1>5, <1>6 DEF Start
<1>11. Start(c, Len(sent[c]) + 1) = Len(stream[c])
  BY <1>2 DEF Start
<1>12. \A d \in Client \ {c} : \A n : Start(d, n)' = Start(d, n) /\ Size(d, n)' = Size(d, n)
  BY <1>7 DEF Start, Size
<1>13. /\ \A n \in 1..Len(sent[c]) : Size(c, n)' = Size(c, n)
       /\ Size(c, m + 1)' = Len(Shape[r])
  BY <1>2, <1>5 DEF Size, new
<1>14. StreamInv'
  <2>1. ASSUME NEW d \in Client \ {c}
        PROVE  /\ Start(d, 1)' = 0
               /\ \A n \in 1..Len(sent'[d]) :
                     /\ Start(d, n + 1)' = Start(d, n)' + Size(d, n)'
                     /\ Start(d, n + 1)' <= Len(stream'[d])
               /\ \A n \in 1..Len(sent'[d]) : \A o \in 1..Size(d, n)' :
                     stream'[d][Start(d, n)' + o] = [msg |-> n, off |-> o]
    BY <1>7, <1>12 DEF IInv, StreamInv
  <2>2. Start(c, 1)' = 0
    <3>1. 1 \in 1..(Len(sent[c]) + 1)
      BY <1>2
    <3>2. QED BY <1>9, <3>1 DEF IInv, StreamInv
  <2>3. ASSUME NEW n \in 1..Len(sent'[c])
        PROVE  /\ Start(c, n + 1)' = Start(c, n)' + Size(c, n)'
               /\ Start(c, n + 1)' <= Len(stream'[c])
               /\ \A o \in 1..Size(c, n)' :
                     stream'[c][Start(c, n)' + o] = [msg |-> n, off |-> o]
    <3>1. CASE n \in 1..Len(sent[c])
      <4>1. n + 1 \in 1..(Len(sent[c]) + 1) /\ n \in 1..(Len(sent[c]) + 1)
        BY <1>2, <3>1
      <4>2. /\ Start(c, n + 1)' = Start(c, n + 1) /\ Start(c, n)' = Start(c, n)
            /\ Start(c, n) \in Nat /\ Start(c, n + 1) \in Nat /\ Size(c, n) \in Nat
            /\ Size(c, n)' = Size(c, n)
        BY <1>9, <1>13, <3>1, <4>1, SentType DEF IInv
      <4>3. /\ Start(c, n + 1) = Start(c, n) + Size(c, n)
            /\ Start(c, n + 1) <= Len(stream[c])
            /\ \A o \in 1..Size(c, n) : stream[c][Start(c, n) + o] = [msg |-> n, off |-> o]
        BY <3>1 DEF IInv, StreamInv
      <4>4. \A o \in 1..Size(c, n) : Start(c, n) + o \in 1..Len(stream[c])
        BY <1>2, <4>2, <4>3
      <4>5. Start(c, n + 1)' = Start(c, n)' + Size(c, n)' /\ Start(c, n + 1)' <= Len(stream'[c])
        BY <1>2, <1>3, <1>6, <4>2, <4>3
      <4>6. ASSUME NEW o \in 1..Size(c, n)'
            PROVE  stream'[c][Start(c, n)' + o] = [msg |-> n, off |-> o]
        BY <1>6, <4>2, <4>3, <4>4
      <4>7. QED BY <4>5, <4>6
    <3>2. CASE n = m + 1
      <4>1. Start(c, n)' = Len(stream[c])
        BY <1>2, <1>9, <1>11, <3>2
      <4>2. Start(c, n + 1)' = Len(stream[c]) + Len(Shape[r])
        BY <1>2, <1>10, <3>2
      <4>3. Size(c, n)' = Len(Shape[r])
        BY <1>13, <3>2
      <4>4. n = Len(sent[c]) + 1
        BY <3>2
      <4>5. Start(c, n + 1)' = Start(c, n)' + Size(c, n)' /\ Start(c, n + 1)' <= Len(stream'[c])
        BY <1>2, <1>3, <1>6, <4>1, <4>2, <4>3
      <4>6. \A o \in 1..Size(c, n)' : stream'[c][Start(c, n)' + o] = [msg |-> n, off |-> o]
        BY <1>6, <4>1, <4>3, <4>4
      <4>7. QED BY <4>5, <4>6
    <3>3. QED BY <1>2, <1>5, <3>1, <3>2
  <2>4. QED BY <2>1, <2>2, <2>3 DEF StreamInv
<1>15. \A d \in Client : First(d)' = First(d)
  BY <1>1 DEF First
<1>16. WindowInv'
  <2>1. ASSUME NEW d \in Client, pc # "dead", conn[d] = "open", d \notin torn
        PROVE  /\ First(d) \in 1..(Len(sent'[d]) + 1)
               /\ received[d] = Start(d, First(d))' + Len(buffer[d])
               /\ \A i \in 1..Len(buffer[d]) :
                     buffer[d][i] = stream'[d][Start(d, First(d))' + i]
    <3>1. /\ First(d) \in 1..(Len(sent[d]) + 1)
          /\ received[d] = Start(d, First(d)) + Len(buffer[d])
          /\ \A i \in 1..Len(buffer[d]) :
                buffer[d][i] = stream[d][Start(d, First(d)) + i]
          /\ received[d] <= Len(stream[d])
      BY <2>1 DEF IInv, WindowInv, FreshInv
    <3>2. CASE d # c
      BY <1>7, <1>12, <1>15, <3>1, <3>2
    <3>3. CASE d = c
      <4>1. /\ Start(d, First(d))' = Start(d, First(d))
            /\ Start(d, First(d)) \in Nat
        BY <1>9, <1>15, <3>1, <3>3, SentType DEF IInv
      <4>2. Len(buffer[d]) \in Nat
        BY LenProperties DEF IInv, TypeOK
      <4>3. \A i \in 1..Len(buffer[d]) : Start(d, First(d)) + i \in 1..Len(stream[d])
        BY <1>2, <3>1, <3>3, <4>1, <4>2
      <4>4. First(d) \in 1..(Len(sent'[d]) + 1)
        BY <1>2, <1>5, <3>1, <3>3
      <4>5. ASSUME NEW i \in 1..Len(buffer[d])
            PROVE  buffer[d][i] = stream'[d][Start(d, First(d))' + i]
        <5>1. stream[c][Start(d, First(d)) + i] = stream'[c][Start(d, First(d)) + i]
          <6>1. d = c /\ Start(d, First(d)) + i \in 1..Len(stream[c])
            BY <3>3, <4>3
          <6>2. QED BY <1>6, <6>1
        <5>2. QED BY <3>1, <3>3, <4>1, <5>1
      <4>6. QED BY <3>1, <4>1, <4>4, <4>5
    <3>4. QED BY <3>2, <3>3
  <2>2. QED BY <1>1, <1>15, <2>1 DEF WindowInv
<1>17. RoomInv'
  BY <1>1 DEF IInv, RoomInv
<1>18. FreshInv'
  <2>1. \A d \in Client : received[d] <= Len(stream'[d])
    <3>1. received[c] \in Nat
      BY DEF IInv, TypeOK
    <3>2. received[c] <= Len(stream'[c])
      BY <1>2, <1>3, <1>6, <3>1 DEF IInv, FreshInv
    <3>3. QED BY <1>7, <3>2 DEF IInv, FreshInv
  <2>2. QED BY <1>1, <2>1 DEF IInv, FreshInv
<1>19. ServedInOrder'
  <2>1. \A d \in Client : served[d] \in Seq(Nat) /\ DOMAIN served[d] = 1..Len(served[d])
    BY DEF IInv, TypeOK
  <2>2. ASSUME NEW d \in Client, NEW i \in 1..Len(served[d])
        PROVE  served[d][i] = i /\ i <= Len(sent'[d])
    <3>1. served[d][i] = i /\ i <= Len(sent[d])
      BY <2>1 DEF IInv, ServedInOrder
    <3>2. CASE d = c
      BY <1>2, <1>5, <3>1, <3>2
    <3>3. CASE d # c
      BY <1>7, <3>1, <3>3
    <3>4. QED BY <3>2, <3>3
  <2>3. QED BY <1>1, <2>1, <2>2 DEF ServedInOrder
<1>20. LoopInv'
  <2>1. CASE pc = "respond" /\ cur = c /\ c \notin torn
    <3> DEFINE k == Len(served[c])
               b == buffer[c]
               e == end_ptr
    <3>1. e \in 1..Len(b) /\ Parses(c, b, e)
      BY <2>1 DEF IInv, LoopInv
    <3>2. conn[c] = "open" /\ First(c) = k
      BY <2>1 DEF IInv, LoopInv, First
    <3>3. /\ k \in 1..(Len(sent[c]) + 1)
          /\ received[c] = Start(c, k) + Len(b)
          /\ \A i \in 1..Len(b) : b[i] = stream[c][Start(c, k) + i]
          /\ received[c] <= Len(stream[c])
      BY <2>1, <3>2 DEF IInv, WindowInv, FreshInv
    <3>4. b \in Seq(Byte)
      BY DEF IInv, TypeOK
    <3>0. b' = b /\ e' = e
      BY <1>1 DEF b
    <3> HIDE DEF k, b, e
    <3>5. k \in 1..Len(sent[c]) /\ \A i \in 1..e : b[i] = [msg |-> k, off |-> i]
      BY <3>1, <3>3, <3>4, ParsesFirst DEF IInv
    <3>6. \A i \in 1..e : ClassOf(c, b[i])' = ClassOf(c, b[i])
      <4>2. sent'[c][k] = sent[c][k]
        BY <1>5, <3>5
      <4>3. ASSUME NEW i \in 1..e
            PROVE  Shape[sent'[c][b[i].msg].req][b[i].off] = Shape[sent[c][b[i].msg].req][b[i].off]
        <5>1. b[i] = [msg |-> k, off |-> i]
          BY <3>5
        <5>2. b[i].msg = k
          BY <5>1
        <5>3. QED BY <4>2, <5>2
      <4>4. QED BY <3>0, <4>3 DEF ClassOf
    <3>7. Parses(c, b, e)'
      <4>0. Len(b) \in Nat
        BY <3>4, LenProperties
      <4>1. PICK h \in 1..Len(b) :
              /\ HeaderEnds(c, b, h)
              /\ e \in (h + 1)..Len(b)
              /\ ClassOf(c, b[e]) = "end"
              /\ InBody(c, b, h, e - 1)
        BY <3>1 DEF Parses
      <4>2. HeaderEnds(c, b, h)'
        BY <3>0, <3>6, <4>0, <4>1 DEF HeaderEnds
      <4>3. InBody(c, b, h, e - 1)'
        BY <3>0, <3>6, <4>0, <4>1 DEF InBody
      <4>4. QED BY <3>0, <3>6, <4>0, <4>1, <4>2, <4>3 DEF Parses
    <3>9. Answer(c, k)' = Answer(c, k)
      BY <1>1, <1>5, <3>5 DEF Answer, k
    <3>10. QED BY <1>1, <2>1, <3>2, <3>7, <3>9 DEF IInv, LoopInv, IsReply, k, b, e
  <2>2. CASE pc = "respond" /\ cur # c
    <3>1. sent'[cur] = sent[cur] /\ buffer' = buffer /\ cur' = cur /\ served' = served
          /\ end_ptr' = end_ptr /\ torn' = torn
      BY <1>1, <1>7, <2>2 DEF IInv, TypeOK
    <3>2. Parses(cur, buffer[cur], end_ptr)' <=> Parses(cur, buffer[cur], end_ptr)
      <4>2. buffer'[cur'] = buffer[cur] /\ sent'[cur'] = sent[cur]
        BY <3>1
      <4>3. \A i : ClassOf(cur, buffer[cur][i])' = ClassOf(cur, buffer[cur][i])
        BY <3>1, <4>2 DEF ClassOf
      <4>4. \A h : HeaderEnds(cur, buffer[cur], h)' <=> HeaderEnds(cur, buffer[cur], h)
        BY <4>2, <4>3 DEF HeaderEnds
      <4>5. \A h, n : InBody(cur, buffer[cur], h, n)' <=> InBody(cur, buffer[cur], h, n)
        BY <4>3 DEF InBody
      <4>6. QED BY <3>1, <4>2, <4>3, <4>4, <4>5 DEF Parses
    <3>3. Answer(cur, Len(served[cur]))' = Answer(cur, Len(served[cur]))
      BY <3>1 DEF Answer
    <3>4. QED BY <1>1, <2>2, <3>2, <3>3 DEF IInv, LoopInv, IsReply
  <2>3. CASE pc = "respond" /\ cur = c /\ c \in torn
    BY <1>1, <2>3 DEF IInv, LoopInv, IsReply
  <2>4. CASE pc # "respond"
    BY <1>1, <2>4 DEF IInv, LoopInv
  <2>5. QED BY <2>1, <2>2, <2>3, <2>4
<1>21. QED BY <1>8, <1>14, <1>16, <1>17, <1>18, <1>19, <1>20 DEF IInv

-----------------------------------------------------------------------------
(* What read leaves in the buffer has room and, if nothing was lost, is    *)
(* still a window.                                                         *)
LEMMA Reading ==
    ASSUME IInv, NEW c \in Client,
           NEW n \in 1..(Len(stream[c]) - received[c]), Reads(c, n)
    PROVE  LET b == Filled(c, n)
               k == Len(served[c]) + 1
           IN  /\ pc = "poll" /\ conn[c] = "open"
               /\ b \in Seq(Byte)
               /\ Grown(c) \in Nat /\ Len(b) < Grown(c)
               /\ received[c] + n \in Nat /\ received[c] + n <= Len(stream[c])
               /\ c \notin torn =>
                     /\ k \in 1..(Len(sent[c]) + 1)
                     /\ received[c] + n = Start(c, k) + Len(b)
                     /\ \A i \in 1..Len(b) : b[i] = stream[c][Start(c, k) + i]
<1> DEFINE b == Filled(c, n)
           k == Len(served[c]) + 1
           t == SubSeq(stream[c], received[c] + 1, received[c] + n)
<1>1. pc = "poll" /\ conn[c] = "open" /\ n <= MaxRead(c) /\ received[c] + n <= Len(stream[c])
  BY DEF Reads, Readable
<1>2. /\ stream[c] \in Seq(Byte) /\ buffer[c] \in Seq(Byte)
      /\ buffer_size[c] \in Nat /\ received[c] \in Nat
      /\ Len(stream[c]) \in Nat /\ Len(buffer[c]) \in Nat
      /\ n \in Nat /\ n >= 1
  BY LenProperties DEF IInv, TypeOK
<1>3. First(c) = k
  BY <1>1 DEF First
<1>6. /\ t \in Seq(Byte) /\ Len(t) = n
      /\ \A i \in 1..n : t[i] = stream[c][received[c] + i]
  <2>1. \A i \in (received[c] + 1)..(received[c] + n) : stream[c][i] \in Byte
    BY <1>1, <1>2, ElementOfSeq
  <2>2. /\ t \in Seq(Byte)
        /\ Len(t) = IF received[c] + 1 <= received[c] + n
                      THEN (received[c] + n) - (received[c] + 1) + 1 ELSE 0
        /\ \A i \in 1..((received[c] + n) - (received[c] + 1) + 1) :
              t[i] = stream[c][(received[c] + 1) + i - 1]
    <3>1. received[c] + 1 \in Int /\ received[c] + n \in Int
      BY <1>2
    <3>2. QED BY <2>1, <3>1, SubSeqProperties
  <2> HIDE DEF t
  <2>3. (received[c] + n) - (received[c] + 1) + 1 = n
    BY <1>2
  <2>4. \A i \in 1..n : (received[c] + 1) + i - 1 = received[c] + i
    BY <1>2
  <2>5. Len(t) = n
    BY <1>2, <2>2, <2>3
  <2>6. ASSUME NEW i \in 1..n PROVE t[i] = stream[c][received[c] + i]
    <3>1. i \in 1..((received[c] + n) - (received[c] + 1) + 1)
      BY <2>3
    <3>2. t[i] = stream[c][(received[c] + 1) + i - 1]
      BY <2>2, <3>1
    <3>3. QED BY <2>4, <3>2
  <2>7. QED BY <2>2, <2>5, <2>6
<1> HIDE DEF t
<1>7. /\ b \in Seq(Byte) /\ Len(b) = Len(buffer[c]) + n
      /\ \A i \in 1..Len(buffer[c]) + n :
            b[i] = IF i <= Len(buffer[c]) THEN buffer[c][i] ELSE t[i - Len(buffer[c])]
  <2>1. b = buffer[c] \o t
    BY DEF Filled, t
  <2>2. /\ buffer[c] \o t \in Seq(Byte) /\ Len(buffer[c] \o t) = Len(buffer[c]) + Len(t)
        /\ \A i \in 1..Len(buffer[c]) + Len(t) :
              (buffer[c] \o t)[i] = IF i <= Len(buffer[c]) THEN buffer[c][i]
                                                           ELSE t[i - Len(buffer[c])]
    <3>1. buffer[c] \in Seq(Byte) /\ t \in Seq(Byte)
      BY <1>2, <1>6
    <3>2. QED BY <3>1, ConcatProperties, Zenon
  <2>3. QED BY <1>6, <2>1, <2>2
<1> HIDE DEF b, k
<1>4. c \notin torn =>
        /\ k \in 1..(Len(sent[c]) + 1)
        /\ received[c] = Start(c, k) + Len(buffer[c])
        /\ \A i \in 1..Len(buffer[c]) : buffer[c][i] = stream[c][Start(c, k) + i]
  BY <1>1, <1>3 DEF IInv, WindowInv
<1>5. c \notin torn => Start(c, k) \in Nat
  BY <1>4, SentType DEF IInv
<1>8. ASSUME c \notin torn, NEW i \in 1..Len(b)
      PROVE  b[i] = stream[c][Start(c, k) + i]
  <2>1. CASE i <= Len(buffer[c])
    <3>1. i \in 1..Len(buffer[c]) /\ i \in 1..Len(buffer[c]) + n
      BY <1>2, <1>7, <2>1
    <3>2. QED BY <1>4, <1>7, <1>8, <2>1, <3>1
  <2>2. CASE ~(i <= Len(buffer[c]))
    <3> DEFINE j == i - Len(buffer[c])
    <3>1. j \in 1..n /\ i \in 1..Len(buffer[c]) + n /\ received[c] + j = Start(c, k) + i
      <4>1. i <= Len(buffer[c]) + n /\ i > Len(buffer[c]) /\ i \in Nat
        BY <1>2, <1>7, <2>2
      <4>2. received[c] = Start(c, k) + Len(buffer[c]) /\ Start(c, k) \in Nat
        BY <1>4, <1>5, <1>8
      <4>3. QED BY <1>2, <4>1, <4>2
    <3>2. b[i] = t[j]
      BY <1>7, <2>2, <3>1
    <3> HIDE DEF j
    <3>3. QED BY <1>6, <3>1, <3>2
  <2>3. QED BY <2>1, <2>2
<1>9. Grown(c) \in Nat /\ Len(b) < Grown(c)
  <2>1. Grown(c) \in Nat
    BY <1>2 DEF Grown
  <2>2. n <= Grown(c) - Len(buffer[c]) - 1
    BY <1>1 DEF MaxRead
  <2>3. Len(b) = Len(buffer[c]) + n
    BY <1>7
  <2>4. QED BY <1>2, <2>1, <2>2, <2>3
<1>10. c \notin torn => received[c] + n = Start(c, k) + Len(b)
  BY <1>2, <1>4, <1>5, <1>7
<1>11. received[c] + n \in Nat
  BY <1>2
<1>12. QED BY <1>1, <1>4, <1>7, <1>8, <1>9, <1>10, <1>11 DEF b, k

(* What is kept is a beginning of what follows the request.                *)
LEMMA Keeping ==
    ASSUME NEW b \in Seq(Byte), NEW e \in 1..Len(b), NEW full \in BOOLEAN,
           NEW kept \in Kept(Len(b), e, full)
    PROVE  LET u == SubSeq(b, e + 1, e + kept)
           IN  /\ kept \in Nat /\ kept <= Len(b) - e
               /\ u \in Seq(Byte) /\ Len(u) = kept /\ Len(u) < Len(b)
               /\ \A i \in 1..kept : u[i] = b[e + i]
<1> DEFINE u == SubSeq(b, e + 1, e + kept)
<1>1. Len(b) \in Nat /\ e \in Nat /\ e >= 1 /\ e <= Len(b)
  BY LenProperties
<1>2. kept \in Nat /\ kept <= Len(b) - e
  BY <1>1 DEF Kept
<1>3. \A i \in (e + 1)..(e + kept) : b[i] \in Byte
  BY <1>1, <1>2, ElementOfSeq
<1>4. /\ u \in Seq(Byte)
      /\ Len(u) = IF e + 1 <= e + kept THEN (e + kept) - (e + 1) + 1 ELSE 0
      /\ \A i \in 1..((e + kept) - (e + 1) + 1) : u[i] = b[(e + 1) + i - 1]
  <2>1. e + 1 \in Int /\ e + kept \in Int
    BY <1>1, <1>2
  <2>2. QED BY <1>3, <2>1, SubSeqProperties
<1> HIDE DEF u
<1>5. Len(u) = kept /\ (e + kept) - (e + 1) + 1 = kept
  BY <1>1, <1>2, <1>4
<1>6. ASSUME NEW i \in 1..kept PROVE u[i] = b[e + i]
  <2>1. (e + 1) + i - 1 = e + i
    BY <1>1
  <2>2. u[i] = b[(e + 1) + i - 1]
    BY <1>4, <1>5
  <2>3. QED BY <2>1, <2>2
<1>7. Len(u) < Len(b)
  BY <1>1, <1>2, <1>5
<1>8. QED BY <1>2, <1>4, <1>5, <1>6, <1>7 DEF u

(* Shifting the served request out and keeping the rest leaves a window on *)
(* the next message.                                                       *)
LEMMA Shifting ==
    ASSUME TypeOK, StreamInv,
           NEW c \in Client, NEW b \in Seq(Byte),
           NEW k \in 1..(Len(sent[c]) + 1),
           Start(c, k) + Len(b) <= Len(stream[c]),
           \A i \in 1..Len(b) : b[i] = stream[c][Start(c, k) + i],
           NEW e \in 1..Len(b), Parses(c, b, e),
           NEW u \in Seq(Byte), Len(u) = Len(b) - e,
           \A i \in 1..Len(u) : u[i] = b[e + i]
    PROVE  /\ k + 1 \in 1..(Len(sent[c]) + 1)
           /\ Start(c, k + 1) + Len(u) = Start(c, k) + Len(b)
           /\ \A i \in 1..Len(u) : u[i] = stream[c][Start(c, k + 1) + i]
<1>1. k \in 1..Len(sent[c]) /\ e = Size(c, k)
  BY ParsesFirst
<1>2. Len(b) \in Nat /\ Len(sent[c]) \in Nat /\ e \in Nat /\ e >= 1 /\ e <= Len(b)
  BY LenProperties, SentType
<1>3. k + 1 \in 1..(Len(sent[c]) + 1)
  BY <1>1, <1>2
<1>4. Start(c, k) \in Nat /\ Start(c, k + 1) = Start(c, k) + e
  BY <1>1, SentType DEF StreamInv
<1>5. ASSUME NEW i \in 1..Len(u)
      PROVE  u[i] = stream[c][Start(c, k + 1) + i]
  <2>1. e + i \in 1..Len(b)
    BY <1>2
  <2>2. Start(c, k) + (e + i) = Start(c, k + 1) + i
    BY <1>2, <1>4
  <2>3. b[e + i] = stream[c][Start(c, k) + (e + i)]
    BY <2>1
  <2>4. QED BY <2>2, <2>3
<1>6. Start(c, k + 1) + Len(u) = Start(c, k) + Len(b)
  BY <1>2, <1>4
<1>7. QED BY <1>3, <1>5, <1>6

(* The two outcomes of a shift: a window on the next message, or a loss.   *)
LEMMA ShiftOutcome ==
    ASSUME IInv, NEW c \in Client, NEW b \in Seq(Byte), NEW e \in 1..Len(b), NEW size,
           Shift(c, b, e, size)
    PROVE  \E u \in Seq(Byte) :
              /\ buffer' = [buffer EXCEPT ![c] = u]
              /\ Len(u) < Len(b)
              /\ torn' \subseteq Client
              /\ \A d \in Client \ {c} : d \in torn' <=> d \in torn
              /\ c \in torn => c \in torn'
              /\ c \notin torn' => /\ Len(u) = Len(b) - e
                                   /\ \A i \in 1..Len(u) : u[i] = b[e + i]
<1>1. PICK kept \in Kept(Len(b), e, Len(b) = size - 1) :
        /\ buffer' = [buffer EXCEPT ![c] = SubSeq(b, e + 1, e + kept)]
        /\ torn' = IF kept < Len(b) - e THEN torn \union {c} ELSE torn
  BY DEF Shift
<1> DEFINE u == SubSeq(b, e + 1, e + kept)
<1>2. PICK full \in BOOLEAN : full = (Len(b) = size - 1)
  OBVIOUS
<1>3. kept \in Kept(Len(b), e, full)
  BY <1>1, <1>2
<1>4. /\ kept \in Nat /\ kept <= Len(b) - e
      /\ u \in Seq(Byte) /\ Len(u) = kept /\ Len(u) < Len(b)
      /\ \A i \in 1..kept : u[i] = b[e + i]
  BY <1>3, Keeping
<1> HIDE DEF u
<1>5. torn \subseteq Client /\ Len(b) \in Nat
  BY LenProperties DEF IInv, TypeOK
<1>6. /\ torn' \subseteq Client
      /\ \A d \in Client \ {c} : d \in torn' <=> d \in torn
      /\ c \in torn => c \in torn'
  BY <1>1, <1>5
<1>7. c \notin torn' => Len(u) = Len(b) - e
  BY <1>1, <1>4, <1>5
<1>8. buffer' = [buffer EXCEPT ![c] = u]
  BY <1>1 DEF u
<1>9. QED BY <1>4, <1>6, <1>7, <1>8

-----------------------------------------------------------------------------
(* One connection moves, the others keep their windows.                    *)
LEMMA WindowStep ==
    ASSUME IInv, NEW c \in Client,
           UNCHANGED <<sent, stream>>,
           pc = "poll" \/ cur = c,
           pc' # "respond" \/ cur' = c,
           pc # "dead",
           \A d \in Client \ {c} :
               /\ conn'[d] = conn[d] /\ buffer'[d] = buffer[d]
               /\ received'[d] = received[d] /\ served'[d] = served[d]
               /\ d \in torn' <=> d \in torn,
           NEW k, k = First(c)',
           conn'[c] = "open" /\ pc' # "dead" /\ c \notin torn' =>
               /\ k \in 1..(Len(sent[c]) + 1)
               /\ received'[c] = Start(c, k) + Len(buffer'[c])
               /\ \A i \in 1..Len(buffer'[c]) : buffer'[c][i] = stream[c][Start(c, k) + i]
    PROVE  WindowInv'
<1>1. sent' = sent /\ stream' = stream /\ \A d, m : Start(d, m)' = Start(d, m)
  BY StreamFrame DEF IInv
<1>2. SUFFICES ASSUME NEW d \in Client, pc' # "dead", conn'[d] = "open", d \notin torn',
                      NEW f, f = First(d)'
               PROVE  /\ f \in 1..(Len(sent[d]) + 1)
                      /\ received'[d] = Start(d, f) + Len(buffer'[d])
                      /\ \A i \in 1..Len(buffer'[d]) :
                            buffer'[d][i] = stream[d][Start(d, f) + i]
  BY <1>1 DEF WindowInv
<1>3. CASE d = c
  BY <1>2, <1>3
<1>4. CASE d # c
  <2>1. f = First(d)
    BY <1>2, <1>4 DEF First
  <2>2. QED BY <1>2, <1>4, <2>1 DEF IInv, WindowInv
<1>5. QED BY <1>3, <1>4

(* The callback reads and the parser is content to wait, or is not.        *)
LEMMA AwaitOrRefuseStep ==
    ASSUME IInv, NEW c \in Client,
           NEW n \in 1..(Len(stream[c]) - received[c]),
           AwaitMore(c, n) \/ RefuseInput(c, n)
    PROVE  IInv'
<1> DEFINE b == Filled(c, n)
<1>1. /\ Reads(c, n)
      /\ UNCHANGED <<peer, sent, stream, taken, conn, replies, reset, end_ptr, served, torn>>
      /\ buffer' = [buffer EXCEPT ![c] = b]
      /\ received' = [received EXCEPT ![c] = received[c] + n]
      /\ buffer_size' = [buffer_size EXCEPT ![c] = Grown(c)]
  BY DEF AwaitMore, RefuseInput, Reads, clientVars, loopVars
<1>2. /\ pc = "poll" /\ conn[c] = "open"
      /\ b \in Seq(Byte)
      /\ Grown(c) \in Nat /\ Len(b) < Grown(c)
      /\ received[c] + n \in Nat /\ received[c] + n <= Len(stream[c])
      /\ c \notin torn =>
            /\ Len(served[c]) + 1 \in 1..(Len(sent[c]) + 1)
            /\ received[c] + n = Start(c, Len(served[c]) + 1) + Len(b)
            /\ \A i \in 1..Len(b) : b[i] = stream[c][Start(c, Len(served[c]) + 1) + i]
  BY <1>1, Reading
<1> HIDE DEF b
<1>3. \/ UNCHANGED <<pc, cur, out>>
      \/ pc' = "refuse" /\ cur' = c /\ out' = [id |-> 0, body |-> ErrorReply]
  BY DEF AwaitMore, RefuseInput, loopVars
<1>4. /\ buffer \in [Client -> Seq(Byte)] /\ received \in [Client -> Nat]
      /\ buffer_size \in [Client -> Nat]
  BY DEF IInv, TypeOK
<1>5. /\ buffer' \in [Client -> Seq(Byte)] /\ received' \in [Client -> Nat]
      /\ buffer_size' \in [Client -> Nat]
      /\ buffer'[c] = b /\ received'[c] = received[c] + n /\ buffer_size'[c] = Grown(c)
      /\ \A d \in Client \ {c} : /\ buffer'[d] = buffer[d] /\ received'[d] = received[d]
                                /\ buffer_size'[d] = buffer_size[d]
  BY <1>1, <1>2, <1>4
<1>6. TypeOK'
  <2>1. [id |-> 0, body |-> ErrorReply] \in [id : Nat, body : Replies \union {NoReply}]
    BY DEF Replies
  <2>2. /\ pc' \in {"poll", "respond", "refuse", "dead"} /\ cur' \in Client
        /\ out' \in [id : Nat, body : Replies \union {NoReply}]
    BY <1>3, <2>1 DEF IInv, TypeOK
  <2>3. QED BY <1>1, <1>5, <2>2 DEF IInv, TypeOK
<1>7. StreamInv'
  BY <1>1, StreamFrame DEF IInv
<1>8. WindowInv'
  <2>1. First(c)' = Len(served[c]) + 1
    BY <1>1, <1>2, <1>3 DEF First
  <2>2. PICK k : k = Len(served[c]) + 1
    OBVIOUS
  <2>3. pc' # "respond" /\ pc' # "dead"
    BY <1>2, <1>3
  <2>4. c \notin torn' =>
          /\ k \in 1..(Len(sent[c]) + 1)
          /\ received'[c] = Start(c, k) + Len(buffer'[c])
          /\ \A i \in 1..Len(buffer'[c]) : buffer'[c][i] = stream[c][Start(c, k) + i]
    BY <1>1, <1>2, <1>5, <2>2
  <2>5. \A d \in Client \ {c} :
           /\ conn'[d] = conn[d] /\ buffer'[d] = buffer[d]
           /\ received'[d] = received[d] /\ served'[d] = served[d]
           /\ d \in torn' <=> d \in torn
    BY <1>1, <1>5
  <2>6. k = First(c)' /\ UNCHANGED <<sent, stream>> /\ pc = "poll" /\ pc # "dead"
    BY <1>1, <1>2, <2>1, <2>2
  <2>7. QED BY <2>3, <2>4, <2>5, <2>6, WindowStep
<1>9. RoomInv'
  BY <1>1, <1>2, <1>5 DEF IInv, RoomInv
<1>10. FreshInv' /\ ServedInOrder'
  BY <1>1, <1>2, <1>5 DEF IInv, FreshInv, ServedInOrder
<1>11. LoopInv'
  BY <1>1, <1>2, <1>3 DEF LoopInv
<1>12. QED BY <1>6, <1>7, <1>8, <1>9, <1>10, <1>11 DEF IInv

(* The callback dispatches the first request of the buffer.                *)
LEMMA ServeStep ==
    ASSUME IInv, NEW c \in Client,
           NEW n \in 1..(Len(stream[c]) - received[c]), ServeRequest(c, n)
    PROVE  IInv'
<1> DEFINE b == Filled(c, n)
<1>1. /\ Reads(c, n)
      /\ UNCHANGED <<peer, sent, stream, taken, conn, replies, reset>>
      /\ received' = [received EXCEPT ![c] = received[c] + n]
      /\ buffer_size' = [buffer_size EXCEPT ![c] = Grown(c)]
  BY DEF ServeRequest, Reads, clientVars
<1>2. PICK k : k = Len(served[c]) + 1
  OBVIOUS
<1>3. /\ pc = "poll" /\ conn[c] = "open"
      /\ b \in Seq(Byte) /\ Len(b) \in Nat
      /\ Grown(c) \in Nat /\ Len(b) < Grown(c)
      /\ received[c] + n \in Nat /\ received[c] + n <= Len(stream[c])
      /\ c \notin torn =>
            /\ k \in 1..(Len(sent[c]) + 1)
            /\ received[c] + n = Start(c, k) + Len(b)
            /\ \A i \in 1..Len(b) : b[i] = stream[c][Start(c, k) + i]
  BY <1>1, <1>2, Reading, LenProperties
<1>4. PICK e \in 1..Len(b), m \in 0..Len(sent[c]), r \in Request :
        /\ Finds(c, b, e, m, r)
        /\ served' = IF m = 0 THEN served ELSE [served EXCEPT ![c] = Append(served[c], m)]
        /\ \/ /\ pc' = "dead"
              /\ buffer' = [buffer EXCEPT ![c] = b]
              /\ UNCHANGED <<cur, out, end_ptr, torn>>
           \/ /\ Shift(c, b, e, Grown(c))
              /\ UNCHANGED <<pc, cur, out, end_ptr>>
           \/ /\ IsReply(Outcome[r])
              /\ pc' = "respond"
              /\ cur' = c
              /\ out' = [id |-> m, body |-> Outcome[r]]
              /\ end_ptr' = e
              /\ buffer' = [buffer EXCEPT ![c] = b]
              /\ UNCHANGED torn
  BY DEF ServeRequest, loopVars
<1> HIDE DEF b
<1>5. c \notin torn => k \in 1..Len(sent[c]) /\ Parses(c, b, e) /\ m = k /\ r = sent[c][k].req
  <2> SUFFICES ASSUME c \notin torn
               PROVE  k \in 1..Len(sent[c]) /\ Parses(c, b, e) /\ m = k /\ r = sent[c][k].req
    OBVIOUS
  <2>1. Parses(c, b, e) /\ m = b[e].msg /\ r = sent[c][m].req
    BY <1>4 DEF Finds
  <2>2. k \in 1..Len(sent[c]) /\ e = Size(c, k)
        /\ \A i \in 1..e : b[i] = [msg |-> k, off |-> i]
    <3>1. /\ k \in 1..(Len(sent[c]) + 1) /\ b \in Seq(Byte)
          /\ Start(c, k) + Len(b) <= Len(stream[c])
          /\ \A i \in 1..Len(b) : b[i] = stream[c][Start(c, k) + i]
      BY <1>3
    <3>2. TypeOK /\ StreamInv
      BY DEF IInv
    <3>3. QED BY <2>1, <3>1, <3>2, ParsesFirst
  <2>3. e \in 1..e
    BY <1>4
  <2>4. b[e] = [msg |-> k, off |-> e]
    BY <2>2, <2>3
  <2>5. QED BY <2>1, <2>2, <2>4
<1>6. c \in torn => m = 0
  BY <1>4 DEF Finds
<1>7. PICK nb \in Seq(Byte) :
        /\ buffer' = [buffer EXCEPT ![c] = nb]
        /\ Len(nb) <= Len(b)
        /\ torn' \subseteq Client
        /\ \A d \in Client \ {c} : d \in torn' <=> d \in torn
        /\ c \in torn => c \in torn'
        /\ \/ pc' = "dead" /\ UNCHANGED <<cur, out, end_ptr>>
           \/ /\ UNCHANGED <<pc, cur, out, end_ptr>>
              /\ c \notin torn' => /\ Len(nb) = Len(b) - e
                                   /\ \A i \in 1..Len(nb) : nb[i] = b[e + i]
           \/ /\ nb = b /\ IsReply(Outcome[r]) /\ pc' = "respond" /\ cur' = c
              /\ out' = [id |-> m, body |-> Outcome[r]]
              /\ end_ptr' = e /\ torn' = torn
  <2>1. CASE Shift(c, b, e, Grown(c)) /\ UNCHANGED <<pc, cur, out, end_ptr>>
    <3>1. PICK u \in Seq(Byte) :
              /\ buffer' = [buffer EXCEPT ![c] = u]
              /\ Len(u) < Len(b)
              /\ torn' \subseteq Client
              /\ \A d \in Client \ {c} : d \in torn' <=> d \in torn
              /\ c \in torn => c \in torn'
              /\ c \notin torn' => /\ Len(u) = Len(b) - e
                                   /\ \A i \in 1..Len(u) : u[i] = b[e + i]
      BY <1>3, <2>1, ShiftOutcome
    <3>2. Len(u) \in Nat /\ Len(u) <= Len(b)
      BY <1>3, <3>1, LenProperties
    <3>3. QED BY <2>1, <3>1, <3>2
  <2>2. CASE buffer' = [buffer EXCEPT ![c] = b] /\ UNCHANGED torn
    <3>1. /\ b \in Seq(Byte) /\ buffer' = [buffer EXCEPT ![c] = b] /\ Len(b) <= Len(b)
          /\ torn' = torn /\ torn' \subseteq Client
          /\ \A d \in Client \ {c} : d \in torn' <=> d \in torn
          /\ c \in torn => c \in torn'
      BY <1>3, <2>2 DEF IInv, TypeOK
    <3>2. CASE pc' = "dead" /\ UNCHANGED <<cur, out, end_ptr>>
      BY <3>1, <3>2, Zenon
    <3>3. CASE /\ IsReply(Outcome[r]) /\ pc' = "respond" /\ cur' = c
               /\ out' = [id |-> m, body |-> Outcome[r]] /\ end_ptr' = e
      BY <3>1, <3>3, Zenon
    <3>4. CASE Shift(c, b, e, Grown(c)) /\ UNCHANGED <<pc, cur, out, end_ptr>>
      BY <2>1, <3>4
    <3>5. QED BY <1>4, <3>2, <3>3, <3>4
  <2>3. QED BY <1>4, <2>1, <2>2
<1>8. /\ buffer \in [Client -> Seq(Byte)] /\ received \in [Client -> Nat]
      /\ buffer_size \in [Client -> Nat] /\ served \in [Client -> Seq(Nat)]
      /\ served[c] \in Seq(Nat) /\ Len(served[c]) \in Nat /\ k \in Nat
      /\ Len(sent[c]) \in Nat /\ m \in Nat
  <2>1. Len(sent[c]) \in Nat
    BY SentType DEF IInv
  <2>2. m \in Nat
    BY <1>4, <2>1
  <2>3. /\ buffer \in [Client -> Seq(Byte)] /\ received \in [Client -> Nat]
        /\ buffer_size \in [Client -> Nat] /\ served \in [Client -> Seq(Nat)]
        /\ served[c] \in Seq(Nat)
    BY DEF IInv, TypeOK
  <2>4. Len(served[c]) \in Nat
    BY <2>3, LenProperties
  <2>5. QED BY <1>2, <2>1, <2>2, <2>3, <2>4
<1>9. Len(nb) \in Nat /\ Len(nb) < Grown(c)
  BY <1>3, <1>7, LenProperties
<1>10. /\ served' \in [Client -> Seq(Nat)]
       /\ \A d \in Client \ {c} : served'[d] = served[d]
       /\ m = 0 => served'[c] = served[c]
       /\ m # 0 => /\ c \notin torn /\ m = k
                   /\ Len(served'[c]) = k
                   /\ \A i \in 1..Len(served[c]) : served'[c][i] = served[c][i]
                   /\ served'[c][k] = k
  <2>1. CASE m = 0
    BY <1>4, <1>8, <2>1
  <2>2. CASE m # 0
    <3>1. c \notin torn /\ m = k
      BY <1>5, <1>6, <2>2
    <3>2. served' = [served EXCEPT ![c] = Append(served[c], k)]
      BY <1>4, <2>2, <3>1
    <3>3. /\ Append(served[c], k) \in Seq(Nat)
          /\ Len(Append(served[c], k)) = k
          /\ \A i \in 1..Len(served[c]) : Append(served[c], k)[i] = served[c][i]
          /\ Append(served[c], k)[k] = k
      BY <1>2, <1>8, AppendProperties
    <3>4. QED BY <1>8, <2>2, <3>1, <3>2, <3>3
  <2>3. QED BY <2>1, <2>2
<1>11. /\ buffer' \in [Client -> Seq(Byte)] /\ received' \in [Client -> Nat]
       /\ buffer_size' \in [Client -> Nat]
       /\ buffer'[c] = nb /\ received'[c] = received[c] + n /\ buffer_size'[c] = Grown(c)
       /\ \A d \in Client \ {c} :
             /\ buffer'[d] = buffer[d] /\ received'[d] = received[d]
             /\ buffer_size'[d] = buffer_size[d]
  BY <1>1, <1>3, <1>7, <1>8, <1>9
<1>12. TypeOK'
  <2>1. IsReply(Outcome[r]) => Outcome[r] \in Replies
    BY DEF Replies, IsReply
  <2>2. /\ pc' \in {"poll", "respond", "refuse", "dead"} /\ cur' \in Client
        /\ out' \in [id : Nat, body : Replies \union {NoReply}]
        /\ end_ptr' \in Nat
    <3>1. /\ pc \in {"poll", "respond", "refuse", "dead"} /\ cur \in Client
          /\ out \in [id : Nat, body : Replies \union {NoReply}] /\ end_ptr \in Nat
      BY DEF IInv, TypeOK
    <3>2. IsReply(Outcome[r])
             => [id |-> m, body |-> Outcome[r]] \in [id : Nat, body : Replies \union {NoReply}]
      BY <1>8, <2>1
    <3>3. QED BY <1>3, <1>7, <3>1, <3>2
  <2>3. QED BY <1>1, <1>7, <1>10, <1>11, <2>2 DEF IInv, TypeOK
<1>13. StreamInv'
  BY <1>1, StreamFrame DEF IInv
<1>14. ASSUME c \notin torn PROVE m = k /\ m # 0 /\ Len(served'[c]) = k /\ k \in 1..Len(sent[c])
  BY <1>5, <1>8, <1>10, <1>14
<1>15. WindowInv'
  <2>1. CASE pc' = "dead"
    BY <2>1 DEF WindowInv
  <2> DEFINE f == First(c)'
  <2>2. CASE UNCHANGED <<pc, cur, out, end_ptr>> /\ (c \notin torn' =>
                 Len(nb) = Len(b) - e /\ \A i \in 1..Len(nb) : nb[i] = b[e + i])
    <3>1. ASSUME c \notin torn'
          PROVE  /\ f \in 1..(Len(sent[c]) + 1)
                 /\ received'[c] = Start(c, f) + Len(buffer'[c])
                 /\ \A i \in 1..Len(buffer'[c]) : buffer'[c][i] = stream[c][Start(c, f) + i]
      <4>1. c \notin torn
        BY <1>7, <3>1
      <4>2. f = k + 1
        BY <1>3, <1>14, <2>2, <4>1 DEF First
      <4> HIDE DEF f
      <4>3. /\ k \in 1..(Len(sent[c]) + 1) /\ Parses(c, b, e)
            /\ Start(c, k) + Len(b) <= Len(stream[c])
            /\ \A i \in 1..Len(b) : b[i] = stream[c][Start(c, k) + i]
        BY <1>3, <1>5, <4>1
      <4>4. /\ k + 1 \in 1..(Len(sent[c]) + 1)
            /\ Start(c, k + 1) + Len(nb) = Start(c, k) + Len(b)
            /\ \A i \in 1..Len(nb) : nb[i] = stream[c][Start(c, k + 1) + i]
        <5>1. TypeOK /\ StreamInv
          BY DEF IInv
        <5>2. Len(nb) = Len(b) - e /\ \A i \in 1..Len(nb) : nb[i] = b[e + i]
          BY <2>2, <3>1
        <5>3. QED BY <1>3, <4>3, <5>1, <5>2, Shifting
      <4>5. QED BY <1>3, <1>11, <4>1, <4>2, <4>4
    <3>2. pc' # "respond" /\ pc # "dead" /\ pc = "poll" /\ UNCHANGED <<sent, stream>>
      BY <1>1, <1>3, <2>2
    <3>3. \A d \in Client \ {c} :
             /\ conn'[d] = conn[d] /\ buffer'[d] = buffer[d]
             /\ received'[d] = received[d] /\ served'[d] = served[d]
             /\ d \in torn' <=> d \in torn
      BY <1>1, <1>7, <1>10, <1>11
    <3>4. PICK g : g = f
      OBVIOUS
    <3>5. QED BY <3>1, <3>2, <3>3, <3>4, WindowStep
  <2>3. CASE nb = b /\ pc' = "respond" /\ cur' = c /\ torn' = torn
    <3>1. ASSUME c \notin torn'
          PROVE  /\ f \in 1..(Len(sent[c]) + 1)
                 /\ received'[c] = Start(c, f) + Len(buffer'[c])
                 /\ \A i \in 1..Len(buffer'[c]) : buffer'[c][i] = stream[c][Start(c, f) + i]
      <4>1. c \notin torn
        BY <1>7, <3>1
      <4>2. f = k
        BY <1>14, <2>3, <4>1 DEF First
      <4> HIDE DEF f
      <4>3. QED BY <1>3, <1>11, <2>3, <4>1, <4>2
    <3>2. cur' = c /\ pc # "dead" /\ pc = "poll" /\ UNCHANGED <<sent, stream>>
      BY <1>1, <1>3, <2>3
    <3>3. \A d \in Client \ {c} :
             /\ conn'[d] = conn[d] /\ buffer'[d] = buffer[d]
             /\ received'[d] = received[d] /\ served'[d] = served[d]
             /\ d \in torn' <=> d \in torn
      BY <1>1, <1>7, <1>10, <1>11
    <3>4. PICK g : g = f
      OBVIOUS
    <3>5. QED BY <3>1, <3>2, <3>3, <3>4, WindowStep
  <2>4. QED BY <1>7, <2>1, <2>2, <2>3
<1>16. RoomInv'
  BY <1>1, <1>9, <1>11 DEF IInv, RoomInv
<1>17. FreshInv'
  BY <1>1, <1>3, <1>10, <1>11 DEF IInv, FreshInv
<1>18. ServedInOrder'
  <2>1. \A d \in Client : /\ served'[d] \in Seq(Nat) /\ DOMAIN served'[d] = 1..Len(served'[d])
                         /\ served[d] \in Seq(Nat) /\ DOMAIN served[d] = 1..Len(served[d])
    BY <1>8, <1>10
  <2>2. ASSUME NEW d \in Client, NEW i \in 1..Len(served'[d])
        PROVE  served'[d][i] = i /\ i <= Len(sent[d])
    <3>1. CASE d = c /\ m # 0
      <4>1. i \in 1..k /\ k <= Len(sent[c])
        BY <1>5, <1>8, <1>10, <3>1
      <4>2. CASE i = k
        <5>1. served'[c][k] = k
          BY <1>10, <3>1
        <5>2. QED BY <3>1, <4>1, <4>2, <5>1
      <4>3. CASE i # k
        <5>1. i \in 1..Len(served[c])
          BY <1>2, <1>8, <4>1, <4>3
        <5>2. i \in DOMAIN served[c]
          BY <2>1, <5>1
        <5>3. served[c][i] = i /\ i <= Len(sent[c])
          BY <5>2 DEF IInv, ServedInOrder
        <5>4. QED BY <1>10, <3>1, <5>1, <5>3
      <4>4. QED BY <4>2, <4>3
    <3>2. CASE d # c \/ m = 0
      <4>1. served'[d] = served[d] /\ i \in DOMAIN served[d]
        BY <1>10, <2>1, <3>2
      <4>2. QED BY <4>1 DEF IInv, ServedInOrder
    <3>3. QED BY <3>1, <3>2
  <2>3. QED BY <1>1, <2>1, <2>2 DEF ServedInOrder
<1>19. LoopInv'
  <2>1. CASE nb = b /\ IsReply(Outcome[r]) /\ pc' = "respond" /\ cur' = c
             /\ out' = [id |-> m, body |-> Outcome[r]] /\ end_ptr' = e /\ torn' = torn
    <3>1. conn'[cur'] = "open"
      BY <1>1, <1>3, <2>1
    <3>2. end_ptr' \in 1..Len(buffer'[cur']) /\ IsReply(out'.body)
      BY <1>11, <2>1
    <3>3. ASSUME cur' \notin torn'
          PROVE  /\ Parses(cur, buffer[cur], end_ptr)'
                 /\ out' = [id |-> Len(served[cur])', body |-> Answer(cur, Len(served[cur]))']
      <4>1. c \notin torn
        BY <2>1, <3>3
      <4>2. buffer'[cur'] = b /\ sent'[cur'] = sent[c] /\ end_ptr' = e /\ cur' = c
        BY <1>1, <1>11, <2>1
      <4>3. Parses(cur, buffer[cur], end_ptr)'
        <5>1. \A i : ClassOf(cur, buffer[cur][i])' = ClassOf(c, b[i])
          BY <4>2 DEF ClassOf
        <5>2. \A h : HeaderEnds(cur, buffer[cur], h)' <=> HeaderEnds(c, b, h)
          BY <4>2, <5>1 DEF HeaderEnds
        <5>3. \A h, j : InBody(cur, buffer[cur], h, j)' <=> InBody(c, b, h, j)
          BY <5>1 DEF InBody
        <5>4. Parses(cur, buffer[cur], end_ptr)' <=> Parses(c, b, e)
          BY <4>2, <5>1, <5>2, <5>3 DEF Parses
        <5>5. QED BY <1>5, <4>1, <5>4
      <4>4. Len(served'[cur']) = k /\ m = k /\ r = sent[c][k].req
        BY <1>5, <1>14, <2>1, <4>1
      <4>5. Answer(cur, Len(served[cur]))' = Outcome[r]
        BY <4>2, <4>4 DEF Answer
      <4>6. QED BY <2>1, <4>3, <4>4, <4>5
    <3>4. QED BY <2>1, <3>1, <3>2, <3>3 DEF LoopInv, IsReply
  <2>2. CASE pc' \notin {"respond", "refuse"}
    BY <2>2 DEF LoopInv
  <2>3. QED BY <1>3, <1>7, <2>1, <2>2
<1>20. QED BY <1>12, <1>13, <1>15, <1>16, <1>17, <1>18, <1>19 DEF IInv

(* The write returns; the request is shifted out or the connection closed. *)
LEMMA WriteStep ==
    ASSUME IInv, NEW c \in Client, send_response(c)
    PROVE  IInv'
<1>1. /\ UNCHANGED <<peer, sent, stream, taken, received, served, cur>>
      /\ pc \in {"respond", "refuse"} /\ cur = c /\ pc' = "poll" /\ out' = None /\ end_ptr' = 0
      /\ \/ reset' = reset /\ replies' = [replies EXCEPT ![c] = Append(replies[c], out)]
         \/ reset' = reset \union {c} /\ replies' = replies
      /\ AfterWrite(c)
  BY DEF send_response, AfterWrite, clientVars
<1>2. /\ conn \in [Client -> {"idle", "backlog", "open", "closed"}]
      /\ buffer \in [Client -> Seq(Byte)] /\ buffer_size \in [Client -> Nat]
      /\ replies \in [Client -> Seq(Reply)] /\ reset \subseteq Client
      /\ buffer[c] \in Seq(Byte) /\ Len(buffer[c]) \in Nat /\ torn \subseteq Client
  BY LenProperties DEF IInv, TypeOK
<1>3. conn[c] = "open"
  BY <1>1 DEF IInv, LoopInv
<1>4. reset' \subseteq Client /\ replies' \in [Client -> Seq(Reply)]
      /\ \A d \in Client \ {c} : replies'[d] = replies[d]
  <2>1. out \in Reply
    BY <1>1 DEF IInv, LoopInv, TypeOK, Reply, IsReply, Replies
  <2>2. Append(replies[c], out) \in Seq(Reply)
    BY <1>2, <2>1, AppendProperties
  <2>3. QED BY <1>1, <1>2, <2>2
<1>5. out' \in [id : Nat, body : Replies \union {NoReply}]
  BY <1>1 DEF None
<1>6. StreamInv' /\ \A d, m : Start(d, m)' = Start(d, m)
  BY <1>1, StreamFrame DEF IInv
<1>7. ServedInOrder' /\ LoopInv'
  BY <1>1 DEF IInv, ServedInOrder, LoopInv
<1>8. CASE pc = "respond"
  <2> DEFINE b == buffer[c]
             e == end_ptr
  <2>1. UNCHANGED <<conn, buffer_size>> /\ Shift(c, b, e, buffer_size[c])
    BY <1>1, <1>8 DEF AfterWrite
  <2>2. e \in 1..Len(b) /\ (c \notin torn => Parses(c, b, e))
    BY <1>1, <1>8 DEF IInv, LoopInv
  <2>3. b \in Seq(Byte)
    BY <1>2
  <2> HIDE DEF b, e
  <2>4. PICK u \in Seq(Byte) :
          /\ buffer' = [buffer EXCEPT ![c] = u]
          /\ Len(u) < Len(b)
          /\ torn' \subseteq Client
          /\ \A d \in Client \ {c} : d \in torn' <=> d \in torn
          /\ c \in torn => c \in torn'
          /\ c \notin torn' => /\ Len(u) = Len(b) - e
                               /\ \A i \in 1..Len(u) : u[i] = b[e + i]
    BY <2>1, <2>2, <2>3, ShiftOutcome
  <2>5. /\ buffer' \in [Client -> Seq(Byte)]
        /\ buffer'[c] = u
        /\ \A d \in Client \ {c} : buffer'[d] = buffer[d]
    BY <1>2, <2>4
  <2>6. TypeOK'
    <3>1. end_ptr' \in Nat
      BY <1>1
    <3>2. QED BY <1>1, <1>4, <1>5, <2>1, <2>4, <2>5, <3>1 DEF IInv, TypeOK
  <2>7. WindowInv'
    <3>1. PICK k : k = Len(served[c])
      OBVIOUS
    <3>2. First(c) = k /\ First(c)' = k + 1
      BY <1>1, <1>8, <3>1 DEF First
    <3>3. PICK f : f = k + 1
      OBVIOUS
    <3>4. ASSUME c \notin torn'
          PROVE  /\ f \in 1..(Len(sent[c]) + 1)
                 /\ received'[c] = Start(c, f) + Len(buffer'[c])
                 /\ \A i \in 1..Len(buffer'[c]) : buffer'[c][i] = stream[c][Start(c, f) + i]
      <4>1. c \notin torn
        BY <2>4, <3>4
      <4>2. /\ k \in 1..(Len(sent[c]) + 1)
            /\ received[c] = Start(c, k) + Len(b)
            /\ \A i \in 1..Len(b) : b[i] = stream[c][Start(c, k) + i]
            /\ received[c] <= Len(stream[c])
        BY <1>3, <1>8, <3>2, <4>1 DEF IInv, WindowInv, FreshInv, b
      <4>3. Start(c, k) + Len(b) <= Len(stream[c])
        BY <4>2
      <4>4. /\ k + 1 \in 1..(Len(sent[c]) + 1)
            /\ Start(c, k + 1) + Len(u) = Start(c, k) + Len(b)
            /\ \A i \in 1..Len(u) : u[i] = stream[c][Start(c, k + 1) + i]
        <5>1. TypeOK /\ StreamInv /\ Parses(c, b, e)
          BY <2>2, <4>1 DEF IInv
        <5>2. /\ k \in 1..(Len(sent[c]) + 1)
              /\ \A i \in 1..Len(b) : b[i] = stream[c][Start(c, k) + i]
              /\ Len(u) = Len(b) - e /\ \A i \in 1..Len(u) : u[i] = b[e + i]
          BY <2>4, <3>4, <4>2
        <5>3. QED BY <2>2, <2>3, <4>3, <5>1, <5>2, Shifting
      <4>5. QED BY <1>1, <2>5, <3>3, <4>2, <4>4
    <3>5. pc' # "respond" /\ pc # "dead" /\ cur = c /\ UNCHANGED <<sent, stream>> /\ f = First(c)'
      BY <1>1, <3>2, <3>3
    <3>6. \A d \in Client \ {c} :
             /\ conn'[d] = conn[d] /\ buffer'[d] = buffer[d]
             /\ received'[d] = received[d] /\ served'[d] = served[d]
             /\ d \in torn' <=> d \in torn
      BY <1>1, <2>1, <2>4, <2>5
    <3>7. QED BY <3>4, <3>5, <3>6, WindowStep
  <2>8. RoomInv'
    <3>1. buffer_size[c] \in Nat /\ Len(b) < buffer_size[c]
      BY <1>2, <1>3 DEF IInv, RoomInv, b
    <3>2. Len(u) \in Nat /\ Len(b) \in Nat
      BY <2>3, LenProperties
    <3>3. Len(buffer'[c]) < buffer_size[c]
      BY <2>4, <2>5, <3>1, <3>2
    <3>4. QED BY <2>1, <2>5, <3>3 DEF IInv, RoomInv
  <2>9. FreshInv'
    BY <1>1, <1>3, <1>4, <2>1 DEF IInv, FreshInv
  <2>10. QED BY <1>6, <1>7, <2>6, <2>7, <2>8, <2>9 DEF IInv
<1>9. CASE pc = "refuse"
  <2>1. close_connection(c) /\ torn' = torn
    BY <1>1, <1>9 DEF AfterWrite
  <2>2. <<>> \in Seq(Byte)
    BY EmptySeq
  <2>3. /\ conn' \in [Client -> {"idle", "backlog", "open", "closed"}]
        /\ buffer' \in [Client -> Seq(Byte)] /\ buffer_size' \in [Client -> Nat]
        /\ conn'[c] = "closed"
        /\ \A d \in Client \ {c} : /\ conn'[d] = conn[d] /\ buffer'[d] = buffer[d]
                                  /\ buffer_size'[d] = buffer_size[d]
    BY <1>2, <2>1, <2>2 DEF close_connection
  <2>4. TypeOK'
    <3>1. end_ptr' \in Nat
      BY <1>1
    <3>2. QED BY <1>1, <1>4, <1>5, <2>1, <2>3, <3>1 DEF IInv, TypeOK
  <2>5. WindowInv'
    <3>1. PICK f : f = First(c)'
      OBVIOUS
    <3>2. pc' # "respond" /\ pc # "dead"
      BY <1>1
    <3>3. QED BY <1>1, <2>1, <2>3, <3>1, <3>2, WindowStep
  <2>6. RoomInv' /\ FreshInv'
    BY <1>1, <1>4, <2>3 DEF IInv, RoomInv, FreshInv
  <2>7. QED BY <1>6, <1>7, <2>4, <2>5, <2>6 DEF IInv
<1>10. QED BY <1>1, <1>8, <1>9

-----------------------------------------------------------------------------
(* IInv is an inductive invariant of the connection server.                *)
LEMMA NextIInv == IInv /\ [Next]_vars => IInv'
<1> SUFFICES ASSUME IInv, [Next]_vars PROVE IInv'
  OBVIOUS
<1>1. CASE UNCHANGED vars
  <2>1. /\ sent' = sent /\ stream' = stream /\ buffer' = buffer /\ cur' = cur /\ pc' = pc
        /\ served' = served /\ out' = out /\ conn' = conn /\ received' = received
        /\ buffer_size' = buffer_size /\ replies' = replies /\ peer' = peer
        /\ taken' = taken /\ reset' = reset /\ end_ptr' = end_ptr /\ torn' = torn
    BY <1>1 DEF vars
  <2>2. StreamInv' /\ \A d, n : Start(d, n)' = Start(d, n)
    BY <2>1, StreamFrame DEF IInv
  <2>3. \A d : First(d)' = First(d)
    BY <2>1 DEF First
  <2>4. Parses(cur, buffer[cur], end_ptr)' <=> Parses(cur, buffer[cur], end_ptr)
    BY <2>1 DEF Parses, HeaderEnds, InBody, ClassOf
  <2>5. TypeOK'
    BY <2>1 DEF IInv, TypeOK
  <2>6. WindowInv'
    BY <2>1, <2>2, <2>3 DEF IInv, WindowInv
  <2>7. LoopInv'
    BY <2>1, <2>4 DEF IInv, LoopInv, Answer, IsReply
  <2>8. QED BY <2>1, <2>2, <2>5, <2>6, <2>7 DEF IInv, RoomInv, FreshInv, ServedInOrder
<1>2. ASSUME NEW c \in Client, ClientStep(c) PROVE IInv'
  BY <1>2, QuietSteps, SendStep DEF ClientStep
<1>3. ASSUME NEW c \in Client, ServerStep(c) PROVE IInv'
  <2>1. CASE accept_cb(c)
    BY <2>1, AcceptStep
  <2>2. CASE connection_cb(c)
    BY <2>2, EndingSteps, ServeStep, AwaitOrRefuseStep DEF connection_cb
  <2>3. CASE send_response(c)
    BY <2>3, WriteStep
  <2>4. CASE Sigpipe(c)
    BY <2>4, EndingSteps
  <2>5. QED BY <1>3, <2>1, <2>2, <2>3, <2>4 DEF ServerStep
<1>4. QED BY <1>1, <1>2, <1>3 DEF Next

THEOREM Invariance == Spec => []IInv
<1>1. Init => IInv
  BY InitIInv
<1>2. IInv /\ [Next]_vars => IInv'
  BY NextIInv
<1>3. QED BY <1>1, <1>2, PTL DEF Spec

(* jsonrpc-c.c: every variable keeps its type; in particular what is       *)
(* written back is a reply, never the absent reply of a notification.      *)
THEOREM TypeCorrect == Spec => []TypeOK
<1>1. IInv => TypeOK
  BY DEF IInv
<1>2. QED BY <1>1, Invariance, PTL

(* jsonrpc-c.c:104-115: the buffer keeps room for its NUL and read is      *)
(* never asked for zero bytes.                                             *)
THEOREM ReadAlwaysHasRoom == Spec => []ReadHasRoom
<1>1. IInv => ReadHasRoom
  <2> SUFFICES ASSUME IInv, NEW c \in Client, conn[c] = "open"
               PROVE  Len(buffer[c]) < buffer_size[c] /\ MaxRead(c) > 0
    BY DEF ReadHasRoom
  <2>1. Len(buffer[c]) < buffer_size[c]
    BY DEF IInv, RoomInv
  <2>2. Len(buffer[c]) \in Nat /\ buffer_size[c] \in Nat
    BY LenProperties DEF IInv, TypeOK
  <2>3. QED BY <2>1, <2>2 DEF MaxRead, Grown, BufferFull
<1>2. QED BY <1>1, Invariance, PTL

(* jsonrpc-c.c:130-155: requests are dispatched in the order sent, each    *)
(* once, however they are split, buffered and shifted.                     *)
THEOREM DispatchInOrder == Spec => []ServedInOrder
<1>1. IInv => ServedInOrder
  BY DEF IInv
<1>2. QED BY <1>1, Invariance, PTL

(* jsonrpc-c.c:115-156: no byte is lost or read twice, except by a shift   *)
(* that follows a request no longer than the bytes behind it.              *)
THEOREM BytesKept == Spec => []OnlyShiftsTear
<1>1. IInv => OnlyShiftsTear
  <2> SUFFICES ASSUME IInv, pc = "poll", NEW c \in Client \ torn, conn[c] = "open",
                      NEW s, s = Start(c, Len(served[c]) + 1)
               PROVE  /\ received[c] - Len(buffer[c]) = s
                      /\ buffer[c] = SubSeq(stream[c], s + 1, received[c])
    BY DEF OnlyShiftsTear, Whole
  <2> DEFINE t == SubSeq(stream[c], s + 1, received[c])
  <2>1. First(c) = Len(served[c]) + 1
    BY DEF First
  <2>2. /\ First(c) \in 1..(Len(sent[c]) + 1)
        /\ received[c] = s + Len(buffer[c])
        /\ \A i \in 1..Len(buffer[c]) : buffer[c][i] = stream[c][s + i]
        /\ received[c] <= Len(stream[c])
    BY <2>1 DEF IInv, WindowInv, FreshInv
  <2>3. /\ buffer[c] \in Seq(Byte) /\ Len(buffer[c]) \in Nat /\ received[c] \in Nat
        /\ s \in Nat /\ stream[c] \in Seq(Byte) /\ Len(stream[c]) \in Nat
    BY <2>1, <2>2, SentType, LenProperties DEF IInv, TypeOK
  <2>4. /\ t \in Seq(Byte)
        /\ Len(t) = IF s + 1 <= received[c] THEN received[c] - (s + 1) + 1 ELSE 0
        /\ \A i \in 1..(received[c] - (s + 1) + 1) : t[i] = stream[c][(s + 1) + i - 1]
    <3>1. \A i \in (s + 1)..received[c] : stream[c][i] \in Byte
      BY <2>2, <2>3, ElementOfSeq
    <3>2. s + 1 \in Int /\ received[c] \in Int
      BY <2>3
    <3>3. QED BY <3>1, <3>2, SubSeqProperties
  <2> HIDE DEF t
  <2>5. Len(t) = Len(buffer[c]) /\ received[c] - (s + 1) + 1 = Len(buffer[c])
    BY <2>2, <2>3, <2>4
  <2>6. ASSUME NEW i \in 1..Len(buffer[c]) PROVE t[i] = buffer[c][i]
    <3>1. (s + 1) + i - 1 = s + i
      BY <2>3
    <3>2. t[i] = stream[c][(s + 1) + i - 1]
      BY <2>4, <2>5
    <3>3. QED BY <2>2, <3>1, <3>2
  <2>7. buffer[c] = t
    BY <2>3, <2>4, <2>5, <2>6, SeqEqual
  <2>8. received[c] - Len(buffer[c]) = s
    BY <2>2, <2>3
  <2>9. QED BY <2>7, <2>8 DEF t
<1>2. QED BY <1>1, Invariance, PTL

-----------------------------------------------------------------------------
(* A client that waits for each reply has at most one request under way.   *)
InHand(c) == IF pc = "respond" /\ cur = c THEN 1 ELSE 0

PatientInv ==
    /\ torn = {}
    /\ \A c \in Client : taken[c] <= Len(replies[c])
    /\ \A c \in Client : conn[c] # "closed" =>
          /\ Len(replies[c]) + InHand(c) <= Len(served[c])
          /\ Len(sent[c]) + InHand(c) <= Len(served[c]) + 1

(* Nothing follows the last request in a buffer: shifting it loses nothing.*)
LEMMA LastShift ==
    ASSUME TypeOK, StreamInv,
           NEW c \in Client, NEW b \in Seq(Byte),
           NEW k \in 1..(Len(sent[c]) + 1), k >= Len(sent[c]),
           Start(c, k) + Len(b) <= Len(stream[c]),
           \A i \in 1..Len(b) : b[i] = stream[c][Start(c, k) + i],
           NEW e \in 1..Len(b), Parses(c, b, e),
           NEW size, Shift(c, b, e, size)
    PROVE  torn' = torn
<1>1. /\ Len(b) \in Nat /\ Len(sent[c]) \in Nat /\ Len(stream[c]) \in Nat
      /\ e \in Nat /\ e <= Len(b)
  BY LenProperties, SentType
<1>2. k \in 1..Len(sent[c]) /\ e = Size(c, k)
  BY ParsesFirst
<1>3. k = Len(sent[c])
  BY <1>1, <1>2
<1>4. Start(c, k) \in Nat /\ Start(c, k + 1) = Start(c, k) + e
  BY <1>2, SentType DEF StreamInv
<1>5. Start(c, k + 1) = Len(stream[c])
  BY <1>1, <1>3 DEF Start
<1>6. Len(b) - e = 0
  BY <1>1, <1>4, <1>5
<1>7. PICK kept \in Kept(Len(b), e, Len(b) = size - 1) :
        torn' = IF kept < Len(b) - e THEN torn \union {c} ELSE torn
  BY DEF Shift
<1>8. kept = 0
  <2>1. CASE Len(b) = size - 1
    BY <1>1, <1>6, <1>7, <2>1 DEF Kept
  <2>2. CASE ~(Len(b) = size - 1)
    BY <1>1, <1>6, <1>7, <2>2 DEF Kept
  <2>3. QED BY <2>1, <2>2
<1>9. QED BY <1>6, <1>7, <1>8

LEMMA PatientStep ==
    ASSUME Window <= 1, IInv, PatientInv, [Next]_vars
    PROVE  PatientInv'
<1>1. \A d \in Client :
        /\ taken[d] \in Nat /\ Len(replies[d]) \in Nat /\ Len(served[d]) \in Nat
        /\ Len(sent[d]) \in Nat /\ replies[d] \in Seq(Reply) /\ served[d] \in Seq(Nat)
        /\ InHand(d) \in {0, 1} /\ InHand(d)' \in {0, 1}
  BY LenProperties DEF IInv, TypeOK, InHand
<1>2. /\ taken \in [Client -> Nat] /\ replies \in [Client -> Seq(Reply)]
      /\ served \in [Client -> Seq(Nat)] /\ sent \in [Client -> Seq(Message)]
      /\ conn \in [Client -> {"idle", "backlog", "open", "closed"}]
  BY DEF IInv, TypeOK
<1>3. CASE UNCHANGED vars
  BY <1>3 DEF PatientInv, InHand, vars
<1>4. ASSUME NEW c \in Client, ClientStep(c) PROVE PatientInv'
  <2>1. /\ UNCHANGED <<pc, cur, torn, replies, served>>
        /\ \A d \in Client : InHand(d)' = InHand(d)
    BY <1>4 DEF ClientStep, Connect, HalfClose, Leave, TakeReply, Send, loopVars,
                clientVars, InHand
  <2>2. CASE Connect(c)
    <3>1. UNCHANGED <<sent, taken>> /\ \A d \in Client : conn'[d] = "closed" <=> conn[d] = "closed"
      BY <1>2, <2>2 DEF Connect, clientVars
    <3>2. QED BY <2>1, <3>1 DEF PatientInv
  <2>3. CASE HalfClose(c) \/ Leave(c)
    BY <2>1, <2>3 DEF PatientInv, HalfClose, Leave
  <2>4. CASE TakeReply(c)
    <3>1. /\ UNCHANGED <<sent, conn>> /\ taken[c] < Len(replies[c])
          /\ taken'[c] = taken[c] + 1 /\ \A d \in Client \ {c} : taken'[d] = taken[d]
      BY <1>2, <2>4 DEF TakeReply
    <3>2. \A d \in Client : taken'[d] <= Len(replies[d])
      BY <1>1, <3>1 DEF PatientInv
    <3>3. QED BY <2>1, <3>1, <3>2 DEF PatientInv
  <2>5. ASSUME NEW r \in Request, Send(c, r) PROVE PatientInv'
    <3>1. /\ UNCHANGED <<taken, conn>> /\ conn[c] # "closed"
          /\ Len(sent[c]) - taken[c] < Window
          /\ sent' = [sent EXCEPT ![c] = Append(sent[c], [req |-> r, at |-> Len(stream[c])])]
      BY <2>5 DEF Send
    <3>2. Len(sent'[c]) = Len(sent[c]) + 1 /\ \A d \in Client \ {c} : sent'[d] = sent[d]
      <4>1. Len(stream[c]) \in Nat
        BY SentType DEF IInv
      <4>2. [req |-> r, at |-> Len(stream[c])] \in Message /\ sent[c] \in Seq(Message)
        BY <1>2, <4>1 DEF Message
      <4>3. QED BY <1>2, <3>1, <4>2, AppendProperties
    <3>3. /\ taken[c] <= Len(replies[c])
          /\ Len(replies[c]) + InHand(c) <= Len(served[c])
      BY <3>1 DEF PatientInv
    <3>4. Len(sent'[c]) + InHand(c) <= Len(served[c]) + 1
      <4>1. /\ taken[c] \in Nat /\ Len(replies[c]) \in Nat /\ Len(served[c]) \in Nat
            /\ Len(sent[c]) \in Nat /\ InHand(c) \in Nat /\ Window \in Nat
        BY <1>1, BoundsAssumption
      <4>2. Len(sent[c]) <= taken[c]
        BY <3>1, <4>1
      <4>3. Len(sent[c]) + InHand(c) <= Len(served[c])
        BY <3>3, <4>1, <4>2
      <4>4. QED BY <3>2, <4>1, <4>3
    <3>5. QED BY <2>1, <3>1, <3>2, <3>4 DEF PatientInv
  <2>6. QED BY <1>4, <2>2, <2>3, <2>4, <2>5 DEF ClientStep
<1>5. ASSUME NEW c \in Client, accept_cb(c) PROVE PatientInv'
  <2>1. /\ UNCHANGED <<sent, taken, replies, served, torn, pc, cur>>
        /\ \A d \in Client : conn'[d] = "closed" <=> conn[d] = "closed"
    BY <1>2, <1>5 DEF accept_cb, clientVars, loopVars
  <2>2. QED BY <2>1 DEF PatientInv, InHand
<1>6. ASSUME NEW c \in Client, ReallocFails(c) \/ ReadEnds(c) PROVE PatientInv'
  <2>1. /\ UNCHANGED <<sent, taken, replies, served, torn, pc, cur>>
        /\ \A d \in Client : conn'[d] # "closed" => conn[d] # "closed"
    BY <1>2, <1>6 DEF ReallocFails, ReadEnds, close_connection, clientVars, loopVars
  <2>2. QED BY <2>1 DEF PatientInv, InHand
<1>7. ASSUME NEW c \in Client, NEW n \in 1..(Len(stream[c]) - received[c]),
             AwaitMore(c, n) \/ RefuseInput(c, n)
      PROVE  PatientInv'
  <2>1. /\ UNCHANGED <<sent, taken, replies, served, torn, conn>>
        /\ pc = "poll" /\ (pc' = "poll" \/ pc' = "refuse")
    BY <1>7 DEF AwaitMore, RefuseInput, Reads, Readable, clientVars, loopVars
  <2>2. \A d \in Client : InHand(d)' = InHand(d)
    BY <2>1 DEF InHand
  <2>3. QED BY <2>1, <2>2 DEF PatientInv
<1>8. ASSUME NEW c \in Client, NEW n \in 1..(Len(stream[c]) - received[c]), ServeRequest(c, n)
      PROVE  PatientInv'
  <2> DEFINE b == Filled(c, n)
             k == Len(served[c]) + 1
  <2>1. Reads(c, n) /\ UNCHANGED <<sent, taken, replies, conn>>
    BY <1>8 DEF ServeRequest, clientVars
  <2>2. /\ pc = "poll" /\ conn[c] = "open" /\ b \in Seq(Byte)
        /\ k \in 1..(Len(sent[c]) + 1)
        /\ Start(c, k) + Len(b) <= Len(stream[c])
        /\ \A i \in 1..Len(b) : b[i] = stream[c][Start(c, k) + i]
    BY <2>1, Reading DEF PatientInv
  <2>3. PICK e \in 1..Len(b), m \in 0..Len(sent[c]), r \in Request :
          /\ Finds(c, b, e, m, r)
          /\ served' = IF m = 0 THEN served ELSE [served EXCEPT ![c] = Append(served[c], m)]
          /\ \/ pc' = "dead" /\ torn' = torn
             \/ Shift(c, b, e, Grown(c)) /\ pc' = pc
             \/ pc' = "respond" /\ cur' = c /\ torn' = torn
    BY <1>8 DEF ServeRequest, loopVars
  <2> HIDE DEF b, k
  <2>4. Parses(c, b, e) /\ m = b[e].msg
    BY <2>3 DEF Finds, PatientInv
  <2>5. TypeOK /\ StreamInv
    BY DEF IInv
  <2>6. k \in 1..Len(sent[c]) /\ e = Size(c, k) /\ \A i \in 1..e : b[i] = [msg |-> k, off |-> i]
    BY <2>2, <2>4, <2>5, ParsesFirst
  <2>7. m = k
    <3>1. e \in 1..e
      BY <2>3
    <3>2. b[e] = [msg |-> k, off |-> e]
      BY <2>6, <3>1
    <3>3. QED BY <2>4, <3>2
  <2>8. k = Len(served[c]) + 1 /\ k \in Nat /\ m # 0
    BY <1>1, <2>7 DEF k
  <2>9. InHand(c) = 0 /\ \A d \in Client : InHand(d) = 0
    BY <2>2 DEF InHand
  <2>10. Len(sent[c]) <= k /\ Len(replies[c]) < k
    BY <1>1, <2>2, <2>8, <2>9 DEF PatientInv
  <2>11. torn' = torn
    <3>1. k >= Len(sent[c])
      BY <1>1, <2>8, <2>10
    <3>2. Shift(c, b, e, Grown(c)) => torn' = torn
      BY <2>2, <2>4, <2>5, <3>1, LastShift
    <3>3. QED BY <2>3, <3>2
  <2>12. Len(served'[c]) = k /\ \A d \in Client \ {c} : served'[d] = served[d]
    <3>1. served' = [served EXCEPT ![c] = Append(served[c], k)]
      BY <2>3, <2>7, <2>8
    <3>2. Len(Append(served[c], k)) = Len(served[c]) + 1
      BY <1>1, <2>8, AppendProperties
    <3>3. QED BY <1>2, <2>8, <3>1, <3>2
  <2>13. \A d \in Client \ {c} : InHand(d)' = 0
    BY <2>2, <2>3 DEF InHand
  <2>14. \A d \in Client : conn'[d] # "closed" =>
            /\ Len(replies[d]) + InHand(d)' <= Len(served'[d])
            /\ Len(sent[d]) + InHand(d)' <= Len(served'[d]) + 1
    <3> SUFFICES ASSUME NEW d \in Client, conn'[d] # "closed"
                 PROVE  /\ Len(replies[d]) + InHand(d)' <= Len(served'[d])
                        /\ Len(sent[d]) + InHand(d)' <= Len(served'[d]) + 1
      OBVIOUS
    <3>1. CASE d = c
      <4>1. /\ InHand(c)' \in {0, 1} /\ Len(replies[c]) \in Nat /\ Len(sent[c]) \in Nat
            /\ k \in Nat /\ Len(sent[c]) <= k /\ Len(replies[c]) < k /\ Len(served'[c]) = k
        BY <1>1, <2>8, <2>10, <2>12
      <4>2. QED BY <3>1, <4>1
    <3>2. CASE d # c
      BY <1>1, <2>1, <2>9, <2>12, <2>13, <3>2 DEF PatientInv
    <3>3. QED BY <3>1, <3>2
  <2>15. QED BY <2>1, <2>11, <2>14 DEF PatientInv
<1>9. ASSUME NEW c \in Client, send_response(c) PROVE PatientInv'
  <2>1. /\ UNCHANGED <<sent, taken, served, received, cur>>
        /\ pc \in {"respond", "refuse"} /\ cur = c /\ pc' = "poll"
        /\ \/ replies' = [replies EXCEPT ![c] = Append(replies[c], out)]
           \/ replies' = replies
        /\ AfterWrite(c) /\ conn[c] = "open"
    BY <1>9 DEF send_response, AfterWrite, clientVars, IInv, LoopInv
  <2>2. /\ Len(replies'[c]) <= Len(replies[c]) + 1 /\ Len(replies[c]) <= Len(replies'[c])
        /\ \A d \in Client \ {c} : replies'[d] = replies[d]
    <3>1. out \in Reply
      BY <2>1 DEF IInv, LoopInv, TypeOK, Reply, IsReply, Replies
    <3>2. Len(Append(replies[c], out)) = Len(replies[c]) + 1
      BY <1>1, <3>1, AppendProperties
    <3>3. QED BY <1>1, <1>2, <2>1, <3>2
  <2>3. torn' = torn
    <3>1. CASE pc = "refuse"
      BY <2>1, <3>1 DEF AfterWrite
    <3>2. CASE pc = "respond"
      <4> DEFINE b == buffer[c]
                 e == end_ptr
                 k == Len(served[c])
      <4>1. Shift(c, b, e, buffer_size[c])
        BY <2>1, <3>2 DEF AfterWrite
      <4>2. TypeOK /\ StreamInv /\ b \in Seq(Byte) /\ e \in 1..Len(b) /\ Parses(c, b, e)
        BY <2>1, <3>2 DEF IInv, TypeOK, LoopInv, PatientInv
      <4>3. First(c) = k /\ InHand(c) = 1
        BY <2>1, <3>2 DEF First, InHand
      <4>4. /\ k \in 1..(Len(sent[c]) + 1)
            /\ received[c] = Start(c, k) + Len(b) /\ received[c] <= Len(stream[c])
            /\ \A i \in 1..Len(b) : b[i] = stream[c][Start(c, k) + i]
        BY <2>1, <4>3 DEF IInv, WindowInv, FreshInv, PatientInv
      <4>5. k >= Len(sent[c])
        BY <1>1, <2>1, <4>3 DEF PatientInv
      <4>6. Start(c, k) + Len(b) <= Len(stream[c])
        BY <4>4
      <4> HIDE DEF b, e, k
      <4>7. QED BY <4>1, <4>2, <4>4, <4>5, <4>6, LastShift
    <3>3. QED BY <2>1, <3>1, <3>2
  <2>4. \A d \in Client : InHand(d)' = 0
    BY <2>1 DEF InHand
  <2>5. \A d \in Client \ {c} : conn'[d] = conn[d]
    BY <1>2, <2>1 DEF AfterWrite, close_connection
  <2>6. \A d \in Client : taken[d] <= Len(replies'[d])
    <3> SUFFICES ASSUME NEW d \in Client PROVE taken[d] <= Len(replies'[d])
      OBVIOUS
    <3>1. taken[d] <= Len(replies[d])
      BY DEF PatientInv
    <3>2. CASE d = c
      <4>1. Len(replies'[c]) \in Nat
        BY LenProperties, NextIInv DEF IInv, TypeOK
      <4>2. QED BY <1>1, <2>2, <3>1, <3>2, <4>1
    <3>3. CASE d # c
      BY <2>2, <3>1, <3>3
    <3>4. QED BY <3>2, <3>3
  <2>7. ASSUME NEW d \in Client, conn'[d] # "closed"
        PROVE  /\ Len(replies'[d]) <= Len(served[d])
               /\ Len(sent[d]) <= Len(served[d]) + 1
    <3>1. CASE d = c
      <4>1. pc = "respond" /\ InHand(c) = 1
        <5>1. pc # "refuse"
          BY <1>2, <2>1, <2>7, <3>1 DEF AfterWrite, close_connection
        <5>2. QED BY <2>1, <5>1 DEF InHand
      <4>2. Len(replies[c]) + 1 <= Len(served[c]) /\ Len(sent[c]) + 1 <= Len(served[c]) + 1
        BY <2>1, <4>1 DEF PatientInv
      <4>3. Len(replies'[c]) \in Nat
        BY LenProperties, NextIInv DEF IInv, TypeOK
      <4>4. QED BY <1>1, <2>2, <3>1, <4>2, <4>3
    <3>2. CASE d # c
      <4>1. /\ Len(replies[d]) + InHand(d) <= Len(served[d])
            /\ Len(sent[d]) + InHand(d) <= Len(served[d]) + 1
        BY <2>5, <2>7, <3>2 DEF PatientInv
      <4>2. QED BY <1>1, <2>2, <3>2, <4>1
    <3>3. QED BY <3>1, <3>2
  <2>8. \A d \in Client : conn'[d] # "closed" =>
           /\ Len(replies'[d]) + InHand(d)' <= Len(served'[d])
           /\ Len(sent'[d]) + InHand(d)' <= Len(served'[d]) + 1
    <3> SUFFICES ASSUME NEW d \in Client, conn'[d] # "closed"
                 PROVE  /\ Len(replies'[d]) + InHand(d)' <= Len(served'[d])
                        /\ Len(sent'[d]) + InHand(d)' <= Len(served'[d]) + 1
      OBVIOUS
    <3>1. Len(replies'[d]) \in Nat
      BY LenProperties, NextIInv DEF IInv, TypeOK
    <3>2. QED BY <1>1, <2>1, <2>4, <2>7, <3>1
  <2>9. QED BY <2>1, <2>3, <2>6, <2>8 DEF PatientInv
<1>10. ASSUME NEW c \in Client, Sigpipe(c) PROVE PatientInv'
  <2>1. UNCHANGED <<sent, taken, replies, served, torn, conn>> /\ pc' = "dead"
    BY <1>10 DEF Sigpipe, clientVars
  <2>2. \A d \in Client : InHand(d)' = 0
    BY <2>1 DEF InHand
  <2>3. \A d \in Client : conn[d] # "closed" =>
           /\ Len(replies[d]) + InHand(d)' <= Len(served[d])
           /\ Len(sent[d]) + InHand(d)' <= Len(served[d]) + 1
    BY <1>1, <2>2 DEF PatientInv
  <2>4. QED BY <2>1, <2>3 DEF PatientInv
<1>11. QED
  BY <1>3, <1>4, <1>5, <1>6, <1>7, <1>8, <1>9, <1>10 DEF Next, ServerStep, connection_cb

(* jsonrpc-c.c:151-156: a client that waits for each reply before it sends *)
(* again never loses a byte.                                               *)
THEOREM PatientClientsLoseNothing ==
    ASSUME Window <= 1
    PROVE  Spec => []NothingLost
<1>1. Init => PatientInv
  <2>1. Len(<<>>) = 0
    BY EmptySeq
  <2>2. QED BY <2>1 DEF Init, PatientInv, InHand
<1>2. IInv /\ IInv' /\ PatientInv /\ [Next]_vars => PatientInv'
  BY PatientStep
<1>3. PatientInv /\ OnlyShiftsTear => NothingLost
  BY DEF PatientInv, OnlyShiftsTear, NothingLost
<1>4. QED BY <1>1, <1>2, <1>3, Invariance, BytesKept, PTL DEF Spec

-----------------------------------------------------------------------------
(* The replies.                                                            *)

\* RepliesMatchRequests, one connection.
Matched(c) ==
    \A j \in DOMAIN replies[c] :
        /\ \A i \in 1..(j - 1) :
              /\ replies[c][i].id # 0
              /\ replies[c][j].id # 0 => replies[c][i].id < replies[c][j].id
        /\ LET n == replies[c][j].id
           IN IF n = 0 THEN replies[c][j].body = ErrorReply
              ELSE n \in DOMAIN served[c] /\ replies[c][j].body = Answer(c, n)

\* As long as a connection is open, what was sent back answers requests that
\* were dispatched before the one in hand.
Earlier(c) ==
    conn[c] # "closed" =>
        \A j \in DOMAIN replies[c] : replies[c][j].id \in 1..(Len(served[c]) - InHand(c))

RepliesInv == \A c \in Client \ torn : Matched(c) /\ Earlier(c)

\* A request that was dispatched has its reply, or it is in the loop's hands.
Replied(c, n) ==
    \/ \E j \in DOMAIN replies[c] : replies[c][j].id = n
    \/ pc = "respond" /\ cur = c /\ out.id = n

RepliedInv ==
    pc # "dead" => \A c \in Client : peer[c] # "gone" =>
        \A n \in DOMAIN served[c] : Answer(c, n) # NoReply => Replied(c, n)

AnswerInv == RepliesInv /\ RepliedInv

-----------------------------------------------------------------------------

\* What the lemmas take from IInv for one connection.
LEMMA ServedTypes ==
    ASSUME IInv, NEW c \in Client
    PROVE  /\ Len(served[c]) \in Nat /\ DOMAIN served[c] = 1..Len(served[c])
           /\ Len(replies[c]) \in Nat /\ DOMAIN replies[c] = 1..Len(replies[c])
           /\ \A j \in DOMAIN replies[c] : replies[c][j].id \in Nat
           /\ Len(served[c]) <= Len(sent[c]) /\ Len(sent[c]) \in Nat
           /\ InHand(c) \in {0, 1}
<1>1. /\ served[c] \in Seq(Nat) /\ replies[c] \in Seq(Reply) /\ sent[c] \in Seq(Message)
  BY DEF IInv, TypeOK
<1>2. /\ Len(served[c]) \in Nat /\ DOMAIN served[c] = 1..Len(served[c])
      /\ Len(replies[c]) \in Nat /\ DOMAIN replies[c] = 1..Len(replies[c])
      /\ Len(sent[c]) \in Nat
  BY <1>1, LenProperties
<1>3. \A j \in DOMAIN replies[c] : replies[c][j].id \in Nat
  <2>1. \A j \in DOMAIN replies[c] : replies[c][j] \in Reply
    BY <1>1, <1>2, ElementOfSeq
  <2>2. QED BY <2>1 DEF Reply
<1>4. Len(served[c]) <= Len(sent[c])
  <2>1. \A i \in DOMAIN served[c] : served[c][i] = i /\ i <= Len(sent[c])
    BY DEF IInv, ServedInOrder
  <2>2. CASE Len(served[c]) = 0
    BY <1>2, <2>2
  <2>3. CASE Len(served[c]) # 0
    <3>1. Len(served[c]) \in DOMAIN served[c]
      BY <1>2, <2>3
    <3>2. QED BY <2>1, <3>1
  <2>4. QED BY <2>2, <2>3
<1>5. InHand(c) \in {0, 1}
  BY DEF InHand
<1>6. QED BY <1>2, <1>3, <1>4, <1>5

\* A connection whose replies stay keeps them matched, whatever is sent or
\* dispatched behind.
LEMMA MatchedKept ==
    ASSUME IInv, IInv', NEW c \in Client, Matched(c),
           replies'[c] = replies[c],
           Len(served[c]) <= Len(served'[c]),
           \A n \in 1..Len(sent[c]) : sent'[c][n].req = sent[c][n].req
    PROVE  Matched(c)'
<1>1. /\ DOMAIN served[c] = 1..Len(served[c]) /\ DOMAIN served'[c] = 1..Len(served'[c])
      /\ Len(served[c]) \in Nat /\ Len(served'[c]) \in Nat
      /\ Len(served[c]) <= Len(sent[c]) /\ Len(sent[c]) \in Nat
  BY ServedTypes
<1>2. \A n \in DOMAIN served[c] : n \in DOMAIN served'[c] /\ Answer(c, n)' = Answer(c, n)
  BY <1>1 DEF Answer
<1>3. QED BY <1>2 DEF Matched

\* Steps that neither send, dispatch nor reply.
LEMMA QuietReplies ==
    ASSUME IInv, IInv', AnswerInv,
           UNCHANGED <<sent, served, replies>>, torn \subseteq torn',
           \A d \in Client : conn[d] = "closed" => conn'[d] = "closed",
           \A d \in Client : peer[d] = "gone" => peer'[d] = "gone",
           \/ UNCHANGED <<pc, cur, out>>
           \/ pc = "poll" /\ pc' = "refuse"
           \/ pc' = "dead"
    PROVE  AnswerInv'
<1>1. ASSUME NEW c \in Client \ torn' PROVE Matched(c)' /\ Earlier(c)'
  <2>1. c \in Client \ torn /\ Matched(c) /\ Earlier(c)
    BY <1>1 DEF AnswerInv, RepliesInv
  <2>2. Matched(c)'
    <3>1. Len(served[c]) <= Len(served'[c])
      BY ServedTypes
    <3>2. QED BY <2>1, <3>1, MatchedKept
  <2>3. InHand(c)' <= InHand(c) /\ InHand(c) \in {0, 1} /\ InHand(c)' \in {0, 1}
    BY DEF InHand
  <2>4. \A j \in DOMAIN replies[c] : replies[c][j].id \in Nat
    BY ServedTypes
  <2>5. Len(served[c]) \in Nat
    BY ServedTypes
  <2>6. Earlier(c)'
    BY <2>1, <2>3, <2>4, <2>5 DEF Earlier
  <2>7. QED BY <2>2, <2>6
<1>2. RepliedInv'
  BY DEF AnswerInv, RepliedInv, Replied, Answer
<1>3. QED BY <1>1, <1>2 DEF AnswerInv, RepliesInv

\* More requests change no answer.
LEMMA SendReplies ==
    ASSUME IInv, IInv', AnswerInv, NEW c \in Client, NEW r \in Request, Send(c, r)
    PROVE  AnswerInv'
<1>1. /\ UNCHANGED <<peer, conn, replies, served, torn, pc, cur, out>>
      /\ sent' = [sent EXCEPT ![c] = Append(sent[c], [req |-> r, at |-> Len(stream[c])])]
  BY DEF Send, loopVars
<1>2. \A d \in Client : \A n \in 1..Len(sent[d]) : sent'[d][n] = sent[d][n]
  <2>1. sent \in [Client -> Seq(Message)] /\ sent' \in [Client -> Seq(Message)]
    BY DEF IInv, TypeOK
  <2>2. [req |-> r, at |-> Len(stream[c])] \in Message
    BY SentType DEF IInv, Message
  <2>3. ASSUME NEW d \in Client PROVE \A n \in 1..Len(sent[d]) : sent'[d][n] = sent[d][n]
    <3>1. CASE d = c
      BY <1>1, <2>1, <2>2, <3>1, AppendProperties
    <3>2. CASE d # c
      BY <1>1, <2>1, <3>2
    <3>3. QED BY <3>1, <3>2
  <2>4. QED BY <2>3
<1>3. RepliesInv'
  <2>1. ASSUME NEW d \in Client \ torn PROVE Matched(d)' /\ Earlier(d)'
    <3>1. Matched(d) /\ Earlier(d)
      BY DEF AnswerInv, RepliesInv
    <3>2. Matched(d)'
      <4>1. Len(served[d]) <= Len(served'[d])
        BY <1>1, ServedTypes
      <4>2. replies'[d] = replies[d] /\ \A n \in 1..Len(sent[d]) : sent'[d][n].req = sent[d][n].req
        BY <1>1, <1>2
      <4>3. QED BY <3>1, <4>1, <4>2, MatchedKept
    <3>3. Earlier(d)'
      BY <1>1, <3>1 DEF Earlier, InHand
    <3>4. QED BY <3>2, <3>3
  <2>2. QED BY <1>1, <2>1 DEF RepliesInv
<1>4. RepliedInv'
  <2>1. \A d \in Client : \A n \in DOMAIN served[d] : Answer(d, n)' = Answer(d, n)
    <3>1. \A d \in Client : \A n \in DOMAIN served[d] : n \in 1..Len(sent[d])
      BY ServedTypes
    <3>2. QED BY <1>2, <3>1 DEF Answer
  <2>2. QED BY <1>1, <2>1 DEF AnswerInv, RepliedInv, Replied
<1>5. QED BY <1>3, <1>4 DEF AnswerInv

\* A dispatched request is one more than those answered, and it is in hand, or
\* asks for no answer, or has ended the process.
LEMMA ServeReplies ==
    ASSUME IInv, IInv', AnswerInv, NEW c \in Client,
           NEW n \in 1..(Len(stream[c]) - received[c]), ServeRequest(c, n)
    PROVE  AnswerInv'
<1> DEFINE b == Filled(c, n)
<1>1. PICK e \in 1..Len(b), m \in 0..Len(sent[c]), r \in Request :
        /\ Finds(c, b, e, m, r)
        /\ served' = IF m = 0 THEN served ELSE [served EXCEPT ![c] = Append(served[c], m)]
        /\ \/ Outcome[r] = Crash /\ pc' = "dead" /\ UNCHANGED <<cur, out, end_ptr, torn>>
           \/ Outcome[r] = NoReply /\ Shift(c, b, e, Grown(c)) /\ UNCHANGED loopVars
           \/ /\ IsReply(Outcome[r]) /\ pc' = "respond" /\ cur' = c /\ UNCHANGED torn
              /\ out' = [id |-> m, body |-> Outcome[r]]
  BY DEF ServeRequest, IsReply
<1>2. UNCHANGED <<peer, sent, stream, taken, conn, replies, reset>> /\ pc = "poll"
  BY DEF ServeRequest, Reads, Readable, clientVars
<1>3. torn \subseteq torn'
  BY <1>1 DEF Shift
<1>4. /\ served \in [Client -> Seq(Nat)] /\ served' \in [Client -> Seq(Nat)]
      /\ served[c] \in Seq(Nat) /\ m \in Nat
  <2>1. served \in [Client -> Seq(Nat)] /\ served' \in [Client -> Seq(Nat)]
    BY DEF IInv, TypeOK
  <2>2. m \in Nat
    BY <1>1, ServedTypes
  <2>3. QED BY <2>1, <2>2
<1>5. /\ \A d \in Client \ {c} : served'[d] = served[d]
      /\ m = 0 => served' = served
      /\ m # 0 => /\ Len(served'[c]) = Len(served[c]) + 1
                  /\ served'[c][Len(served[c]) + 1] = m
                  /\ m = Len(served[c]) + 1
  <2>1. \A d \in Client \ {c} : served'[d] = served[d]
    BY <1>1, <1>4
  <2>2. ASSUME m # 0
        PROVE  /\ Len(served'[c]) = Len(served[c]) + 1
               /\ served'[c][Len(served[c]) + 1] = m
    <3>1. served'[c] = Append(served[c], m)
      BY <1>1, <1>4, <2>2
    <3>2. QED BY <1>4, <3>1, AppendProperties
  <2>3. ASSUME m # 0 PROVE m = Len(served[c]) + 1
    <3>1. Len(served[c]) + 1 \in DOMAIN served'[c]
      BY <2>2, <2>3, ServedTypes
    <3>2. served'[c][Len(served[c]) + 1] = Len(served[c]) + 1
      BY <3>1 DEF IInv, ServedInOrder
    <3>3. QED BY <2>2, <2>3, <3>2
  <2>4. QED BY <1>1, <2>1, <2>2, <2>3
<1>6. \A d \in Client : /\ Len(served[d]) \in Nat /\ Len(served'[d]) \in Nat
                        /\ Len(served[d]) <= Len(served'[d])
                        /\ DOMAIN served[d] = 1..Len(served[d])
                        /\ DOMAIN served'[d] = 1..Len(served'[d])
  BY <1>5, ServedTypes
<1>7. RepliesInv'
  <2>1. ASSUME NEW d \in Client \ torn' PROVE Matched(d)' /\ Earlier(d)'
    <3>1. d \in Client \ torn /\ Matched(d) /\ Earlier(d)
      BY <1>3, <2>1 DEF AnswerInv, RepliesInv
    <3>2. Matched(d)'
      BY <1>2, <1>6, <3>1, MatchedKept
    <3>3. InHand(d) = 0 /\ (InHand(d)' = 0 \/ (InHand(d)' = 1 /\ pc' = "respond" /\ cur' = d))
      BY <1>2 DEF InHand
    <3>4. \A j \in DOMAIN replies[d] : replies[d][j].id \in Nat
      BY ServedTypes
    <3>5. ASSUME pc' = "respond", cur' = d
          PROVE  d = c /\ (m = 0 => Len(served[c]) = 0)
      <4>1. IsReply(Outcome[r]) /\ cur' = c /\ out' = [id |-> m, body |-> Outcome[r]]
        BY <1>1, <1>2, <3>5 DEF loopVars
      <4>2. out'.id = Len(served'[d])
        BY <3>5, <2>1 DEF IInv, LoopInv
      <4>3. QED BY <1>5, <3>5, <4>1, <4>2
    <3>6. ASSUME conn'[d] # "closed", NEW j \in DOMAIN replies'[d]
          PROVE  replies'[d][j].id \in 1..(Len(served'[d]) - InHand(d)')
      <4>1. replies'[d][j].id \in Nat /\ replies'[d][j].id \in 1..Len(served[d])
        BY <1>2, <1>6, <3>1, <3>3, <3>4, <3>6 DEF Earlier
      <4>2. QED BY <1>5, <1>6, <3>3, <3>5, <4>1
    <3>7. QED BY <3>2, <3>6 DEF Earlier
  <2>2. QED BY <2>1 DEF RepliesInv
<1>8. RepliedInv'
  <2> SUFFICES ASSUME pc' # "dead", NEW d \in Client, peer'[d] # "gone",
                      NEW k \in DOMAIN served'[d], Answer(d, k)' # NoReply
               PROVE  Replied(d, k)'
    BY DEF RepliedInv
  <2>1. Answer(d, k) = Answer(d, k)'
    BY <1>2 DEF Answer
  <2>2. CASE k \in DOMAIN served[d]
    <3>1. \E j \in DOMAIN replies[d] : replies[d][j].id = k
      BY <1>2, <2>1, <2>2 DEF AnswerInv, RepliedInv, Replied
    <3>2. QED BY <1>2, <3>1 DEF Replied
  <2>3. CASE k \notin DOMAIN served[d]
    <3>1. d = c /\ m # 0 /\ k = m
      BY <1>5, <1>6, <2>3
    <3>2. r = sent[c][m].req
      BY <1>1, <3>1 DEF Finds
    <3>3. Outcome[r] # NoReply
      BY <2>1, <3>1, <3>2 DEF Answer
    <3>4. pc' = "respond" /\ cur' = c /\ out'.id = m
      BY <1>1, <3>3
    <3>5. QED BY <3>1, <3>4 DEF Replied
  <2>4. QED BY <2>2, <2>3
<1>9. QED BY <1>7, <1>8 DEF AnswerInv

\* The write returns: the reply in hand answers the last request dispatched,
\* and is later than all before it.
LEMMA WriteReplies ==
    ASSUME IInv, IInv', AnswerInv, NEW c \in Client, send_response(c)
    PROVE  AnswerInv'
<1>1. /\ UNCHANGED <<peer, sent, stream, taken, received, served, cur>>
      /\ pc \in {"respond", "refuse"} /\ cur = c /\ pc' = "poll"
      /\ \/ replies' = [replies EXCEPT ![c] = Append(replies[c], out)]
         \/ peer[c] = "gone" /\ replies' = replies
      /\ torn \subseteq torn'
      /\ \A d \in Client \ {c} : conn'[d] = conn[d]
  BY DEF send_response, AfterWrite, Shift, close_connection, clientVars, IInv, TypeOK
<1>2. /\ conn[c] = "open"
      /\ pc = "refuse" => conn'[c] = "closed" /\ out = [id |-> 0, body |-> ErrorReply]
      /\ pc = "respond" /\ c \notin torn =>
            out = [id |-> Len(served[c]), body |-> Answer(c, Len(served[c]))]
  BY <1>1 DEF IInv, LoopInv, TypeOK, send_response, AfterWrite, close_connection
<1>3. /\ replies \in [Client -> Seq(Reply)] /\ replies' \in [Client -> Seq(Reply)]
      /\ \A d \in Client \ {c} : replies'[d] = replies[d]
  BY <1>1 DEF IInv, TypeOK
<1>4. out \in Reply
  BY <1>1 DEF IInv, LoopInv, TypeOK, Reply, IsReply, Replies
<1>5. \A d \in Client : InHand(d)' = 0
  BY <1>1 DEF InHand
<1>6. /\ Len(served[c]) \in Nat /\ DOMAIN served[c] = 1..Len(served[c])
      /\ Len(replies[c]) \in Nat /\ DOMAIN replies[c] = 1..Len(replies[c])
      /\ \A j \in DOMAIN replies[c] : replies[c][j].id \in Nat
  BY ServedTypes
<1>7. InHand(c) \in {0, 1} /\ (pc = "respond" => InHand(c) = 1)
  BY <1>1 DEF InHand
<1>8. ASSUME replies'[c] = Append(replies[c], out)
      PROVE  /\ DOMAIN replies'[c] = 1..(Len(replies[c]) + 1)
             /\ \A j \in DOMAIN replies[c] : replies'[c][j] = replies[c][j]
             /\ replies'[c][Len(replies[c]) + 1] = out
  <2>1. replies[c] \in Seq(Reply)
    BY <1>3
  <2>2. Len(replies'[c]) = Len(replies[c]) + 1 /\ replies'[c] \in Seq(Reply)
    BY <1>4, <1>8, <2>1, AppendProperties
  <2>3. QED BY <1>4, <1>6, <1>8, <2>1, <2>2, AppendProperties, LenProperties
<1>9. ASSUME NEW d \in Client \ {c}, d \notin torn' PROVE Matched(d)' /\ Earlier(d)'
  <2>1. d \notin torn /\ Matched(d) /\ Earlier(d)
    BY <1>1, <1>9 DEF AnswerInv, RepliesInv
  <2>2. Len(served[d]) \in Nat
    BY ServedTypes
  <2>3. Matched(d)'
    BY <1>1, <1>3, <2>1, <2>2, MatchedKept
  <2>4. InHand(d) = 0
    BY <1>1 DEF InHand
  <2>5. Earlier(d)'
    BY <1>1, <1>3, <1>5, <2>1, <2>4 DEF Earlier
  <2>6. QED BY <2>3, <2>5
<1>10. ASSUME c \notin torn' PROVE Matched(c)' /\ Earlier(c)'
  <2>1. c \notin torn /\ Matched(c) /\ Earlier(c)
    BY <1>1, <1>10 DEF AnswerInv, RepliesInv
  <2>2. \A j \in DOMAIN replies[c] : replies[c][j].id \in 1..(Len(served[c]) - InHand(c))
    BY <1>2, <2>1 DEF Earlier
  <2>3. CASE replies'[c] = replies[c]
    <3>1. Matched(c)'
      BY <1>1, <1>6, <2>1, <2>3, MatchedKept
    <3>2. \A j \in DOMAIN replies[c] : replies[c][j].id \in 1..Len(served[c])
      BY <1>6, <1>7, <2>2
    <3>3. QED BY <1>1, <1>5, <1>6, <2>3, <3>1, <3>2 DEF Earlier
  <2>4. CASE replies'[c] = Append(replies[c], out)
    <3>1. /\ pc = "respond" => \A j \in DOMAIN replies[c] : replies[c][j].id < Len(served[c])
          /\ \A j \in DOMAIN replies[c] : replies[c][j].id \in 1..Len(served[c])
      BY <1>6, <1>7, <2>2
    <3>2. pc = "respond" => Len(served[c]) # 0
      <4>1. pc = "respond" => First(c) \in 1..(Len(sent[c]) + 1) /\ First(c) = Len(served[c])
        BY <1>1, <1>2, <2>1 DEF IInv, WindowInv, First
      <4>2. QED BY <4>1
    <3>3. ASSUME NEW j \in DOMAIN replies[c]
          PROVE  /\ \A i \in 1..(j - 1) :
                        /\ replies'[c][i].id # 0
                        /\ replies'[c][j].id # 0 => replies'[c][i].id < replies'[c][j].id
                 /\ replies'[c][j].id # 0
                 /\ replies'[c][j].id \in DOMAIN served'[c]
                 /\ replies'[c][j].body = Answer(c, replies'[c][j].id)
      <4>1. replies'[c][j] = replies[c][j] /\ \A i \in 1..(j - 1) : replies'[c][i] = replies[c][i]
        BY <1>6, <1>8, <2>4, <3>3
      <4>2. replies[c][j].id # 0 /\ replies[c][j].id \in DOMAIN served[c]
        BY <1>6, <3>1, <3>3
      <4>3. /\ \A i \in 1..(j - 1) :
                  /\ replies[c][i].id # 0
                  /\ replies[c][j].id # 0 => replies[c][i].id < replies[c][j].id
            /\ replies[c][j].body = Answer(c, replies[c][j].id)
        BY <2>1, <3>3, <4>2 DEF Matched
      <4>4. QED BY <1>1, <4>1, <4>2, <4>3
    <3>4. PICK last : last = Len(replies[c]) + 1
      OBVIOUS
    <3>5. /\ replies'[c][last] = out /\ DOMAIN replies'[c] = 1..last /\ last - 1 = Len(replies[c])
          /\ \A i \in 1..(last - 1) : i \in DOMAIN replies[c] /\ replies'[c][i] = replies[c][i]
      BY <1>6, <1>8, <2>4, <3>4
    <3>6. /\ \A i \in 1..(last - 1) :
                 /\ replies'[c][i].id # 0
                 /\ out.id # 0 => replies'[c][i].id < out.id
          /\ IF out.id = 0 THEN out.body = ErrorReply
             ELSE out.id \in DOMAIN served[c] /\ out.body = Answer(c, out.id)
      <4>1. \A i \in 1..(last - 1) : replies'[c][i].id # 0
        BY <1>6, <3>1, <3>5
      <4>2. CASE pc = "refuse"
        BY <1>2, <4>1, <4>2
      <4>3. CASE pc = "respond"
        <5>1. out = [id |-> Len(served[c]), body |-> Answer(c, Len(served[c]))]
          BY <1>2, <2>1, <4>3
        <5>2. Len(served[c]) \in DOMAIN served[c] /\ out.id # 0
          BY <1>6, <3>2, <4>3, <5>1
        <5>3. \A i \in 1..(last - 1) : replies'[c][i].id < out.id
          BY <3>1, <3>5, <4>3, <5>1
        <5>4. QED BY <4>1, <5>1, <5>2, <5>3
      <4>4. QED BY <1>1, <4>2, <4>3
    <3>7. Matched(c)'
      <4> SUFFICES ASSUME NEW j \in 1..last
                   PROVE  /\ \A i \in 1..(j - 1) :
                                /\ replies'[c][i].id # 0
                                /\ replies'[c][j].id # 0 => replies'[c][i].id < replies'[c][j].id
                          /\ IF replies'[c][j].id = 0 THEN replies'[c][j].body = ErrorReply
                             ELSE /\ replies'[c][j].id \in DOMAIN served'[c]
                                  /\ replies'[c][j].body = Answer(c, replies'[c][j].id)
        BY <1>1, <3>5 DEF Matched, Answer
      <4>1. CASE j = last
        BY <1>1, <3>5, <3>6, <4>1
      <4>2. CASE j # last
        <5>1. j \in DOMAIN replies[c]
          BY <1>6, <3>4, <4>2
        <5>2. QED BY <3>3, <5>1
      <4>3. QED BY <4>1, <4>2
    <3>8. Earlier(c)'
      <4>1. CASE pc = "refuse"
        BY <1>2, <4>1 DEF Earlier
      <4>2. CASE pc = "respond"
        <5>1. out.id = Len(served[c]) /\ Len(served[c]) \in 1..Len(served[c])
          BY <1>2, <1>6, <2>1, <3>2, <4>2
        <5>2. ASSUME NEW j \in 1..last PROVE replies'[c][j].id \in 1..Len(served[c])
          <6>1. CASE j = last
            BY <3>5, <5>1, <6>1
          <6>2. CASE j # last
            <7>1. j \in 1..(last - 1)
              BY <1>6, <3>4, <6>2
            <7>2. QED BY <3>1, <3>5, <7>1
          <6>3. QED BY <6>1, <6>2
        <5>3. QED BY <1>1, <1>5, <1>6, <3>5, <5>2 DEF Earlier
      <4>3. QED BY <1>1, <4>1, <4>2
    <3>9. QED BY <3>7, <3>8
  <2>5. QED BY <1>1, <1>3, <2>3, <2>4
<1>11. RepliedInv'
  <2> SUFFICES ASSUME NEW d \in Client, peer[d] # "gone",
                      NEW k \in DOMAIN served[d], Answer(d, k) # NoReply
               PROVE  \E j \in DOMAIN replies'[d] : replies'[d][j].id = k
    BY <1>1 DEF RepliedInv, Replied, Answer
  <2>1. Replied(d, k)
    BY <1>1 DEF AnswerInv, RepliedInv
  <2>2. CASE d # c
    BY <1>1, <1>3, <2>1, <2>2 DEF Replied
  <2>3. CASE d = c
    <3>1. replies'[c] = Append(replies[c], out)
      BY <1>1, <1>3, <2>3
    <3>2. /\ DOMAIN replies'[c] = 1..(Len(replies[c]) + 1)
          /\ \A j \in DOMAIN replies[c] : replies'[c][j] = replies[c][j]
          /\ replies'[c][Len(replies[c]) + 1] = out
      BY <1>8, <3>1
    <3>3. QED BY <1>6, <2>1, <2>3, <3>2 DEF Replied
  <2>4. QED BY <2>2, <2>3
<1>12. QED BY <1>9, <1>10, <1>11 DEF AnswerInv, RepliesInv

\* AnswerInv, step by step.
LEMMA NextAnswerInv ==
    ASSUME IInv, IInv', AnswerInv, [Next]_vars
    PROVE  AnswerInv'
<1>1. ASSUME NEW c \in Client, accept_cb(c) \/ ReallocFails(c) \/ ReadEnds(c) PROVE AnswerInv'
  <2>1. UNCHANGED <<peer, sent, served, replies, torn, pc, cur, out>>
    BY <1>1 DEF accept_cb, ReallocFails, ReadEnds, clientVars, loopVars
  <2>2. \A d \in Client : conn[d] = "closed" => conn'[d] = "closed"
    BY <1>1 DEF accept_cb, ReallocFails, ReadEnds, close_connection, IInv, TypeOK
  <2>3. QED BY <2>1, <2>2, QuietReplies
<1>2. ASSUME NEW c \in Client, Connect(c) \/ HalfClose(c) \/ Leave(c) \/ TakeReply(c) PROVE AnswerInv'
  <2>1. UNCHANGED <<sent, served, replies, torn, pc, cur, out>>
    BY <1>2 DEF Connect, HalfClose, Leave, TakeReply, clientVars, loopVars
  <2>2. \A d \in Client : /\ conn[d] = "closed" => conn'[d] = "closed"
                          /\ peer[d] = "gone" => peer'[d] = "gone"
    BY <1>2 DEF Connect, HalfClose, Leave, TakeReply, clientVars, IInv, TypeOK
  <2>3. QED BY <2>1, <2>2, QuietReplies
<1>3. ASSUME NEW c \in Client, Sigpipe(c) PROVE AnswerInv'
  <2>1. UNCHANGED <<peer, conn, sent, served, replies, torn>> /\ pc' = "dead"
    BY <1>3 DEF Sigpipe, clientVars
  <2>2. QED BY <2>1, QuietReplies
<1>4. ASSUME NEW c \in Client, NEW n \in 1..(Len(stream[c]) - received[c]),
             AwaitMore(c, n) \/ RefuseInput(c, n)
      PROVE  AnswerInv'
  <2>1. /\ UNCHANGED <<peer, conn, sent, served, replies, torn>>
        /\ UNCHANGED <<pc, cur, out>> \/ (pc = "poll" /\ pc' = "refuse")
    BY <1>4 DEF AwaitMore, RefuseInput, Reads, Readable, clientVars, loopVars
  <2>2. QED BY <2>1, QuietReplies
<1>5. CASE UNCHANGED vars
  BY <1>5, QuietReplies DEF vars
<1>6. ASSUME NEW c \in Client, ClientStep(c) PROVE AnswerInv'
  BY <1>2, <1>6, SendReplies DEF ClientStep
<1>7. ASSUME NEW c \in Client, ServerStep(c) PROVE AnswerInv'
  BY <1>1, <1>3, <1>4, <1>7, ServeReplies, WriteReplies DEF ServerStep, connection_cb
<1>8. QED BY <1>5, <1>6, <1>7 DEF Next

-----------------------------------------------------------------------------

\* Nothing has been asked at the start.
LEMMA InitAnswerInv == Init => AnswerInv
<1> SUFFICES ASSUME Init PROVE AnswerInv
  OBVIOUS
<1>1. \A c \in Client : DOMAIN replies[c] = {} /\ DOMAIN served[c] = {}
  <2>1. Len(<<>>) = 0 /\ DOMAIN <<>> = {}
    BY EmptySeq
  <2>2. QED BY <2>1 DEF Init
<1>2. QED BY <1>1 DEF AnswerInv, RepliesInv, RepliedInv, Matched, Earlier

\* Replies and requests correspond, always (jsonrpc-c.c:130-156).
THEOREM AnswerInvariance == Spec => []AnswerInv
<1>1. IInv /\ IInv' /\ AnswerInv /\ [Next]_vars => AnswerInv'
  BY NextAnswerInv
<1>2. QED BY <1>1, InitAnswerInv, Invariance, PTL DEF Spec

\* jsonrpc-c.c:140-150: replies leave in the order of the requests, each with
\* its own result, none twice, and nothing behind the error that closes.
THEOREM EachItsOwnReply == Spec => []RepliesMatchRequests
<1>1. AnswerInv => RepliesMatchRequests
  BY DEF AnswerInv, RepliesInv, RepliesMatchRequests, Matched
<1>2. QED BY <1>1, AnswerInvariance, PTL

\* jsonrpc-c.c:134-150: between callbacks every dispatched request that asks
\* for a reply has it, unless its client has gone.
THEOREM NoneForgotten == Spec => []NoReplyForgotten
<1>1. AnswerInv => NoReplyForgotten
  BY DEF AnswerInv, RepliedInv, Replied, NoReplyForgotten
<1>2. QED BY <1>1, AnswerInvariance, PTL

-----------------------------------------------------------------------------
(* The channel.                                                            *)

\* The channel's state, as ImplementsChannel finds it in the server's.
Asked == [c \in Client |-> [i \in DOMAIN sent[c] |-> sent[c][i].req]]
SettledOf == [c \in Client |-> Settled(c)]
Left == {c \in Client : peer[c] = "gone"}
Closed == {c \in Client : conn[c] = "closed"}
Stopped == pc = "dead"

\* What the loop has in hand beyond LoopInv: what is written to a torn
\* connection answers none of its requests, and who is refused has sent
\* something.
HandInv ==
    /\ pc = "respond" /\ cur \in torn =>
          out.id = 0 /\ \E r \in Request : out.body = Outcome[r]
    /\ pc = "refuse" => Len(buffer[cur]) > 0

ChannelInv == IInv /\ HandInv

-----------------------------------------------------------------------------
(* The channel's actions on the mapped state.                              *)

\* Nothing that a client could see.
LEMMA AsStutter ==
    ASSUME Asked' = Asked, SettledOf' = SettledOf, replies' = replies, Left' = Left,
           Closed' = Closed, torn' = torn, Stopped' = Stopped
    PROVE  UNCHANGED Channel!vars
BY DEF Channel!vars, Asked, SettledOf, Left, Closed, Stopped

\* A client asks.
LEMMA AsAsk ==
    ASSUME NEW c \in Client, NEW r \in Request, c \notin Left \union Closed,
           Asked' = [Asked EXCEPT ![c] = Append(@, r)],
           SettledOf' = SettledOf, replies' = replies, Left' = Left,
           Closed' = Closed, torn' = torn, Stopped' = Stopped
    PROVE  Channel!Next
<1>1. Channel!Ask(c, r)
  BY DEF Channel!Ask, Asked, SettledOf, Left, Closed, Stopped
<1>2. QED BY <1>1 DEF Channel!Next

\* A client stops listening.
LEMMA AsLeave ==
    ASSUME NEW c \in Client, Left' = Left \union {c},
           Asked' = Asked, SettledOf' = SettledOf, replies' = replies,
           Closed' = Closed, torn' = torn, Stopped' = Stopped
    PROVE  Channel!Next
<1>1. Channel!Leave(c)
  BY DEF Channel!Leave, Asked, SettledOf, Left, Closed, Stopped
<1>2. QED BY <1>1 DEF Channel!Next

\* A request is settled.
LEMMA AsSettle ==
    ASSUME NEW c \in Client, ~ Stopped, c \notin Closed, c \notin torn,
           NEW n, n = SettledOf[c] + 1, n <= Len(Asked[c]),
           NEW reply, reply = Outcome[Asked[c][n]], reply # Crash,
           SettledOf' = [SettledOf EXCEPT ![c] = n],
           \/ reply = NoReply /\ replies' = replies
           \/ c \in Left /\ replies' = replies
           \/ /\ reply # NoReply
              /\ replies' = [replies EXCEPT ![c] = Append(@, [id |-> n, body |-> reply])],
           torn' = torn \/ (n < Len(Asked[c]) /\ torn' = torn \union {c}),
           Asked' = Asked, Left' = Left, Closed' = Closed, Stopped' = Stopped
    PROVE  Channel!Next
<1>1. Channel!Settle(c)
  BY DEF Channel!Settle, Channel!Serving, Asked, SettledOf, Left, Closed, Stopped
<1>2. QED BY <1>1 DEF Channel!Next

\* A reply that answers nothing, on a connection that lost its place.
LEMMA AsBabble ==
    ASSUME NEW c \in Client, ~ Stopped, c \notin Closed, c \in torn, NEW r \in Request,
           replies' = [replies EXCEPT ![c] = Append(@, [id |-> 0, body |-> Outcome[r]])],
           Asked' = Asked, SettledOf' = SettledOf, Left' = Left,
           Closed' = Closed, torn' = torn, Stopped' = Stopped
    PROVE  Channel!Next
<1>1. Channel!Babble(c)
  BY DEF Channel!Babble, Channel!Serving, Asked, SettledOf, Left, Closed, Stopped
<1>2. QED BY <1>1 DEF Channel!Next

\* A connection is closed, with an error or without.
LEMMA AsClose ==
    ASSUME NEW c \in Client, ~ Stopped, c \notin Closed, Closed' = Closed \union {c},
           \/ replies' = replies
           \/ /\ SettledOf[c] < Len(Asked[c]) \/ c \in torn
              /\ replies' = [replies EXCEPT ![c] = Append(@, [id |-> 0, body |-> ErrorReply])],
           Asked' = Asked, SettledOf' = SettledOf, Left' = Left,
           torn' = torn, Stopped' = Stopped
    PROVE  Channel!Next
<1>1. Channel!Close(c)
  BY DEF Channel!Close, Channel!Serving, Asked, SettledOf, Left, Closed, Stopped
<1>2. QED BY <1>1 DEF Channel!Next

\* The process ends.
LEMMA AsStop ==
    ASSUME NEW c \in Client, ~ Stopped, Stopped',
           \/ SettledOf' = SettledOf
           \/ /\ SettledOf[c] < Len(Asked[c])
              /\ SettledOf' = [SettledOf EXCEPT ![c] = @ + 1],
           Asked' = Asked, replies' = replies, Left' = Left, Closed' = Closed, torn' = torn
    PROVE  Channel!Next
<1>1. Channel!Stop(c)
  BY DEF Channel!Stop, Asked, SettledOf, Left, Closed, Stopped
<1>2. QED BY <1>1 DEF Channel!Next

-----------------------------------------------------------------------------
(* The server's steps.                                                     *)

ChannelStep == Channel!Next \/ UNCHANGED Channel!vars

\* What the server's variables leave of the mapped ones.
LEMMA MappedSame ==
    /\ UNCHANGED sent => Asked' = Asked
    /\ UNCHANGED <<served, pc, cur, out>> => SettledOf' = SettledOf
    /\ UNCHANGED peer => Left' = Left
    /\ UNCHANGED conn => Closed' = Closed
    /\ UNCHANGED pc => Stopped' = Stopped
BY DEF Asked, SettledOf, Settled, Left, Closed, Stopped

\* Types of what is mapped.
LEMMA MappedTypes ==
    ASSUME IInv, NEW c \in Client
    PROVE  /\ Len(served[c]) \in Nat /\ DOMAIN served[c] = 1..Len(served[c])
           /\ Len(sent[c]) \in Nat /\ Len(served[c]) <= Len(sent[c])
           /\ Asked[c] \in Seq(Request) /\ Len(Asked[c]) = Len(sent[c])
           /\ \A n \in 1..Len(sent[c]) : Asked[c][n] = sent[c][n].req
           /\ SettledOf[c] = Settled(c)
<1>1. served[c] \in Seq(Nat) /\ sent[c] \in Seq(Message)
  BY DEF IInv, TypeOK
<1>2. /\ Len(served[c]) \in Nat /\ DOMAIN served[c] = 1..Len(served[c])
      /\ Len(sent[c]) \in Nat /\ DOMAIN sent[c] = 1..Len(sent[c])
  BY <1>1, LenProperties
<1>3. Len(served[c]) <= Len(sent[c])
  <2>1. \A i \in DOMAIN served[c] : i <= Len(sent[c])
    BY DEF IInv, ServedInOrder
  <2>2. CASE Len(served[c]) = 0
    BY <1>2, <2>2
  <2>3. CASE Len(served[c]) # 0
    <3>1. Len(served[c]) \in DOMAIN served[c]
      BY <1>2, <2>3
    <3>2. QED BY <2>1, <3>1
  <2>4. QED BY <2>2, <2>3
<1>4. Asked[c] = [i \in 1..Len(sent[c]) |-> sent[c][i].req]
  BY <1>2 DEF Asked
<1>5. \A n \in 1..Len(sent[c]) : sent[c][n].req \in Request
  BY SentType DEF IInv
<1>6. Asked[c] \in [1..Len(sent[c]) -> Request]
  BY <1>4, <1>5
<1>7. Asked[c] \in Seq(Request) /\ Len(Asked[c]) = Len(sent[c])
  BY <1>2, <1>6
<1>8. QED BY <1>2, <1>3, <1>4, <1>7 DEF SettledOf

\* A request that is sent is asked.
LEMMA SendMaps ==
    ASSUME IInv, IInv', NEW c \in Client, NEW r \in Request, Send(c, r)
    PROVE  Channel!Next
<1> DEFINE new == [req |-> r, at |-> Len(stream[c])]
<1>1. /\ UNCHANGED <<peer, conn, replies, served, torn, pc, cur, out>>
      /\ sent' = [sent EXCEPT ![c] = Append(sent[c], new)]
      /\ peer[c] = "open" /\ conn[c] \in {"backlog", "open"}
  BY DEF Send, loopVars
<1>2. sent \in [Client -> Seq(Message)] /\ new \in Message
  BY SentType DEF IInv, TypeOK, Message
<1> HIDE DEF new
<1>3. Asked' = [Asked EXCEPT ![c] = Append(Asked[c], r)]
  <2>1. Asked'[c] = Append(Asked[c], r)
    <3>1. sent'[c] = Append(sent[c], new) /\ sent[c] \in Seq(Message)
      BY <1>1, <1>2
    <3>2. /\ Len(sent'[c]) = Len(sent[c]) + 1
          /\ \A i \in 1..Len(sent[c]) : sent'[c][i] = sent[c][i]
          /\ sent'[c][Len(sent[c]) + 1] = new
      BY <1>2, <3>1, AppendProperties
    <3>3. /\ Asked[c] \in Seq(Request) /\ Len(Asked[c]) = Len(sent[c])
          /\ \A n \in 1..Len(sent[c]) : Asked[c][n] = sent[c][n].req
          /\ Len(sent[c]) \in Nat
      BY MappedTypes
    <3>4. /\ Asked'[c] \in Seq(Request) /\ Len(Asked'[c]) = Len(sent'[c])
          /\ \A n \in 1..Len(sent'[c]) : Asked'[c][n] = sent'[c][n].req
      <4>1. sent'[c] \in Seq(Message)
        BY DEF IInv, TypeOK
      <4>2. /\ Len(sent'[c]) \in Nat /\ DOMAIN sent'[c] = 1..Len(sent'[c])
            /\ \A n \in 1..Len(sent'[c]) : sent'[c][n] \in Message
        BY <4>1, LenProperties, ElementOfSeq
      <4>3. Asked'[c] = [i \in 1..Len(sent'[c]) |-> sent'[c][i].req]
        BY <4>2 DEF Asked
      <4>4. Asked'[c] \in [1..Len(sent'[c]) -> Request]
        BY <4>2, <4>3 DEF Message
      <4>5. QED BY <4>2, <4>3, <4>4
    <3>5. /\ Append(Asked[c], r) \in Seq(Request)
          /\ Len(Append(Asked[c], r)) = Len(sent[c]) + 1
          /\ \A n \in 1..Len(sent[c]) : Append(Asked[c], r)[n] = Asked[c][n]
          /\ Append(Asked[c], r)[Len(sent[c]) + 1] = r
      BY <3>3, AppendProperties
    <3>6. new.req = r
      BY DEF new
    <3>7. \A n \in 1..(Len(sent[c]) + 1) : Asked'[c][n] = Append(Asked[c], r)[n]
      <4> SUFFICES ASSUME NEW n \in 1..(Len(sent[c]) + 1)
                   PROVE  Asked'[c][n] = Append(Asked[c], r)[n]
        OBVIOUS
      <4>1. Asked'[c][n] = sent'[c][n].req
        BY <3>2, <3>4
      <4>2. CASE n = Len(sent[c]) + 1
        BY <3>2, <3>5, <3>6, <4>1, <4>2
      <4>3. CASE n # Len(sent[c]) + 1
        <5>1. n \in 1..Len(sent[c])
          BY <3>3, <4>3
        <5>2. QED BY <3>2, <3>3, <3>5, <4>1, <5>1
      <4>4. QED BY <4>2, <4>3
    <3>8. QED BY <3>2, <3>5, <3>7, <3>4, SeqEqual
  <2>2. \A d \in Client \ {c} : Asked'[d] = Asked[d]
    <3>1. \A d \in Client \ {c} : sent'[d] = sent[d]
      BY <1>1, <1>2
    <3>2. QED BY <3>1 DEF Asked
  <2>3. QED BY <2>1, <2>2 DEF Asked
<1>4. c \notin Left \union Closed
  BY <1>1 DEF Left, Closed
<1>5. SettledOf' = SettledOf /\ Left' = Left /\ Closed' = Closed /\ Stopped' = Stopped
  BY <1>1, MappedSame
<1>6. QED BY <1>1, <1>3, <1>4, <1>5, AsAsk

\* The steps of a client but asking and leaving are the network's affair.
LEMMA ClientMaps ==
    ASSUME IInv, IInv', NEW c \in Client,
           Connect(c) \/ HalfClose(c) \/ Leave(c) \/ TakeReply(c) \/ accept_cb(c)
    PROVE  ChannelStep
<1>1. UNCHANGED <<sent, served, replies, torn, pc, cur, out>>
  BY DEF Connect, HalfClose, Leave, TakeReply, accept_cb, clientVars, loopVars
<1>2. Closed' = Closed
  <2>1. conn \in [Client -> {"idle", "backlog", "open", "closed"}]
    BY DEF IInv, TypeOK
  <2>2. \A d \in Client : conn'[d] = "closed" <=> conn[d] = "closed"
    BY <2>1 DEF Connect, HalfClose, Leave, TakeReply, accept_cb, clientVars
  <2>3. QED BY <2>2 DEF Closed
<1>3. Asked' = Asked /\ SettledOf' = SettledOf /\ Stopped' = Stopped
  BY <1>1, MappedSame
<1>4. peer \in [Client -> {"open", "half", "gone"}]
  BY DEF IInv, TypeOK
<1>5. CASE Leave(c)
  <2>1. Left' = Left \union {c}
    BY <1>4, <1>5 DEF Leave, Left
  <2>2. QED BY <1>1, <1>2, <1>3, <2>1, AsLeave DEF ChannelStep
<1>6. CASE Connect(c) \/ HalfClose(c) \/ TakeReply(c) \/ accept_cb(c)
  <2>1. \A d \in Client : peer'[d] = "gone" <=> peer[d] = "gone"
    BY <1>4, <1>6 DEF Connect, HalfClose, TakeReply, accept_cb, clientVars
  <2>2. Left' = Left
    BY <2>1 DEF Left
  <2>3. QED BY <1>1, <1>2, <1>3, <2>2, AsStutter DEF ChannelStep
<1>7. QED BY <1>5, <1>6

\* A connection closed in silence.
LEMMA EndingMaps ==
    ASSUME IInv, NEW c \in Client, ReallocFails(c) \/ ReadEnds(c)
    PROVE  Channel!Next
<1>1. /\ UNCHANGED <<peer, sent, served, replies, torn, pc, cur, out>>
      /\ pc = "poll" /\ conn[c] = "open" /\ conn' = [conn EXCEPT ![c] = "closed"]
  BY DEF ReallocFails, ReadEnds, Readable, close_connection, clientVars, loopVars
<1>2. Closed' = Closed \union {c} /\ c \notin Closed
  <2>1. conn \in [Client -> {"idle", "backlog", "open", "closed"}]
    BY DEF IInv, TypeOK
  <2>2. QED BY <1>1, <2>1 DEF Closed
<1>3. ~ Stopped /\ Asked' = Asked /\ SettledOf' = SettledOf /\ Left' = Left /\ Stopped' = Stopped
  BY <1>1, MappedSame DEF Stopped
<1>4. QED BY <1>1, <1>2, <1>3, AsClose

\* Reading alone, and the decision to refuse, are not seen.
LEMMA WaitMaps ==
    ASSUME IInv, NEW c \in Client, NEW n, AwaitMore(c, n) \/ RefuseInput(c, n)
    PROVE  ChannelStep
<1>1. /\ UNCHANGED <<peer, conn, sent, served, replies, torn>>
      /\ pc = "poll" /\ pc' \in {"poll", "refuse"}
  BY DEF AwaitMore, RefuseInput, Reads, Readable, clientVars, loopVars
<1>2. SettledOf' = SettledOf /\ Stopped' = Stopped
  BY <1>1 DEF SettledOf, Settled, Stopped
<1>3. Asked' = Asked /\ Left' = Left /\ Closed' = Closed
  BY <1>1, MappedSame
<1>4. QED BY <1>1, <1>2, <1>3, AsStutter DEF ChannelStep

\* A signal while writing settles the request in hand, if it is one.
LEMMA SigpipeMaps ==
    ASSUME IInv, NEW c \in Client, Sigpipe(c)
    PROVE  Channel!Next
<1>1. /\ UNCHANGED <<peer, conn, sent, served, replies, torn>>
      /\ pc \in {"respond", "refuse"} /\ cur = c /\ pc' = "dead"
  BY DEF Sigpipe, clientVars
<1>2. ~ Stopped /\ Stopped' /\ Asked' = Asked /\ Left' = Left /\ Closed' = Closed
  BY <1>1, MappedSame DEF Stopped
<1>3. \A d \in Client : Settled(d)' = Len(served[d])
  BY <1>1 DEF Settled
<1>4. \A d \in Client \ {c} : Settled(d) = Len(served[d])
  BY <1>1 DEF Settled
<1>5. CASE Settled(c) = Len(served[c])
  <2>1. SettledOf' = SettledOf
    BY <1>3, <1>4, <1>5 DEF SettledOf
  <2>2. QED BY <1>1, <1>2, <2>1, AsStop
<1>6. CASE Settled(c) # Len(served[c])
  <2>1. Settled(c) = Len(served[c]) - 1
    BY <1>6 DEF Settled
  <2>2. SettledOf[c] < Len(Asked[c]) /\ SettledOf[c] + 1 = Len(served[c])
    BY <2>1, MappedTypes
  <2>3. SettledOf' = [SettledOf EXCEPT ![c] = SettledOf[c] + 1]
    BY <1>3, <1>4, <2>2 DEF SettledOf
  <2>4. QED BY <1>1, <1>2, <2>2, <2>3, AsStop
<1>7. QED BY <1>5, <1>6

\* A dispatch settles a notification at once.  A request that is answered is
\* settled when its reply is written, one that kills the process with it.
LEMMA ServeMaps ==
    ASSUME IInv, IInv', NEW c \in Client,
           NEW n \in 1..(Len(stream[c]) - received[c]), ServeRequest(c, n)
    PROVE  ChannelStep
<1> DEFINE b == Filled(c, n)
           k == Len(served[c]) + 1
<1>1. PICK e \in 1..Len(b), m \in 0..Len(sent[c]), r \in Request :
        /\ Finds(c, b, e, m, r)
        /\ served' = IF m = 0 THEN served ELSE [served EXCEPT ![c] = Append(served[c], m)]
        /\ \/ Outcome[r] = Crash /\ pc' = "dead" /\ UNCHANGED <<cur, out, end_ptr, torn>>
           \/ /\ Outcome[r] = NoReply /\ Outcome[r] # Crash
              /\ Shift(c, b, e, Grown(c)) /\ UNCHANGED loopVars
           \/ /\ IsReply(Outcome[r]) /\ pc' = "respond" /\ cur' = c /\ UNCHANGED torn
              /\ out' = [id |-> m, body |-> Outcome[r]]
  BY DEF ServeRequest, IsReply
<1>2. UNCHANGED <<peer, sent, stream, conn, replies>> /\ pc = "poll" /\ conn[c] = "open"
  BY DEF ServeRequest, Reads, Readable, clientVars
<1>3. Asked' = Asked /\ Left' = Left /\ Closed' = Closed /\ ~ Stopped /\ c \notin Closed
  BY <1>2, MappedSame DEF Stopped, Closed
<1>4. \A d \in Client : Settled(d) = Len(served[d])
  BY <1>2 DEF Settled
<1>5. /\ served \in [Client -> Seq(Nat)] /\ m \in Nat
      /\ Len(served[c]) \in Nat /\ Len(sent[c]) \in Nat
      /\ Len(Asked[c]) = Len(sent[c]) /\ SettledOf[c] = Len(served[c])
      /\ \A i \in 1..Len(sent[c]) : Asked[c][i] = sent[c][i].req
  <2>1. served \in [Client -> Seq(Nat)]
    BY DEF IInv, TypeOK
  <2>2. Len(sent[c]) \in Nat
    BY MappedTypes
  <2>3. m \in Nat
    BY <1>1, <2>2
  <2>4. QED BY <1>4, <2>1, <2>3, MappedTypes
<1>6. CASE m = 0
  <2>1. served' = served /\ c \in torn
    <3>1. c \notin torn => m = b[e].msg /\ Parses(c, b, e)
      BY <1>1 DEF Finds
    <3>2. c \notin torn => b[e].msg # 0
      <4> SUFFICES ASSUME c \notin torn PROVE b[e].msg # 0
        OBVIOUS
      <4>1. /\ b \in Seq(Byte) /\ k \in 1..(Len(sent[c]) + 1)
            /\ received[c] + n <= Len(stream[c])
            /\ received[c] + n = Start(c, k) + Len(b)
            /\ \A i \in 1..Len(b) : b[i] = stream[c][Start(c, k) + i]
        <5>1. Reads(c, n)
          BY DEF ServeRequest
        <5>2. QED BY <5>1, Reading
      <4>2. TypeOK /\ StreamInv /\ Parses(c, b, e) /\ Start(c, k) + Len(b) <= Len(stream[c])
        BY <3>1, <4>1 DEF IInv
      <4> HIDE DEF b, k
      <4>3. k \in 1..Len(sent[c]) /\ \A i \in 1..e : b[i] = [msg |-> k, off |-> i]
        BY <4>1, <4>2, ParsesFirst
      <4>4. b[e] = [msg |-> k, off |-> e]
        BY <1>1, <4>3
      <4>5. QED BY <4>3, <4>4
    <3>3. QED BY <1>1, <1>6, <3>1, <3>2
  <2>2. torn' = torn
    BY <1>1, <2>1 DEF Shift
  <2>3. CASE Outcome[r] = Crash /\ pc' = "dead"
    <3>1. SettledOf' = SettledOf
      BY <1>2, <2>1, <2>3 DEF SettledOf, Settled
    <3>2. Stopped'
      BY <2>3 DEF Stopped
    <3>3. QED BY <1>2, <1>3, <2>2, <3>1, <3>2, AsStop DEF ChannelStep
  <2>4. CASE UNCHANGED loopVars
    <3>1. SettledOf' = SettledOf /\ Stopped' = Stopped
      BY <2>1, <2>4, MappedSame DEF loopVars
    <3>2. QED BY <1>2, <1>3, <2>2, <3>1, AsStutter DEF ChannelStep
  <2>5. CASE pc' = "respond" /\ out' = [id |-> m, body |-> Outcome[r]]
    <3>1. SettledOf' = SettledOf /\ Stopped' = Stopped
      BY <1>2, <1>6, <2>1, <2>5 DEF SettledOf, Settled, Stopped
    <3>2. QED BY <1>2, <1>3, <2>2, <3>1, AsStutter DEF ChannelStep
  <2>6. QED BY <1>1, <2>3, <2>4, <2>5
<1>7. CASE m # 0
  <2>1. /\ Len(served'[c]) = k
        /\ served'[c][k] = m
        /\ \A d \in Client \ {c} : served'[d] = served[d]
        /\ k \in DOMAIN served'[c]
    <3>1. served'[c] = Append(served[c], m) /\ served[c] \in Seq(Nat)
      BY <1>1, <1>5, <1>7
    <3>2. Len(served'[c]) = k /\ served'[c][k] = m /\ served'[c] \in Seq(Nat)
      BY <1>5, <3>1, AppendProperties
    <3>3. k \in DOMAIN served'[c]
      BY <1>5, <3>2, LenProperties
    <3>4. QED BY <1>1, <1>5, <1>7, <3>2, <3>3
  <2>2. m = k /\ k <= Len(sent[c])
    BY <1>1, <2>1 DEF IInv, ServedInOrder
  <2>3. c \notin torn /\ Parses(c, b, e) /\ r = Asked[c][k] /\ k \in 1..Len(sent[c])
    BY <1>1, <1>5, <1>7, <2>2 DEF Finds
  <2>4. CASE Outcome[r] = Crash /\ pc' = "dead" /\ torn' = torn
    <3>1. SettledOf' = [SettledOf EXCEPT ![c] = SettledOf[c] + 1]
      BY <1>2, <1>4, <1>5, <2>1, <2>4 DEF SettledOf, Settled
    <3>2. Stopped' /\ SettledOf[c] < Len(Asked[c])
      BY <1>5, <2>2, <2>4 DEF Stopped
    <3>3. QED BY <1>2, <1>3, <2>4, <3>1, <3>2, AsStop DEF ChannelStep
  <2>5. CASE /\ Outcome[r] = NoReply /\ Outcome[r] # Crash
             /\ Shift(c, b, e, Grown(c)) /\ UNCHANGED loopVars
    <3>1. SettledOf' = [SettledOf EXCEPT ![c] = k] /\ Stopped' = Stopped
      BY <1>2, <1>4, <1>5, <2>1, <2>5 DEF SettledOf, Settled, Stopped, loopVars
    <3>2. torn' = torn \/ torn' = torn \union {c}
      BY <2>5 DEF Shift
    <3>3. ASSUME torn' # torn PROVE k < Len(Asked[c])
      <4>1. /\ b \in Seq(Byte) /\ k \in 1..(Len(sent[c]) + 1)
            /\ received[c] + n <= Len(stream[c])
            /\ received[c] + n = Start(c, k) + Len(b)
            /\ \A i \in 1..Len(b) : b[i] = stream[c][Start(c, k) + i]
        <5>1. Reads(c, n)
          BY DEF ServeRequest
        <5>2. QED BY <2>3, <5>1, Reading
      <4>2. TypeOK /\ StreamInv /\ Start(c, k) + Len(b) <= Len(stream[c])
        BY <4>1 DEF IInv
      <4>3. Parses(c, b, e) /\ Shift(c, b, e, Grown(c))
        BY <2>3, <2>5
      <4> HIDE DEF b, k
      <4>4. ~ (k >= Len(sent[c]))
        BY <3>3, <4>1, <4>2, <4>3, LastShift
      <4>5. QED BY <1>5, <2>3, <4>4
    <3>4. PICK j : j = k
      OBVIOUS
    <3>5. /\ j = SettledOf[c] + 1 /\ j <= Len(Asked[c]) /\ Outcome[r] = Outcome[Asked[c][j]]
          /\ SettledOf' = [SettledOf EXCEPT ![c] = j]
          /\ torn' = torn \/ (j < Len(Asked[c]) /\ torn' = torn \union {c})
      BY <1>5, <2>2, <2>3, <3>1, <3>2, <3>3, <3>4
    <3>6. PICK reply : reply = Outcome[r]
      OBVIOUS
    <3>7. reply = Outcome[Asked[c][j]] /\ reply # Crash /\ reply = NoReply
      BY <2>5, <3>5, <3>6
    <3>8. QED BY <1>2, <1>3, <2>3, <3>1, <3>5, <3>7, AsSettle DEF ChannelStep
  <2>6. CASE /\ pc' = "respond" /\ cur' = c /\ torn' = torn
             /\ out' = [id |-> m, body |-> Outcome[r]]
    <3>1. SettledOf' = SettledOf /\ Stopped' = Stopped
      BY <1>2, <1>4, <1>5, <1>7, <2>1, <2>6 DEF SettledOf, Settled, Stopped
    <3>2. QED BY <1>2, <1>3, <2>6, <3>1, AsStutter DEF ChannelStep
  <2>7. QED BY <1>1, <2>4, <2>5, <2>6
<1>8. QED BY <1>6, <1>7

\* A reply that is written settles its request, or is babble on a torn
\* connection; an error closes.
LEMMA WriteMaps ==
    ASSUME ChannelInv, NEW c \in Client, send_response(c)
    PROVE  ChannelStep
<1>1. /\ UNCHANGED <<peer, sent, stream, served, cur>>
      /\ pc \in {"respond", "refuse"} /\ cur = c /\ pc' = "poll"
      /\ \/ peer[c] # "gone" /\ replies' = [replies EXCEPT ![c] = Append(replies[c], out)]
         \/ peer[c] = "gone" /\ replies' = replies
      /\ IInv /\ HandInv /\ conn[c] = "open"
  BY DEF send_response, AfterWrite, clientVars, ChannelInv, IInv, LoopInv
<1>2. Asked' = Asked /\ Left' = Left /\ ~ Stopped /\ Stopped' = Stopped /\ c \notin Closed
  BY <1>1, MappedSame DEF Stopped, Closed
<1>3. \A d \in Client : Settled(d)' = Len(served[d])
  BY <1>1 DEF Settled
<1>4. \A d \in Client \ {c} : Settled(d) = Len(served[d])
  BY <1>1 DEF Settled
<1>5. /\ Len(served[c]) \in Nat /\ Len(sent[c]) \in Nat /\ Len(served[c]) <= Len(sent[c])
      /\ Len(Asked[c]) = Len(sent[c]) /\ SettledOf[c] = Settled(c)
      /\ \A i \in 1..Len(sent[c]) : Asked[c][i] = sent[c][i].req
  BY <1>1, MappedTypes
<1>6. CASE pc = "respond"
  <2>1. conn' = conn /\ Shift(c, buffer[c], end_ptr, buffer_size[c])
    BY <1>1, <1>6 DEF send_response, AfterWrite
  <2>2. Closed' = Closed
    BY <2>1, MappedSame
  <2>3. torn' = torn \/ torn' = torn \union {c}
    BY <2>1 DEF Shift
  <2>4. CASE c \in torn
    <3>1. torn' = torn
      BY <2>3, <2>4
    <3>2. PICK r \in Request : out.id = 0 /\ out.body = Outcome[r]
      BY <1>1, <1>6, <2>4 DEF HandInv
    <3>3. out = [id |-> 0, body |-> Outcome[r]]
      <4>1. out \in [id : Nat, body : Replies \union {NoReply}]
        BY <1>1 DEF IInv, TypeOK
      <4>2. QED BY <3>2, <4>1
    <3>4. SettledOf' = SettledOf
      <4>1. Settled(c) = Len(served[c])
        BY <3>2 DEF Settled
      <4>2. QED BY <1>3, <1>4, <4>1 DEF SettledOf
    <3>5. CASE replies' = replies
      BY <1>2, <2>2, <3>1, <3>4, <3>5, AsStutter DEF ChannelStep
    <3>6. CASE replies' = [replies EXCEPT ![c] = Append(replies[c], out)]
      BY <1>2, <2>2, <2>4, <3>1, <3>3, <3>4, <3>6, AsBabble DEF ChannelStep
    <3>7. QED BY <1>1, <3>5, <3>6
  <2>5. CASE c \notin torn
    <3>1. PICK k : k = Len(served[c])
      OBVIOUS
    <3>2. /\ First(c) = k /\ k \in 1..(Len(sent[c]) + 1)
          /\ received[c] = Start(c, k) + Len(buffer[c]) /\ received[c] <= Len(stream[c])
          /\ \A i \in 1..Len(buffer[c]) : buffer[c][i] = stream[c][Start(c, k) + i]
      <4>1. First(c) = k
        BY <1>1, <1>6, <3>1 DEF First
      <4>2. QED BY <1>1, <1>6, <2>5, <4>1 DEF IInv, WindowInv, FreshInv
    <3>3. /\ out = [id |-> k, body |-> Answer(c, k)] /\ IsReply(out.body)
          /\ end_ptr \in 1..Len(buffer[c]) /\ Parses(c, buffer[c], end_ptr)
      BY <1>1, <1>6, <2>5, <3>1 DEF IInv, LoopInv
    <3>4. Settled(c) = k - 1 /\ k # 0 /\ k \in 1..Len(sent[c])
      <4>1. k # 0 /\ out.id = k
        BY <3>2, <3>3
      <4>2. QED BY <1>1, <1>5, <1>6, <3>1, <3>2, <4>1 DEF Settled
    <3>5. SettledOf' = [SettledOf EXCEPT ![c] = k] /\ k = SettledOf[c] + 1
      <4>1. Settled(c)' = k /\ \A d \in Client \ {c} : Settled(d)' = Settled(d)
        BY <1>3, <1>4, <3>1
      <4>2. SettledOf' = [SettledOf EXCEPT ![c] = k]
        BY <4>1 DEF SettledOf
      <4>3. QED BY <1>5, <3>1, <3>4, <4>2
    <3>6. ASSUME torn' # torn PROVE k < Len(Asked[c])
      <4>1. PICK b : b = buffer[c]
        OBVIOUS
      <4>2. TypeOK /\ StreamInv /\ b \in Seq(Byte) /\ Start(c, k) + Len(b) <= Len(stream[c])
        BY <1>1, <3>2, <4>1 DEF IInv, TypeOK
      <4>3. ~ (k >= Len(sent[c]))
        BY <2>1, <3>2, <3>3, <3>6, <4>1, <4>2, LastShift
      <4>4. QED BY <1>5, <3>4, <4>3
    <3>7. PICK reply : reply = out.body
      OBVIOUS
    <3>8. /\ reply = Outcome[Asked[c][k]] /\ reply # Crash /\ reply # NoReply
          /\ out = [id |-> k, body |-> reply] /\ k <= Len(Asked[c])
      BY <1>5, <3>3, <3>4, <3>7 DEF Answer, IsReply
    <3>9. \/ c \in Left /\ replies' = replies
          \/ replies' = [replies EXCEPT ![c] = Append(replies[c], [id |-> k, body |-> reply])]
      BY <1>1, <3>8 DEF Left
    <3>10. QED BY <1>2, <2>2, <2>3, <2>5, <3>5, <3>6, <3>8, <3>9, AsSettle DEF ChannelStep
  <2>6. QED BY <2>4, <2>5
<1>7. CASE pc = "refuse"
  <2>1. conn' = [conn EXCEPT ![c] = "closed"] /\ torn' = torn
    BY <1>1, <1>7 DEF send_response, AfterWrite, close_connection
  <2>2. Closed' = Closed \union {c}
    <3>1. conn \in [Client -> {"idle", "backlog", "open", "closed"}]
      BY <1>1 DEF IInv, TypeOK
    <3>2. QED BY <2>1, <3>1 DEF Closed
  <2>3. SettledOf' = SettledOf /\ SettledOf[c] = Len(served[c])
    <3>1. Settled(c) = Len(served[c])
      BY <1>7 DEF Settled
    <3>2. QED BY <1>3, <1>4, <3>1 DEF SettledOf
  <2>4. out = [id |-> 0, body |-> ErrorReply]
    BY <1>1, <1>7 DEF IInv, LoopInv
  <2>5. c \in torn \/ SettledOf[c] < Len(Asked[c])
    <3> SUFFICES ASSUME c \notin torn PROVE Len(served[c]) < Len(sent[c])
      BY <1>5, <2>3
    <3>1. PICK k : k = Len(served[c]) + 1
      OBVIOUS
    <3>2. /\ k \in 1..(Len(sent[c]) + 1) /\ received[c] = Start(c, k) + Len(buffer[c])
          /\ received[c] <= Len(stream[c])
      <4>1. First(c) = k
        BY <1>7, <3>1 DEF First
      <4>2. QED BY <1>1, <1>7, <4>1 DEF IInv, WindowInv, FreshInv
    <3>3. /\ Len(buffer[c]) > 0 /\ Len(buffer[c]) \in Nat
          /\ Len(stream[c]) \in Nat /\ Start(c, k) \in Nat
      <4>1. Len(buffer[c]) > 0
        BY <1>1, <1>7 DEF HandInv
      <4>2. buffer[c] \in Seq(Byte)
        BY <1>1 DEF IInv, TypeOK
      <4>3. TypeOK
        BY <1>1 DEF IInv
      <4>4. QED BY <3>2, <4>1, <4>2, <4>3, LenProperties, SentType
    <3>4. Start(c, k) # Len(stream[c])
      BY <3>2, <3>3
    <3>5. QED BY <1>5, <3>1, <3>4 DEF Start
  <2>6. QED BY <1>1, <1>2, <2>1, <2>2, <2>3, <2>4, <2>5, AsClose DEF ChannelStep
<1>8. QED BY <1>1, <1>6, <1>7

-----------------------------------------------------------------------------
(* What the loop has in hand.                                              *)

\* HandInv, step by step.
LEMMA HandKept ==
    ASSUME IInv, IInv', HandInv, [Next]_vars
    PROVE  HandInv'
<1>1. CASE pc' \notin {"respond", "refuse"}
  BY <1>1 DEF HandInv
<1>2. ASSUME UNCHANGED <<pc, cur, out, torn>>, pc \in {"respond", "refuse"} => buffer' = buffer
      PROVE  HandInv'
  BY <1>2 DEF HandInv
<1>3. CASE UNCHANGED vars
  BY <1>2, <1>3 DEF vars
<1>4. ASSUME NEW c \in Client, ClientStep(c) PROVE HandInv'
  <2>1. UNCHANGED <<pc, cur, out, torn, buffer>>
    BY <1>4 DEF ClientStep, Connect, Send, HalfClose, Leave, TakeReply, loopVars
  <2>2. QED BY <1>2, <2>1
<1>5. ASSUME NEW c \in Client, accept_cb(c) \/ ReallocFails(c) \/ ReadEnds(c) PROVE HandInv'
  <2>1. UNCHANGED <<pc, cur, out, torn>> /\ pc = "poll"
    BY <1>5 DEF accept_cb, ReallocFails, ReadEnds, Readable, loopVars
  <2>2. QED BY <1>2, <2>1
<1>6. ASSUME NEW c \in Client, send_response(c) \/ Sigpipe(c) PROVE HandInv'
  <2>1. pc' \in {"poll", "dead"}
    BY <1>6 DEF send_response, AfterWrite, Sigpipe
  <2>2. QED BY <1>1, <2>1
<1>7. ASSUME NEW c \in Client, NEW n \in 1..(Len(stream[c]) - received[c]), ServeRequest(c, n)
      PROVE  HandInv'
  <2>1. pc = "poll"
    BY <1>7 DEF ServeRequest, Reads, Readable
  <2>2. CASE pc' # "respond"
    <3>1. pc' \in {"poll", "dead"}
      BY <1>7, <2>1, <2>2 DEF ServeRequest, loopVars
    <3>2. QED BY <1>1, <3>1
  <2>3. CASE pc' = "respond"
    <3>1. PICK e \in 1..Len(Filled(c, n)), m \in 0..Len(sent[c]), r \in Request :
            /\ Finds(c, Filled(c, n), e, m, r)
            /\ cur' = c /\ torn' = torn /\ out' = [id |-> m, body |-> Outcome[r]]
      BY <1>7, <2>1, <2>3 DEF ServeRequest, loopVars
    <3>2. c \in torn => m = 0
      BY <3>1 DEF Finds
    <3>3. QED BY <2>3, <3>1, <3>2 DEF HandInv
  <2>4. QED BY <2>2, <2>3
<1>8. ASSUME NEW c \in Client, NEW n \in 1..(Len(stream[c]) - received[c]), AwaitMore(c, n)
      PROVE  HandInv'
  <2>1. pc' = "poll"
    BY <1>8 DEF AwaitMore, Reads, Readable, loopVars
  <2>2. QED BY <1>1, <2>1
<1>9. ASSUME NEW c \in Client, NEW n \in 1..(Len(stream[c]) - received[c]), RefuseInput(c, n)
      PROVE  HandInv'
  <2>1. /\ pc' = "refuse" /\ cur' = c /\ buffer' = [buffer EXCEPT ![c] = Filled(c, n)]
        /\ buffer \in [Client -> Seq(Byte)]
    BY <1>9 DEF RefuseInput, IInv, TypeOK
  <2>2. Len(Filled(c, n)) > 0
    <3>1. /\ stream[c] \in Seq(Byte) /\ buffer[c] \in Seq(Byte) /\ received[c] \in Nat
          /\ Len(stream[c]) \in Nat /\ Len(buffer[c]) \in Nat
      BY LenProperties DEF IInv, TypeOK
    <3>2. PICK t : t = SubSeq(stream[c], received[c] + 1, received[c] + n)
      OBVIOUS
    <3>3. t \in Seq(Byte) /\ Len(t) = n
      <4>1. \A i \in (received[c] + 1)..(received[c] + n) : stream[c][i] \in Byte
        BY <3>1, ElementOfSeq
      <4>2. QED BY <3>1, <3>2, <4>1, SubSeqProperties
    <3>4. Len(buffer[c] \o t) = Len(buffer[c]) + n
      BY <3>1, <3>3, ConcatProperties
    <3>5. QED BY <3>1, <3>2, <3>4 DEF Filled
  <2>3. QED BY <2>1, <2>2 DEF HandInv
<1>10. QED BY <1>3, <1>4, <1>5, <1>6, <1>7, <1>8, <1>9 DEF Next, ServerStep, connection_cb

-----------------------------------------------------------------------------

\* IInv and what the loop has in hand.
THEOREM ChannelInvariance == Spec => []ChannelInv
<1>1. Init => HandInv
  BY DEF Init, HandInv
<1>2. IInv /\ IInv' /\ HandInv /\ [Next]_vars => HandInv'
  BY HandKept
<1>3. QED BY <1>1, <1>2, Invariance, PTL DEF Spec, ChannelInv

\* Every step of the server is one of the channel's, or none.
LEMMA StepMaps == ChannelInv /\ IInv' /\ [Next]_vars => [Channel!Next]_(Channel!vars)
<1> SUFFICES ASSUME ChannelInv, IInv', [Next]_vars PROVE ChannelStep
  BY DEF ChannelStep
<1>1. IInv
  BY DEF ChannelInv
<1>2. CASE UNCHANGED vars
  <2>1. UNCHANGED <<peer, sent, served, conn, replies, torn, pc, cur, out>>
    BY <1>2 DEF vars
  <2>2. QED BY <2>1, MappedSame, AsStutter DEF ChannelStep
<1>3. ASSUME NEW c \in Client, ClientStep(c) PROVE ChannelStep
  BY <1>1, <1>3, SendMaps, ClientMaps DEF ClientStep, ChannelStep
<1>4. ASSUME NEW c \in Client, ServerStep(c) PROVE ChannelStep
  BY <1>1, <1>4, ClientMaps, EndingMaps, WaitMaps, SigpipeMaps, ServeMaps, WriteMaps
  DEF ServerStep, connection_cb, ChannelStep
<1>5. QED BY <1>2, <1>3, <1>4 DEF Next

\* The beginning is the channel's.
LEMMA InitMaps == Init => Channel!Init
<1> SUFFICES ASSUME Init PROVE Channel!Init
  OBVIOUS
<1>1. \A c \in Client : sent[c] = <<>> /\ served[c] = <<>> /\ peer[c] # "gone" /\ conn[c] # "closed"
  BY DEF Init
<1>2. Asked = [c \in Client |-> <<>>]
  <2>1. [i \in DOMAIN <<>> |-> <<>>[i].req] = <<>>
    BY EmptySeq
  <2>2. \A c \in Client : [i \in DOMAIN sent[c] |-> sent[c][i].req] = <<>>
    BY <1>1, <2>1
  <2>3. QED BY <2>2 DEF Asked
<1>3. SettledOf = [c \in Client |-> 0]
  <2>1. Len(<<>>) = 0
    BY EmptySeq
  <2>2. QED BY <1>1, <2>1 DEF SettledOf, Settled, Init
<1>4. Left = {} /\ Closed = {} /\ ~ Stopped
  BY <1>1 DEF Left, Closed, Stopped, Init
<1>5. QED BY <1>2, <1>3, <1>4 DEF Init, Channel!Init, Asked, SettledOf, Left, Closed, Stopped

\* jsonrpc-c.c:97-205: seen from the clients, the server is a channel that
\* settles the requests of each connection one by one and in order, and that
\* fails no client but one that asks again before it was answered.
THEOREM ChannelImplemented == Spec => ImplementsChannel
<1>1. Init => Channel!Init
  BY InitMaps
<1>2. ChannelInv /\ ChannelInv' /\ [Next]_vars => [Channel!Next]_(Channel!vars)
  BY StepMaps DEF ChannelInv
<1>3. QED BY <1>1, <1>2, ChannelInvariance, PTL DEF Spec, ImplementsChannel, Channel!Spec
=============================================================================
