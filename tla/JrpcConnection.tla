---------------------------- MODULE JrpcConnection ----------------------------
(***************************************************************************)
(* The HTTP/JSON-RPC connection server of 3rd/jsonrpc-c/jsonrpc-c.c: one   *)
(* thread, one libev loop, one callback per readable socket.               *)
(*                                                                         *)
(* A client writes whole requests to its socket; the network delivers them *)
(* in pieces.  A byte is its message's number and its offset there, and    *)
(* Shape gives its class, which is all that the header search (strnstr)    *)
(* and the JSON parser (cJSON_ParseWithOpts) tell apart:                   *)
(*   "hdr"   before the end of the header                                  *)
(*   "eoh"   the last byte of the first "\r\n\r\n"                         *)
(*   "json"  a byte of the body after which the parser, finding the end of *)
(*           its input, stops exactly there                                *)
(*   "text"  a byte inside a string or a literal: with the input ending    *)
(*           after it, the parser gives up at the token's START            *)
(*   "end"   the byte that completes the JSON value                        *)
(*   "bad"   a byte of the body that no JSON value can continue with       *)
(* Clients send no NUL byte.  The clients and the sockets are external.    *)
(*                                                                         *)
(* Shifting a served request out of the buffer can lose bytes of the next  *)
(* ones (see Kept).  What the parser makes of the rest then depends on     *)
(* where exactly it was torn: from there on it may find any request, or an *)
(* error, or wait.                                                         *)
(***************************************************************************)
EXTENDS Integers, Sequences

CONSTANTS
    Client,       \* peers; each opens one connection
    Request,      \* the requests a client may send
    Shape,        \* Shape[r]: the classes of r's bytes
    Outcome,      \* Outcome[r]: what mjrpc_process_cjson makes of r
    NoReply,      \* the outcome of a notification
    Crash,        \* the outcome of a request whose handler faults
    ErrorReply,   \* the reply to what is not a request
    InitialSize,  \* bytes of a fresh buffer (1500 in the code)
    SockCap,      \* replies that fit in the socket buffers before write blocks
    Window,       \* requests a client has outstanding at most
    MaxMsgs       \* bound: requests per client

Class == {"hdr", "eoh", "json", "text", "end", "bad"}

\* A header, its end, then a body whose value is completed by its last byte,
\* if at all.
ShapeOf(s) ==
    \E h \in DOMAIN s :
        /\ s[h] = "eoh"
        /\ \A i \in DOMAIN s : i < h => s[i] = "hdr"
        /\ \A i \in DOMAIN s : i > h =>
               s[i] \in {"json", "text", "bad"} \/ (s[i] = "end" /\ i = Len(s))

ASSUME ShapeAssumption ==
    /\ Shape \in [Request -> Seq(Class)]
    /\ \A r \in Request : ShapeOf(Shape[r])

ASSUME BoundsAssumption ==
    /\ InitialSize \in Nat /\ InitialSize > 1
    /\ SockCap \in Nat /\ SockCap > 0
    /\ Window \in Nat
    /\ MaxMsgs \in Nat

ASSUME OutcomeAssumption ==
    /\ Outcome = [r \in Request |-> Outcome[r]]
    /\ NoReply # Crash

VARIABLES
    \* the client's side
    peer,         \* "open", "half" (no more requests) or "gone" (closed)
    sent,         \* the requests written: what, and where in the stream
    stream,       \* every byte written on the connection
    taken,        \* how many replies the client has read
    \* the sockets
    conn,         \* "idle", "backlog", "open" or "closed"
    received,     \* how many bytes of stream the server has read
    replies,      \* every reply delivered to the connection
    reset,        \* connections the client's host has reset
    \* struct jrpc_connection (pos is Len(buffer))
    buffer, buffer_size,
    \* the loop: where it stands, in whose callback, with what reply in hand
    \* and where the parsed request ends
    pc, cur, out, end_ptr,
    \* history: the number of every request dispatched, and the connections
    \* whose shifts have lost bytes
    served, torn

clientVars == <<peer, sent, stream, taken>>
loopVars == <<pc, cur, out, end_ptr>>
vars == <<peer, sent, stream, taken, conn, received, replies, reset,
          buffer, buffer_size, pc, cur, out, end_ptr, served, torn>>

Message == [req : Request, at : Nat]
Byte == [msg : Nat, off : Nat]
\* mjrpc_process_cjson returned a reply (if (ret_json)).
AnswersAll(x) == x # Crash
IsReply(x) == x \notin {NoReply, Crash}
Replies == {x \in {Outcome[r] : r \in Request} : x \notin {NoReply, Crash}}
               \union {ErrorReply}
Reply == [id : Nat, body : Replies]
ClassOf(c, b) == Shape[sent[c][b.msg].req][b.off]
None == [id |-> 0, body |-> NoReply]

-----------------------------------------------------------------------------
(* The scan of a buffer b of connection c.                                 *)

\* strnstr(buffer, "\r\n\r\n"): the header ends at index h.
HeaderEnds(c, b, h) ==
    /\ h \in 1..Len(b)
    /\ ClassOf(c, b[h]) = "eoh"
    /\ \A i \in 1..(h - 1) : ClassOf(c, b[i]) # "eoh"

InBody(c, b, h, n) == \A i \in (h + 1)..n : ClassOf(c, b[i]) \in {"json", "text"}

\* The parser returns a value and leaves end_ptr behind index e.
Parses(c, b, e) ==
    \E h \in 1..Len(b) :
        /\ HeaderEnds(c, b, h)
        /\ e \in (h + 1)..Len(b)
        /\ ClassOf(c, b[e]) = "end"
        /\ InBody(c, b, h, e - 1)

HasRequest(c, b) == \E e \in 1..Len(b) : Parses(c, b, e)

\* The parser fails with end_ptr == buffer + pos.
StopsAtEnd(c, b) ==
    \E h \in 1..Len(b) :
        /\ HeaderEnds(c, b, h)
        /\ InBody(c, b, h, Len(b))
        /\ ClassOf(c, b[Len(b)]) # "text"

-----------------------------------------------------------------------------
Init ==
    /\ peer = [c \in Client |-> "open"]
    /\ sent = [c \in Client |-> <<>>]
    /\ stream = [c \in Client |-> <<>>]
    /\ taken = [c \in Client |-> 0]
    /\ conn = [c \in Client |-> "idle"]
    /\ received = [c \in Client |-> 0]
    /\ replies = [c \in Client |-> <<>>]
    /\ reset = {}
    /\ buffer = [c \in Client |-> <<>>]
    /\ buffer_size = [c \in Client |-> 0]
    /\ pc = "poll"
    /\ cur \in Client
    /\ out = None
    /\ end_ptr = 0
    /\ served = [c \in Client |-> <<>>]
    /\ torn = {}

-----------------------------------------------------------------------------
(* Clients (external).                                                     *)

Connect(c) ==
    /\ conn[c] = "idle"
    /\ conn' = [conn EXCEPT ![c] = "backlog"]
    /\ UNCHANGED <<clientVars, received, replies, reset, buffer, buffer_size,
                   loopVars, served, torn>>

Send(c, r) ==
    /\ conn[c] \in {"backlog", "open"}
    /\ peer[c] = "open"
    /\ Len(sent[c]) < MaxMsgs
    /\ Len(sent[c]) - taken[c] < Window
    /\ sent' = [sent EXCEPT ![c] = Append(@, [req |-> r, at |-> Len(stream[c])])]
    /\ stream' = [stream EXCEPT ![c] =
                    @ \o [i \in 1..Len(Shape[r]) |->
                             [msg |-> Len(sent[c]) + 1, off |-> i]]]
    /\ UNCHANGED <<peer, taken, conn, received, replies, reset, buffer,
                   buffer_size, loopVars, served, torn>>

\* shutdown(SHUT_WR): no more requests, replies still read.
HalfClose(c) ==
    /\ conn[c] \in {"backlog", "open"}
    /\ peer[c] = "open"
    /\ peer' = [peer EXCEPT ![c] = "half"]
    /\ UNCHANGED <<sent, stream, taken, conn, received, replies, reset, buffer,
                   buffer_size, loopVars, served, torn>>

\* close(): with a reply unread in the socket the host sends a reset.
Leave(c) ==
    /\ conn[c] \in {"backlog", "open"}
    /\ peer[c] # "gone"
    /\ peer' = [peer EXCEPT ![c] = "gone"]
    /\ reset' = IF taken[c] < Len(replies[c]) THEN reset \union {c} ELSE reset
    /\ UNCHANGED <<sent, stream, taken, conn, received, replies, buffer,
                   buffer_size, loopVars, served, torn>>

TakeReply(c) ==
    /\ peer[c] # "gone"
    /\ taken[c] < Len(replies[c])
    /\ taken' = [taken EXCEPT ![c] = @ + 1]
    /\ UNCHANGED <<peer, sent, stream, conn, received, replies, reset, buffer,
                   buffer_size, loopVars, served, torn>>

-----------------------------------------------------------------------------
(* The server.                                                             *)

accept_cb(c) ==
    /\ pc = "poll"
    /\ conn[c] = "backlog"
    /\ conn' = [conn EXCEPT ![c] = "open"]
    /\ buffer' = [buffer EXCEPT ![c] = <<>>]
    /\ buffer_size' = [buffer_size EXCEPT ![c] = InitialSize]
    /\ UNCHANGED <<clientVars, received, replies, reset, loopVars, served, torn>>

close_connection(c) ==
    /\ conn' = [conn EXCEPT ![c] = "closed"]
    /\ buffer' = [buffer EXCEPT ![c] = <<>>]
    /\ buffer_size' = [buffer_size EXCEPT ![c] = 0]

ReadableAnytime(c) ==
    /\ conn[c] = "open"
    /\ received[c] < Len(stream[c]) \/ peer[c] # "open" \/ c \in reset

\* The loop is free and the socket has bytes, an end of file or an error.
Readable(c) ==
    /\ pc = "poll"
    /\ conn[c] = "open"
    /\ received[c] < Len(stream[c]) \/ peer[c] # "open" \/ c \in reset

BufferFull(c) == Len(buffer[c]) = buffer_size[c] - 1

\* realloc cannot double the buffer.
ReallocFails(c) ==
    /\ Readable(c)
    /\ BufferFull(c)
    /\ close_connection(c)
    /\ UNCHANGED <<clientVars, received, replies, reset, loopVars, served, torn>>

ReadEndsIgnored(c) ==
    /\ Readable(c)
    /\ received[c] = Len(stream[c])
    /\ UNCHANGED vars

\* read returns 0 or, on a reset connection, -1.
ReadEnds(c) ==
    /\ Readable(c)
    /\ received[c] = Len(stream[c])
    /\ close_connection(c)
    /\ UNCHANGED <<clientVars, received, replies, reset, loopVars, served, torn>>

Grown(c) == IF BufferFull(c) THEN 2 * buffer_size[c] ELSE buffer_size[c]

MaxReadAll(c) == Grown(c) - Len(buffer[c])
\* The room read is given: one byte stays for the terminating NUL.
MaxRead(c) == Grown(c) - Len(buffer[c]) - 1

FilledOver(c, n) == SubSeq(stream[c], received[c] + 1, received[c] + n)
\* The buffer after read has delivered n bytes, those that have arrived.
Filled(c, n) ==
    buffer[c] \o SubSeq(stream[c], received[c] + 1, received[c] + n)

Reads(c, n) ==
    /\ Readable(c)
    /\ n <= MaxRead(c)
    /\ received[c] + n <= Len(stream[c])
    /\ received' = [received EXCEPT ![c] = @ + n]
    /\ buffer_size' = [buffer_size EXCEPT ![c] = Grown(c)]

\* How many bytes stay of the n - e behind the request that ends at index e:
\* memmove takes them, their NUL and one byte more to the front of the buffer,
\* but strlen then measures what is at end_ptr, where they were.  If the front
\* reaches that far, this is their part from their byte e + 1 on, and pos comes
\* out e too small; if it is the one byte more, pos is 0, unless the buffer was
\* full and that byte came from behind it.
Kept(n, e, full) ==
    LET rest == n - e
    IN  IF rest < e - 1 THEN {rest}
        ELSE IF rest >= e THEN {rest - e}
        ELSE IF full THEN {0, rest} ELSE {0}

ShiftNot(c, b, e, size) ==
    /\ buffer' = [buffer EXCEPT ![c] = b]
    /\ UNCHANGED torn
\* memmove, pos = strlen(end_ptr), memset, in a buffer of the given size.
Shift(c, b, e, size) ==
    \E kept \in Kept(Len(b), e, Len(b) = size - 1) :
        /\ buffer' = [buffer EXCEPT ![c] = SubSeq(b, e + 1, e + kept)]
        /\ torn' = IF kept < Len(b) - e THEN torn \union {c} ELSE torn

\* The parser returns request r and leaves end_ptr behind index e.  It is
\* message m of the client or, with m = 0, made of what is left of several.
Finds(c, b, e, m, r) ==
    \/ c \notin torn /\ Parses(c, b, e) /\ m = b[e].msg /\ r = sent[c][m].req
    \/ c \in torn /\ m = 0

\* The body parses: dispatch the request, and answer if it has a reply.
ServeRequest(c, n) ==
    /\ Reads(c, n)
    /\ \E e \in 1..Len(Filled(c, n)), m \in 0..Len(sent[c]), r \in Request :
        LET b == Filled(c, n)
        IN  /\ Finds(c, b, e, m, r)
            /\ served' = IF m = 0 THEN served ELSE [served EXCEPT ![c] = Append(@, m)]
            /\ \/ /\ Outcome[r] = Crash
                  /\ pc' = "dead"
                  /\ buffer' = [buffer EXCEPT ![c] = b]
                  /\ UNCHANGED <<cur, out, end_ptr, torn>>
               \/ /\ Outcome[r] # Crash /\ ~IsReply(Outcome[r])
                  /\ Shift(c, b, e, Grown(c))
                  /\ UNCHANGED loopVars
               \/ /\ IsReply(Outcome[r])
                  /\ pc' = "respond"
                  /\ cur' = c
                  /\ out' = [id |-> m, body |-> Outcome[r]]
                  /\ end_ptr' = e
                  /\ buffer' = [buffer EXCEPT ![c] = b]
                  /\ UNCHANGED torn
    /\ UNCHANGED <<clientVars, conn, replies, reset>>

\* The parser ran out of input at the buffer's end: wait for more.
AwaitMore(c, n) ==
    /\ Reads(c, n)
    /\ c \in torn \/ StopsAtEnd(c, Filled(c, n))
    /\ buffer' = [buffer EXCEPT ![c] = Filled(c, n)]
    /\ UNCHANGED <<clientVars, conn, replies, reset, loopVars, served, torn>>

\* The parser stopped before the buffer's end, or no header end was found and
\* it never ran: send an error and close.
RefuseInput(c, n) ==
    /\ Reads(c, n)
    /\ \/ c \in torn
       \/ ~HasRequest(c, Filled(c, n)) /\ ~StopsAtEnd(c, Filled(c, n))
    /\ buffer' = [buffer EXCEPT ![c] = Filled(c, n)]
    /\ pc' = "refuse"
    /\ cur' = c
    /\ out' = [id |-> 0, body |-> ErrorReply]
    /\ UNCHANGED <<clientVars, conn, replies, reset, end_ptr, served, torn>>

AfterWriteStays(c) ==
    /\ pc' = "poll" /\ out' = None /\ end_ptr' = 0
    /\ \/ pc = "respond" /\ Shift(c, buffer[c], end_ptr, buffer_size[c])
       \/ pc = "refuse" /\ buffer' = [buffer EXCEPT ![c] = <<>>] /\ UNCHANGED torn
    /\ UNCHANGED <<cur, conn, buffer_size>>

\* What follows send_response in connection_cb.
AfterWrite(c) ==
    /\ pc' = "poll" /\ out' = None /\ end_ptr' = 0
    /\ UNCHANGED cur
    /\ \/ /\ pc = "respond"
          /\ Shift(c, buffer[c], end_ptr, buffer_size[c])
          /\ UNCHANGED <<conn, buffer_size>>
       \/ /\ pc = "refuse"
          /\ close_connection(c)
          /\ UNCHANGED torn

send_responseDropping(c) ==
    /\ pc \in {"respond", "refuse"}
    /\ cur = c
    /\ replies' = IF peer[c] # "gone" /\ Len(replies[c]) - taken[c] < SockCap
                  THEN [replies EXCEPT ![c] = Append(@, out)]
                  ELSE replies
    /\ reset' = IF peer[c] = "gone" THEN reset \union {c} ELSE reset
    /\ AfterWrite(c)
    /\ UNCHANGED <<clientVars, received, served>>

\* write blocks the loop, and every connection with it, until there is room.
send_response(c) ==
    /\ pc \in {"respond", "refuse"}
    /\ cur = c
    /\ \/ /\ peer[c] # "gone"
          /\ Len(replies[c]) - taken[c] < SockCap
          /\ replies' = [replies EXCEPT ![c] = Append(@, out)]
          /\ UNCHANGED reset
       \/ /\ peer[c] = "gone"          \* lost; its host answers with a reset
          /\ reset' = reset \union {c}
          /\ UNCHANGED replies
    /\ AfterWrite(c)
    /\ UNCHANGED <<clientVars, received, served>>

\* A write to a reset connection may raise SIGPIPE, which nothing handles.
Sigpipe(c) ==
    /\ pc \in {"respond", "refuse"}
    /\ cur = c
    /\ c \in reset
    /\ pc' = "dead"
    /\ UNCHANGED <<clientVars, conn, received, replies, reset, buffer,
                   buffer_size, cur, out, end_ptr, served, torn>>

connection_cb(c) ==
    \/ ReallocFails(c)
    \/ ReadEnds(c)
    \/ \E n \in 1..(Len(stream[c]) - received[c]) :
        ServeRequest(c, n) \/ AwaitMore(c, n) \/ RefuseInput(c, n)

-----------------------------------------------------------------------------
ClientStep(c) ==
    Connect(c) \/ HalfClose(c) \/ Leave(c) \/ TakeReply(c)
        \/ \E r \in Request : Send(c, r)

ServerStep(c) == accept_cb(c) \/ connection_cb(c) \/ send_response(c) \/ Sigpipe(c)

Next == \E c \in Client : ClientStep(c) \/ ServerStep(c)

Spec == Init /\ [][Next]_vars

-----------------------------------------------------------------------------
(* Fairness.  libev calls the callback of every ready descriptor once per  *)
(* iteration, and a blocked write resumes when there is room.  A client    *)
(* that stays reads its replies: without that one of them blocks the loop, *)
(* so nothing could be promised to any.                                    *)
Fairness ==
    \A c \in Client :
        /\ WF_vars(accept_cb(c))
        /\ WF_vars(connection_cb(c))
        /\ WF_vars(send_response(c))
        /\ WF_vars(TakeReply(c))

FairSpec == Spec /\ Fairness

-----------------------------------------------------------------------------
TypeOK ==
    /\ peer \in [Client -> {"open", "half", "gone"}]
    /\ sent \in [Client -> Seq(Message)]
    /\ stream \in [Client -> Seq(Byte)]
    /\ taken \in [Client -> Nat]
    /\ conn \in [Client -> {"idle", "backlog", "open", "closed"}]
    /\ received \in [Client -> Nat]
    /\ replies \in [Client -> Seq(Reply)]
    /\ reset \subseteq Client
    /\ buffer \in [Client -> Seq(Byte)]
    /\ buffer_size \in [Client -> Nat]
    /\ pc \in {"poll", "respond", "refuse", "dead"}
    /\ cur \in Client
    /\ out \in [id : Nat, body : Replies \union {NoReply}]
    /\ end_ptr \in Nat
    /\ served \in [Client -> Seq(Nat)]
    /\ torn \subseteq Client

\* jsonrpc-c.c:104-115: a buffer always keeps room for its NUL, and read is
\* always asked for at least one byte, so that a read of 0 means end of file.
ReadHasRoom ==
    \A c \in Client : conn[c] = "open" =>
        /\ Len(buffer[c]) < buffer_size[c]
        /\ MaxRead(c) > 0

\* jsonrpc-c.c:130-155: whatever the pieces in which they arrive, however the
\* buffer grows and is shifted, the requests of a connection are dispatched
\* in the order they were sent, none twice and none skipped (until a shift
\* loses bytes).
ServedInOrder ==
    \A c \in Client : \A i \in DOMAIN served[c] :
        served[c][i] = i /\ i <= Len(sent[c])

\* Where message n of c starts, or ends the stream.
Start(c, n) == IF n <= Len(sent[c]) THEN sent[c][n].at ELSE Len(stream[c])

\* The buffer and the unread bytes are together what the client sent from its
\* first unserved request on.
Whole(c) ==
    LET s == Start(c, Len(served[c]) + 1)
    IN  /\ received[c] - Len(buffer[c]) = s
        /\ buffer[c] = SubSeq(stream[c], s + 1, received[c])

\* jsonrpc-c.c:151, "shift processed request, discarding it": between
\* callbacks no byte is lost or read twice, only the requests processed are
\* gone.
NothingLost == pc = "poll" => \A c \in Client : conn[c] = "open" => Whole(c)

\* jsonrpc-c.c:115-156: the same as long as no shift found the bytes that
\* follow the request at least as long as the request itself: nothing else
\* loses bytes, however they arrive and however the buffer grows.
OnlyShiftsTear ==
    pc = "poll" => \A c \in Client \ torn : conn[c] = "open" => Whole(c)

Answer(c, n) == Outcome[sent[c][n].req]

\* jsonrpc-c.c:140-150: replies leave in the order of the requests, each
\* request is answered at most once and with its own result, and nothing
\* follows the error reply that closes a connection.  A connection that lost
\* bytes is promised nothing.
RepliesMatchRequests ==
    \A c \in Client \ torn : \A j \in DOMAIN replies[c] :
        /\ \A i \in 1..(j - 1) :
              /\ replies[c][i].id # 0
              /\ replies[c][j].id # 0 => replies[c][i].id < replies[c][j].id
        /\ LET n == replies[c][j].id
           IN IF n = 0 THEN replies[c][j].body = ErrorReply
              ELSE n \in DOMAIN served[c] /\ replies[c][j].body = Answer(c, n)

\* jsonrpc-c.c:134-150: between callbacks no dispatched request still waits
\* for its reply, unless its client has gone.
NoReplyForgotten ==
    pc = "poll" => \A c \in Client : peer[c] # "gone" =>
        \A n \in DOMAIN served[c] :
            Answer(c, n) # NoReply => \E j \in DOMAIN replies[c] : replies[c][j].id = n

\* Message n of c is a whole request and no byte of it is wrong.
Complete(c, n) ==
    LET s == Shape[sent[c][n].req] IN s[Len(s)] = "end" /\ \A i \in DOMAIN s : s[i] # "bad"

\* jsonrpc-c.c:160-161, "did we parse the entire buffer? If so, just wait for
\* more. else there was an error before the buffer's end": a connection is
\* refused only if something it received is wrong.
RefusedForAnError ==
    pc = "refuse" =>
        \E i \in DOMAIN buffer[cur] : ~Complete(cur, buffer[cur][i].msg)

\* jsonrpc-c.c:120-123: when a client stops sending or leaves, its connection
\* is closed in the end: no descriptor leaks.
ConnectionsEnd ==
    \A c \in Client :
        (conn[c] = "open" /\ peer[c] # "open") ~> (conn[c] = "closed" \/ pc = "dead")

Dispatched(c) == {served[c][i] : i \in DOMAIN served[c]}

\* jsonrpc-c.c:97-177: a client that waits for each reply before its next
\* request (Window = 1) gets every complete request dispatched, this one and
\* not the one before again, or its connection closed.
EachRequestSettled ==
    \A c \in Client : \A n \in 1..MaxMsgs :
        (n <= Len(sent[c]) /\ Complete(c, n))
            ~> (n \in Dispatched(c) \/ conn[c] = "closed" \/ pc = "dead")
-----------------------------------------------------------------------------
(* The server implements RpcChannel.  A request counts as settled once its *)
(* reply is out of the loop's hands.                                       *)
Settled(c) == IF pc = "respond" /\ cur = c /\ out.id # 0 THEN Len(served[c]) - 1 ELSE Len(served[c])

Channel == INSTANCE RpcChannel WITH
    asked   <- [c \in Client |-> [i \in DOMAIN sent[c] |-> sent[c][i].req]],
    settled <- [c \in Client |-> Settled(c)],
    answers <- replies,
    left    <- {c \in Client : peer[c] = "gone"},
    closed  <- {c \in Client : conn[c] = "closed"},
    garbled <- torn,
    stopped <- pc = "dead"

\* jsonrpc-c.c:97-205: seen from the clients, the server is a channel that
\* settles the requests of each connection one by one and in order, and that
\* can fail only a client that asks again before it was answered.
ImplementsChannel == Channel!Spec
=============================================================================
