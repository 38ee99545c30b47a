------------------------------ MODULE RpcChannel ------------------------------
(***************************************************************************)
(* What the connection server promises its clients, with no bytes, buffers *)
(* or callbacks: the requests of a connection are settled one at a time in *)
(* the order asked; each gets at most its own reply; a connection may be   *)
(* refused, once, with an error, and may be closed; the server may stop.   *)
(* A connection on which a request is settled while a later one waits may  *)
(* get garbled: its client is promised nothing any more.                   *)
(***************************************************************************)
EXTENDS Integers, Sequences

CONSTANTS Client, Request, Outcome, NoReply, Crash, ErrorReply

VARIABLES
    asked,      \* the requests of each client, in order
    settled,    \* how many of them have been dispatched and answered
    answers,    \* the replies sent back, in order
    left,       \* the clients that no longer listen
    closed,     \* the connections the server has closed
    garbled,    \* the connections that lost their place
    stopped     \* the server has stopped

vars == <<asked, settled, answers, left, closed, garbled, stopped>>

Init ==
    /\ asked = [c \in Client |-> <<>>]
    /\ settled = [c \in Client |-> 0]
    /\ answers = [c \in Client |-> <<>>]
    /\ left = {}
    /\ closed = {}
    /\ garbled = {}
    /\ stopped = FALSE

Ask(c, r) ==
    /\ c \notin left \union closed
    /\ asked' = [asked EXCEPT ![c] = Append(@, r)]
    /\ UNCHANGED <<settled, answers, left, closed, garbled, stopped>>

Leave(c) ==
    /\ left' = left \union {c}
    /\ UNCHANGED <<asked, settled, answers, closed, garbled, stopped>>

Serving(c) == ~stopped /\ c \notin closed

\* The next request is settled; a client that listens gets its reply.
Settle(c) ==
    LET n == settled[c] + 1
        reply == Outcome[asked[c][n]]
    IN  /\ Serving(c) /\ c \notin garbled
        /\ n <= Len(asked[c])
        /\ reply # Crash
        /\ settled' = [settled EXCEPT ![c] = n]
        /\ \/ reply = NoReply /\ UNCHANGED answers
           \/ c \in left /\ UNCHANGED answers
           \/ /\ reply # NoReply
              /\ answers' = [answers EXCEPT ![c] = Append(@, [id |-> n, body |-> reply])]
        /\ \/ UNCHANGED garbled
           \/ n < Len(asked[c]) /\ garbled' = garbled \union {c}
        /\ UNCHANGED <<asked, left, closed, stopped>>

\* A garbled connection gets replies to what nobody asked.
Babble(c) ==
    /\ Serving(c) /\ c \in garbled
    /\ \E r \in Request :
          answers' = [answers EXCEPT ![c] = Append(@, [id |-> 0, body |-> Outcome[r]])]
    /\ UNCHANGED <<asked, settled, left, closed, garbled, stopped>>

\* The connection is closed: after an error, or silently when the client has
\* stopped listening or sending or the server is out of memory.
Close(c) ==
    /\ Serving(c)
    /\ closed' = closed \union {c}
    /\ \/ UNCHANGED answers
       \/ /\ settled[c] < Len(asked[c]) \/ c \in garbled
          /\ answers' = [answers EXCEPT ![c] = Append(@, [id |-> 0, body |-> ErrorReply])]
    /\ UNCHANGED <<asked, settled, left, garbled, stopped>>

\* The process ends, with a request in hand or not.
Stop(c) ==
    /\ ~stopped
    /\ stopped' = TRUE
    /\ \/ UNCHANGED settled
       \/ /\ settled[c] < Len(asked[c])
          /\ settled' = [settled EXCEPT ![c] = @ + 1]
    /\ UNCHANGED <<asked, answers, left, closed, garbled>>

Next ==
    \E c \in Client :
        \/ \E r \in Request : Ask(c, r)
        \/ Leave(c) \/ Settle(c) \/ Babble(c) \/ Close(c) \/ Stop(c)

Spec == Init /\ [][Next]_vars
=============================================================================
