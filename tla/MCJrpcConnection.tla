--------------------------- MODULE MCJrpcConnection ---------------------------
(***************************************************************************)
(* Small instances of JrpcConnection.                                      *)
(***************************************************************************)
EXTENDS JrpcConnection, TLC

CONSTANTS call, quick, notice, broken, partial, fatal,   \* requests
          Pipelining   \* the client that sends what it likes

\* A call with a string in its body, one without, a notification, a body with a
\* syntax error, a body that never ends, and a call whose handler faults.
AllShapes ==
    (call    :> <<"hdr", "eoh", "json", "text", "end">>) @@
    (quick   :> <<"eoh", "end">>) @@
    (notice  :> <<"eoh", "json", "end">>) @@
    (broken  :> <<"eoh", "bad">>) @@
    (partial :> <<"eoh", "json">>) @@
    (fatal   :> <<"eoh", "end">>)

AllOutcomes ==
    (call :> "result") @@ (quick :> "result") @@ (notice :> NoReply) @@ (broken :> NoReply)
        @@ (partial :> NoReply) @@ (fatal :> Crash)

MCShape == [r \in Request |-> AllShapes[r]]
MCOutcome == [r \in Request |-> AllOutcomes[r]]

\* Beside it the others send one call at most, and all of them three requests.
OneBeside ==
    \A c \in Client \ {Pipelining} :
        /\ Len(sent[c]) <= 1 /\ Len(sent[c]) + Len(sent[Pipelining]) <= 3
        /\ \A k \in DOMAIN sent[c] : sent[c][k].req = call

Symmetry == Permutations(Client)
=============================================================================
