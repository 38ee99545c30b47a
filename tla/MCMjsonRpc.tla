------------------------------- MODULE MCMjsonRpc -------------------------------
(***************************************************************************)
(* A small instance of MjsonRpc.                                           *)
(***************************************************************************)
EXTENDS MjsonRpc, TLC

CONSTANTS succeeds, fails, silent,    \* functions
          n1, n2,                     \* names
          i1, i2                      \* ids

MCBehaviour ==
    (succeeds :> "result") @@ (fails :> "error") @@ (silent :> "nothing")

Req(i, v, n) == [id |-> i, version |-> v, method |-> n]

\* One request with every kind of id, version and method.
Objects ==
    {[type |-> "object", reqs |-> <<Req(i, v, n)>>] :
        i \in {i1, NullId, NoId, BadId}, v \in BOOLEAN, n \in Name \union {NoMethod}}

\* Arrays: empty, of requests all of which may stay without reply, of a call
\* before or after another kind of request.
Arrays ==
    {[type |-> "array", reqs |-> rs] :
        rs \in {<<>>, <<Req(NoId, TRUE, n1)>>, <<Req(i1, TRUE, n1), Req(NoId, TRUE, n2)>>,
                <<Req(i1, TRUE, n1), Req(i2, TRUE, n2)>>,
                <<Req(i1, FALSE, n1), Req(i2, TRUE, n1)>>,
                <<Req(BadId, TRUE, n2), Req(i2, TRUE, NoMethod), Req(i1, TRUE, n2)>>}}

MCBatches == Objects \union Arrays \union {[type |-> "other", reqs |-> <<>>]}

Symmetry == Permutations(Arg)
=============================================================================
