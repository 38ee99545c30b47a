------------------------------- MODULE MjsonRpc -------------------------------
(***************************************************************************)
(* The method table and the dispatcher of 3rd/jsonrpc-c/mjsonrpc.c.        *)
(*                                                                         *)
(* The table is an array that realloc grows and shrinks, with a count kept *)
(* beside it.  An allocation may fail, and the two then disagree: a slot   *)
(* that was counted but never written, or lies behind the array, is Wild,  *)
(* and reading one is a fault, after which nothing is promised.  A caller  *)
(* hands each argument over once, since the table frees it.                *)
(***************************************************************************)
EXTENDS Integers, Sequences

CONSTANTS
    Name,          \* method names
    Function,      \* registered functions
    Behaviour,     \* Behaviour[f]: "result", "error" or "nothing" (NULL)
    Arg, NoArg,    \* heap arguments, and NULL
    Id,            \* ids a reply can carry (strings and integers)
    NullId,        \* the id null
    NoId,          \* no id member: a notification
    BadId,         \* an id of another type
    NoMethod,      \* no method member, or not a string
    Dispatcher,    \* the author of the replies that no function made
    Batches,       \* what a client may send, see Request
    Wild,          \* a slot nobody wrote
    MaxAdds        \* bound: calls of mjrpc_add_method

\* An element that is not an object has no members: it is a notification too.
Request == [id : Id \union {NullId, NoId, BadId}, version : BOOLEAN,
            method : Name \union {NoMethod}]
\* "object" (with one request), "array" or "other" (not an object or array).
Batch == [type : {"object", "array", "other"}, reqs : Seq(Request)]

Registration == [function : Function, arg : Arg \union {NoArg}]
Slot == [name : Name, function : Function, arg : Arg \union {NoArg}]

ASSUME BehaviourAssumption == Behaviour \in [Function -> {"result", "error", "nothing"}]

ASSUME BatchAssumption ==
    \A b \in Batches :
        /\ b \in Batch
        /\ b.type = "object" => Len(b.reqs) = 1
        /\ b.type = "other" => b.reqs = <<>>

ASSUME TokenAssumption ==
    /\ NoArg \notin Arg
    /\ NullId \notin Id \union {NoId, BadId}
    /\ {NoId, BadId} \intersect Id = {} /\ NoId # BadId
    /\ NoMethod \notin Name /\ Dispatcher \notin Function
    /\ Wild \notin Slot

VARIABLES
    cb_count, cb_array,   \* struct mjrpc_handle; an empty array is NULL
    last,                 \* the last operation, its input and what it returned
    faulted,              \* a wild slot was read or written
    \* history
    adds,                 \* every call of mjrpc_add_method: did it succeed?
    queue,                \* for each name, its live registrations, oldest first
    freed                 \* for each argument, how often it was freed

vars == <<cb_count, cb_array, last, faulted, adds, queue, freed>>

\* Who answered and what: a function or the dispatcher.
Body == (Function \X {"result", "error"})
            \union ({Dispatcher} \X {"invalid request", "method not found"})
Response == [id : Id \union {NullId}, body : Body]
None == [op |-> "none"]

Init ==
    /\ cb_count = 0 /\ cb_array = <<>>
    /\ last = None
    /\ faulted = FALSE
    /\ adds = <<>>
    /\ queue = [n \in Name |-> <<>>]
    /\ freed = [a \in Arg |-> 0]

-----------------------------------------------------------------------------
(* The table.                                                              *)

\* Slot i is behind the array or was never written.
IsWild(i) == ~(i \in DOMAIN cb_array /\ cb_array[i] # Wild)

SlotsOf(n) == {i \in 1..cb_count : ~IsWild(i) /\ cb_array[i].name = n}

\* An add after one that found no memory for the first slot writes behind it.
WritesBehind == cb_array = <<>> /\ cb_count > 0

\* The array with room for one more slot.
Grown == [i \in 1..(cb_count + 1) |->
             IF i > cb_count \/ IsWild(i) THEN Wild ELSE cb_array[i]]

\* The argument is the caller's to give: no earlier call took it.
Owned(a) == a # NoArg => \A k \in DOMAIN adds : adds[k].arg = a => ~adds[k].ok

Called(a, ok) ==
    /\ ~faulted /\ Len(adds) < MaxAdds
    /\ Owned(a)
    /\ cb_count' = cb_count + 1            \* before anything is allocated
    /\ adds' = Append(adds, [arg |-> a, ok |-> ok])

AddMethod(n, f, a) ==
    /\ Called(a, TRUE)
    /\ ~WritesBehind
    /\ cb_array' = [Grown EXCEPT ![cb_count + 1] = [name |-> n, function |-> f, arg |-> a]]
    /\ queue' = [queue EXCEPT ![n] = Append(@, [function |-> f, arg |-> a])]
    /\ last' = [op |-> "add", ret |-> "OK"]
    /\ UNCHANGED <<faulted, freed>>

\* malloc or realloc fails, or only strdup does and leaves a larger array.
AddWithoutMemory(a) ==
    /\ Called(a, FALSE)
    /\ \/ UNCHANGED cb_array
       \/ ~WritesBehind /\ cb_array' = Grown
    /\ last' = [op |-> "add", ret |-> "MEM_ALLOC_FAILED"]
    /\ UNCHANGED <<faulted, queue, freed>>

AddBehindArray(a) ==
    /\ Called(a, FALSE)
    /\ WritesBehind
    /\ faulted' = TRUE
    /\ last' = None
    /\ UNCHANGED <<cb_array, queue, freed>>

mjrpc_add_method(n, f, a) ==
    AddMethod(n, f, a) \/ AddWithoutMemory(a) \/ AddBehindArray(a)

Destroyed(i) ==
    IF cb_array[i].arg = NoArg THEN freed ELSE [freed EXCEPT ![cb_array[i].arg] = @ + 1]
cb_info_destroyNothing(i) == freed' = freed
\* The name and the argument of slot i are freed.
cb_info_destroy(i) == freed' = Destroyed(i)

IsMatchNewest(i, n) == i \in SlotsOf(n) /\ \A j \in (i + 1)..cb_count : j \notin SlotsOf(n)
\* The deletion's scan goes from the oldest slot to the newest.
IsMatch(i, n) == i \in SlotsOf(n) /\ \A j \in 1..(i - 1) : j \notin SlotsOf(n)

\* It reads a wild slot before it finds the name, or copies from behind the array.
DeletionFaults(n) ==
    \E j \in 1..cb_count :
        /\ IsWild(j)
        /\ j > Len(cb_array) \/ \A i \in 1..(j - 1) : i \notin SlotsOf(n)

DelMethod(n) ==
    /\ cb_array # <<>> /\ ~DeletionFaults(n)
    /\ UNCHANGED <<faulted, adds>>
    /\ \/ /\ SlotsOf(n) = {}
          /\ last' = [op |-> "del", ret |-> "OK"]
          /\ UNCHANGED <<cb_count, cb_array, queue, freed>>
       \/ \E i \in 1..cb_count :
          /\ IsMatch(i, n)
          /\ cb_info_destroy(i)
          /\ cb_array' = SubSeq(cb_array, 1, i - 1) \o SubSeq(cb_array, i + 1, cb_count)
          /\ cb_count' = cb_count - 1
          /\ queue' = [queue EXCEPT ![n] = Tail(@)]
          \* realloc may refuse to shrink the array, which then stays longer
          /\ \E ret \in {"OK"} \union (IF cb_count > 1 THEN {"MEM_ALLOC_FAILED"} ELSE {}) :
                last' = [op |-> "del", ret |-> ret]

\* NULL: all methods; then there is no array left to search.
DelAll ==
    /\ \A i \in 1..cb_count : ~IsWild(i)
    /\ freed' = [a \in Arg |-> IF \E i \in 1..cb_count : cb_array[i].arg = a
                               THEN freed[a] + 1 ELSE freed[a]]
    /\ cb_count' = 0
    /\ cb_array' = <<>>
    /\ queue' = [n \in Name |-> <<>>]
    /\ last' = [op |-> "del_all", ret |-> "NOT_FOUND", of |-> cb_count]
    /\ UNCHANGED <<faulted, adds>>

DelFaults(n) ==
    /\ cb_array # <<>> /\ DeletionFaults(n)
    /\ faulted' = TRUE
    /\ last' = None
    /\ UNCHANGED <<cb_count, cb_array, adds, queue, freed>>

DelAllFaults ==
    /\ \E i \in 1..cb_count : IsWild(i)
    /\ faulted' = TRUE
    /\ last' = None
    /\ UNCHANGED <<cb_count, cb_array, adds, queue, freed>>

DelOfNothing ==
    /\ cb_array = <<>>
    /\ last' = [op |-> "del", ret |-> "NOT_FOUND"]
    /\ UNCHANGED <<cb_count, cb_array, faulted, adds, queue, freed>>

mjrpc_del_method ==
    /\ ~faulted
    /\ \/ \E n \in Name : DelMethod(n) \/ DelFaults(n)
       \/ DelOfNothing \/ DelAll \/ DelAllFaults

-----------------------------------------------------------------------------
(* The dispatcher.                                                         *)

OldestFirst(i, n) == i \in SlotsOf(n) /\ \A j \in 1..(i - 1) : j \notin SlotsOf(n)
NewestFirst(i, n) == i \in SlotsOf(n) /\ \A j \in (i + 1)..cb_count : j \notin SlotsOf(n)
\* The slot of invoke_callback's scan, from the newest to the oldest.
Chosen(n) == CHOOSE i \in 1..cb_count : NewestFirst(i, n)

Invokes(r) == r.id \notin {NoId, BadId} /\ r.version /\ r.method # NoMethod

CallFaults(r) ==
    /\ Invokes(r)
    /\ \E j \in 1..cb_count :
          IsWild(j) /\ \A i \in (j + 1)..cb_count : i \notin SlotsOf(r.method)

\* invoke_callback: what the function said, or nothing (mjrpc_response_ok of NULL).
Returned(r) ==
    IF SlotsOf(r.method) = {} THEN <<Dispatcher, "method not found">>
    ELSE LET f == cb_array[Chosen(r.method)].function IN <<f, Behaviour[f]>>

AnsweredAlways(r) == TRUE
IsAnswered(r) ==
    /\ r.id # NoId
    /\ ~(Invokes(r) /\ Returned(r)[2] = "nothing")

\* rpc_handle_obj_req
ResponseTo(r) ==
    [id |-> IF r.id = BadId THEN NullId ELSE r.id,
     body |-> IF Invokes(r) THEN Returned(r) ELSE <<Dispatcher, "invalid request">>]

\* The elements of s at the positions in J, in their order.
Picked(s, J) ==
    LET kept[n \in 0..Len(s)] ==
            IF n = 0 THEN <<>>
            ELSE IF n \in J THEN Append(kept[n - 1], s[n]) ELSE kept[n - 1]
    IN  kept[Len(s)]

InvalidRequest == [id |-> NullId, body |-> <<Dispatcher, "invalid request">>]

\* rpc_handle_ary_req, or the one request; an array without replies is dropped.
Responses(b) ==
    IF b.reqs = <<>> THEN <<InvalidRequest>>
    ELSE LET answered == Picked(b.reqs, {k \in DOMAIN b.reqs : IsAnswered(b.reqs[k])})
         IN [k \in DOMAIN answered |-> ResponseTo(answered[k])]

mjrpc_process_cjson(b) ==
    /\ ~faulted
    /\ UNCHANGED <<cb_count, cb_array, adds, queue, freed>>
    /\ \/ /\ \E k \in DOMAIN b.reqs : CallFaults(b.reqs[k])
          /\ faulted' = TRUE
          /\ last' = None
       \/ /\ \A k \in DOMAIN b.reqs : ~CallFaults(b.reqs[k])
          /\ last' = [op |-> "process", batch |-> b, replies |-> Responses(b)]
          /\ UNCHANGED faulted

-----------------------------------------------------------------------------
Next ==
    \/ \E n \in Name, f \in Function, a \in Arg \union {NoArg} : mjrpc_add_method(n, f, a)
    \/ mjrpc_del_method
    \/ \E b \in Batches : mjrpc_process_cjson(b)

Spec == Init /\ [][Next]_vars

-----------------------------------------------------------------------------
TypeOK ==
    /\ cb_count \in Nat
    /\ cb_array \in Seq(Slot \union {Wild})
    /\ last \in [op : {"none"}]
                   \union [op : {"add", "del"}, ret : {"OK", "MEM_ALLOC_FAILED", "NOT_FOUND"}]
                   \union [op : {"del_all"}, ret : {"NOT_FOUND"}, of : Nat]
                   \union [op : {"process"}, batch : Batch, replies : Seq(Response)]
    /\ faulted \in BOOLEAN
    /\ adds \in Seq([arg : Arg \union {NoArg}, ok : BOOLEAN])
    /\ queue \in [Name -> Seq(Registration)]
    /\ freed \in [Arg -> Nat]

\* The registrations of n in the array, oldest first.
Registered(n) ==
    LET mine == Picked(cb_array, {i \in DOMAIN cb_array :
                                      cb_array[i] # Wild /\ cb_array[i].name = n})
    IN [k \in DOMAIN mine |-> [function |-> mine[k].function, arg |-> mine[k].arg]]

\* mjsonrpc.c:197-214, 248-279: through any sequence of additions, deletions,
\* moved slots and failed allocations, the array holds for every name its
\* registrations that were not deleted, in the order they were made.
NothingMislaid == ~faulted => \A n \in Name : Registered(n) = queue[n]

\* mjsonrpc.c:219-231, 240-260: an argument the table took is freed once, by
\* the deletion of its registration and never while one that can be called
\* still has it.
ArgsFreedOnce ==
    ~faulted => \A a \in Arg :
        freed[a] = IF /\ \E k \in DOMAIN adds : adds[k] = [arg |-> a, ok |-> TRUE]
                      /\ \A n \in Name : \A k \in DOMAIN queue[n] : queue[n][k].arg # a
                   THEN 1 ELSE 0

\* What a request is due, from the registrations alone.
Due(r) ==
    IF ~Invokes(r) THEN <<Dispatcher, "invalid request">>
    ELSE IF queue[r.method] = <<>> THEN <<Dispatcher, "method not found">>
    ELSE LET f == queue[r.method][Len(queue[r.method])].function IN <<f, Behaviour[f]>>

\* mjsonrpc.c:90-97, 110-182: the requests of a batch that have an id are
\* answered in their order, each once and under its own id, a call by the
\* newest live registration of its method whatever was added or deleted
\* before; only a function that returns NULL leaves its caller without reply.
CallsAnswered ==
    last.op = "process" /\ last.batch.reqs # <<>> =>
        LET reqs == last.batch.reqs
            due == Picked(reqs, {k \in DOMAIN reqs :
                                     reqs[k].id # NoId /\ Due(reqs[k])[2] # "nothing"})
        IN  /\ Len(last.replies) = Len(due)
            /\ \A k \in DOMAIN due :
                  /\ last.replies[k].body = Due(due[k])
                  /\ due[k].id # BadId => last.replies[k].id = due[k].id
=============================================================================
