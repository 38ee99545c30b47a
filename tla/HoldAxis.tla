------------------------------- MODULE HoldAxis -------------------------------
(***************************************************************************)
(* What holding one axis means: the target is the measurement of the last  *)
(* cycle with the lock open; while the lock is closed, each cycle hands    *)
(* the target and the axis' measurement to the axis' controller, once, and *)
(* adds what it puts out; while it is open the controller rests.  Nothing  *)
(* of another axis occurs here.                                            *)
(***************************************************************************)
EXTENDS Integers

CONSTANTS
    Start,               \* the memory of a controller that was never called
    Update(_, _, _)      \* its memory after a call: of the memory before, the
                         \* target and the measurement; out is what it puts out

VARIABLES
    locked, measured,   \* what the cycle will find
    target,             \* the measurement to hold
    memory,             \* the controller's
    correction          \* what the last cycle added to the axis

vars == <<locked, measured, target, memory, correction>>

Init == target = 0 /\ memory = Start /\ correction = 0

Environment == UNCHANGED <<target, memory, correction>>

Open ==
    /\ ~ locked
    /\ target' = measured
    /\ correction' = 0
    /\ UNCHANGED <<locked, measured, memory>>

Hold ==
    /\ locked
    /\ memory' = Update(memory, target, measured)
    /\ correction' = memory'.out
    /\ UNCHANGED <<locked, measured, target>>

Spec == Init /\ [][Environment \/ Open \/ Hold]_vars
=============================================================================
