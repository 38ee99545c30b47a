------------------------------ MODULE ControlLoop ------------------------------
(***************************************************************************)
(* From sticks and sensors to the thrusters: user/control/control.c, its   *)
(* controllers 3rd/PID/pid.c, and the method "axis" that sets the sticks,  *)
(* user/control/control_jrpc_func.c.                                       *)
(*                                                                         *)
(* One cycle is input2dir_get, dir2output_get and output2send_get, in the  *)
(* order their arguments ask for.  The timer that is to run it             *)
(* (ctrl_routine.c) is still empty, and so is whatever sets the locks and  *)
(* the measurements: these are the environment.                            *)
(*                                                                         *)
(* Numbers are integers in a unit that the gains make exact (2 tau + T and *)
(* 2 divide what they have to); rounding is left out.                      *)
(***************************************************************************)
EXTENDS Integers, Sequences, FiniteSets, FiniteSetsExt

CONSTANTS
    Motors,          \* 0..5, or 0..7 with SUB_NAVI_CONFIG_USE_EIGHT_THRUSTERS
    Frame,           \* the frame factors: [Motors -> [Direction -> Int]]
    Thrusters,       \* thruster_attr of each motor
    Gains,           \* the parameters of each axis' controller
    CtxData,         \* what "axis" was registered with: "input" or "NULL"
    Values,          \* what sticks and sensors may say
    Measurements,    \* the sensors used in a run
    Requests,        \* the parameters of "axis", see Axis
    MaxTicks, MaxChanges   \* bounds of a run

Axes == {"roll", "pitch", "yaw", "throttle"}
Direction == Axes \cup {"forward", "lateral"}
Stick == {"lx", "ly", "rx", "ry", "lt", "rt"}
Sensor == {"roll", "pitch", "yaw", "depth"}

ASSUME ThrusterAssumption ==      \* json_thruster.h: all parameters 0 ~ 1.0
    \A m \in Motors :
        /\ Thrusters[m].reversed \in BOOLEAN
        /\ {Thrusters[m][p] : p \in {"deadzone_n", "deadzone_p", "power_nLimit", "power_pLimit"}}
              \subseteq Nat
ASSUME GainAssumption ==
    \A a \in Axes :
        /\ {Gains[a][p] : p \in {"Kp", "Ki", "Kd", "tau", "T", "limMin", "limMax",
                                "limMinInt", "limMaxInt"}} \subseteq Int
        /\ Gains[a].limMin <= Gains[a].limMax
        /\ Gains[a].limMinInt <= 0 /\ 0 <= Gains[a].limMaxInt
        /\ 2 * Gains[a].tau + Gains[a].T > 0
ASSUME FrameAssumption == \A m \in Motors : \A d \in Direction : Frame[m][d] \in Int
ASSUME ValueAssumption ==         \* what "axis" takes are the numbers it finds
    /\ Values \subseteq Int /\ Measurements \subseteq Sensor
    /\ \A p \in Requests : \A s \in DOMAIN p : p[s] \in Int
ASSUME BoundsAssumption == MaxTicks \in Nat /\ MaxChanges \in Nat

VARIABLES
    data,        \* input_data_t
    flags,       \* lock_flags_t
    ex,          \* the statics roll_ex, pitch_ex, yaw_ex, throttle_ex
    pid,         \* the memory of the four controllers
    dir,         \* dir_t
    output,      \* the output of each motor
    msg,         \* the ThrusterCommand: [has, val] of each throttle
    alive,       \* the process has not been killed
    seen,        \* history: the inputs of the last cycle
    ticks, changes

vars == <<data, flags, ex, pid, dir, output, msg, alive, seen, ticks, changes>>

-----------------------------------------------------------------------------
(* pid.c.                                                                  *)

Clamp(x, lo, hi) == IF x > hi THEN hi ELSE IF x < lo THEN lo ELSE x

\* PIDController_Init
PIDInit == [integrator |-> 0, prevError |-> 0, differentiator |-> 0,
            prevMeasurement |-> 0, out |-> 0]

\* The mutant: the integrator runs away.
PIDUnclamped(g, p, setpoint, measurement) ==
    LET error == setpoint - measurement
        integrator == p.integrator + (g.Ki * g.T * (error + p.prevError)) \div 2
    IN  [integrator |-> integrator, prevError |-> error, differentiator |-> 0,
         prevMeasurement |-> measurement, out |-> Clamp(g.Kp * error + integrator, g.limMin, g.limMax)]

\* PIDController_Update: the memory after it, the output in it.  The limits of
\* the output do not reach back into the integrator.
PIDUpdate(g, p, setpoint, measurement) ==
    LET error == setpoint - measurement
        integrator == Clamp(p.integrator + (g.Ki * g.T * (error + p.prevError)) \div 2,
                            g.limMinInt, g.limMaxInt)
        differentiator == - (2 * g.Kd * (measurement - p.prevMeasurement)
                             + (2 * g.tau - g.T) * p.differentiator) \div (2 * g.tau + g.T)
    IN  [integrator |-> integrator, prevError |-> error, differentiator |-> differentiator,
         prevMeasurement |-> measurement,
         out |-> Clamp(g.Kp * error + integrator + differentiator, g.limMin, g.limMax)]

-----------------------------------------------------------------------------
(* control.c.                                                              *)

\* The measurement that a lock holds.
SensorOf == [a \in Axes |-> IF a = "throttle" THEN "depth" ELSE a]

\* The mutant: the call of a copied branch still holds the roll.
CorrectedMiscopied(a) ==
    LET of == IF a = "pitch" THEN "roll" ELSE a
    IN  PIDUpdate(Gains[a], pid[a], ex[of], data[SensorOf[of]])

Corrected(a) == PIDUpdate(Gains[a], pid[a], ex[a], data[SensorOf[a]])

\* input2dir_get: the sticks, and on the locked axes the controllers.
StickOf == [d \in Direction |->
    CASE d = "forward" -> "ly" [] d = "lateral" -> "lx" [] d = "throttle" -> "ry"
      [] d = "yaw" -> "rx" [] OTHER -> "none"]

Input2dir ==
    /\ pid' = [a \in Axes |-> IF flags[a] THEN Corrected(a) ELSE pid[a]]
    /\ ex' = [a \in Axes |-> IF flags[a] THEN ex[a] ELSE data[SensorOf[a]]]
    /\ dir' = [d \in Direction |->
                (IF StickOf[d] \in Stick THEN data[StickOf[d]] ELSE 0)
                + (IF d \in Axes /\ flags[d] THEN Corrected(d).out ELSE 0)]

PerRow(row, d) ==
    row["roll"] * d["roll"] + row["pitch"] * d["pitch"] + row["yaw"] * d["yaw"]
    + row["throttle"] * d["throttle"] + row["forward"] * d["forward"]
    + row["lateral"] * d["lateral"]

\* The mutant: limited first, and pushed out of the dead zone after that.
PerMotorLate(raw, attr) ==
    LET turned == IF attr.reversed THEN - raw ELSE raw
        kept == Clamp(turned, - attr.power_nLimit, attr.power_pLimit)
    IN  IF raw = 0 THEN 0 ELSE kept + (IF kept < 0 THEN - attr.deadzone_n ELSE attr.deadzone_p)

PerMotor(raw, attr) ==
    LET turned == IF attr.reversed THEN - raw ELSE raw
        pushed == turned + (IF turned < 0 THEN - attr.deadzone_n ELSE attr.deadzone_p)
    IN  IF raw = 0 THEN 0 ELSE Clamp(pushed, - attr.power_nLimit, attr.power_pLimit)

Dir2output(d) == [m \in Motors |-> PerMotor(PerRow(Frame[m], d), Thrusters[m])]

\* output2send_get on the message given: a throttle of 0 is left alone.
Output2send(message, out) ==
    [m \in Motors |-> IF out[m] # 0 THEN [has |-> TRUE, val |-> out[m]] ELSE message[m]]

NoCommand == [m \in Motors |-> [has |-> FALSE, val |-> 0]]

-----------------------------------------------------------------------------

Init ==
    /\ data = [s \in Stick \cup Sensor |-> 0]
    /\ flags = [a \in Axes |-> FALSE]
    /\ ex = [a \in Axes |-> 0]
    /\ pid = [a \in Axes |-> PIDInit]
    /\ dir = [d \in Direction |-> 0]
    /\ output = [m \in Motors |-> 0]
    /\ msg = NoCommand
    /\ alive = TRUE
    /\ seen = data
    /\ ticks = 0 /\ changes = 0

Change == changes < MaxChanges /\ changes' = changes + 1

\* axis_handler: the parameters that are numbers are taken over.  Through the
\* null pointer that the method is registered with, the first kills.
Axis(params) ==
    /\ alive /\ Change
    /\ IF CtxData = "NULL" /\ params # <<>>
       THEN alive' = FALSE /\ UNCHANGED data
       ELSE /\ data' = [s \in DOMAIN data |-> IF s \in DOMAIN params THEN params[s] ELSE data[s]]
            /\ UNCHANGED alive
    /\ UNCHANGED <<flags, ex, pid, dir, output, msg, seen, ticks>>

Sense(s, v) ==
    /\ alive /\ Change
    /\ data[s] # v /\ data' = [data EXCEPT ![s] = v]
    /\ UNCHANGED <<flags, ex, pid, dir, output, msg, alive, seen, ticks>>

Turn(a) ==
    /\ alive /\ Change
    /\ flags' = [flags EXCEPT ![a] = ~ @]
    /\ UNCHANGED <<data, ex, pid, dir, output, msg, alive, seen, ticks>>

Tick ==
    /\ alive /\ ticks < MaxTicks /\ ticks' = ticks + 1
    /\ Input2dir
    /\ output' = Dir2output(dir')
    /\ msg' = Output2send(NoCommand, output')
    /\ seen' = data
    /\ UNCHANGED <<data, flags, alive, changes>>

Next ==
    \/ \E params \in Requests : Axis(params)
    \/ \E s \in Measurements, v \in Values : Sense(s, v)
    \/ \E a \in Axes : Turn(a)
    \/ Tick

Spec == Init /\ [][Next]_vars

-----------------------------------------------------------------------------
(* Properties.                                                             *)

\* Types; the memory of a controller keeps its limits.
TypeOK ==
    /\ DOMAIN data = Stick \cup Sensor
    /\ flags \in [Axes -> BOOLEAN]
    /\ \A a \in Axes :
        /\ pid[a].integrator \in Gains[a].limMinInt..Gains[a].limMaxInt
        /\ pid[a].out = 0 \/ pid[a].out \in Gains[a].limMin..Gains[a].limMax
    /\ alive \in BOOLEAN
    /\ ticks \in 0..MaxTicks /\ changes \in 0..MaxChanges

\* The four axes are four copies of one text, which share the structures
\* they read.  Each of them by itself is a HoldAxis, whatever the others and
\* the sticks do: it holds its own last measurement, with its own controller
\* that is called with the two of them (control.c:82-100).
Added(a) ==
    dir[a] - (CASE a = "throttle" -> seen["ry"] [] a = "yaw" -> seen["rx"] [] OTHER -> 0)

Roll == INSTANCE HoldAxis WITH
    Start <- PIDInit, Update <- LAMBDA m, t, x : PIDUpdate(Gains["roll"], m, t, x),
    locked <- flags["roll"], measured <- data["roll"], target <- ex["roll"],
    memory <- pid["roll"], correction <- Added("roll")
Pitch == INSTANCE HoldAxis WITH
    Start <- PIDInit, Update <- LAMBDA m, t, x : PIDUpdate(Gains["pitch"], m, t, x),
    locked <- flags["pitch"], measured <- data["pitch"], target <- ex["pitch"],
    memory <- pid["pitch"], correction <- Added("pitch")
Yaw == INSTANCE HoldAxis WITH
    Start <- PIDInit, Update <- LAMBDA m, t, x : PIDUpdate(Gains["yaw"], m, t, x),
    locked <- flags["yaw"], measured <- data["yaw"], target <- ex["yaw"],
    memory <- pid["yaw"], correction <- Added("yaw")
Throttle == INSTANCE HoldAxis WITH
    Start <- PIDInit, Update <- LAMBDA m, t, x : PIDUpdate(Gains["throttle"], m, t, x),
    locked <- flags["throttle"], measured <- data["depth"], target <- ex["throttle"],
    memory <- pid["throttle"], correction <- Added("throttle")

EachAxisAlone == Roll!Spec /\ Pitch!Spec /\ Yaw!Spec /\ Throttle!Spec

\* What a thruster does if asked for a power of so much.
AsAsked(m, asked) ==
    LET t == Thrusters[m]
        forward == (asked > 0) # t.reversed
        limit == IF forward THEN t.power_pLimit ELSE t.power_nLimit
        dead == IF forward THEN t.deadzone_p ELSE t.deadzone_n
        power == IF forward THEN output[m] ELSE - output[m]
    IN  /\ asked = 0 => output[m] = 0
        /\ asked # 0 => power \in 0..limit /\ (power > dead \/ power = limit)
        /\ msg[m] = [has |-> output[m] # 0, val |-> output[m]]

\* Each thruster does what the frame asks of it: it stands still if nothing
\* is asked; else it turns the right way, with regard to how it is built in,
\* outside its dead zone as far as its limits let it, and never beyond them.
\* The message holds exactly the thrusters that turn (control.c:7-69, 104-137).
ThrustersFollow ==
    \A m \in Motors : AsAsked(m, MapThenSumSet(LAMBDA d : Frame[m][d] * dir[d], Direction))

\* A request for "axis" updates the values it names (control_jrpc_func.c:9).
AxisUpdates ==
    [][\A p \in Requests :
        Axis(p) => alive' /\ \A s \in DOMAIN p : data'[s] = p[s]]_vars
=============================================================================
