--------------------------- MODULE ControlLoopProofs ---------------------------
(***************************************************************************)
(* Proofs about ControlLoop, for any frame, thrusters, gains, requests and *)
(* bounds that satisfy the module's assumptions.                           *)
(***************************************************************************)
EXTENDS ControlLoop, Induction, FiniteSetTheorems

Memory == [integrator : Int, prevError : Int, differentiator : Int,
           prevMeasurement : Int, out : Int]

\* Numbers everywhere.
NumbersInv ==
    /\ data \in [Stick \cup Sensor -> Int]
    /\ seen \in [Stick \cup Sensor -> Int]
    /\ ex \in [Axes -> Int]
    /\ pid \in [Axes -> Memory]
    /\ dir \in [Direction -> Int]

\* The outputs and the message are those of the last direction.
OutputInv ==
    /\ output = Dir2output(dir)
    /\ msg = Output2send(NoCommand, output)

IInv == TypeOK /\ NumbersInv /\ OutputInv

-----------------------------------------------------------------------------
(* The controller.                                                         *)

\* The gains are integers and the limits are ordered, whatever the axis.
LEMMA GainTypes ==
    ASSUME NEW a \in Axes
    PROVE  /\ Gains[a].Kp \in Int /\ Gains[a].Ki \in Int /\ Gains[a].Kd \in Int
           /\ Gains[a].tau \in Int /\ Gains[a].T \in Int
           /\ Gains[a].limMin \in Int /\ Gains[a].limMax \in Int
           /\ Gains[a].limMinInt \in Int /\ Gains[a].limMaxInt \in Int
           /\ Gains[a].limMin <= Gains[a].limMax
           /\ Gains[a].limMinInt <= 0 /\ 0 <= Gains[a].limMaxInt
           /\ 2 * Gains[a].tau + Gains[a].T \in Int
           /\ 2 * Gains[a].tau + Gains[a].T > 0
<1>1. {Gains[a][p] : p \in {"Kp", "Ki", "Kd", "tau", "T", "limMin", "limMax",
                           "limMinInt", "limMaxInt"}} \subseteq Int
  BY GainAssumption
<1>2. \A p \in {"Kp", "Ki", "Kd", "tau", "T", "limMin", "limMax", "limMinInt", "limMaxInt"} :
          Gains[a][p] \in Int
  BY <1>1
<1>3. Gains[a].tau \in Int /\ Gains[a].T \in Int
  BY <1>2
<1> QED
  BY <1>2, <1>3, GainAssumption

\* Clamping gives a value between the limits.
LEMMA ClampBounds ==
    ASSUME NEW x \in Int, NEW lo \in Int, NEW hi \in Int, lo <= hi
    PROVE  Clamp(x, lo, hi) \in lo..hi
BY DEF Clamp

\* What PIDController_Update leaves keeps its limits.
LEMMA UpdateBounds ==
    ASSUME NEW a \in Axes, NEW p \in Memory, NEW s \in Int, NEW m \in Int
    PROVE  LET u == PIDUpdate(Gains[a], p, s, m)
           IN  /\ u \in Memory
               /\ u.integrator \in Gains[a].limMinInt..Gains[a].limMaxInt
               /\ u.out \in Gains[a].limMin..Gains[a].limMax
<1> DEFINE g == Gains[a]
           error == s - m
           sum == p.integrator + (g.Ki * g.T * (error + p.prevError)) \div 2
           integrator == Clamp(sum, g.limMinInt, g.limMaxInt)
           top == 2 * g.Kd * (m - p.prevMeasurement) + (2 * g.tau - g.T) * p.differentiator
           bottom == 2 * g.tau + g.T
           differentiator == - top \div bottom
           all == g.Kp * error + integrator + differentiator
           out == Clamp(all, g.limMin, g.limMax)
<1>1. /\ p.integrator \in Int /\ p.prevError \in Int /\ p.differentiator \in Int
      /\ p.prevMeasurement \in Int /\ error \in Int
  BY DEF Memory
<1>2. sum \in Int
  <2>1. g.Ki * g.T \in Int
    BY GainTypes
  <2>2. (g.Ki * g.T) * (error + p.prevError) \in Int
    <3> HIDE DEF error
    <3> QED BY <2>1, <1>1
  <2> HIDE DEF error
  <2> QED BY <1>1, <2>2
<1>3. integrator \in g.limMinInt..g.limMaxInt /\ integrator \in Int
  <2> HIDE DEF sum
  <2>1. g.limMinInt <= g.limMaxInt
    BY GainTypes
  <2>2. integrator \in g.limMinInt..g.limMaxInt
    BY <1>2, <2>1, GainTypes, ClampBounds
  <2> QED BY <2>2, GainTypes
<1>4. differentiator \in Int
  <2>1. bottom \in Int /\ bottom > 0
    BY GainTypes
  <2>2. 2 * g.Kd \in Int /\ m - p.prevMeasurement \in Int /\ 2 * g.tau - g.T \in Int
    BY GainTypes, <1>1
  <2>3. top \in Int
    BY <2>2, <1>1
  <2> HIDE DEF top, bottom
  <2> QED BY <2>1, <2>3
<1>5. out \in g.limMin..g.limMax /\ out \in Int
  <2>1. g.Kp * error \in Int
    <3> HIDE DEF error
    <3> QED BY GainTypes, <1>1
  <2>2. all \in Int
    <3> HIDE DEF error, integrator, differentiator
    <3> QED BY <2>1, <1>3, <1>4
  <2> HIDE DEF all
  <2>3. out \in g.limMin..g.limMax
    BY <2>2, GainTypes, ClampBounds
  <2> QED BY <2>3, GainTypes
<1>6. PIDUpdate(g, p, s, m) = [integrator |-> integrator, prevError |-> error,
                               differentiator |-> differentiator,
                               prevMeasurement |-> m, out |-> out]
  BY DEF PIDUpdate
<1> HIDE DEF integrator, error, differentiator, out
<1> QED
  BY <1>1, <1>3, <1>4, <1>5, <1>6 DEF Memory

-----------------------------------------------------------------------------
(* The invariant.                                                          *)

\* A row of integers times a direction of integers is an integer, and 0 for
\* no direction.
LEMMA RowType ==
    ASSUME NEW m \in Motors, NEW d \in [Direction -> Int]
    PROVE  /\ PerRow(Frame[m], d) \in Int
           /\ (\A e \in Direction : d[e] = 0) => PerRow(Frame[m], d) = 0
<1>1. \A e \in Direction : Frame[m][e] \in Int /\ d[e] \in Int
  BY FrameAssumption
<1>2. \A x, y \in Int : x * y \in Int /\ x * 0 = 0
  OBVIOUS
<1> DEFINE part(e) == Frame[m][e] * d[e]
<1>3. \A e \in Direction : part(e) \in Int
  BY <1>1, <1>2
<1>4. (\A e \in Direction : d[e] = 0) => \A e \in Direction : part(e) = 0
  BY <1>1, <1>2
<1>5. {"roll", "pitch", "yaw", "throttle", "forward", "lateral"} \subseteq Direction
  BY DEF Direction, Axes
<1>6. PerRow(Frame[m], d) = part("roll") + part("pitch") + part("yaw") + part("throttle")
                            + part("forward") + part("lateral")
  BY DEF PerRow
<1> HIDE DEF part
<1> QED
  BY <1>3, <1>4, <1>5, <1>6

\* The statics of control.c before the first cycle.
LEMMA InitIInv == Init => IInv
<1> SUFFICES ASSUME Init PROVE IInv
  OBVIOUS
<1> USE DEF Init
<1>1. TypeOK
  <2>1. \A a \in Axes : pid[a].integrator = 0 /\ pid[a].out = 0
    BY DEF PIDInit
  <2>2. \A a \in Axes : 0 \in Gains[a].limMinInt..Gains[a].limMaxInt
    BY GainTypes
  <2> QED
    BY <2>1, <2>2, BoundsAssumption DEF TypeOK
<1>2. NumbersInv
  BY DEF NumbersInv, Memory, PIDInit
<1>3. OutputInv
  <2>1. \A m \in Motors : PerRow(Frame[m], dir) = 0
    BY RowType
  <2>2. Dir2output(dir) = [m \in Motors |-> 0]
    BY <2>1 DEF Dir2output, PerMotor
  <2>3. Output2send(NoCommand, output) = NoCommand
    BY DEF Output2send, NoCommand
  <2> QED
    BY <2>2, <2>3 DEF OutputInv
<1> QED
  BY <1>1, <1>2, <1>3 DEF IInv

\* What a cycle leaves of an axis: the controller's memory, the target and the
\* direction.
LEMMA CycleTypes ==
    ASSUME IInv, Tick
    PROVE  /\ pid' \in [Axes -> Memory]
           /\ \A a \in Axes :
                 /\ pid'[a].integrator \in Gains[a].limMinInt..Gains[a].limMaxInt
                 /\ pid'[a].out = 0 \/ pid'[a].out \in Gains[a].limMin..Gains[a].limMax
                 /\ Corrected(a).out \in Gains[a].limMin..Gains[a].limMax
                 /\ Corrected(a).out \in Int
           /\ ex' \in [Axes -> Int]
           /\ dir' \in [Direction -> Int]
<1> USE DEF IInv, NumbersInv
<1>0. /\ pid' = [a \in Axes |-> IF flags[a] THEN Corrected(a) ELSE pid[a]]
      /\ ex' = [a \in Axes |-> IF flags[a] THEN ex[a] ELSE data[SensorOf[a]]]
      /\ dir' = [d \in Direction |->
                    (IF StickOf[d] \in Stick THEN data[StickOf[d]] ELSE 0)
                    + (IF d \in Axes /\ flags[d] THEN Corrected(d).out ELSE 0)]
  BY DEF Tick, Input2dir
<1>1. \A a \in Axes : SensorOf[a] \in Sensor
  BY DEF SensorOf, Axes, Sensor
<1>2. ASSUME NEW a \in Axes
      PROVE  /\ Corrected(a) \in Memory
             /\ Corrected(a).integrator \in Gains[a].limMinInt..Gains[a].limMaxInt
             /\ Corrected(a).out \in Gains[a].limMin..Gains[a].limMax
  <2>1. pid[a] \in Memory /\ ex[a] \in Int /\ data[SensorOf[a]] \in Int
    BY <1>1
  <2> QED
    BY <2>1, UpdateBounds DEF Corrected
<1>3. \A a \in Axes : Corrected(a).out \in Int
  BY <1>2 DEF Memory
<1>4. pid' \in [Axes -> Memory] /\ ex' \in [Axes -> Int]
  BY <1>0, <1>1, <1>2
<1>5. \A a \in Axes :
          /\ pid'[a].integrator \in Gains[a].limMinInt..Gains[a].limMaxInt
          /\ pid'[a].out = 0 \/ pid'[a].out \in Gains[a].limMin..Gains[a].limMax
  BY <1>0, <1>2 DEF TypeOK
<1>6. dir' \in [Direction -> Int]
  <2>1. ASSUME NEW d \in Direction PROVE dir'[d] \in Int
    <3>1. (IF StickOf[d] \in Stick THEN data[StickOf[d]] ELSE 0) \in Int
      OBVIOUS
    <3>2. (IF d \in Axes /\ flags[d] THEN Corrected(d).out ELSE 0) \in Int
      BY <1>3
    <3> QED
      BY <1>0, <3>1, <3>2
  <2> QED
    BY <1>0, <2>1
<1> QED
  BY <1>2, <1>3, <1>4, <1>5, <1>6

\* Neither a cycle nor a request for axis breaks the invariant.
LEMMA NextIInv == IInv /\ [Next]_vars => IInv'
<1> SUFFICES ASSUME IInv, [Next]_vars PROVE IInv'
  OBVIOUS
<1> USE DEF IInv
<1>1. ASSUME NEW params \in Requests, Axis(params) PROVE IInv'
  <2>1. data' \in [Stick \cup Sensor -> Int]
    <3>1. DOMAIN data = Stick \cup Sensor
      BY DEF TypeOK
    <3>2. \A s \in DOMAIN params : params[s] \in Int
      BY ValueAssumption
    <3>3. CASE data' = data
      BY <3>3 DEF NumbersInv
    <3>4. CASE data' = [s \in DOMAIN data |-> IF s \in DOMAIN params THEN params[s] ELSE data[s]]
      <4>1. \A s \in Stick \cup Sensor :
                (IF s \in DOMAIN params THEN params[s] ELSE data[s]) \in Int
        BY <3>2 DEF NumbersInv
      <4> QED
        BY <3>1, <3>4, <4>1
    <3>5. data' = data
          \/ data' = [s \in DOMAIN data |-> IF s \in DOMAIN params THEN params[s] ELSE data[s]]
      BY <1>1 DEF Axis
    <3> QED
      BY <3>3, <3>4, <3>5
  <2>2. TypeOK'
    <3>1. alive' \in BOOLEAN
      BY <1>1 DEF Axis, TypeOK
    <3>2. changes' \in 0..MaxChanges
      BY <1>1, BoundsAssumption DEF Axis, Change, TypeOK
    <3>3. UNCHANGED <<flags, pid, ticks>>
      BY <1>1 DEF Axis
    <3>4. DOMAIN data' = Stick \cup Sensor
      BY <2>1
    <3> QED
      BY <3>1, <3>2, <3>3, <3>4 DEF TypeOK
  <2>3. NumbersInv'
    BY <1>1, <2>1 DEF NumbersInv, Axis
  <2>4. OutputInv'
    BY <1>1 DEF OutputInv, Axis, Dir2output, Output2send, NoCommand
  <2> QED
    BY <2>2, <2>3, <2>4
<1>2. ASSUME NEW s \in Measurements, NEW v \in Values, Sense(s, v) PROVE IInv'
  <2>1. data' \in [Stick \cup Sensor -> Int]
    BY <1>2, ValueAssumption DEF Sense, NumbersInv
  <2>2. TypeOK'
    BY <1>2, <2>1, BoundsAssumption DEF TypeOK, Sense, Change
  <2>3. NumbersInv'
    BY <1>2, <2>1 DEF NumbersInv, Sense
  <2>4. OutputInv'
    BY <1>2 DEF OutputInv, Sense, Dir2output, Output2send, NoCommand
  <2> QED
    BY <2>2, <2>3, <2>4
<1>3. ASSUME NEW a \in Axes, Turn(a) PROVE IInv'
  <2>1. TypeOK'
    BY <1>3, BoundsAssumption DEF TypeOK, Turn, Change
  <2>2. NumbersInv'
    BY <1>3 DEF NumbersInv, Turn
  <2>3. OutputInv'
    BY <1>3 DEF OutputInv, Turn, Dir2output, Output2send, NoCommand
  <2> QED
    BY <2>1, <2>2, <2>3
<1>4. ASSUME Tick PROVE IInv'
  <2>1. TypeOK'
    BY <1>4, CycleTypes, BoundsAssumption DEF TypeOK, Tick
  <2>2. NumbersInv'
    BY <1>4, CycleTypes DEF NumbersInv, Tick
  <2>3. OutputInv'
    BY <1>4 DEF OutputInv, Tick, Dir2output, Output2send, NoCommand
  <2> QED
    BY <2>1, <2>2, <2>3
<1>5. CASE UNCHANGED vars
  <2>1. TypeOK'
    BY <1>5 DEF TypeOK, vars
  <2>2. NumbersInv'
    BY <1>5 DEF NumbersInv, vars
  <2>3. OutputInv'
    BY <1>5 DEF OutputInv, vars, Dir2output, Output2send, NoCommand
  <2> QED
    BY <2>1, <2>2, <2>3
<1> QED
  BY <1>1, <1>2, <1>3, <1>4, <1>5 DEF Next

\* control.c:71-102 and pid.c:22-60: numbers stay numbers, the controllers'
\* memories keep their limits, and the message is that of the last direction.
THEOREM ControlInvariance == Spec => []IInv
<1>1. Init => IInv
  BY InitIInv
<1>2. IInv /\ [Next]_vars => IInv'
  BY NextIInv
<1> QED
  BY <1>1, <1>2, PTL DEF Spec

\* Types, and the limits of the memory of each controller (pid.c:36-57).
THEOREM MemoryKeepsLimits == Spec => []TypeOK
<1>1. IInv => TypeOK
  BY DEF IInv
<1> QED
  BY <1>1, ControlInvariance, PTL

-----------------------------------------------------------------------------
(* Each axis by itself.                                                    *)

\* What a step means for one axis: nothing, or one of the two of HoldAxis.
LEMMA AxisStep ==
    ASSUME IInv, [Next]_vars, NEW a \in Axes
    PROVE  \/ ex'[a] = ex[a] /\ pid'[a] = pid[a] /\ Added(a)' = Added(a)
           \/ /\ ~ flags[a]
              /\ ex'[a] = data[SensorOf[a]] /\ Added(a)' = 0
              /\ flags'[a] = flags[a] /\ data'[SensorOf[a]] = data[SensorOf[a]]
              /\ pid'[a] = pid[a]
           \/ /\ flags[a]
              /\ pid'[a] = PIDUpdate(Gains[a], pid[a], ex[a], data[SensorOf[a]])
              /\ Added(a)' = pid'[a].out
              /\ flags'[a] = flags[a] /\ data'[SensorOf[a]] = data[SensorOf[a]]
              /\ ex'[a] = ex[a]
<1>1. CASE UNCHANGED <<ex, pid, dir, seen>>
  BY <1>1 DEF Added
<1>2. CASE Tick
  <2>1. /\ pid' = [b \in Axes |-> IF flags[b] THEN Corrected(b) ELSE pid[b]]
        /\ ex' = [b \in Axes |-> IF flags[b] THEN ex[b] ELSE data[SensorOf[b]]]
        /\ dir' = [d \in Direction |->
                      (IF StickOf[d] \in Stick THEN data[StickOf[d]] ELSE 0)
                      + (IF d \in Axes /\ flags[d] THEN Corrected(d).out ELSE 0)]
        /\ seen' = data /\ data' = data /\ flags' = flags
    BY <1>2 DEF Tick, Input2dir
  <2>2. flags[a] \in BOOLEAN /\ data \in [Stick \cup Sensor -> Int]
    BY DEF IInv, TypeOK, NumbersInv
  <2> DEFINE stick == CASE a = "throttle" -> data["ry"] [] a = "yaw" -> data["rx"] [] OTHER -> 0
             add == IF flags[a] THEN Corrected(a).out ELSE 0
  <2>3. stick \in Int /\ add \in Int
    <3>1. stick \in Int
      BY <2>2 DEF Stick
    <3>2. Corrected(a).out \in Int
      BY <1>2, CycleTypes
    <3> QED
      BY <3>1, <3>2
  <2>4. dir'[a] = stick + add
    <3>1. a \in Direction
      BY DEF Direction
    <3>2. (IF StickOf[a] \in Stick THEN data[StickOf[a]] ELSE 0) = stick
      <4>1. StickOf[a] = (CASE a = "throttle" -> "ry" [] a = "yaw" -> "rx" [] OTHER -> "none")
        BY <3>1 DEF StickOf, Axes
      <4> QED
        BY <4>1 DEF Stick
    <3> QED
      BY <2>1, <3>1, <3>2
  <2>5. Added(a)' = dir'[a] - stick
    BY <2>1 DEF Added
  <2>6. Added(a)' = add
    <3> HIDE DEF stick, add
    <3> QED
      BY <2>3, <2>4, <2>5
  <2>7. CASE flags[a]
    BY <2>1, <2>6, <2>7 DEF Corrected
  <2>8. CASE ~ flags[a]
    BY <2>1, <2>6, <2>8
  <2> QED
    BY <2>2, <2>7, <2>8
<1>3. \/ UNCHANGED <<ex, pid, dir, seen>>
      \/ Tick
  BY DEF Next, Axis, Sense, Turn, vars
<1> QED
  BY <1>1, <1>2, <1>3

\* The beginning is the one of HoldAxis.
LEMMA AxisInit ==
    ASSUME Init, NEW a \in Axes
    PROVE  ex[a] = 0 /\ pid[a] = PIDInit /\ Added(a) = 0
<1>1. dir[a] = 0
  BY DEF Init, Direction
<1>2. seen["ry"] = 0 /\ seen["rx"] = 0
  BY DEF Init, Stick
<1> QED
  BY <1>1, <1>2 DEF Init, Added

\* control.c:85-99: whatever the sticks and the other axes do, each axis holds
\* its own last measurement: while its lock is closed, each cycle calls its own
\* controller with that and with its own measurement, and adds what comes out.
THEOREM AxesAlone == Spec => EachAxisAlone
<1>1. /\ SensorOf["roll"] = "roll" /\ SensorOf["pitch"] = "pitch"
      /\ SensorOf["yaw"] = "yaw" /\ SensorOf["throttle"] = "depth"
  BY DEF SensorOf, Axes
<1>2. Init => Roll!Init
  BY AxisInit DEF Axes, Roll!Init
<1>3. IInv /\ [Next]_vars => [Roll!Environment \/ Roll!Open \/ Roll!Hold]_(Roll!vars)
  BY <1>1, AxisStep DEF Axes, Roll!Environment, Roll!Open, Roll!Hold, Roll!vars
<1>4. Init => Pitch!Init
  BY AxisInit DEF Axes, Pitch!Init
<1>5. IInv /\ [Next]_vars => [Pitch!Environment \/ Pitch!Open \/ Pitch!Hold]_(Pitch!vars)
  BY <1>1, AxisStep DEF Axes, Pitch!Environment, Pitch!Open, Pitch!Hold, Pitch!vars
<1>6. Init => Yaw!Init
  BY AxisInit DEF Axes, Yaw!Init
<1>7. IInv /\ [Next]_vars => [Yaw!Environment \/ Yaw!Open \/ Yaw!Hold]_(Yaw!vars)
  BY <1>1, AxisStep DEF Axes, Yaw!Environment, Yaw!Open, Yaw!Hold, Yaw!vars
<1>8. Init => Throttle!Init
  BY AxisInit DEF Axes, Throttle!Init
<1>9. IInv /\ [Next]_vars => [Throttle!Environment \/ Throttle!Open \/ Throttle!Hold]_(Throttle!vars)
  BY <1>1, AxisStep DEF Axes, Throttle!Environment, Throttle!Open, Throttle!Hold, Throttle!vars
<1> QED
  BY <1>2, <1>3, <1>4, <1>5, <1>6, <1>7, <1>8, <1>9, ControlInvariance, PTL
  DEF Spec, EachAxisAlone, Roll!Spec, Pitch!Spec, Yaw!Spec, Throttle!Spec


-----------------------------------------------------------------------------
(* The thrusters.                                                          *)

\* A thruster's configuration, field by field.
LEMMA ThrusterTypes ==
    ASSUME NEW m \in Motors
    PROVE  /\ Thrusters[m].reversed \in BOOLEAN
           /\ Thrusters[m].deadzone_n \in Nat /\ Thrusters[m].deadzone_p \in Nat
           /\ Thrusters[m].power_nLimit \in Nat /\ Thrusters[m].power_pLimit \in Nat
<1>1. {Thrusters[m][p] : p \in {"deadzone_n", "deadzone_p", "power_nLimit", "power_pLimit"}}
          \subseteq Nat
  BY ThrusterAssumption
<1>2. \A p \in {"deadzone_n", "deadzone_p", "power_nLimit", "power_pLimit"} :
          Thrusters[m][p] \in Nat
  BY <1>1
<1> QED
  BY <1>2, ThrusterAssumption

\* control.c:7-69: one thruster, whatever its row of the frame adds up to.
LEMMA MotorAsAsked ==
    ASSUME OutputInv, NumbersInv, NEW m \in Motors
    PROVE  AsAsked(m, PerRow(Frame[m], dir))
<1> DEFINE raw == PerRow(Frame[m], dir)
           t == Thrusters[m]
<1>1. raw \in Int
  BY RowType DEF NumbersInv
<1>2. output[m] = PerMotor(raw, t)
  BY DEF OutputInv, Dir2output
<1>3. msg[m] = [has |-> output[m] # 0, val |-> output[m]]
  BY DEF OutputInv, Output2send, NoCommand
<1> HIDE DEF raw
<1>4. raw = 0 => output[m] = 0
  BY <1>2 DEF PerMotor
<1>5. ASSUME raw # 0, (raw > 0) # t.reversed
      PROVE  output[m] \in 0..t.power_pLimit
             /\ (output[m] > t.deadzone_p \/ output[m] = t.power_pLimit)
  BY <1>1, <1>2, <1>5, ThrusterTypes DEF PerMotor, Clamp
<1>6. ASSUME raw # 0, ~ ((raw > 0) # t.reversed)
      PROVE  - output[m] \in 0..t.power_nLimit
             /\ (- output[m] > t.deadzone_n \/ - output[m] = t.power_nLimit)
  BY <1>1, <1>2, <1>6, ThrusterTypes DEF PerMotor, Clamp
<1>7. AsAsked(m, raw)
  BY <1>3, <1>4, <1>5, <1>6 DEF AsAsked
<1> QED
  BY <1>7 DEF raw

-----------------------------------------------------------------------------
(* What a row of the frame adds up to.                                     *)

\* One direction after the other, in the order that CHOOSE takes them.
Addend(w, f, s) == LET d == CHOOSE d \in s : TRUE IN w[d] + f[s \ {d}]
\* f adds up the parts of w over every set of directions.
IsSum(w, f) ==
    f = [s \in SUBSET Direction |-> IF s = {} THEN 0 ELSE Addend(w, f, s)]
\* The same without an order.
Part(w, s, d) == IF d \in s THEN w[d] ELSE 0
SumOf(w, s) == Part(w, s, "roll") + Part(w, s, "pitch") + Part(w, s, "yaw")
               + Part(w, s, "throttle") + Part(w, s, "forward") + Part(w, s, "lateral")

LEMMA SumStep ==
    ASSUME NEW w \in [Direction -> Int], NEW s \in SUBSET Direction, NEW d \in s
    PROVE  SumOf(w, s) = w[d] + SumOf(w, s \ {d})
<1>1. w["roll"] \in Int /\ w["pitch"] \in Int /\ w["yaw"] \in Int
      /\ w["throttle"] \in Int /\ w["forward"] \in Int /\ w["lateral"] \in Int
  BY DEF Direction, Axes
<1>2. \A e : e # d => Part(w, s \ {d}, e) = Part(w, s, e)
  BY DEF Part
<1>3. Part(w, s, d) = w[d] /\ Part(w, s \ {d}, d) = 0
  BY DEF Part
<1>4. \A e \in Direction : Part(w, s, e) \in Int /\ Part(w, s \ {d}, e) \in Int
  BY DEF Part
<1>5. /\ "roll" \in Direction /\ "pitch" \in Direction /\ "yaw" \in Direction
      /\ "throttle" \in Direction /\ "forward" \in Direction /\ "lateral" \in Direction
  BY DEF Direction, Axes
<1>6. d \in {"roll", "pitch", "yaw", "throttle", "forward", "lateral"}
  BY DEF Direction, Axes
<1>7. QED BY <1>1, <1>2, <1>3, <1>4, <1>5, <1>6 DEF SumOf

\* By induction on the number of directions.
LEMMA SumUnique ==
    ASSUME NEW w \in [Direction -> Int], NEW f, IsSum(w, f)
    PROVE  \A s \in SUBSET Direction : f[s] = SumOf(w, s)
<1> DEFINE S == {n \in Nat : \A s \in SUBSET Direction : Cardinality(s) = n => f[s] = SumOf(w, s)}
<1>1. \A s \in SUBSET Direction : IsFiniteSet(s)
  <2>1. IsFiniteSet(Direction)
    <3>1. \A e : IsFiniteSet({e})
      BY FS_Singleton
    <3>2. \A A, B : IsFiniteSet(A) /\ IsFiniteSet(B) => IsFiniteSet(A \cup B)
      BY FS_Union
    <3>3. IsFiniteSet({"roll"} \cup {"pitch"} \cup {"yaw"} \cup {"throttle"}
                          \cup {"forward"} \cup {"lateral"})
      BY <3>1, <3>2
    <3>4. Direction = {"roll"} \cup {"pitch"} \cup {"yaw"} \cup {"throttle"}
                          \cup {"forward"} \cup {"lateral"}
      BY DEF Direction, Axes
    <3>5. QED BY <3>3, <3>4
  <2>2. QED BY <2>1, FS_Subset
<1>2. 0 \in S
  BY <1>1, FS_EmptySet DEF IsSum, SumOf, Part
<1>3. ASSUME NEW n \in S PROVE n + 1 \in S
  <2> SUFFICES ASSUME NEW s \in SUBSET Direction, Cardinality(s) = n + 1
               PROVE  f[s] = SumOf(w, s)
    OBVIOUS
  <2> DEFINE d == CHOOSE d \in s : TRUE
  <2>1. s # {}
    BY FS_EmptySet
  <2>2. d \in s
    BY <2>1
  <2>3. f[s] = w[d] + f[s \ {d}]
    BY <2>1 DEF IsSum, Addend
  <2>4. Cardinality(s \ {d}) = n
    <3>1. IsFiniteSet(s) /\ n \in Nat
      BY <1>1
    <3>2. Cardinality(s \ {d}) = Cardinality(s) - 1
      BY <3>1, <2>2, FS_RemoveElement
    <3>3. QED BY <3>1, <3>2
  <2>5. f[s \ {d}] = SumOf(w, s \ {d})
    BY <2>4
  <2> HIDE DEF d
  <2>6. QED BY <2>2, <2>3, <2>5, SumStep
<1>4. S = Nat
  <2> HIDE DEF S
  <2>1. S \in SUBSET Nat
    BY DEF S
  <2>2. QED BY <1>2, <1>3, <2>1, InductionSet
<1>5. QED
  BY <1>1, <1>4, FS_CardinalityType

LEMMA SumExists ==
    ASSUME NEW w \in [Direction -> Int]
    PROVE  IsSum(w, [s \in SUBSET Direction |-> SumOf(w, s)])
<1> DEFINE f == [s \in SUBSET Direction |-> SumOf(w, s)]
<1>1. ASSUME NEW s \in SUBSET Direction, s # {}
      PROVE  f[s] = Addend(w, f, s)
  <2> DEFINE d == CHOOSE d \in s : TRUE
  <2>1. d \in s
    BY <1>1
  <2> HIDE DEF d
  <2>2. f[s] = w[d] + f[s \ {d}]
    BY <2>1, SumStep
  <2>3. QED BY <2>2 DEF Addend, d
<1>2. f[{}] = 0
  BY DEF SumOf, Part
<1>3. QED BY <1>1, <1>2 DEF IsSum

\* The sum over the directions is that of the six products.
LEMMA SumOfRow ==
    ASSUME NEW row, NEW d, \A e \in Direction : row[e] \in Int /\ d[e] \in Int
    PROVE  MapThenSumSet(LAMBDA e : row[e] * d[e], Direction) = PerRow(row, d)
<1> DEFINE w == [e \in Direction |-> row[e] * d[e]]
           iter == CHOOSE f : IsSum(w, f)
<1>1. MapThenSumSet(LAMBDA e : row[e] * d[e], Direction) = iter[Direction]
  BY DEF MapThenSumSet, MapThenFoldSet, IsSum, Addend
<1>2. w \in [Direction -> Int]
  OBVIOUS
<1>3. IsSum(w, iter)
  BY <1>2, SumExists
<1>4. iter[Direction] = SumOf(w, Direction)
  BY <1>2, <1>3, SumUnique
<1>5. SumOf(w, Direction) = PerRow(row, d)
  BY DEF SumOf, Part, PerRow, Direction, Axes
<1>6. QED BY <1>1, <1>4, <1>5

\* control.c:7-69, 104-150: each thruster does what its row of the frame asks
\* for: it turns the right way, outside its dead zone as far as its limits let
\* it and never beyond them, and the message says so.
THEOREM ThrustersObey == Spec => []ThrustersFollow
<1>1. ASSUME IInv, NEW m \in Motors
      PROVE  AsAsked(m, MapThenSumSet(LAMBDA e : Frame[m][e] * dir[e], Direction))
  <2>1. AsAsked(m, PerRow(Frame[m], dir))
    BY <1>1, MotorAsAsked DEF IInv
  <2>2. \A e \in Direction : Frame[m][e] \in Int /\ dir[e] \in Int
    BY <1>1, FrameAssumption DEF IInv, NumbersInv
  <2>3. MapThenSumSet(LAMBDA e : Frame[m][e] * dir[e], Direction) = PerRow(Frame[m], dir)
    BY <2>2, SumOfRow
  <2>4. QED BY <2>1, <2>3
<1>2. IInv => ThrustersFollow
  BY <1>1 DEF ThrustersFollow
<1> QED
  BY <1>2, ControlInvariance, PTL
=============================================================================
