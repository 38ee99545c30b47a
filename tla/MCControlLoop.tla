---------------------------- MODULE MCControlLoop ----------------------------
(***************************************************************************)
(* Instances of ControlLoop: six thrusters, each axis with other gains.    *)
(***************************************************************************)
EXTENDS ControlLoop

Row(ro, pi, ya, th, fo, la) ==
    [d \in Direction |-> CASE d = "roll" -> ro [] d = "pitch" -> pi [] d = "yaw" -> ya
                           [] d = "throttle" -> th [] d = "forward" -> fo [] d = "lateral" -> la]
Factors == <<Row(0, 0, -1, 0, 1, 1), Row(0, 0, 1, 0, 1, -1), Row(0, 0, 1, 0, -1, 1),
             Row(1, 1, 0, 1, 0, 0), Row(-1, 1, 0, 1, 0, 0), Row(0, -2, 0, 1, 0, 0)>>
MCFrame == [m \in 0..5 |-> Factors[m + 1]]

MCThrusters == [m \in 0..5 |->
    [reversed |-> m \in {1, 4},
     deadzone_n |-> 1 + (m % 2), deadzone_p |-> IF m = 3 THEN 0 ELSE 2 - (m % 2),
     power_nLimit |-> IF m = 2 THEN 1 ELSE 4, power_pLimit |-> IF m = 5 THEN 0 ELSE 5 + (m % 3)]]

Gain(p, i, d, lim) ==
    [Kp |-> p, Ki |-> i, Kd |-> d, tau |-> 0, T |-> 1,
     limMin |-> - lim, limMax |-> lim + 1, limMinInt |-> -2, limMaxInt |-> 3]
MCGains == [a \in Axes |-> CASE a = "roll" -> Gain(1, 2, 0, 3) [] a = "pitch" -> Gain(2, 0, 1, 4)
                             [] a = "yaw" -> Gain(1, 2, 1, 5) [] a = "throttle" -> Gain(0, 4, 0, 2)]

MCRequests == {[lx |-> 1], [ly |-> -1], [rx |-> 2], [ry |-> 1], [ly |-> 3, ry |-> -2], <<>>,
               [lx |-> 1, ly |-> 1, rx |-> 1, ry |-> 1, lt |-> 1, rt |-> 1]}
=============================================================================
