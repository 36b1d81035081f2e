---------------------------- MODULE MCForecastLoop ----------------------------
(* Two targets, one of them below its bar, through every guardrail.          *)
EXTENDS ForecastLoop

CONSTANTS mem, disk

Above(k, bar) == [key |-> k, bar |-> bar, dir |-> "above"]
Below(k, bar) == [key |-> k, bar |-> bar, dir |-> "below"]
MCTargetSets == {{Above(mem, 20), Below(disk, 3)}, {Above(mem, 14)}}

Gauge(values) == {[type |-> "gauge", values |-> values]}
Rising  == Gauge(<<10, 12, 14, 16>>)
Jumping == Gauge(<<16, 17, 4, 6, 8>>)    \* a restart and a ramp
Dipping == Gauge(<<14, 15, 5, 14, 15>>)  \* a dip that recovers
Falling == Gauge(<<9, 8, 7, 5>>)
MCValues ==
    [k \in {mem, disk} |->
        IF k = mem
        THEN {{[type |-> "counter", values |-> <<1, 2, 3>>]}, Gauge(<<16, 16, 16>>),
              Gauge(<<1, 1, 1, 18, 2, 3>>), Rising, Jumping, Dipping}
        ELSE {Gauge(<<9, 8>>) \cup Gauge(<<8, 7>>), Falling}]

Trajectory(point, lower, upper) == {[point |-> point, lower |-> lower, upper |-> upper]}
MCAnswers ==
    {{},
     Trajectory(<<15, 25, 26>>, <<2, 15, 21>>, <<22, 26, 26>>),
     Trajectory(<<3, 3, 26>>, <<2, 2, 15>>, <<22, 26, 26>>)}
=============================================================================
