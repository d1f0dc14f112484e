------------------------- MODULE MCBenchmarkRunner -------------------------
(* Failures for TLC, one of each kind that the code tells apart, and the   *)
(* models of the runs.                                                     *)
EXTENDS BenchmarkRunner
Fault(status, type, said, transport) ==
    [status |-> status, type |-> type, said |-> said, transport |-> transport]
Throttled  == Fault(429, {}, {}, FALSE)
Disguised  == Fault(429, {}, {"unauthorized"}, FALSE)
Overloaded == Fault(503, {}, {}, FALSE)
Missing    == Fault(404, {}, {}, FALSE)
Denied     == Fault(401, {}, {}, FALSE)
Garbled    == Fault(0, {"lookup"}, {}, FALSE)
TimedOut   == Fault(0, {"timeout"}, {}, TRUE)
Unreached  == Fault(0, {"connect"}, {}, TRUE)
MCFaults == {Throttled, Disguised, Overloaded, Missing, Denied, Garbled, TimedOut, Unreached}
FourModels == <<"m1", "m2", "m3", "m4">>
SixModels == <<"m1", "m2", "m3", "m4", "m5", "m6">>
=============================================================================
