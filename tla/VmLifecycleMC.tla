--------------------------- MODULE VmLifecycleMC ---------------------------
(* Instances of VmLifecycle for TLC: two commands, each with the one interface name its
   pid and clock produce, so that a second launch meets the TAP of the first. *)
EXTENDS VmLifecycle

CONSTANTS p1, p2, tapA, tapB, port, port2

MCProcs == {p1, p2}
MCNamesOf == [p \in MCProcs |-> IF p = p1 THEN {tapA} ELSE {tapB}]

OnPort(ls) == [ports |-> {port}, launches |-> ls]
L(k, e)    == [kind |-> k, end |-> e]

PlainRun     == OnPort(<<L("cold", "serve")>>)
RestoredRun  == OnPort(<<L("restore", "serve")>>)
Benchmark    == OnPort(<<L("restore", "stop"), L("restore", "stop")>>)
VerifiedSnap == OnPort(<<L("cold", "snapshot"), L("restore", "stop")>>)
DrySnap      == OnPort(<<L("dry", "snapshot"), L("dry", "stop")>>)
NoPorts      == [ports |-> {}, launches |-> <<L("cold", "stop")>>]

AllPlans   == {PlainRun, RestoredRun, Benchmark, VerifiedSnap, DrySnap, NoPorts}
ServePlans == {PlainRun, RestoredRun, VerifiedSnap}
TwoPorts   == {PlainRun, [PlainRun EXCEPT !.ports = {port2}]}
=============================================================================
