------------------------ MODULE MCServiceController ------------------------
(* Small instances of ServiceController for TLC. *)
EXTENDS ServiceController

P80 == [port |-> 80, proto |-> "TCP", nodePort |-> 30080]
P53 == [port |-> 53, proto |-> "UDP", nodePort |-> 30053]
P80Moved == [port |-> 80, proto |-> "TCP", nodePort |-> 31080]

AllPorts == {P80, P53}
OnePort == {{P80}}
SwapPorts == {{P80}, {P53}}
TwoPorts == {{P80}, {P53}, {P80, P53}}

MovedPorts == {P80, P80Moved}
MovedService == {{P80}, {P80Moved}}

\* Names that do not collide.
OneName == [s \in Services |-> s]

\* Health-check annotations: none, and values that are not allowed (a check every
\* 99 seconds, of an unknown type).
DefaultChecks == [s \in Services |-> NoAnnotations]
WrongChecks ==
    [s \in Services |-> [NoAnnotations EXCEPT !.delay = {99}, !.type = {"ICMP"}]]

N1 == {"n1"}
AllNodes == {"n1", "n2"}
NodePairs == {{"n1"}, {"n2"}, {"n1", "n2"}}
NodeSetsN1 == {{"n1"}, {"n1", "n2"}}
NodeSetsEmpty == {{}, {"n1"}}
=============================================================================
