------------------------ MODULE MCComplianceThrottle ------------------------
(* One fetch at a time and a fixed interval, or two and a random one.       *)
EXTENDS ComplianceThrottle

Conf(limit, low, high) == [limit |-> limit, low |-> low, high |-> high]

SomeSettings == {Conf(1, 1, 2), Conf(2, 1, 2)}
SameSettings == {Conf(1, 1, 1)}
=============================================================================
