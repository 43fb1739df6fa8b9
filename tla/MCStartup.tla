----------------------------- MODULE MCStartup ------------------------------
EXTENDS Startup, TLC
CONSTANTS a, b, a1, a2, b1, old
MCInstalls == {a, b}
MCProcs    == {a1, a2, b1, old}
MCRootOf   == [p \in MCProcs |-> IF p = old THEN "legacy" ELSE IF p = b1 THEN b ELSE a]
Twins      == Permutations({a1, a2})
=============================================================================
