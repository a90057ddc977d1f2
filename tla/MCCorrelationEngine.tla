-------------------------- MODULE MCCorrelationEngine --------------------------
\* Devices and sources are model values; both are symmetric.
EXTENDS CorrelationEngine, TLC

CONSTANTS d1, d2, s1, s2

Interchangeable == Permutations({d1, d2}) \cup Permutations({s1, s2})

\* Bound: of the time after a restart or a roll.
ShortAfterReset == IdsAreFresh \/ now <= 3
=============================================================================
