----------------------------- MODULE MCKeySync -----------------------------
\* Instances of KeySync for TLC. Instances of Central are alike, and so are the
\* polls of the runtime: no action and no property names one of them.
EXTENDS KeySync, TLC

Symmetry == Permutations(Pod) \cup Permutations(Poll)
=============================================================================
