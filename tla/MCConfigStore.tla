--------------------------- MODULE MCConfigStore ----------------------------
EXTENDS ConfigStore, TLC
CONSTANTS k1, k2, a1, a2, b, daemon, command
TwoThreads == a1 :> daemon @@ a2 :> daemon @@ b :> command
Symmetric == Permutations({a1, a2}) \cup Permutations({k1, k2})
=============================================================================
