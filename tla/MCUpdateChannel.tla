---------------------------- MODULE MCUpdateChannel ----------------------------
\* Instance of UpdateChannel for TLC: two releases; the first has a binary for
\* both platforms, the second, which is signed, for one.
EXTENDS UpdateChannel

MCAssets == [v \in Releases |-> IF v = 1 THEN Platforms ELSE {1}]
=============================================================================
