------------------------- MODULE MCTranscodePipeline -------------------------
EXTENDS TranscodeProperties, TLC
CONSTANTS w1, w2, none, d1, d2
TwoWorkers == {w1, w2}
OneWorker == {w1}
OnePurge == {d1}
TwoPurges == {d1, d2}
NoPurge == {}
Symmetry == Permutations(Workers) \union Permutations(Purges)
===============================================================================
