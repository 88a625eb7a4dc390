------------------------------- MODULE MCMpmc -------------------------------
EXTENDS Mpmc, TLC

Symmetric == Permutations(Items) \cup Permutations(RecvFuts) \cup Permutations(Receivers)
=============================================================================
