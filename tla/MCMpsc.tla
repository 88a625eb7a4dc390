------------------------------- MODULE MCMpsc -------------------------------
EXTENDS Mpsc, TLC

Symmetric == Permutations(Items) \cup Permutations(Tasks)

\* Every callback may panic, or every one but a Send's own waker in commit.
AnyCallback == CallbackPoints
NotInCommit == CallbackPoints \ {"drop_commit"}
=============================================================================
