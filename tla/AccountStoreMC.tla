--------------------------- MODULE AccountStoreMC ---------------------------
EXTENDS AccountStore, TLC

\* Callers are interchangeable: flights are numbers and carry no caller.
CallerSymmetry == Permutations(Caller)
=============================================================================
