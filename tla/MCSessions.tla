---------------------------- MODULE MCSessions ------------------------------
EXTENDS SessionSystem, TLC

Interchangeable == Permutations(User) \cup Permutations(Call) \cup Permutations(Tab)
    \cup Permutations(Request)
=============================================================================
