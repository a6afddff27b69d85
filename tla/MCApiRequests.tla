--------------------------- MODULE MCApiRequests ---------------------------
EXTENDS ApiRequests, TLC

Symmetric == Permutations(Request) \cup Permutations(Payload)
=============================================================================
