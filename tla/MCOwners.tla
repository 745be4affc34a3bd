------------------------------ MODULE MCOwners ------------------------------
EXTENDS Owners, TLC

\* Users are interchangeable, and so are requests.
Symmetry == Permutations(User) \cup Permutations(Request)
=============================================================================
