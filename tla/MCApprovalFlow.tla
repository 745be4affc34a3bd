-------------------------- MODULE MCApprovalFlow --------------------------
EXTENDS ApprovalFlow, TLC

\* Calls, and admins, are interchangeable in every safety property.
Symmetry == Permutations(Call) \cup Permutations(Admin)
============================================================================
