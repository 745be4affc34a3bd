--------------------------- MODULE MCFlagServing ---------------------------
EXTENDS FlagServing, TLC

\* Every route that writes a row the clients read.
AllWrites == WriteKind

\* Two admin requests, and two field types, are alike.
Symmetry == Permutations(Writer) \cup Permutations(FieldType)
=============================================================================
