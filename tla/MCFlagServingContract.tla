----------------------- MODULE MCFlagServingContract -----------------------
EXTENDS FlagServingContract

\* Every route that writes a row the clients read.
AllWrites == WriteKind
=============================================================================
