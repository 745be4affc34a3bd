---------------------------- MODULE MCStrategies ----------------------------
EXTENDS Strategies, TLC

\* The PUTs are interchangeable.
Symmetry == Permutations(Put)
=============================================================================
