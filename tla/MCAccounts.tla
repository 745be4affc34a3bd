----------------------------- MODULE MCAccounts -----------------------------
EXTENDS Accounts, TLC

\* Passwords, tokens and requests are interchangeable.
Symmetry == Permutations(Password) \cup Permutations(Token) \cup Permutations(Request)
=============================================================================
