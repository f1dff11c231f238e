----------------------------- MODULE MCAccounts -----------------------------
\* A small instance of Accounts.
EXTENDS Accounts, TLC

CONSTANTS a, b, c1, c2, c3

CallSymmetry == Permutations(Calls) \union Permutations(Names)
=============================================================================
