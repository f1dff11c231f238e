-------------------------- MODULE MCRepositoryLife --------------------------
(* RepositoryLife on a small instance: another owner's repository, the fork *)
(* of it, and a second repository of the account.                           *)
EXTENDS RepositoryLife, TLC

CONSTANTS theirs, copy, other

MyNames == {copy, other}
KeepsName == [n \in {theirs, copy, other} |-> IF n = theirs THEN copy ELSE n]

\* Requests start alike and are never compared.
CallSymmetry == Permutations(Calls)
=============================================================================
