---------------------------- MODULE MCReceivePack ----------------------------
(* ReceivePack on small instances. *)
EXTENDS ReceivePack, TLC

\* A first commit and one on top of it.
Chain == [t \in 1..2 |-> 1..t]

\* Pushes start alike and are never compared.
CallSymmetry == Permutations(Calls)
=============================================================================
