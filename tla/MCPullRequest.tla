---------------------------- MODULE MCPullRequest ----------------------------
(* PullRequest on small instances. *)
EXTENDS PullRequest, TLC

\* Handlers start alike and are never compared.
CallSymmetry == Permutations(Calls)
=============================================================================
