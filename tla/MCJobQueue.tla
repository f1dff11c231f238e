---------------------------- MODULE MCJobQueue ----------------------------
(* JobQueue on small instances. *)
EXTENDS JobQueue, TLC

\* Processes start alike and are never compared.
ProcSymmetry == Permutations(Procs)

\* The histories decide no step: a run that asks nothing of them leaves them out.
WithoutHistory == <<tables, proc, dispatcherVars, pollerVars, budget>>
=============================================================================
