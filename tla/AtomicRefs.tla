------------------------------ MODULE AtomicRefs ------------------------------
(***************************************************************************)
(* What a push promises its client, free of locks, packs, quarantines,     *)
(* crashes and vanished handlers: all of its ref updates happen in one     *)
(* step, once, and only while every ref still has the value the client had *)
(* seen; or none of them happens.  ReceivePack implements it.              *)
(***************************************************************************)
CONSTANTS Calls,   \* pushes
          Refs,
          Tips,    \* what a ref may name
          None     \* no such ref

VARIABLES refs,    \* refs[r]: the tip r names
          wish,    \* wish[c][r]: what c believes r names, and wants it to
          fate     \* what became of each push

atomicVars == <<refs, wish, fate>>

AtomicInit ==
    /\ refs = [r \in Refs |-> None]
    /\ wish = [c \in Calls |-> [r \in {} |-> None]]
    /\ fate = [c \in Calls |-> "none"]

Ask(c) ==
    /\ fate[c] = "none"
    /\ fate' = [fate EXCEPT ![c] = "asked"]
    /\ \E rs \in SUBSET Refs :
         \E w \in [rs -> [old : Tips \union {None}, new : Tips \union {None}]] :
            wish' = [wish EXCEPT ![c] = w]
    /\ UNCHANGED refs

Land(c) ==
    /\ fate[c] = "asked"
    /\ \A r \in DOMAIN wish[c] : refs[r] = wish[c][r].old
    /\ refs' = [r \in Refs |-> IF r \in DOMAIN wish[c] THEN wish[c][r].new ELSE refs[r]]
    /\ fate' = [fate EXCEPT ![c] = "landed"]
    /\ UNCHANGED wish

Refuse(c) ==
    /\ fate[c] = "asked"
    /\ fate' = [fate EXCEPT ![c] = "refused"]
    /\ UNCHANGED <<refs, wish>>

\* A crash refuses every push that is under way at once.
RefuseAll ==
    /\ fate' = [c \in Calls |-> IF fate[c] = "asked" THEN "refused" ELSE fate[c]]
    /\ UNCHANGED <<refs, wish>>

AtomicNext == RefuseAll \/ \E c \in Calls : Ask(c) \/ Land(c) \/ Refuse(c)

AtomicSpec == AtomicInit /\ [][AtomicNext]_atomicVars
=============================================================================
