----------------------------- MODULE ReceivePack -----------------------------
(***************************************************************************)
(* Pushes to one repository of edda: the ref advertisement a client works  *)
(* from, the handler that waits for the repository's lock, the blocking    *)
(* section that quarantines, checks and promotes the pack and moves the    *)
(* refs (edda-git's protocol.rs, quarantine.rs, refs.rs, hooks.rs), the    *)
(* repair of HEAD, and the sweep of abandoned quarantines.                 *)
(*                                                                         *)
(* The blocking section runs on tokio's blocking pool.  A handler that is  *)
(* dropped because its client went away releases the lock, and leaves the  *)
(* section running: see Detach.                                            *)
(*                                                                         *)
(* An object graph is abstracted to tips and what each needs; a pack is a  *)
(* file name and the objects inside it.  The hooks' rules (branch          *)
(* protection, quota, linear history, signatures) may reject any push.     *)
(***************************************************************************)
EXTENDS Integers, FiniteSets

CONSTANTS Calls,      \* pushes that may ever be made (a bound)
          Refs,       \* branches
          Tips,       \* commits a branch may name
          Needs,      \* Needs[t]: the closure of t, t included
          None,       \* no tip, nobody
          SamePacks,  \* whether equal objects make byte-identical packs
          MaxFaults,  \* bound: crashes, I/O errors
          MaxLeaves   \* bound: clients that go away

ASSUME ReceivePackAssumption ==
    /\ None \notin Calls \union Tips
    /\ Needs \in [Tips -> SUBSET Tips]
    /\ \A t \in Tips : t \in Needs[t]
    /\ \A t \in Tips : \A u \in Needs[t] : Needs[u] \subseteq Needs[t]
    /\ SamePacks \in BOOLEAN
    /\ {MaxFaults, MaxLeaves} \subseteq Nat

VARIABLES
    refs,      \* the refs, loose or packed
    head,      \* the branch HEAD points at, which need not exist
    packs,     \* objects/pack: the packs in place
    incoming,  \* objects/pack/incoming-*: whose quarantine is on disk
    lock,      \* the repository's lock in the LockRegistry
    call,      \* each push
    faults,    \* what is left of MaxFaults
    leaves     \* what is left of MaxLeaves

vars == <<refs, head, packs, incoming, lock, call, faults, leaves>>

-----------------------------------------------------------------------------
Value == Tips \union {None}

\* A pack's name is the hash of its bytes.
Pack == [by : Calls \union {None}, objects : SUBSET Tips]
PackOf(c, objects) == [by |-> IF SamePacks THEN None ELSE c, objects |-> objects]
NoPack == [by |-> None, objects |-> {}]

Wishes == UNION {[rs -> Value] : rs \in SUBSET Refs}
NoWish == [r \in {} |-> None]

\* Where a push is: with its client, in its handler, in the blocking
\* section, or over.
Blocking == {"writing", "quarantined", "promoted", "landed"}
Over == {"accepted", "refused"}
Place == {"idle", "advertised", "waiting"} \union Blocking \union Over
Call == [at : Place, seen : [Refs -> Value], new : Wishes, pack : Pack]

TypeOK ==
    /\ refs \in [Refs -> Value]
    /\ head \in Refs
    /\ packs \in SUBSET Pack
    /\ incoming \in SUBSET Calls
    /\ lock \in Calls \union {None}
    /\ call \in [Calls -> Call]
    /\ faults \in 0..MaxFaults
    /\ leaves \in 0..MaxLeaves

Closure(tips) == UNION {Needs[t] : t \in tips \ {None}}
ValuesOf(f) == {f[r] : r \in DOMAIN f}
Live == UNION {p.objects : p \in packs}

Fault == faults > 0 /\ faults' = faults - 1 /\ UNCHANGED leaves
GoAway == leaves > 0 /\ leaves' = leaves - 1 /\ UNCHANGED faults
Goto(c, place) == call' = [call EXCEPT ![c].at = place]
Release(c) == lock' = IF lock = c THEN None ELSE lock

-----------------------------------------------------------------------------
Init ==
    /\ refs = [r \in Refs |-> None]
    /\ head \in Refs
    /\ packs = {}
    /\ incoming = {}
    /\ lock = None
    /\ call = [c \in Calls |-> [at |-> "idle", seen |-> [r \in Refs |-> None],
                                new |-> NoWish, pack |-> NoPack]]
    /\ faults = MaxFaults
    /\ leaves = MaxLeaves

-----------------------------------------------------------------------------
(* The client *)

\* info/refs: the advertisement is read without the lock.
Advertise(c) ==
    /\ call[c].at = "idle"
    /\ call' = [call EXCEPT ![c].at = "advertised", ![c].seen = refs]
    /\ UNCHANGED <<refs, head, packs, incoming, lock, faults, leaves>>

\* Commands for some refs, and a pack of what the server has not advertised.
Wish(seen) == {new \in Wishes : DOMAIN new # {} /\ \A r \in DOMAIN new : new[r] # seen[r]}

Send(c) ==
    /\ call[c].at = "advertised"
    /\ \E new \in Wish(call[c].seen) :
         call' = [call EXCEPT ![c].at = "waiting", ![c].new = new,
                     ![c].pack = PackOf(c, Closure(ValuesOf(new))
                                             \ Closure(ValuesOf(call[c].seen)))]
    /\ UNCHANGED <<refs, head, packs, incoming, lock, faults, leaves>>

-----------------------------------------------------------------------------
(* The handler *)

AcquireLock(c) ==
    /\ call[c].at = "waiting"
    /\ lock = None
    /\ lock' = c
    /\ Goto(c, "writing")
    /\ UNCHANGED <<refs, head, packs, incoming, faults, leaves>>

\* The client goes away while its handler waits for the lock.
Leave(c) ==
    /\ call[c].at = "waiting"
    /\ Goto(c, "refused")
    /\ GoAway
    /\ UNCHANGED <<refs, head, packs, incoming, lock>>

\* ... or while the handler awaits the blocking section, which goes on.
Detach(c) ==
    /\ lock = c
    /\ lock' = None
    /\ GoAway
    /\ UNCHANGED <<refs, head, packs, incoming, call>>

-----------------------------------------------------------------------------
(* The blocking section *)

NeedsPack(c) == \E r \in DOMAIN call[c].new : call[c].new[r] # None

\* write_pack, unless every command is a delete.
WritePack(c) ==
    /\ call[c].at = "writing"
    /\ incoming' = IF NeedsPack(c) THEN incoming \union {c} ELSE incoming
    /\ Goto(c, "quarantined")
    /\ UNCHANGED <<refs, head, packs, lock, faults, leaves>>

\* A bad pack, a blocked ref, the quota, fsck: the quarantine is removed.
RejectEarly(c) ==
    /\ call[c].at \in {"writing", "quarantined"}
    /\ incoming' = incoming \ {c}
    /\ Goto(c, "refused")
    /\ Release(c)
    /\ UNCHANGED <<refs, head, packs, faults, leaves>>

\* fsck: every new tip and its closure is in the pack or the repository.
Fsck(c) == Closure(ValuesOf(call[c].new)) \subseteq call[c].pack.objects \union Live

\* A pack without objects leaves no file.
InPlace(c) == IF call[c].pack.objects = {} THEN packs ELSE packs \union {call[c].pack}

\* fsck passed; the pack's files are renamed into place, its quarantine goes.
Promote(c) ==
    /\ call[c].at = "quarantined"
    /\ Fsck(c)
    /\ packs' = InPlace(c)
    /\ incoming' = incoming \ {c}
    /\ Goto(c, "promoted")
    /\ UNCHANGED <<refs, head, lock, faults, leaves>>

\* A rename of promote fails, and the quarantine stays; or it is the history
\* hooks that cannot reopen the repository, and the promoted pack stays.
PromoteFails(c) ==
    /\ call[c].at = "quarantined"
    /\ Fsck(c)
    /\ \/ UNCHANGED <<packs, incoming>>
       \/ packs' = InPlace(c) /\ incoming' = incoming \ {c}
    /\ Goto(c, "refused")
    /\ Release(c)
    /\ Fault
    /\ UNCHANGED <<refs, head>>

\* The compare-and-swap of update_refs, for every command at once.
Matches_NoCas(c) == TRUE
Matches(c) == \A r \in DOMAIN call[c].new : refs[r] = call[c].seen[r]

Moved_FirstOnly(c) ==
    LET one == CHOOSE r \in DOMAIN call[c].new : TRUE
    IN  [refs EXCEPT ![one] = call[c].new[one]]
Moved(c) == [r \in Refs |-> IF r \in DOMAIN call[c].new THEN call[c].new[r] ELSE refs[r]]

\* update_refs commits: all the refs move in one gix-ref transaction.
LandRefs_BeforePromote(c) ==
    /\ call[c].at = "quarantined"
    /\ Matches(c)
    /\ refs' = Moved(c)
    /\ Goto(c, "landed")
    /\ UNCHANGED <<head, packs, incoming, lock, faults, leaves>>
LandRefs(c) ==
    /\ call[c].at = "promoted"
    /\ Matches(c)
    /\ refs' = Moved(c)
    /\ Goto(c, "landed")
    /\ UNCHANGED <<head, packs, incoming, lock, faults, leaves>>

\* PromotedPack::rollback deletes the pack's files by name.
RolledBack_Kept(c) == packs
RolledBack(c) == packs \ {call[c].pack}

\* A hook on the new history rejects, or a ref is not as the client saw it.
RejectLate(c) ==
    /\ call[c].at = "promoted"
    /\ packs' = RolledBack(c)
    /\ Goto(c, "refused")
    /\ Release(c)
    /\ UNCHANGED <<refs, head, incoming, faults, leaves>>

\* fix_unborn_head, then the report.
Repaired_Never == head
Repaired == LET born == {r \in Refs : refs[r] # None}
            IN  IF head \in born \/ born = {} THEN head ELSE CHOOSE r \in born : TRUE

RepairHead(c) ==
    /\ call[c].at = "landed"
    /\ head' = Repaired
    /\ Goto(c, "accepted")
    /\ Release(c)
    /\ UNCHANGED <<refs, packs, incoming, faults, leaves>>

-----------------------------------------------------------------------------
(* The process *)

\* Handlers, sections and locks are gone; the disk stays as it is.
Crash ==
    /\ \E c \in Calls : call[c].at \in Blocking \union {"waiting"}
    /\ call' = [c \in Calls |->
                  IF call[c].at = "landed" THEN [call[c] EXCEPT !.at = "accepted"]
                  ELSE IF call[c].at \in Blocking \union {"waiting"}
                  THEN [call[c] EXCEPT !.at = "refused"] ELSE call[c]]
    /\ lock' = None
    /\ Fault
    /\ UNCHANGED <<refs, head, packs, incoming>>

\* sweep_one: quarantines too old to belong to a push under way.
Sweep ==
    /\ \E c \in incoming : call[c].at \in Over
    /\ incoming' = {c \in incoming : call[c].at \notin Over}
    /\ UNCHANGED <<refs, head, packs, lock, call, faults, leaves>>

-----------------------------------------------------------------------------
Section(c) ==
    \/ WritePack(c) \/ RejectEarly(c) \/ Promote(c)
    \/ LandRefs(c) \/ RejectLate(c) \/ RepairHead(c)

Next ==
    \/ \E c \in Calls : \/ Advertise(c) \/ Send(c) \/ AcquireLock(c) \/ Section(c)
                        \/ Leave(c) \/ Detach(c) \/ PromoteFails(c)
    \/ Crash \/ Sweep

Spec == Init /\ [][Next]_vars

-----------------------------------------------------------------------------
(* Properties *)

\* receive_blocking promotes first "so a committed ref never points at
\* objects that aren't really there": whatever a ref names is in the store
\* with everything it needs.
Connected == Closure(ValuesOf(refs)) \subseteq Live

\* apply_receive_pack: a push that does not land leaves "the object store
\* byte-identical to before" - what is in the store while no push is between
\* promotion and decision was put there by a push that landed.  Crashes and
\* I/O errors may leave more behind.
NoTrace ==
    faults = MaxFaults =>
        /\ packs \subseteq {call[c].pack : c \in
                             {d \in Calls : call[d].at \in {"promoted", "landed", "accepted"}}}
        /\ incoming \subseteq {c \in Calls : call[c].at = "quarantined"}

\* fix_unborn_head: a client cloning after a push gets a branch to check out.
HeadBorn ==
    /\ faults = MaxFaults
    /\ \A c \in Calls : call[c].at # "landed"
    /\ \E r \in Refs : refs[r] # None
    => refs[head] # None

\* What pushes look like from outside, see AtomicRefs.
Fate(c) ==
    CASE call[c].at \in {"idle", "advertised"} -> "none"
      [] call[c].at \in {"landed", "accepted"} -> "landed"
      [] call[c].at = "refused" -> "refused"
      [] OTHER -> "asked"

AR == INSTANCE AtomicRefs WITH
    wish <- [c \in Calls |-> [r \in DOMAIN call[c].new |->
                [old |-> call[c].seen[r], new |-> call[c].new[r]]]],
    fate <- [c \in Calls |-> Fate(c)]

\* Locks, quarantines, detached sections and crashes are invisible: pushes
\* are atomic compare-and-swaps on the refs.
ImplementsAtomicRefs == AR!AtomicSpec
=============================================================================
