--------------------------- MODULE RepositoryLife ---------------------------
(***************************************************************************)
(* The life of repositories: a name is a row in the database and a bare    *)
(* directory on disk, with no coordinator between the two.  Creating,      *)
(* forking and deleting (edda-app's services/repository.rs,                *)
(* admin_routes.rs; edda-git's lib.rs), cut at their awaits, against       *)
(* pushes, LFS and release-asset uploads to the same name (git_http,       *)
(* lfs/mod.rs, release_assets.rs).  Only some of them take the name's lock *)
(* in the LockRegistry.                                                    *)
(*                                                                         *)
(* What a directory holds is abstracted to the pushes whose objects are in *)
(* its store, those its refs need, and the uploads whose file is there.    *)
(***************************************************************************)
EXTENDS Integers, FiniteSets

CONSTANTS Calls,      \* requests that may ever be made (a bound)
          Names,      \* {owner}/{repo} identities
          Mine,       \* those of the account that creates and forks
          ForkOf,     \* ForkOf[n]: the same repository name in its namespace
          MaxRepos,   \* EDDA_MAX_USER_REPOS
          Ops,        \* which operations the requests may be (a bound)
          None,
          MaxFaults,  \* bound: crashes, I/O and database errors
          MaxLeaves   \* bound: clients that go away

AllOps == {"create", "fork", "delete", "push", "lfs", "asset"}

\* A row's id: the request that inserted it, or the name it had at the start.
Id == Calls \union Names
Blob == {"lfs", "asset"}

\* store: whose packs are there; refs: whose packs the refs need.
Dir == [store : SUBSET Id, refs : SUBSET Id, files : SUBSET Blob]

ASSUME RepositoryLifeAssumption ==
    /\ None \notin Calls \union Names /\ None \notin AllOps /\ None \notin Dir
    /\ Calls \intersect Names = {} /\ IsFiniteSet(Calls) /\ IsFiniteSet(Names) /\ Names # {}
    /\ Mine \subseteq Names /\ ForkOf \in [Names -> Names] /\ \A n \in Mine : ForkOf[n] = n
    /\ Ops \subseteq AllOps
    /\ MaxRepos \in Nat /\ {MaxFaults, MaxLeaves} \subseteq Nat

VARIABLES
    row,     \* repositories: the id of the row with a name, or None
    blobs,   \* lfs_objects and release_assets: <<repository id, what>>
    dir,     \* the directory of a name, or None
    lock,    \* LockRegistry: who holds a name's lock
    call,    \* each request
    raced,   \* history: names on which a removal or a fork met another call
    crowd,   \* history: the most creations and forks ever under way at once
    faults,  \* what is left of MaxFaults
    leaves   \* what is left of MaxLeaves

vars == <<row, blobs, dir, lock, call, raced, crowd, faults, leaves>>

-----------------------------------------------------------------------------
Bare == [store |-> {}, refs |-> {}, files |-> {}]

Over == {"done", "refused"}
Place == {"idle", "counted", "waiting", "copying", "made", "loaded", "removed",
          "receiving", "promoted", "torn", "written"} \union Over
Call == [op : AllOps \union {None}, name : Names, src : Names,
         row : Id \union {None}, at : Place, copied : SUBSET {"objects", "refs"}]

TypeOK ==
    /\ row \in [Names -> Id \union {None}]
    /\ blobs \subseteq Id \X Blob
    /\ dir \in [Names -> Dir \union {None}]
    /\ \A b \in blobs : \E n \in Names : row[n] = b[1]   \* the foreign key
    /\ lock \in [Names -> Calls \union {None}]
    /\ call \in [Calls -> Call]
    /\ \A n \in Names : lock[n] # None => call[lock[n]].at \in {"copying", "receiving", "promoted"}
    /\ raced \subseteq Names
    /\ crowd \in 0..Cardinality(Calls)
    /\ faults \in 0..MaxFaults
    /\ leaves \in 0..MaxLeaves

Init ==
    /\ row \in {r \in [Names -> Id \union {None}] : \A n \in Names : r[n] \in {n, None}}
    /\ Cardinality({n \in Mine : row[n] # None}) =< MaxRepos
    /\ blobs = {}
    /\ dir = [n \in Names |-> IF row[n] = None THEN None
                              ELSE [Bare EXCEPT !.store = {n}, !.refs = {n}]]
    /\ lock = [n \in Names |-> None]
    /\ call = [c \in Calls |-> [op |-> None, name |-> CHOOSE n \in Names : TRUE,
                   src |-> CHOOSE n \in Names : TRUE, row |-> None,
                   at |-> "idle", copied |-> {}]]
    /\ raced = {}
    /\ crowd = 0
    /\ faults = MaxFaults
    /\ leaves = MaxLeaves

-----------------------------------------------------------------------------
Busy == {c \in Calls : call[c].at \notin Over \union {"idle"}}
Makers == {c \in Busy : call[c].op \in {"create", "fork"}}
Goto(c, place) == call' = [call EXCEPT ![c].at = place]
Fault == faults > 0 /\ faults' = faults - 1
NoBudget == UNCHANGED <<faults, leaves>>
Free(c) == [n \in Names |-> IF lock[n] = c THEN None ELSE lock[n]]

\* A deletion meets a creation, fork or write of its name, or a fork that
\* reads from it; or a fork meets another call that makes its destination.
Meet(op1, name1, src1, op2, name2) ==
    \/ op1 = "delete" /\ op2 # "delete" /\ name1 = name2
    \/ op1 = "fork" /\ op2 \in {"create", "fork", "push"} /\ name1 = name2
    \/ op1 = "fork" /\ op2 = "delete" /\ src1 = name2

Races(c, op, n, src) ==
    {n : d \in {d \in Busy : \/ Meet(op, n, src, call[d].op, call[d].name)
                             \/ Meet(call[d].op, call[d].name, call[d].src, op, n)}}
    \union {call[d].name : d \in {d \in Busy :
                Meet(call[d].op, call[d].name, call[d].src, op, n)}}

\* A request arrives: its first reads, up to the await after them.
Begin(c, op, n, src, at) ==
    /\ call[c].at = "idle"
    /\ op \in Ops
    /\ call' = [call EXCEPT ![c] = [op |-> op, name |-> n, src |-> src,
                    row |-> row[n], at |-> at, copied |-> {}]]
    /\ raced' = raced \union Races(c, op, n, src)
    /\ crowd' = LET k == Cardinality(Makers) + 1
                IN  IF op \in {"create", "fork"} /\ k > crowd THEN k ELSE crowd
    /\ UNCHANGED <<row, blobs, dir, lock>> /\ NoBudget

\* check_user_repo_quota
UnderQuota_Off == TRUE
UnderQuota == Cardinality({n \in Mine : row[n] # None}) < MaxRepos

-----------------------------------------------------------------------------
(* create *)

StartCreate(c, n) == n \in Mine /\ UnderQuota /\ Begin(c, "create", n, n, "counted")

\* create_repo: the lock is taken, the directory tested for and made.
MakeDir(c) ==
    LET n == call[c].name IN
    /\ call[c].op = "create" /\ call[c].at = "counted"
    /\ lock[n] = None
    /\ \/ dir[n] # None /\ Goto(c, "refused") /\ UNCHANGED dir
       \/ dir[n] = None /\ dir' = [dir EXCEPT ![n] = Bare] /\ Goto(c, "made")
    /\ UNCHANGED <<row, blobs, lock, raced, crowd>> /\ NoBudget

\* insert_with_owner: the row and its owner grant in one transaction, unless
\* the unique index on (owner, name) refuses.
InsertRow(c) ==
    LET n == call[c].name IN
    /\ call[c].at = "made"
    /\ \/ row[n] # None /\ Goto(c, "refused") /\ UNCHANGED row
       \/ row[n] = None /\ row' = [row EXCEPT ![n] = c] /\ Goto(c, "done")
    /\ UNCHANGED <<blobs, dir, lock, raced, crowd>> /\ NoBudget

-----------------------------------------------------------------------------
(* fork *)

\* Into the caller's namespace, keeping the repository's name.
StartFork(c, n, src) ==
    /\ row[src] # None /\ src # n /\ n \in Mine /\ n = ForkOf[src]
    /\ UnderQuota
    /\ Begin(c, "fork", n, src, "counted")

\* fork_repo's tests, before the lock.
CheckFork(c) ==
    /\ call[c].op = "fork" /\ call[c].at = "counted"
    /\ Goto(c, IF dir[call[c].src] = None \/ dir[call[c].name] # None
               THEN "refused" ELSE "waiting")
    /\ UNCHANGED <<row, blobs, dir, lock, raced, crowd>> /\ NoBudget

\* The source's lock; then copy_dir_recursive makes the destination.
LockSource_Skipped(c) ==
    /\ call[c].op = "fork" /\ call[c].at = "waiting"
    /\ dir' = [dir EXCEPT ![call[c].name] = IF @ = None THEN Bare ELSE @]
    /\ Goto(c, "copying")
    /\ UNCHANGED <<row, blobs, lock, raced, crowd>> /\ NoBudget
LockSource(c) ==
    /\ call[c].op = "fork" /\ call[c].at = "waiting"
    /\ lock[call[c].src] = None
    /\ lock' = [lock EXCEPT ![call[c].src] = c]
    /\ dir' = [dir EXCEPT ![call[c].name] = IF @ = None THEN Bare ELSE @]
    /\ Goto(c, "copying")
    /\ UNCHANGED <<row, blobs, raced, crowd>> /\ NoBudget

\* Files are added to, or replace, what the destination has.
Overlay(from, part, to) ==
    IF part = "objects"
    THEN [to EXCEPT !.store = @ \union from.store, !.files = @ \union from.files]
    ELSE [to EXCEPT !.refs = IF from.refs = {} THEN @ ELSE from.refs]

\* One part of the directory, in whatever order read_dir lists them.
CopyPart(c, part) ==
    LET n == call[c].name
        s == call[c].src
    IN
    /\ call[c].at = "copying" /\ part \notin call[c].copied
    /\ dir[s] # None
    /\ dir' = [dir EXCEPT ![n] = Overlay(dir[s], part, IF @ = None THEN Bare ELSE @)]
    /\ call' = [call EXCEPT ![c].copied = @ \union {part}]
    /\ UNCHANGED <<row, blobs, lock, raced, crowd>> /\ NoBudget

\* The copy is over: without its source it fails, and what it made stays.
EndCopy(c) ==
    /\ call[c].at = "copying"
    /\ \/ dir[call[c].src] = None /\ Goto(c, "refused")
       \/ /\ call[c].copied = {"objects", "refs"}
          /\ Goto(c, IF lock[call[c].src] = c THEN "made" ELSE "refused")
    /\ lock' = Free(c)
    /\ UNCHANGED <<row, blobs, dir, raced, crowd>> /\ NoBudget

-----------------------------------------------------------------------------
(* delete, by its owner or an administrator *)

StartDelete(c, n) == row[n] # None /\ Begin(c, "delete", n, n, "loaded")

\* delete_repo
RemoveDir(c) ==
    LET n == call[c].name IN
    /\ call[c].op = "delete" /\ call[c].at = "loaded"
    /\ lock[n] = None
    /\ \/ dir[n] = None /\ Goto(c, "refused") /\ UNCHANGED dir
       \/ dir[n] # None /\ dir' = [dir EXCEPT ![n] = None] /\ Goto(c, "removed")
    /\ UNCHANGED <<row, blobs, lock, raced, crowd>> /\ NoBudget

\* RepositoryRepo::delete, by id; objects and assets go by ON DELETE CASCADE.
DeleteRow_Never(c) ==
    /\ call[c].at = "removed"
    /\ Goto(c, "done")
    /\ UNCHANGED <<row, blobs, dir, lock, raced, crowd>> /\ NoBudget
DeleteRow(c) ==
    /\ call[c].at = "removed"
    /\ row' = [n \in Names |-> IF row[n] = call[c].row THEN None ELSE row[n]]
    /\ blobs' = {b \in blobs : b[1] # call[c].row}
    /\ Goto(c, "done")
    /\ UNCHANGED <<dir, lock, raced, crowd>> /\ NoBudget

-----------------------------------------------------------------------------
(* push *)

StartPush(c, n) == row[n] # None /\ Begin(c, "push", n, n, "loaded")

\* run_receive_pack opens the directory, and only then waits for the lock.
OpenDir(c) ==
    /\ call[c].op = "push" /\ call[c].at = "loaded"
    /\ Goto(c, IF dir[call[c].name] = None THEN "refused" ELSE "waiting")
    /\ UNCHANGED <<row, blobs, dir, lock, raced, crowd>> /\ NoBudget

LockPush(c) ==
    /\ call[c].op = "push" /\ call[c].at = "waiting"
    /\ lock[call[c].name] = None
    /\ lock' = [lock EXCEPT ![call[c].name] = c]
    /\ Goto(c, "receiving")
    /\ UNCHANGED <<row, blobs, dir, raced, crowd>> /\ NoBudget

\* write_pack makes the directories it needs, those of a repository that is
\* gone included; then the pack is promoted.
PromotePush(c) ==
    LET n == call[c].name IN
    /\ call[c].at = "receiving"
    /\ dir' = [dir EXCEPT ![n] = LET d == IF @ = None THEN Bare ELSE @
                                 IN  [d EXCEPT !.store = @ \union {c}]]
    /\ Goto(c, "promoted")
    /\ UNCHANGED <<row, blobs, lock, raced, crowd>> /\ NoBudget

\* A rejected push leaves what write_pack had to make.
RejectPush(c) ==
    LET n == call[c].name IN
    /\ call[c].at = "receiving"
    /\ dir' = [dir EXCEPT ![n] = IF @ = None THEN Bare ELSE @]
    /\ Goto(c, "refused")
    /\ lock' = Free(c)
    /\ UNCHANGED <<row, blobs, raced, crowd>> /\ NoBudget

\* The refs move; a push whose directory went away meanwhile fails.
LandPush(c) ==
    LET n == call[c].name IN
    /\ call[c].at = "promoted"
    /\ \/ dir[n] = None /\ Goto(c, "refused") /\ UNCHANGED dir
       \/ /\ dir[n] # None
          /\ dir' = [dir EXCEPT ![n].refs = @ \union {c}]
          /\ Goto(c, "done")
    /\ lock' = Free(c)
    /\ UNCHANGED <<row, blobs, raced, crowd>> /\ NoBudget

-----------------------------------------------------------------------------
(* uploads: of an LFS object, of a release asset; without the lock *)

StartUpload(c, n, what) == row[n] # None /\ Begin(c, what, n, n, "loaded")

\* The file is created, or emptied if it is there.
OpenFile(c) ==
    LET n == call[c].name IN
    /\ call[c].op \in Blob /\ call[c].at = "loaded"
    /\ dir' = [dir EXCEPT ![n] = LET d == IF @ = None THEN Bare ELSE @
                                 IN  [d EXCEPT !.files = @ \ {call[c].op}]]
    /\ Goto(c, "torn")
    /\ UNCHANGED <<row, blobs, lock, raced, crowd>> /\ NoBudget

\* ... and filled, unless the directory goes away from under it.
FillFile(c) ==
    LET n == call[c].name IN
    /\ call[c].at = "torn"
    /\ dir' = IF dir[n] = None THEN dir ELSE [dir EXCEPT ![n].files = @ \union {call[c].op}]
    /\ Goto(c, "written")
    /\ UNCHANGED <<row, blobs, lock, raced, crowd>> /\ NoBudget

\* The row, or its foreign key refuses; an asset's file is then removed.
InsertBlob_AnyRow(c) ==
    /\ call[c].at = "torn"
    /\ blobs' = blobs \union {<<call[c].row, call[c].op>>} /\ Goto(c, "done")
    /\ UNCHANGED <<row, dir, lock, raced, crowd>> /\ NoBudget
InsertBlob(c) ==
    LET n == call[c].name
        here == \E m \in Names : row[m] = call[c].row
    IN
    /\ call[c].at = "written"
    /\ \/ here /\ blobs' = blobs \union {<<call[c].row, call[c].op>>} /\ Goto(c, "done")
          /\ UNCHANGED dir
       \/ /\ ~here /\ UNCHANGED blobs /\ Goto(c, "refused")
          /\ dir' = IF dir[n] = None \/ call[c].op = "lfs" THEN dir
                    ELSE [dir EXCEPT ![n].files = @ \ {"asset"}]
    /\ UNCHANGED <<row, lock, raced, crowd>> /\ NoBudget

\* An asset too large, or a client that stops sending: its file is removed.
AbortAsset(c) ==
    LET n == call[c].name IN
    /\ call[c].op = "asset" /\ call[c].at = "torn"
    /\ dir' = IF dir[n] = None THEN dir ELSE [dir EXCEPT ![n].files = @ \ {"asset"}]
    /\ Goto(c, "refused")
    /\ UNCHANGED <<row, blobs, lock, raced, crowd>> /\ NoBudget

-----------------------------------------------------------------------------
(* What goes wrong *)

Section == {"copying", "receiving", "promoted"}

\* A handler's future is dropped at an await: its lock goes; what runs on the
\* blocking pool goes on.
Drop(c) ==
    /\ c \in Busy
    /\ leaves > 0 /\ leaves' = leaves - 1 /\ UNCHANGED faults
    /\ \/ call[c].at \in Section /\ (\E n \in Names : lock[n] = c) /\ UNCHANGED call
       \/ call[c].at \notin Section /\ Goto(c, "refused")
    /\ lock' = Free(c)
    /\ UNCHANGED <<row, blobs, dir, raced, crowd>>

\* A statement or an I/O operation fails: the call returns an error.
Fail(c) ==
    /\ c \in Busy
    /\ Fault /\ UNCHANGED leaves
    /\ Goto(c, "refused")
    /\ lock' = Free(c)
    /\ UNCHANGED <<row, blobs, dir, raced, crowd>>

Crash ==
    /\ Busy # {}
    /\ Fault /\ UNCHANGED leaves
    /\ call' = [c \in Calls |-> IF c \in Busy THEN [call[c] EXCEPT !.at = "refused"]
                                ELSE call[c]]
    /\ lock' = [n \in Names |-> None]
    /\ UNCHANGED <<row, blobs, dir, raced, crowd>>

-----------------------------------------------------------------------------
Create(c) == (\E n \in Names : StartCreate(c, n)) \/ MakeDir(c) \/ InsertRow(c)
Fork(c) == \/ \E n, src \in Names : StartFork(c, n, src)
           \/ CheckFork(c) \/ LockSource(c) \/ EndCopy(c)
           \/ \E part \in {"objects", "refs"} : CopyPart(c, part)
Delete(c) == (\E n \in Names : StartDelete(c, n)) \/ RemoveDir(c) \/ DeleteRow(c)
Push(c) == \/ \E n \in Names : StartPush(c, n)
           \/ OpenDir(c) \/ LockPush(c) \/ PromotePush(c) \/ RejectPush(c) \/ LandPush(c)
Upload(c) == \/ \E n \in Names, what \in Blob : StartUpload(c, n, what)
             \/ OpenFile(c) \/ FillFile(c) \/ InsertBlob(c) \/ AbortAsset(c)

Next == \/ \E c \in Calls : Create(c) \/ Fork(c) \/ Delete(c) \/ Push(c) \/ Upload(c)
                            \/ Drop(c) \/ Fail(c)
        \/ Crash

Spec == Init /\ [][Next]_vars

-----------------------------------------------------------------------------
(* Properties *)

Calm == faults = MaxFaults /\ leaves = MaxLeaves
Quiet(n) == \A c \in Busy : call[c].name # n

\* "Callers must go through create_repo and insert in the same logical
\* operation": once nothing is under way on a name, it has a row exactly if
\* it has a directory.  Creations may meet creations, deletions deletions and
\* pushes pushes in any order; what a deletion or a fork may meet is Meet.
Paired ==
    Calm => \A n \in Names \ raced :
                Quiet(n) => (row[n] # None <=> dir[n] # None)

\* fork_repo "holds source_name's lock for the duration of the copy, so a
\* concurrent push to the source can't interleave": in a directory nobody is
\* copying into, the refs name nothing the store lacks.
CopiesConnected ==
    Calm => \A n \in Names :
        dir[n] # None /\ (\A c \in Busy : call[c].at = "copying" => call[c].name # n)
        => dir[n].refs \subseteq dir[n].store \/ n \in raced

\* A push that was accepted is in the repository until somebody asks for its
\* deletion, whatever else is created, copied, dropped or fails meanwhile.
PushSurvives ==
    \A c \in Calls :
        LET n == call[c].name IN
        /\ call[c].op = "push" /\ call[c].at = "done"
        /\ n \notin raced
        /\ ~\E d \in Calls : call[d].op = "delete" /\ call[d].name = n
        => dir[n] # None /\ c \in dir[n].refs \intersect dir[n].store

\* The count and the insert are separate statements: the quota is passed by
\* at most as many as were under way at once, less one.
Quota ==
    LET mine == Cardinality({n \in Mine : row[n] # None})
    IN  mine =< MaxRepos \/ mine =< MaxRepos + crowd - 1

\* lfs_objects: what the batch API offers for download is on disk, complete,
\* unless it is being uploaded again.
LfsRowsHaveBytes ==
    Calm => \A n \in Names \ raced :
        /\ row[n] # None /\ dir[n] # None
        /\ <<row[n], "lfs">> \in blobs
        /\ \A c \in Busy : ~(call[c].op = "lfs" /\ call[c].name = n)
        => "lfs" \in dir[n].files

\* What the database says of a name and what the disk holds for it agree, repository and LFS
\* objects alike, once nothing is under way on it.
Settled == Paired /\ LfsRowsHaveBytes

\* Neither a copy nor an accepted push loses history to whatever runs beside it.
NothingLost == CopiesConnected /\ PushSurvives
=============================================================================
