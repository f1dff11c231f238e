------------------------ MODULE RepositoryLifeProofs ------------------------
(***************************************************************************)
(* For any number of requests and names, and whatever fails: by how much   *)
(* the quota is passed, that neither a copy nor an accepted push loses     *)
(* history, and that the database and the disk agree on what there is.     *)
(***************************************************************************)
EXTENDS RepositoryLife, FiniteSetTheorems, TLAPS

-----------------------------------------------------------------------------
(* Types, and which operations come to which place                         *)

Typed ==
    /\ row \in [Names -> Id \union {None}]
    /\ dir \in [Names -> Dir \union {None}]
    /\ lock \in [Names -> Calls \union {None}]
    /\ call \in [Calls -> Call]
    /\ faults \in 0..MaxFaults /\ leaves \in 0..MaxLeaves
    /\ crowd \in Nat /\ raced \subseteq Names

Fits(op, p) ==
    /\ p = "made" => op \in {"create", "fork"}
    /\ p = "copying" => op = "fork"
    /\ p = "waiting" => op \in {"fork", "push"}
    /\ p \in {"receiving", "promoted"} => op = "push"
    /\ p = "removed" => op = "delete"
    /\ p \in {"torn", "written"} => op \in Blob
    /\ p = "idle" => op = None

\* What is made is made under the account's names, and copied from elsewhere.
Kind(x) ==
    /\ Fits(x.op, x.at)
    /\ x.op \in {"create", "fork"} => x.name \in Mine
    /\ x.op = "fork" => x.src \notin Mine

Kinds == \A c \in Calls : Kind(call[c])

\* A request that arrives,
Starts(c) ==
    \E op \in AllOps, n \in Names, src \in Names, at \in {"counted", "loaded"} :
        /\ Begin(c, op, n, src, at)
        /\ op \in {"create", "fork"} => n \in Mine /\ UnderQuota
        /\ op = "fork" => src \notin Mine
        /\ op \notin {"create", "fork"} => row[n] # None

\* and every other step: requests keep what they are about, and their end.
Onward ==
    /\ UNCHANGED <<raced, crowd>>
    /\ \A d \in Calls :
        /\ call'[d].op = call[d].op /\ call'[d].name = call[d].name
        /\ call'[d].src = call[d].src /\ call'[d].row = call[d].row
        /\ d \notin Busy => call'[d] = call[d]
        /\ d \in Busy => call'[d].at # "idle"

Open(d) == IF d = None THEN Bare ELSE d

LEMMA DirTypes ==
    ASSUME NEW d \in Dir \union {None}
    PROVE  /\ Bare \in Dir /\ Open(d) \in Dir /\ None \notin Dir
           /\ \A c \in Calls : [Open(d) EXCEPT !.store = @ \union {c}] \in Dir
           /\ d # None => \A c \in Calls : [d EXCEPT !.refs = @ \union {c}] \in Dir
           /\ \A b \in Blob : [Open(d) EXCEPT !.files = @ \ {b}] \in Dir
           /\ d # None => \A b \in Blob : /\ [d EXCEPT !.files = @ \union {b}] \in Dir
                                         /\ [d EXCEPT !.files = @ \ {b}] \in Dir
           /\ \A e \in Dir : \A p : Overlay(e, p, Open(d)) \in Dir
  <1>1. Bare \in Dir /\ Open(d) \in Dir /\ None \notin Dir
    BY RepositoryLifeAssumption DEF Bare, Dir, Open
  <1> DEFINE o == Open(d)
  <1> HIDE DEF o
  <1>2. o \in Dir
    BY <1>1 DEF o
  <1>3. \A c \in Calls : [o EXCEPT !.store = @ \union {c}] \in Dir
    BY <1>2 DEF Dir, Id
  <1>4. d # None => \A c \in Calls : [d EXCEPT !.refs = @ \union {c}] \in Dir
    BY DEF Dir, Id
  <1>5. \A b \in Blob : [o EXCEPT !.files = @ \ {b}] \in Dir
    BY <1>2 DEF Dir
  <1>7. d # None => \A b \in Blob : /\ [d EXCEPT !.files = @ \union {b}] \in Dir
                                    /\ [d EXCEPT !.files = @ \ {b}] \in Dir
    BY DEF Dir
  <1>6. \A e \in Dir : \A p : Overlay(e, p, o) \in Dir
    BY <1>2 DEF Dir, Overlay
  <1> QED
    BY <1>1, <1>3, <1>4, <1>5, <1>6, <1>7 DEF o

LEMMA GoesOn ==
    ASSUME Typed, Kinds, NEW c \in Busy, NEW p \in Place \ {"idle"}, Fits(call[c].op, p), Goto(c, p),
           UNCHANGED <<raced, crowd>>
    PROVE  call' \in [Calls -> Call] /\ Kinds' /\ Onward
  <1>1. c \in Calls /\ call[c] \in Call /\ Kind(call[c]) /\ call \in [Calls -> Call]
    BY DEF Busy, Typed, Kinds
  <1> DEFINE y == [call[c] EXCEPT !.at = p]
  <1>2. call' = [call EXCEPT ![c] = y]
    BY DEF Goto
  <1>3. /\ y \in Call /\ y.op = call[c].op /\ y.name = call[c].name /\ y.src = call[c].src
        /\ y.row = call[c].row /\ y.at = p
    BY <1>1 DEF Call
  <1> HIDE DEF y
  <1>4. Kind(y)
    BY <1>1, <1>3 DEF Kind
  <1>5. \A d \in Calls : call'[d] = IF d = c THEN y ELSE call[d]
    BY <1>1, <1>2
  <1>6. call' \in [Calls -> Call]
    BY <1>1, <1>2, <1>3
  <1>7. Kinds'
    BY <1>4, <1>5 DEF Kinds
  <1>8. Onward
    BY <1>3, <1>5 DEF Onward, Busy
  <1> QED
    BY <1>6, <1>7, <1>8

LEMMA DirSet ==
    ASSUME Typed, NEW n \in Names, NEW v \in Dir \union {None}, dir' = [dir EXCEPT ![n] = v]
    PROVE  dir' \in [Names -> Dir \union {None}]
  BY DEF Typed

LEMMA FreeType ==
    ASSUME Typed, NEW c
    PROVE  Free(c) \in [Names -> Calls \union {None}]
  BY DEF Typed, Free

LEMMA StartsNext ==
    ASSUME NEW c \in Calls,
           \/ \E n \in Names : StartCreate(c, n) \/ StartDelete(c, n) \/ StartPush(c, n)
           \/ \E n, src \in Names : StartFork(c, n, src)
           \/ \E n \in Names, what \in Blob : StartUpload(c, n, what)
    PROVE  Starts(c)
  <1>1. {"create", "delete", "push", "fork"} \union Blob \subseteq AllOps
    BY DEF AllOps, Blob
  <1>2. ASSUME NEW n \in Names, StartCreate(c, n)
        PROVE  Starts(c)
    BY <1>1, <1>2 DEF StartCreate, Starts
  <1>3. ASSUME NEW n \in Names, StartDelete(c, n)
        PROVE  Starts(c)
    BY <1>1, <1>3 DEF StartDelete, Starts
  <1>4. ASSUME NEW n \in Names, StartPush(c, n)
        PROVE  Starts(c)
    BY <1>1, <1>4 DEF StartPush, Starts
  <1>5. ASSUME NEW n \in Names, NEW src \in Names, StartFork(c, n, src)
        PROVE  Starts(c)
    <2>1. src \notin Mine
      BY <1>5, RepositoryLifeAssumption DEF StartFork
    <2> QED
      BY <1>1, <1>5, <2>1 DEF StartFork, Starts
  <1>6. ASSUME NEW n \in Names, NEW what \in Blob, StartUpload(c, n, what)
        PROVE  Starts(c)
    <2>1. what \in AllOps /\ what \notin {"create", "fork"}
      BY <1>1 DEF Blob
    <2> QED
      BY <1>6, <2>1 DEF StartUpload, Starts
  <1> QED
    BY <1>2, <1>3, <1>4, <1>5, <1>6

LEMMA StartsType ==
    ASSUME Typed, Kinds, NEW c \in Calls, Starts(c)
    PROVE  Typed' /\ Kinds'
  <1>1. PICK op \in AllOps, n \in Names, src \in Names, at \in {"counted", "loaded"} :
        /\ Begin(c, op, n, src, at)
        /\ op \in {"create", "fork"} => n \in Mine /\ UnderQuota
        /\ op = "fork" => src \notin Mine
    BY DEF Starts
  <1> DEFINE y == [op |-> op, name |-> n, src |-> src, row |-> row[n], at |-> at, copied |-> {}]
  <1>2. y \in Call /\ Kind(y)
    BY <1>1 DEF Call, Place, Kind, Fits, Typed
  <1>3. call' = [call EXCEPT ![c] = y]
    BY <1>1 DEF Begin
  <1> HIDE DEF y
  <1>4. call' \in [Calls -> Call] /\ Kinds'
    BY <1>2, <1>3 DEF Typed, Kinds
  <1>5. raced' \subseteq Names
    <2>1. Races(c, op, n, src) \subseteq Names
      BY DEF Races, Busy, Typed, Call
    <2> QED
      BY <1>1, <2>1 DEF Begin, Typed
  <1>6. crowd' \in Nat
    <2>1. IsFiniteSet(Makers)
      BY RepositoryLifeAssumption, FS_Subset DEF Makers, Busy
    <2>2. Cardinality(Makers) \in Nat
      BY <2>1, FS_CardinalityType
    <2> QED
      BY <1>1, <2>2 DEF Begin, Typed
  <1> QED
    BY <1>1, <1>4, <1>5, <1>6 DEF Begin, NoBudget, Typed

\* The actions that are not an arrival.
Works(c) ==
    \/ MakeDir(c) \/ InsertRow(c) \/ CheckFork(c) \/ LockSource(c) \/ EndCopy(c)
    \/ \E part \in {"objects", "refs"} : CopyPart(c, part)
    \/ RemoveDir(c) \/ DeleteRow(c)
    \/ OpenDir(c) \/ LockPush(c) \/ PromotePush(c) \/ RejectPush(c) \/ LandPush(c)
    \/ OpenFile(c) \/ FillFile(c) \/ InsertBlob(c) \/ AbortAsset(c)
    \/ Drop(c) \/ Fail(c)

LEMMA NextIs == Next => Crash \/ \E c \in Calls : Starts(c) \/ Works(c)
  <1>1. ASSUME NEW c \in Calls, Create(c) \/ Fork(c) \/ Delete(c) \/ Push(c) \/ Upload(c)
        PROVE  Starts(c) \/ Works(c)
    BY <1>1, StartsNext DEF Create, Fork, Delete, Push, Upload, Works
  <1> QED
    BY <1>1 DEF Next, Works

LEMMA WorksType ==
    ASSUME Typed, Kinds, NEW c \in Calls, Works(c)
    PROVE  Typed' /\ Kinds' /\ Onward
  <1> USE DEF NoBudget
  <1> DEFINE n == call[c].name
             s == call[c].src
  <1>0. /\ call[c] \in Call /\ n \in Names /\ s \in Names /\ Kind(call[c]) /\ call[c].op \in AllOps \union {None}
        /\ call \in [Calls -> Call] /\ lock \in [Names -> Calls \union {None}]
        /\ dir \in [Names -> Dir \union {None}] /\ row \in [Names -> Id \union {None}]
        /\ dir[n] \in Dir \union {None} /\ dir[s] \in Dir \union {None}
    BY DEF Typed, Kinds, Call
  <1>p. \A p \in {"waiting", "copying", "made", "removed", "receiving", "promoted", "torn", "written",
                  "done", "refused"} : p \in Place \ {"idle"}
    BY DEF Place, Over
  <1>f. \A op : Fits(op, "refused") /\ Fits(op, "done")
    BY DEF Fits
  <1> HIDE DEF n, s
  <1>1. CASE MakeDir(c)
    <2>1. c \in Busy /\ Fits(call[c].op, "made") /\ (Goto(c, "refused") \/ Goto(c, "made"))
      BY <1>1 DEF MakeDir, Busy, Over, Fits
    <2>2. dir' \in [Names -> Dir \union {None}]
      BY <1>0, <1>1, DirTypes, DirSet DEF MakeDir, n
    <2>3. UNCHANGED <<row, lock, raced, crowd, faults, leaves>>
      BY <1>1 DEF MakeDir
    <2> QED
      BY <1>p, <1>f, <2>1, <2>2, <2>3, GoesOn DEF Typed
  <1>2. CASE InsertRow(c)
    <2>1. c \in Busy /\ (Goto(c, "refused") \/ Goto(c, "done"))
      BY <1>2 DEF InsertRow, Busy, Over
    <2>2. row' \in [Names -> Id \union {None}]
      BY <1>0, <1>2 DEF InsertRow, n, Id
    <2>3. UNCHANGED <<dir, lock, raced, crowd, faults, leaves>>
      BY <1>2 DEF InsertRow
    <2> QED
      BY <1>p, <1>f, <2>1, <2>2, <2>3, GoesOn DEF Typed
  <1>3. CASE CheckFork(c) \/ OpenDir(c)
    <2>1. c \in Busy /\ Fits(call[c].op, "waiting") /\ (Goto(c, "refused") \/ Goto(c, "waiting"))
      BY <1>3 DEF CheckFork, OpenDir, Busy, Over, Fits
    <2>2. UNCHANGED <<row, dir, lock, raced, crowd, faults, leaves>>
      BY <1>3 DEF CheckFork, OpenDir
    <2> QED
      BY <1>p, <1>f, <2>1, <2>2, GoesOn DEF Typed
  <1>4. CASE LockSource(c)
    <2>1. c \in Busy /\ Fits(call[c].op, "copying") /\ Goto(c, "copying")
      BY <1>4 DEF LockSource, Busy, Over, Fits
    <2>2. dir' = [dir EXCEPT ![n] = Open(dir[n])]
      BY <1>0, <1>4 DEF LockSource, n, Open
    <2>3. dir' \in [Names -> Dir \union {None}]
      BY <1>0, <2>2, DirTypes, DirSet
    <2>4. lock' \in [Names -> Calls \union {None}]
      BY <1>0, <1>4 DEF LockSource
    <2>5. UNCHANGED <<row, raced, crowd, faults, leaves>>
      BY <1>4 DEF LockSource
    <2> QED
      BY <1>p, <2>1, <2>3, <2>4, <2>5, GoesOn DEF Typed
  <1>5. CASE EndCopy(c)
    <2>1. c \in Busy /\ Fits(call[c].op, "made") /\ (Goto(c, "refused") \/ Goto(c, "made"))
      BY <1>0, <1>5 DEF EndCopy, Busy, Over, Fits, Kind
    <2>2. UNCHANGED <<row, dir, raced, crowd, faults, leaves>> /\ lock' = Free(c)
      BY <1>5 DEF EndCopy
    <2> QED
      BY <1>p, <1>f, <2>1, <2>2, GoesOn, FreeType DEF Typed
  <1>6. ASSUME NEW part \in {"objects", "refs"}, CopyPart(c, part)
        PROVE  Typed' /\ Kinds' /\ Onward
    <2>1. call[c].at = "copying" /\ c \in Busy
      BY <1>6 DEF CopyPart, Busy, Over
    <2>2. dir' = [dir EXCEPT ![n] = Overlay(dir[s], part, Open(dir[n]))] /\ dir[s] # None
      BY <1>0, <1>6 DEF CopyPart, n, s, Open
    <2>3. dir' \in [Names -> Dir \union {None}]
      BY <1>0, <2>2, DirTypes, DirSet
    <2>4. UNCHANGED <<row, lock, raced, crowd, faults, leaves>>
      BY <1>6 DEF CopyPart
    <2> DEFINE y == [call[c] EXCEPT !.copied = @ \union {part}]
    <2>5. call' = [call EXCEPT ![c] = y]
      BY <1>6 DEF CopyPart
    <2>6. /\ y \in Call /\ y.op = call[c].op /\ y.name = call[c].name /\ y.src = call[c].src
          /\ y.row = call[c].row /\ y.at = call[c].at
      BY <1>0 DEF Call
    <2> HIDE DEF y
    <2>7. Kind(y)
      BY <1>0, <2>6 DEF Kind
    <2>8. call' \in [Calls -> Call] /\ \A d \in Calls : call'[d] = IF d = c THEN y ELSE call[d]
      BY <1>0, <2>5, <2>6
    <2>9. Kinds'
      BY <2>7, <2>8 DEF Kinds
    <2>10. Onward
      BY <2>1, <2>4, <2>6, <2>8 DEF Onward, Busy
    <2> QED
      BY <2>3, <2>4, <2>8, <2>9, <2>10 DEF Typed
  <1>7. CASE RemoveDir(c)
    <2>1. c \in Busy /\ Fits(call[c].op, "removed") /\ (Goto(c, "refused") \/ Goto(c, "removed"))
      BY <1>7 DEF RemoveDir, Busy, Over, Fits
    <2>2. dir' \in [Names -> Dir \union {None}]
      BY <1>0, <1>7 DEF RemoveDir, n
    <2>3. UNCHANGED <<row, lock, raced, crowd, faults, leaves>>
      BY <1>7 DEF RemoveDir
    <2> QED
      BY <1>p, <1>f, <2>1, <2>2, <2>3, GoesOn DEF Typed
  <1>8. CASE DeleteRow(c)
    <2>1. c \in Busy /\ Goto(c, "done")
      BY <1>8 DEF DeleteRow, Busy, Over
    <2>2. row' \in [Names -> Id \union {None}]
      BY <1>0, <1>8 DEF DeleteRow
    <2>3. UNCHANGED <<dir, lock, raced, crowd, faults, leaves>>
      BY <1>8 DEF DeleteRow
    <2> QED
      BY <1>p, <1>f, <2>1, <2>2, <2>3, GoesOn DEF Typed
  <1>9. CASE LockPush(c)
    <2>1. c \in Busy /\ Fits(call[c].op, "receiving") /\ Goto(c, "receiving")
      BY <1>9 DEF LockPush, Busy, Over, Fits
    <2>2. lock' \in [Names -> Calls \union {None}]
      BY <1>0, <1>9 DEF LockPush
    <2>3. UNCHANGED <<row, dir, raced, crowd, faults, leaves>>
      BY <1>9 DEF LockPush
    <2> QED
      BY <1>p, <2>1, <2>2, <2>3, GoesOn DEF Typed
  <1>10. CASE PromotePush(c)
    <2>1. c \in Busy /\ Fits(call[c].op, "promoted") /\ Goto(c, "promoted")
      BY <1>0, <1>10 DEF PromotePush, Busy, Over, Fits, Kind
    <2>2. dir' = [dir EXCEPT ![n] = [Open(dir[n]) EXCEPT !.store = @ \union {c}]]
      BY <1>0, <1>10 DEF PromotePush, n, Open
    <2>3. dir' \in [Names -> Dir \union {None}]
      BY <1>0, <2>2, DirTypes, DirSet
    <2>4. UNCHANGED <<row, lock, raced, crowd, faults, leaves>>
      BY <1>10 DEF PromotePush
    <2> QED
      BY <1>p, <2>1, <2>3, <2>4, GoesOn DEF Typed
  <1>11. CASE RejectPush(c)
    <2>1. c \in Busy /\ Goto(c, "refused")
      BY <1>11 DEF RejectPush, Busy, Over
    <2>2. dir' = [dir EXCEPT ![n] = Open(dir[n])]
      BY <1>0, <1>11 DEF RejectPush, n, Open
    <2>3. dir' \in [Names -> Dir \union {None}]
      BY <1>0, <2>2, DirTypes, DirSet
    <2>4. UNCHANGED <<row, raced, crowd, faults, leaves>> /\ lock' = Free(c)
      BY <1>11 DEF RejectPush
    <2> QED
      BY <1>p, <1>f, <2>1, <2>3, <2>4, GoesOn, FreeType DEF Typed
  <1>12. CASE LandPush(c)
    <2>1. c \in Busy /\ (Goto(c, "refused") \/ Goto(c, "done"))
      BY <1>12 DEF LandPush, Busy, Over
    <2>2. dir' = dir \/ (dir[n] # None /\ dir' = [dir EXCEPT ![n] = [dir[n] EXCEPT !.refs = @ \union {c}]])
      BY <1>0, <1>12 DEF LandPush, n
    <2>3. dir' \in [Names -> Dir \union {None}]
      BY <1>0, <2>2, DirTypes, DirSet
    <2>4. UNCHANGED <<row, raced, crowd, faults, leaves>> /\ lock' = Free(c)
      BY <1>12 DEF LandPush
    <2> QED
      BY <1>p, <1>f, <2>1, <2>3, <2>4, GoesOn, FreeType DEF Typed
  <1>13. CASE OpenFile(c)
    <2>1. c \in Busy /\ Fits(call[c].op, "torn") /\ Goto(c, "torn") /\ call[c].op \in Blob
      BY <1>13 DEF OpenFile, Busy, Over, Fits
    <2>2. dir' = [dir EXCEPT ![n] = [Open(dir[n]) EXCEPT !.files = @ \ {call[c].op}]]
      BY <1>0, <1>13 DEF OpenFile, n, Open
    <2>3. dir' \in [Names -> Dir \union {None}]
      BY <1>0, <2>1, <2>2, DirTypes, DirSet
    <2>4. UNCHANGED <<row, lock, raced, crowd, faults, leaves>>
      BY <1>13 DEF OpenFile
    <2> QED
      BY <1>p, <2>1, <2>3, <2>4, GoesOn DEF Typed
  <1>14. CASE FillFile(c)
    <2>1. c \in Busy /\ Fits(call[c].op, "written") /\ Goto(c, "written") /\ call[c].op \in Blob
      BY <1>0, <1>14 DEF FillFile, Busy, Over, Fits, Kind
    <2>2. dir' = dir \/ (dir[n] # None /\ dir' = [dir EXCEPT ![n] = [dir[n] EXCEPT !.files = @ \union {call[c].op}]])
      BY <1>0, <1>14 DEF FillFile, n
    <2>3. dir' \in [Names -> Dir \union {None}]
      BY <1>0, <2>1, <2>2, DirTypes, DirSet
    <2>4. UNCHANGED <<row, lock, raced, crowd, faults, leaves>>
      BY <1>14 DEF FillFile
    <2> QED
      BY <1>p, <2>1, <2>3, <2>4, GoesOn DEF Typed
  <1>15. CASE InsertBlob(c) \/ AbortAsset(c)
    <2>1. c \in Busy /\ (Goto(c, "refused") \/ Goto(c, "done"))
      BY <1>15 DEF InsertBlob, AbortAsset, Busy, Over
    <2>2. dir' = dir \/ (dir[n] # None /\ dir' = [dir EXCEPT ![n] = [dir[n] EXCEPT !.files = @ \ {"asset"}]])
      BY <1>0, <1>15 DEF InsertBlob, AbortAsset, n
    <2>3. dir' \in [Names -> Dir \union {None}]
      <3>1. "asset" \in Blob
        BY DEF Blob
      <3> QED
        BY <1>0, <2>2, <3>1, DirTypes, DirSet
    <2>4. UNCHANGED <<row, lock, raced, crowd, faults, leaves>>
      BY <1>15 DEF InsertBlob, AbortAsset
    <2> QED
      BY <1>p, <1>f, <2>1, <2>3, <2>4, GoesOn DEF Typed
  <1>16. CASE Drop(c) \/ Fail(c)
    <2>1. c \in Busy /\ (Goto(c, "refused") \/ call' = call)
      BY <1>16 DEF Drop, Fail
    <2>2. /\ UNCHANGED <<row, dir, raced, crowd>> /\ lock' = Free(c)
          /\ faults' \in 0..MaxFaults /\ leaves' \in 0..MaxLeaves
      BY <1>16, RepositoryLifeAssumption DEF Drop, Fail, Fault, Typed
    <2>3. CASE Goto(c, "refused")
      BY <1>p, <1>f, <2>1, <2>2, <2>3, GoesOn, FreeType DEF Typed
    <2>4. CASE call' = call
      <3>1. Onward /\ Kinds'
        BY <2>1, <2>2, <2>4 DEF Onward, Kinds, Busy
      <3> QED
        BY <2>2, <2>4, <3>1, FreeType DEF Typed
    <2> QED
      BY <2>1, <2>3, <2>4
  <1> QED
    BY <1>1, <1>2, <1>3, <1>4, <1>5, <1>6, <1>7, <1>8, <1>9, <1>10, <1>11, <1>12, <1>13, <1>14, <1>15, <1>16
       DEF Works

LEMMA CrashType ==
    ASSUME Typed, Kinds, Crash
    PROVE  Typed' /\ Kinds' /\ Onward
  <1>1. \A d \in Calls : d \in Busy => /\ [call[d] EXCEPT !.at = "refused"] \in Call
                                       /\ Kind([call[d] EXCEPT !.at = "refused"])
    BY DEF Typed, Call, Place, Over, Kinds, Kind, Fits
  <1>2. call' = [c \in Calls |-> IF c \in Busy THEN [call[c] EXCEPT !.at = "refused"] ELSE call[c]]
    BY DEF Crash
  <1>3. /\ UNCHANGED <<row, dir, raced, crowd, leaves>> /\ lock' \in [Names -> Calls \union {None}]
        /\ faults' \in 0..MaxFaults
    BY RepositoryLifeAssumption DEF Crash, Fault, Typed
  <1>4. call' \in [Calls -> Call] /\ Kinds'
    BY <1>1, <1>2 DEF Typed, Kinds
  <1>5. Onward
    BY <1>2, <1>3 DEF Onward, Typed, Call, Busy
  <1> QED
    BY <1>3, <1>4, <1>5 DEF Typed

LEMMA Start == Init => Typed /\ Kinds
  <1> SUFFICES ASSUME Init PROVE Typed /\ Kinds
    OBVIOUS
  <1> DEFINE m == CHOOSE n \in Names : TRUE
             x == [op |-> None, name |-> m, src |-> m, row |-> None, at |-> "idle", copied |-> {}]
  <1>1. call = [c \in Calls |-> x]
    BY DEF Init
  <1>2. row \in [Names -> Id \union {None}] /\ \A n \in Names : [Bare EXCEPT !.store = {n}, !.refs = {n}] \in Dir
    BY DEF Init, Bare, Dir, Id
  <1>3. dir \in [Names -> Dir \union {None}]
    BY <1>2 DEF Init
  <1>4. /\ lock \in [Names -> Calls \union {None}] /\ crowd = 0 /\ raced = {}
        /\ faults \in 0..MaxFaults /\ leaves \in 0..MaxLeaves
    <2>1. MaxFaults \in Nat /\ MaxLeaves \in Nat
      BY RepositoryLifeAssumption
    <2>2. lock = [n \in Names |-> None] /\ crowd = 0 /\ raced = {} /\ faults = MaxFaults /\ leaves = MaxLeaves
      BY DEF Init
    <2> QED
      BY <2>1, <2>2
  <1>5. m \in Names
    BY RepositoryLifeAssumption
  <1> HIDE DEF m
  <1>6. x \in Call /\ Kind(x)
    BY <1>5, RepositoryLifeAssumption DEF Call, Place, Kind, Fits, AllOps
  <1> HIDE DEF x
  <1> QED
    BY <1>1, <1>2, <1>3, <1>4, <1>6 DEF Typed, Kinds

-----------------------------------------------------------------------------
(* The quota                                                               *)

Held == {n \in Mine : row[n] # None}

\* Whoever is making a repository was under the quota when it began: what is
\* there and what is under way exceed it by the others under way then.
QuotaInv ==
    \/ Cardinality(Held) + Cardinality(Makers) =< MaxRepos - 1 + crowd
    \/ Makers = {} /\ Cardinality(Held) =< MaxRepos

LEMMA Finite ==
    /\ IsFiniteSet(Held) /\ Cardinality(Held) \in Nat
    /\ IsFiniteSet(Makers) /\ Cardinality(Makers) \in Nat
  <1>1. Held \subseteq Names /\ Makers \subseteq Calls
    BY RepositoryLifeAssumption DEF Held, Makers, Busy
  <1>2. IsFiniteSet(Held) /\ IsFiniteSet(Makers)
    BY <1>1, RepositoryLifeAssumption, FS_Subset
  <1> QED
    BY <1>2, FS_CardinalityType

\* Fewer rows, and fewer under way, keep it.
LEMMA FewerKeep ==
    ASSUME Typed, Typed', QuotaInv, Held' \subseteq Held, Makers' \subseteq Makers, crowd' = crowd
    PROVE  QuotaInv'
  <1>1. \A S, T : IsFiniteSet(S) /\ T \subseteq S =>
           Cardinality(S) \in Nat /\ Cardinality(T) \in Nat /\ Cardinality(T) =< Cardinality(S)
    BY FS_Subset, FS_CardinalityType
  <1>2. /\ Cardinality(Held) \in Nat /\ Cardinality(Held') \in Nat /\ Cardinality(Held') =< Cardinality(Held)
        /\ Cardinality(Makers) \in Nat /\ Cardinality(Makers') \in Nat
        /\ Cardinality(Makers') =< Cardinality(Makers)
    BY <1>1, Finite
  <1>3. MaxRepos \in Nat /\ crowd \in Nat
    BY RepositoryLifeAssumption DEF Typed
  <1>4. CASE Cardinality(Held) + Cardinality(Makers) =< MaxRepos - 1 + crowd
    <2>1. Cardinality(Held') + Cardinality(Makers') =< MaxRepos - 1 + crowd'
      BY <1>2, <1>3, <1>4
    <2> QED
      BY <2>1 DEF QuotaInv
  <1>5. CASE Makers = {} /\ Cardinality(Held) =< MaxRepos
    <2>1. Makers' = {} /\ Cardinality(Held') =< MaxRepos
      BY <1>2, <1>3, <1>5
    <2> QED
      BY <2>1 DEF QuotaInv
  <1> QED
    BY <1>4, <1>5 DEF QuotaInv

LEMMA OnwardMakers ==
    ASSUME Onward
    PROVE  Makers' \subseteq Makers /\ Busy' \subseteq Busy
  BY DEF Onward, Makers, Busy

LEMMA StartQuota ==
    ASSUME Typed, Kinds, Typed', QuotaInv, NEW c \in Calls, Starts(c)
    PROVE  QuotaInv'
  <1>1. PICK op \in AllOps, n \in Names, src \in Names, at \in {"counted", "loaded"} :
        /\ Begin(c, op, n, src, at)
        /\ op \in {"create", "fork"} => n \in Mine /\ UnderQuota
    BY DEF Starts
  <1>2. /\ row' = row /\ call[c].at = "idle" /\ call'[c].op = op /\ call'[c].at = at
        /\ \A d \in Calls \ {c} : call'[d] = call[d]
    BY <1>1 DEF Begin, Typed
  <1>3. Held' = Held /\ c \notin Busy /\ c \notin Makers
    BY <1>2 DEF Held, Busy, Makers
  <1>4. CASE op \notin {"create", "fork"}
    <2>1. Makers' \subseteq Makers
      BY <1>2, <1>4 DEF Makers, Busy
    <2>2. crowd' = crowd
      BY <1>1, <1>4 DEF Begin
    <2> QED
      BY <1>3, <2>1, <2>2, FewerKeep
  <1>5. CASE op \in {"create", "fork"}
    <2>1. Makers' = Makers \union {c}
      BY <1>2, <1>5 DEF Makers, Busy, Over
    <2>2. Cardinality(Makers') = Cardinality(Makers) + 1 /\ Cardinality(Makers) \in Nat
      BY <1>3, <2>1, Finite, FS_AddElement
    <2>3. Cardinality(Makers) + 1 =< crowd' /\ crowd' \in Nat
      BY <1>1, <1>5, <2>2 DEF Begin, Typed
    <2>4. Cardinality(Held') < MaxRepos /\ Cardinality(Held') \in Nat
      BY <1>1, <1>3, <1>5, Finite DEF UnderQuota, Held
    <2>5. MaxRepos \in Nat
      BY RepositoryLifeAssumption
    <2>6. Cardinality(Held') + Cardinality(Makers') =< MaxRepos - 1 + crowd'
      BY <2>2, <2>3, <2>4, <2>5
    <2> QED
      BY <2>6 DEF QuotaInv
  <1> QED
    BY <1>4, <1>5

LEMMA InsertQuota ==
    ASSUME Typed, Kinds, Typed', QuotaInv, NEW c \in Calls, InsertRow(c), Onward
    PROVE  QuotaInv'
  <1>1. c \in Makers /\ call[c].name \in Mine
    BY DEF InsertRow, Makers, Busy, Over, Kinds, Kind, Fits
  <1>2. c \notin Makers'
    <2>1. call'[c].at \in {"refused", "done"}
      BY DEF InsertRow, Goto, Typed, Call
    <2> QED
      BY <2>1 DEF Makers, Busy, Over
  <1>3. Makers' \subseteq Makers \ {c} /\ crowd' = crowd
    BY <1>2, OnwardMakers DEF Onward
  <1>4. CASE row' = row
    <2>1. Held' = Held
      BY <1>4 DEF Held
    <2> QED
      BY <1>3, <2>1, FewerKeep
  <1>5. CASE row' = [row EXCEPT ![call[c].name] = c]
    <2>1. Held' \subseteq Held \union {call[c].name}
      BY <1>5 DEF Held, Typed
    <2>2. /\ Cardinality(Held') =< Cardinality(Held) + 1 /\ Cardinality(Held') \in Nat
          /\ Cardinality(Held) \in Nat
      <3>1. IsFiniteSet(Held \union {call[c].name}) /\ Cardinality(Held) \in Nat
            /\ Cardinality(Held \union {call[c].name}) =< Cardinality(Held) + 1
        <4>1. IsFiniteSet(Held) /\ Cardinality(Held) \in Nat
          BY Finite
        <4>2. /\ IsFiniteSet(Held \union {call[c].name})
              /\ Cardinality(Held \union {call[c].name}) =
                    IF call[c].name \in Held THEN Cardinality(Held) ELSE Cardinality(Held) + 1
          BY <4>1, FS_AddElement
        <4> HIDE DEF Held
        <4> QED
          BY <4>1, <4>2
      <3>2. IsFiniteSet(Held') /\ Cardinality(Held') =< Cardinality(Held \union {call[c].name})
        BY <2>1, <3>1, FS_Subset
      <3>3. Cardinality(Held') \in Nat /\ Cardinality(Held \union {call[c].name}) \in Nat
        BY <3>1, <3>2, FS_CardinalityType
      <3> QED
        BY <3>1, <3>2, <3>3
    <2>3. Cardinality(Makers') =< Cardinality(Makers) - 1 /\ Cardinality(Makers') \in Nat
          /\ Cardinality(Makers) \in Nat
      <3>1. IsFiniteSet(Makers \ {c}) /\ Cardinality(Makers \ {c}) = Cardinality(Makers) - 1
            /\ Cardinality(Makers) \in Nat
        BY <1>1, Finite, FS_RemoveElement
      <3>2. IsFiniteSet(Makers') /\ Cardinality(Makers') =< Cardinality(Makers \ {c})
        BY <1>3, <3>1, FS_Subset
      <3>3. Cardinality(Makers') \in Nat
        BY <3>2, FS_CardinalityType
      <3> QED
        BY <3>1, <3>2, <3>3
    <2>4. Cardinality(Held) + Cardinality(Makers) =< MaxRepos - 1 + crowd
      BY <1>1 DEF QuotaInv
    <2>5. MaxRepos \in Nat /\ crowd \in Nat
      BY RepositoryLifeAssumption DEF Typed
    <2>6. Cardinality(Held') + Cardinality(Makers') =< MaxRepos - 1 + crowd'
      BY <1>3, <2>2, <2>3, <2>4, <2>5
    <2> QED
      BY <2>6 DEF QuotaInv
  <1> QED
    BY <1>4, <1>5 DEF InsertRow

LEMMA WorksRows ==
    ASSUME Typed, NEW c \in Calls, Works(c), ~InsertRow(c)
    PROVE  Held' \subseteq Held
  <1>1. row' = row \/ DeleteRow(c)
    BY DEF Works, MakeDir, CheckFork, LockSource, EndCopy, CopyPart, RemoveDir, OpenDir, LockPush,
       PromotePush, RejectPush, LandPush, OpenFile, FillFile, InsertBlob, AbortAsset, Drop, Fail
  <1>2. CASE row' = row
    BY <1>2 DEF Held
  <1>3. CASE DeleteRow(c)
    BY <1>3, RepositoryLifeAssumption DEF DeleteRow, Held, Typed
  <1> QED
    BY <1>1, <1>2, <1>3

(***************************************************************************)
(* However many creations and forks overlap, and whatever of them is cut:  *)
(* the quota that check_user_repo_quota tests before the row is inserted   *)
(* is passed by at most as many as were under way at once, less one.       *)
(***************************************************************************)
THEOREM QuotaKept == Spec => []Quota
  <1> DEFINE I == Typed /\ Kinds /\ QuotaInv
  <1>1. Init => I
    <2> SUFFICES ASSUME Init PROVE QuotaInv
      BY Start
    <2>1. Makers = {}
      BY DEF Init, Makers, Busy
    <2> QED
      BY <2>1 DEF Init, QuotaInv, Held
  <1>2. I /\ [Next]_vars => I'
    <2> SUFFICES ASSUME Typed, Kinds, QuotaInv, [Next]_vars PROVE I'
      OBVIOUS
    <2>1. CASE UNCHANGED vars
      BY <2>1 DEF vars, Typed, Kinds, QuotaInv, Held, Makers, Busy
    <2>2. ASSUME NEW c \in Calls, Starts(c)
          PROVE  I'
      BY <2>2, StartsType, StartQuota
    <2>3. ASSUME NEW c \in Calls, Works(c)
          PROVE  I'
      <3>1. Typed' /\ Kinds' /\ Onward
        BY <2>3, WorksType
      <3>2. CASE InsertRow(c)
        BY <3>1, <3>2, InsertQuota
      <3>3. CASE ~InsertRow(c)
        BY <2>3, <3>1, <3>3, WorksRows, OnwardMakers, FewerKeep DEF Onward
      <3> QED
        BY <3>1, <3>2, <3>3
    <2>4. CASE Crash
      <3>1. Typed' /\ Kinds' /\ Onward
        BY <2>4, CrashType
      <3>2. Held' = Held
        BY <2>4 DEF Crash, Held
      <3> QED
        BY <3>1, <3>2, OnwardMakers, FewerKeep DEF Onward
    <2> QED
      BY <2>1, <2>2, <2>3, <2>4, NextIs
  <1>3. I => Quota
    <2> SUFFICES ASSUME I PROVE Quota
      OBVIOUS
    <2>1. Cardinality(Held) \in Nat /\ Cardinality(Makers) \in Nat /\ crowd \in Nat /\ MaxRepos \in Nat
      BY Finite, RepositoryLifeAssumption DEF Typed
    <2> QED
      BY <2>1 DEF QuotaInv, Quota, Held
  <1> QED
    BY <1>1, <1>2, <1>3, PTL DEF Spec

-----------------------------------------------------------------------------
(* What a step does to the directories                                     *)

\* The directory of a name is made if it is not there,
Opens(n) == dir' = [dir EXCEPT ![n] = Open(dir[n])]
\* and it may get a file, or lose one: history is not touched.
Files(n) == \E v \in Dir : /\ dir' = [dir EXCEPT ![n] = v]
                           /\ v.store = Open(dir[n]).store /\ v.refs = Open(dir[n]).refs

LEMMA OpenFacts ==
    ASSUME NEW d \in Dir \union {None}
    PROVE  /\ Open(d) \in Dir /\ Open(d) # None
           /\ d # None => Open(d) = d
           /\ d = None => Open(d).store = {} /\ Open(d).refs = {}
  BY DirTypes DEF Open, Bare

LEMMA Effects ==
    ASSUME Typed, Kinds, NEW c \in Calls, Works(c)
    PROVE  LET n == call[c].name IN
           \/ dir' = dir
           \/ Opens(n) /\ (MakeDir(c) \/ LockSource(c) \/ RejectPush(c))
           \/ \E part \in {"objects", "refs"} : CopyPart(c, part)
           \/ RemoveDir(c) /\ lock[n] = None /\ dir' = [dir EXCEPT ![n] = None]
           \/ PromotePush(c) \/ LandPush(c)
           \/ call[c].op \in Blob /\ Files(n)
  <1> DEFINE n == call[c].name
             Goal == \/ dir' = dir
                     \/ Opens(n) /\ (MakeDir(c) \/ LockSource(c) \/ RejectPush(c))
                     \/ \E part \in {"objects", "refs"} : CopyPart(c, part)
                     \/ RemoveDir(c) /\ lock[n] = None /\ dir' = [dir EXCEPT ![n] = None]
                     \/ PromotePush(c) \/ LandPush(c)
                     \/ call[c].op \in Blob /\ Files(n)
  <1> SUFFICES Goal
    OBVIOUS
  <1>0. n \in Names /\ dir \in [Names -> Dir \union {None}] /\ dir[n] \in Dir \union {None} /\ Kind(call[c])
    BY DEF Typed, Kinds, Call
  <1> HIDE DEF n
  <1>1. CASE MakeDir(c)
    <2>1. dir' = dir \/ (dir' = [dir EXCEPT ![n] = Bare] /\ dir[n] = None)
      BY <1>1 DEF MakeDir, n
    <2> QED
      BY <1>1, <2>1 DEF Opens, Open, Goal
  <1>2. CASE LockSource(c)
    BY <1>0, <1>2 DEF LockSource, Opens, Open, n, Goal
  <1>3. CASE RejectPush(c)
    BY <1>0, <1>3 DEF RejectPush, Opens, Open, n, Goal
  <1>4. CASE RemoveDir(c)
    BY <1>4 DEF RemoveDir, n, Goal
  <1>5. CASE OpenFile(c)
    <2> DEFINE v == [Open(dir[n]) EXCEPT !.files = @ \ {call[c].op}]
    <2>1. dir' = [dir EXCEPT ![n] = v] /\ call[c].op \in Blob
      BY <1>0, <1>5 DEF OpenFile, n, Open
    <2>2. v \in Dir /\ v.store = Open(dir[n]).store /\ v.refs = Open(dir[n]).refs
      BY <1>0, OpenFacts DEF Dir
    <2> HIDE DEF v
    <2>3. Files(n)
      BY <2>1, <2>2 DEF Files
    <2> QED
      BY <2>1, <2>3
  <1>6. CASE FillFile(c) \/ InsertBlob(c) \/ AbortAsset(c)
    <2>1. call[c].op \in Blob
      BY <1>0, <1>6 DEF FillFile, InsertBlob, AbortAsset, Kind, Fits
    <2>2. dir' = dir \/ (dir[n] # None /\ \E f : dir' = [dir EXCEPT ![n] = [dir[n] EXCEPT !.files = f]] /\ f \subseteq Blob)
      <3>1. CASE FillFile(c)
        <4>1. dir' = dir \/ (dir[n] # None /\ dir' = [dir EXCEPT ![n] = [dir[n] EXCEPT !.files = @ \union {call[c].op}]])
          BY <1>0, <3>1 DEF FillFile, n
        <4>2. dir[n] # None => dir[n].files \union {call[c].op} \subseteq Blob
          BY <1>0, <2>1 DEF Dir
        <4> QED
          BY <4>1, <4>2
      <3>2. CASE InsertBlob(c) \/ AbortAsset(c)
        <4>1. dir' = dir \/ (dir[n] # None /\ dir' = [dir EXCEPT ![n] = [dir[n] EXCEPT !.files = @ \ {"asset"}]])
          BY <1>0, <3>2 DEF InsertBlob, AbortAsset, n
        <4>2. dir[n] # None => dir[n].files \ {"asset"} \subseteq Blob
          BY <1>0 DEF Dir
        <4> QED
          BY <4>1, <4>2
      <3> QED
        BY <1>6, <3>1, <3>2
    <2>3. ASSUME NEW f, dir[n] # None, dir' = [dir EXCEPT ![n] = [dir[n] EXCEPT !.files = f]], f \subseteq Blob
          PROVE  Files(n)
      <3> DEFINE v == [dir[n] EXCEPT !.files = f]
      <3>1. Open(dir[n]) = dir[n]
        BY <1>0, <2>3, OpenFacts
      <3>2. v \in Dir /\ v.store = dir[n].store /\ v.refs = dir[n].refs
        BY <1>0, <2>3 DEF Dir
      <3>3. dir' = [dir EXCEPT ![n] = v]
        BY <2>3
      <3> HIDE DEF v
      <3> QED
        BY <3>1, <3>2, <3>3 DEF Files
    <2> QED
      BY <2>1, <2>2, <2>3
  <1>7. CASE \/ InsertRow(c) \/ CheckFork(c) \/ EndCopy(c) \/ DeleteRow(c) \/ OpenDir(c) \/ LockPush(c)
             \/ Drop(c) \/ Fail(c)
    BY <1>7 DEF InsertRow, CheckFork, EndCopy, DeleteRow, OpenDir, LockPush, Drop, Fail, Goal
  <1> QED
    BY <1>1, <1>2, <1>3, <1>4, <1>5, <1>6, <1>7 DEF Works

LEMMA WorksAlone ==
    ASSUME Typed, NEW c \in Calls, Works(c)
    PROVE  \A d \in Calls \ {c} : call'[d] = call[d]
  <1>1. \/ call' = call \/ (\E p : Goto(c, p))
        \/ \E part : call' = [call EXCEPT ![c].copied = @ \union {part}]
    BY DEF Works, MakeDir, InsertRow, CheckFork, LockSource, EndCopy, CopyPart, RemoveDir, DeleteRow, OpenDir,
       LockPush, PromotePush, RejectPush, LandPush, OpenFile, FillFile, InsertBlob, AbortAsset, Drop, Fail
  <1> QED
    BY <1>1 DEF Goto, Typed

-----------------------------------------------------------------------------
(* Who has met whom                                                        *)

Met == \A c, d \in Busy :
           c # d /\ Meet(call[c].op, call[c].name, call[c].src, call[d].op, call[d].name)
           => call[c].name \in raced

LEMMA MetOnward ==
    ASSUME Met, Onward
    PROVE  Met'
  BY OnwardMakers DEF Met, Onward, Busy

LEMMA MetStarts ==
    ASSUME Typed, Met, NEW c \in Calls, Starts(c)
    PROVE  /\ Met' /\ raced \subseteq raced' /\ UNCHANGED <<row, dir, lock, faults, leaves>>
           /\ call[c].at = "idle" /\ call'[c].at \in {"counted", "loaded"} /\ call'[c].copied = {}
           /\ \A d \in Calls \ {c} : call'[d] = call[d]
  <1>1. PICK op \in AllOps, n \in Names, src \in Names, at \in {"counted", "loaded"} :
           Begin(c, op, n, src, at)
    BY DEF Starts
  <1> DEFINE y == [op |-> op, name |-> n, src |-> src, row |-> row[n], at |-> at, copied |-> {}]
  <1>2. /\ call[c].at = "idle" /\ call' = [call EXCEPT ![c] = y] /\ raced' = raced \union Races(c, op, n, src)
        /\ UNCHANGED <<row, dir, lock, faults, leaves>>
    BY <1>1 DEF Begin, NoBudget
  <1>3. /\ call'[c].op = op /\ call'[c].name = n /\ call'[c].src = src
        /\ call'[c].at = at /\ call'[c].copied = {}
        /\ \A d \in Calls \ {c} : call'[d] = call[d]
    BY <1>2 DEF Typed
  <1> HIDE DEF y
  <1>4. \A d \in Busy' : d # c => d \in Busy
    BY <1>3 DEF Busy
  <1>5. ASSUME NEW d \in Busy, Meet(op, n, src, call[d].op, call[d].name)
        PROVE  n \in raced'
    BY <1>2, <1>5 DEF Races
  <1>6. ASSUME NEW d \in Busy, Meet(call[d].op, call[d].name, call[d].src, op, n)
        PROVE  call[d].name \in raced'
    BY <1>2, <1>6 DEF Races
  <1>7. ASSUME NEW a \in Busy', NEW b \in Busy', a # b,
               Meet(call'[a].op, call'[a].name, call'[a].src, call'[b].op, call'[b].name)
        PROVE  call'[a].name \in raced'
    <2>1. a \in Calls /\ b \in Calls
      BY DEF Busy
    <2>2. CASE a = c
      BY <1>3, <1>4, <1>5, <1>7, <2>1, <2>2
    <2>3. CASE b = c
      BY <1>3, <1>4, <1>6, <1>7, <2>1, <2>3
    <2>4. CASE a # c /\ b # c
      BY <1>2, <1>3, <1>4, <1>7, <2>1, <2>4 DEF Met
    <2> QED
      BY <2>2, <2>3, <2>4
  <1>8. Met'
    BY <1>7 DEF Met
  <1> QED
    BY <1>2, <1>3, <1>8

-----------------------------------------------------------------------------
(* Accepted pushes                                                         *)

Doomed(n) == \E d \in Calls : call[d].op = "delete" /\ call[d].name = n

\* Before a fork copies into a name, nothing was there; so whoever had pushed
\* there has met the fork, or the directory was deleted.
PushedAt(c) ==
    LET n == call[c].name IN
    call[c].op = "push" /\ n \notin raced /\ ~Doomed(n) =>
        /\ call[c].at \in {"promoted", "done"} => dir[n] # None /\ c \in dir[n].store
        /\ call[c].at = "done" =>
              /\ c \in dir[n].refs
              /\ \A d \in Calls : call[d].op = "fork" /\ call[d].name = n => call[d].at \notin {"waiting", "copying"}

Pushed == \A c \in Calls : PushedAt(c)

\* What is in a directory stays there unless it is deleted; refs may be
\* replaced by those of a copy.
LEMMA Stays ==
    ASSUME Typed, Kinds, NEW c \in Calls, Works(c), NEW n \in Names, dir[n] # None
    PROVE  \/ call[c].op = "delete" /\ call[c].name = n
           \/ /\ dir'[n] # None /\ dir[n].store \subseteq dir'[n].store
              /\ \/ dir[n].refs \subseteq dir'[n].refs
                 \/ call[c].op = "fork" /\ call[c].at = "copying" /\ call[c].name = n
  <1> DEFINE m == call[c].name
             s == call[c].src
  <1>0. /\ m \in Names /\ s \in Names /\ dir \in [Names -> Dir \union {None}] /\ dir[n] \in Dir
        /\ dir[m] \in Dir \union {None} /\ Kind(call[c]) /\ Open(dir[n]) = dir[n]
    BY OpenFacts DEF Typed, Kinds, Call
  <1> HIDE DEF m, s
  <1>1. CASE dir'[n] = dir[n]
    BY <1>1
  <1>2. CASE m # n
    <2>1. dir'[n] = dir[n]
      BY <1>0, <1>2, Effects DEF Opens, Files, CopyPart, PromotePush, LandPush, m
    <2> QED
      BY <2>1
  <1>3. CASE m = n /\ dir' # dir
    <2>1. CASE Opens(n)
      BY <1>0, <2>1 DEF Opens
    <2>2. ASSUME NEW part \in {"objects", "refs"}, CopyPart(c, part)
          PROVE  /\ dir'[n] # None /\ dir[n].store \subseteq dir'[n].store
                 /\ call[c].op = "fork" /\ call[c].at = "copying"
      <3>1. call[c].at = "copying" /\ call[c].op = "fork" /\ dir[s] \in Dir
        BY <1>0, <2>2 DEF CopyPart, Kind, Fits, s, Typed
      <3>2. dir'[n] = Overlay(dir[s], part, dir[n])
        BY <1>0, <1>3, <2>2 DEF CopyPart, m, s
      <3>3. dir'[n] \in Dir /\ None \notin Dir
        BY <1>0, <3>1, <3>2, DirTypes
      <3>4. dir[n].store \subseteq Overlay(dir[s], part, dir[n]).store
        BY <1>0, <2>2, <3>1 DEF Overlay, Dir
      <3> QED
        BY <3>1, <3>2, <3>3, <3>4
    <2>3. CASE RemoveDir(c)
      BY <1>3, <2>3 DEF RemoveDir, m
    <2>4. CASE PromotePush(c)
      <3>1. dir'[n] = [dir[n] EXCEPT !.store = @ \union {c}]
        BY <1>0, <1>3, <2>4 DEF PromotePush, m
      <3>2. [Open(dir[n]) EXCEPT !.store = @ \union {c}] \in Dir /\ None \notin Dir
        BY <1>0, DirTypes
      <3> QED
        BY <1>0, <3>1, <3>2 DEF Dir
    <2>5. CASE LandPush(c)
      <3>1. dir'[n] = [dir[n] EXCEPT !.refs = @ \union {c}]
        BY <1>0, <1>3, <2>5 DEF LandPush, m
      <3>2. dir'[n] \in Dir /\ None \notin Dir
        BY <1>0, <3>1, DirTypes
      <3> QED
        BY <1>0, <3>1, <3>2 DEF Dir
    <2>6. CASE Files(n)
      <3>1. PICK v \in Dir : dir' = [dir EXCEPT ![n] = v] /\ v.store = dir[n].store /\ v.refs = dir[n].refs
        BY <1>0, <2>6 DEF Files
      <3>2. v # None
        BY RepositoryLifeAssumption
      <3> QED
        BY <1>0, <3>1, <3>2
    <2> QED
      BY <1>3, <2>1, <2>2, <2>3, <2>4, <2>5, <2>6, Effects DEF m
  <1> QED
    BY <1>1, <1>2, <1>3

LEMMA PushedStarts ==
    ASSUME Typed, Kinds, Met, Pushed, NEW c \in Calls, Starts(c)
    PROVE  Pushed'
  <1>1. /\ raced \subseteq raced' /\ dir' = dir
        /\ call[c].at = "idle" /\ call'[c].at \in {"counted", "loaded"}
        /\ \A d \in Calls \ {c} : call'[d] = call[d]
    BY MetStarts
  <1>2. call[c].op = None
    BY <1>1 DEF Kinds, Kind, Fits
  <1>3. call[c].op # "delete" /\ call[c].op # "fork"
    BY <1>2, RepositoryLifeAssumption DEF AllOps
  <1>4. ASSUME NEW n
        PROVE  Doomed(n) => Doomed(n)'
    BY <1>1, <1>3 DEF Doomed
  <1>5. ASSUME NEW d \in Calls
        PROVE  PushedAt(d)'
    <2>1. CASE d = c
      BY <1>1, <2>1 DEF PushedAt
    <2>2. CASE d # c
      <3>1. PICK n : n = call[d].name
        OBVIOUS
      <3>2. call'[d] = call[d]
        BY <1>1, <2>2
      <3>3. Doomed(n) => \E e \in Calls : call'[e].op = "delete" /\ call'[e].name = n
        BY <1>1, <1>3 DEF Doomed
      <3>4. PushedAt(d)
        BY DEF Pushed
      <3> QED
        BY <1>1, <3>1, <3>2, <3>3, <3>4 DEF PushedAt, Doomed
    <2> QED
      BY <2>1, <2>2
  <1> QED
    BY <1>5 DEF Pushed

LEMMA PushedWorks ==
    ASSUME Typed, Kinds, Met, Pushed, NEW c \in Calls, Works(c)
    PROVE  Pushed'
  <1>1. Onward /\ Typed' /\ Kinds' /\ \A d \in Calls \ {c} : call'[d] = call[d]
    BY WorksType, WorksAlone
  <1>2. ASSUME NEW p \in Calls, NEW n, n = call[p].name, call[p].op = "push", n \notin raced, ~Doomed(n)
        PROVE  /\ call'[p].at \in {"promoted", "done"} => dir'[n] # None /\ p \in dir'[n].store
               /\ call'[p].at = "done" =>
                    /\ p \in dir'[n].refs
                    /\ \A d \in Calls : call[d].op = "fork" /\ call[d].name = n => call'[d].at \notin {"waiting", "copying"}
    <2>0. n \in Names /\ PushedAt(p) /\ ~(call[c].op = "delete" /\ call[c].name = n) /\ call[p].at \in Place
          /\ dir[n] \in Dir \union {None} /\ dir'[n] \in Dir \union {None}
      BY <1>1, <1>2 DEF Typed, Call, Pushed, Doomed
    <2>1. CASE p # c
      <3>1. call'[p] = call[p]
        BY <1>1, <2>1
      <3>2. call[p].at \in {"promoted", "done"} => dir'[n] # None /\ p \in dir'[n].store
        BY <1>2, <2>0, Stays DEF PushedAt
      <3>3. ASSUME call[p].at = "done"
            PROVE  p \in dir'[n].refs
        <4>1. dir[n] # None /\ p \in dir[n].refs
              /\ ~(call[c].op = "fork" /\ call[c].at = "copying" /\ call[c].name = n)
          BY <1>2, <2>0, <3>3 DEF PushedAt
        <4> QED
          BY <2>0, <4>1, Stays
      <3>4. ASSUME call[p].at = "done", NEW d \in Calls, call[d].op = "fork", call[d].name = n
            PROVE  call'[d].at \notin {"waiting", "copying"}
        <4>1. dir[n] # None /\ call[d].at \notin {"waiting", "copying"}
          BY <1>2, <2>0, <3>4 DEF PushedAt
        <4>2. CASE d # c
          BY <1>1, <4>1, <4>2
        <4>3. CASE d = c
          <5>1. call[c] \in Call /\ Kind(call[c]) /\ call \in [Calls -> Call]
            BY DEF Typed, Kinds
          <5>2. \/ CheckFork(c) \/ InsertRow(c)
                \/ (Drop(c) \/ Fail(c))
            BY <3>4, <4>1, <4>3, <5>1 DEF Works, MakeDir, LockSource, EndCopy, CopyPart, RemoveDir, DeleteRow,
               OpenDir, LockPush, PromotePush, RejectPush, LandPush, OpenFile, FillFile, InsertBlob, AbortAsset,
               Kind, Fits, Blob
          <5>3. Goto(c, "refused") \/ Goto(c, "done") \/ call' = call
            BY <3>4, <4>1, <4>3, <5>2 DEF CheckFork, InsertRow, Drop, Fail
          <5>4. \A q : Goto(c, q) => call'[c].at = q
            BY <5>1 DEF Goto, Call
          <5> QED
            BY <4>1, <4>3, <5>3, <5>4
        <4> QED
          BY <4>2, <4>3
      <3> QED
        BY <3>1, <3>2, <3>3, <3>4
    <2>2. CASE p = c
      <3>1. call[c] \in Call /\ Kind(call[c]) /\ call \in [Calls -> Call]
        BY DEF Typed, Kinds
      <3>2. \A q : Goto(c, q) => call'[c].at = q
        BY <3>1 DEF Goto, Call
      <3>3. OpenDir(c) \/ LockPush(c) \/ PromotePush(c) \/ RejectPush(c) \/ LandPush(c) \/ Drop(c) \/ Fail(c)
        BY <1>2, <2>2, <3>1 DEF Works, MakeDir, InsertRow, CheckFork, LockSource, EndCopy, CopyPart, RemoveDir,
           DeleteRow, OpenFile, FillFile, InsertBlob, AbortAsset, Kind, Fits, Blob
      <3>4. CASE PromotePush(c)
        <4>1. dir' = [dir EXCEPT ![n] = [Open(dir[n]) EXCEPT !.store = @ \union {c}]] /\ Goto(c, "promoted")
          BY <1>2, <2>0, <2>2, <3>4 DEF PromotePush, Open, Typed
        <4>2. [Open(dir[n]) EXCEPT !.store = @ \union {c}] \in Dir /\ None \notin Dir /\ Open(dir[n]) \in Dir
          BY <2>0, DirTypes
        <4>3. dir'[n] # None /\ c \in dir'[n].store
          BY <2>0, <4>1, <4>2 DEF Dir, Typed
        <4> QED
          BY <2>2, <3>2, <4>1, <4>3
      <3>5. CASE LandPush(c)
        <4>1. call[c].at = "promoted"
          BY <3>5 DEF LandPush
        <4>2. dir[n] # None /\ c \in dir[n].store
          BY <1>2, <2>0, <2>2, <4>1 DEF PushedAt
        <4>3. dir'[n] = [dir[n] EXCEPT !.refs = @ \union {c}]
          BY <1>2, <2>0, <2>2, <3>5, <4>2 DEF LandPush, Typed
        <4>4. dir'[n] # None /\ c \in dir'[n].store /\ c \in dir'[n].refs
          <5>1. dir'[n] \in Dir /\ None \notin Dir
            BY <2>0, <4>2, <4>3, DirTypes
          <5> QED
            BY <2>0, <4>2, <4>3, <5>1 DEF Dir
        <4>5. ASSUME NEW d \in Calls, call[d].op = "fork", call[d].name = n, call'[d].at \in {"waiting", "copying"}
              PROVE  FALSE
          <5>1. d # c /\ call'[d] = call[d]
            BY <1>1, <1>2, <2>2, <4>5
          <5>2. d \in Busy /\ c \in Busy
            BY <4>1, <4>5, <5>1 DEF Busy, Over
          <5>3. n \in raced
            BY <1>2, <2>2, <4>5, <5>1, <5>2 DEF Met, Meet
          <5> QED
            BY <1>2, <5>3
        <4> QED
          BY <2>2, <4>4, <4>5
      <3>6. CASE OpenDir(c) \/ LockPush(c) \/ RejectPush(c) \/ Fail(c)
        <4>1. Goto(c, "refused") \/ Goto(c, "waiting") \/ Goto(c, "receiving")
          BY <3>6 DEF OpenDir, LockPush, RejectPush, Fail
        <4> QED
          BY <2>2, <3>2, <4>1
      <3>7. CASE Drop(c)
        <4>1. dir' = dir /\ c \in Busy /\ (Goto(c, "refused") \/ call' = call)
          BY <3>7 DEF Drop
        <4>2. call[c].at # "done"
          BY <4>1 DEF Busy, Over
        <4> QED
          BY <1>2, <2>0, <2>2, <3>2, <4>1, <4>2 DEF PushedAt
      <3> QED
        BY <3>3, <3>4, <3>5, <3>6, <3>7
    <2> QED
      BY <2>1, <2>2
  <1>3. \A n : Doomed(n)' <=> Doomed(n)
    BY <1>1 DEF Onward, Doomed
  <1>4. ASSUME NEW p \in Calls
        PROVE  PushedAt(p)'
    <2>1. PICK n : n = call[p].name
      OBVIOUS
    <2>2. /\ call'[p].name = n /\ call'[p].op = call[p].op /\ raced' = raced
          /\ \A d \in Calls : call'[d].op = call[d].op /\ call'[d].name = call[d].name
      BY <1>1, <2>1 DEF Onward
    <2>3. (\E d \in Calls : call'[d].op = "delete" /\ call'[d].name = n) <=> Doomed(n)
      BY <2>2 DEF Doomed
    <2> QED
      BY <1>2, <2>1, <2>2, <2>3 DEF PushedAt, Doomed
  <1> QED
    BY <1>4 DEF Pushed

LEMMA PushedCrash ==
    ASSUME Typed, Kinds, Pushed, Crash
    PROVE  Pushed'
  <1>1. Onward /\ dir' = dir
    BY CrashType DEF Crash
  <1>2. \A d \in Calls : call'[d] = call[d] \/ (d \in Busy /\ call'[d].at = "refused")
    BY DEF Crash, Typed, Call
  <1>3. ASSUME NEW p \in Calls
        PROVE  PushedAt(p)'
    <2>1. PICK n : n = call[p].name
      OBVIOUS
    <2>2. /\ call'[p].name = n /\ call'[p].op = call[p].op /\ raced' = raced
          /\ \A d \in Calls : call'[d].op = call[d].op /\ call'[d].name = call[d].name
      BY <1>1, <2>1 DEF Onward
    <2>3. (\E d \in Calls : call'[d].op = "delete" /\ call'[d].name = n) <=> Doomed(n)
      BY <2>2 DEF Doomed
    <2>4. PushedAt(p)
      BY DEF Pushed
    <2> QED
      BY <1>1, <1>2, <2>1, <2>2, <2>3, <2>4 DEF PushedAt, Doomed
  <1> QED
    BY <1>3 DEF Pushed

-----------------------------------------------------------------------------
(* Copies                                                                  *)

\* Whoever is in a section holds its lock,
LockedAt(d) ==
    /\ call[d].at \in {"receiving", "promoted"} => lock[call[d].name] = d
    /\ call[d].at = "copying" => lock[call[d].src] = d
Locked == \A d \in Calls : LockedAt(d)

\* so a promoted pack is there until its refs are;
PromotedAt(d) ==
    call[d].at = "promoted" => dir[call[d].name] # None /\ d \in dir[call[d].name].store
Promoted == \A d \in Calls : PromotedAt(d)

Fresh == \A d \in Calls : call[d].at \in {"counted", "loaded", "waiting"} => call[d].copied = {}

\* where nobody copies, the refs name what the store has,
Copying(n) == \E d \in Calls : call[d].at = "copying" /\ call[d].name = n
WholeAt(n) ==
    dir[n] # None /\ (n \in Mine => n \notin raced) /\ ~Copying(n) => dir[n].refs \subseteq dir[n].store
Whole == \A n \in Names : WholeAt(n)

\* and where somebody does, that or what the source's refs name.
HalfAt(d) ==
    LET n == call[d].name
        s == call[d].src
    IN  call[d].at = "copying" /\ n \notin raced =>
            /\ call[d].copied # {} => dir[n] # None /\ dir[s] # None
            /\ dir[n] # None => dir[n].refs \subseteq
                    dir[n].store \union (IF "refs" \in call[d].copied THEN dir[s].refs ELSE {})
            /\ "objects" \in call[d].copied => dir[s].store \subseteq dir[n].store
Halves == \A d \in Calls : HalfAt(d)

CopyInv == Calm => Locked /\ Promoted /\ Fresh /\ Whole /\ Halves

LEMMA CalmWorks ==
    ASSUME Typed, NEW c \in Calls, Works(c), Calm'
    PROVE  Calm /\ ~Drop(c) /\ ~Fail(c) /\ c \in Busy
  <1>0. MaxFaults \in Nat /\ MaxLeaves \in Nat /\ faults \in 0..MaxFaults /\ leaves \in 0..MaxLeaves
    BY RepositoryLifeAssumption DEF Typed
  <1>1. ~Drop(c) /\ ~Fail(c)
    BY <1>0 DEF Drop, Fail, Fault, Calm
  <1>2. UNCHANGED <<faults, leaves>> /\ c \in Busy
    BY <1>1 DEF Works, NoBudget, MakeDir, InsertRow, CheckFork, LockSource, EndCopy, CopyPart, RemoveDir, DeleteRow,
       OpenDir, LockPush, PromotePush, RejectPush, LandPush, OpenFile, FillFile, InsertBlob, AbortAsset, Busy, Over
  <1> QED
    BY <1>1, <1>2 DEF Calm

\* How a request comes to a place.
LEMMA Arrives ==
    ASSUME Typed, NEW c \in Calls, Works(c), ~Drop(c), ~Fail(c)
    PROVE  /\ call'[c].at = "receiving" => LockPush(c)
           /\ call'[c].at = "promoted" => PromotePush(c)
           /\ call'[c].at = "waiting" => CheckFork(c) \/ OpenDir(c)
           /\ call'[c].at \notin {"counted", "loaded"}
           /\ call'[c].at = "copying" => LockSource(c) \/ \E part \in {"objects", "refs"} : CopyPart(c, part)
           /\ (\A part \in {"objects", "refs"} : ~CopyPart(c, part)) => call'[c].copied = call[c].copied
  <1>0. call[c] \in Call /\ call \in [Calls -> Call]
    BY DEF Typed
  <1>1. \A q : Goto(c, q) => call'[c].at = q /\ call'[c].copied = call[c].copied
    BY <1>0 DEF Goto, Call
  <1>2. CASE \E part \in {"objects", "refs"} : CopyPart(c, part)
    <2>1. call'[c].at = "copying"
      BY <1>0, <1>2 DEF CopyPart, Call
    <2> QED
      BY <1>2, <2>1
  <1>3. CASE LockPush(c) \/ PromotePush(c) \/ CheckFork(c) \/ OpenDir(c) \/ LockSource(c)
    <2>1. /\ LockPush(c) => Goto(c, "receiving")
          /\ PromotePush(c) => Goto(c, "promoted")
          /\ LockSource(c) => Goto(c, "copying")
          /\ CheckFork(c) \/ OpenDir(c) => Goto(c, "refused") \/ Goto(c, "waiting")
      BY DEF LockPush, PromotePush, CheckFork, OpenDir, LockSource
    <2> QED
      BY <1>1, <1>3, <2>1
  <1>4. CASE \/ MakeDir(c) \/ InsertRow(c) \/ EndCopy(c) \/ RemoveDir(c) \/ DeleteRow(c) \/ RejectPush(c)
             \/ LandPush(c) \/ OpenFile(c) \/ FillFile(c) \/ InsertBlob(c) \/ AbortAsset(c)
    <2>1. \E q \in {"refused", "made", "done", "removed", "torn", "written"} : Goto(c, q)
      BY <1>4 DEF MakeDir, InsertRow, EndCopy, RemoveDir, DeleteRow, RejectPush, LandPush, OpenFile, FillFile,
         InsertBlob, AbortAsset
    <2> QED
      BY <1>1, <2>1
  <1> QED
    BY <1>2, <1>3, <1>4 DEF Works

LEMMA LockedWorks ==
    ASSUME Typed, Kinds, Locked, NEW c \in Calls, Works(c), ~Drop(c), ~Fail(c)
    PROVE  Locked'
  <1>1. Onward /\ \A d \in Calls \ {c} : call'[d] = call[d]
    BY WorksType, WorksAlone
  <1>2. \/ lock' = lock \/ lock' = Free(c)
        \/ (\E m \in Names : lock[m] = None /\ lock' = [lock EXCEPT ![m] = c])
    BY DEF Works, MakeDir, InsertRow, CheckFork, LockSource, EndCopy, CopyPart, RemoveDir, DeleteRow,
       OpenDir, LockPush, PromotePush, RejectPush, LandPush, OpenFile, FillFile, InsertBlob, AbortAsset, Typed, Call
  <1>3. ASSUME NEW d \in Calls \ {c}, NEW x \in Names, lock[x] = d
        PROVE  lock'[x] = d
    BY <1>2, <1>3, RepositoryLifeAssumption DEF Free, Typed
  <1>4. \A d \in Calls : call[d].name \in Names /\ call[d].src \in Names
    BY DEF Typed, Call
  <1>5. ASSUME NEW d \in Calls
        PROVE  LockedAt(d)'
    <2>0. call'[d].name = call[d].name /\ call'[d].src = call[d].src /\ LockedAt(d)
      BY <1>1 DEF Onward, Locked
    <2>1. CASE d # c
      BY <1>1, <1>3, <1>4, <2>0, <2>1 DEF LockedAt
    <2>2. CASE d = c
      <3>1. CASE LockPush(c)
        <4>1. call'[c].at = "receiving" /\ lock'[call[c].name] = c
          BY <1>4, <3>1 DEF LockPush, Goto, Typed, Call
        <4> QED
          BY <2>0, <2>2, <4>1 DEF LockedAt
      <3>2. CASE PromotePush(c)
        <4>1. call'[c].at = "promoted" /\ lock' = lock /\ call[c].at = "receiving"
          BY <3>2 DEF PromotePush, Goto, Typed, Call
        <4> QED
          BY <2>0, <2>2, <4>1 DEF LockedAt
      <3>3. CASE LockSource(c)
        <4>1. call'[c].at = "copying" /\ lock'[call[c].src] = c
          BY <1>4, <3>3 DEF LockSource, Goto, Typed, Call
        <4> QED
          BY <2>0, <2>2, <4>1 DEF LockedAt
      <3>4. ASSUME NEW part \in {"objects", "refs"}, CopyPart(c, part)
            PROVE  LockedAt(d)'
        <4>1. call'[c].at = "copying" /\ lock' = lock /\ call[c].at = "copying"
          BY <3>4 DEF CopyPart, Typed, Call
        <4> QED
          BY <2>0, <2>2, <4>1 DEF LockedAt
      <3>5. CASE call'[c].at \notin {"receiving", "promoted", "copying"}
        BY <2>2, <3>5 DEF LockedAt
      <3> QED
        BY <3>1, <3>2, <3>3, <3>4, <3>5, Arrives
    <2> QED
      BY <2>1, <2>2
  <1> QED
    BY <1>5 DEF Locked

\* A locked name keeps its directory, and what is in its store.
LEMMA StaysLocked ==
    ASSUME Typed, Kinds, NEW c \in Calls, Works(c), NEW n \in Names, dir[n] # None, lock[n] # None
    PROVE  dir'[n] # None /\ dir[n].store \subseteq dir'[n].store
  <1>1. CASE call[c].op = "delete" /\ call[c].name = n
    <2>1. Kind(call[c])
      BY DEF Kinds
    <2>2. dir' = dir \/ (RemoveDir(c) /\ lock[n] = None)
      BY <1>1, <2>1, Effects DEF MakeDir, LockSource, RejectPush, CopyPart, PromotePush, LandPush, Kind, Fits, Blob
    <2> QED
      BY <2>2
  <1>2. CASE ~(call[c].op = "delete" /\ call[c].name = n)
    BY <1>2, Stays
  <1> QED
    BY <1>1, <1>2

LEMMA PromotedWorks ==
    ASSUME Typed, Kinds, Locked, Promoted, NEW c \in Calls, Works(c), ~Drop(c), ~Fail(c)
    PROVE  Promoted'
  <1>1. Onward /\ \A d \in Calls \ {c} : call'[d] = call[d]
    BY WorksType, WorksAlone
  <1>2. ASSUME NEW d \in Calls
        PROVE  PromotedAt(d)'
    <2>0. PICK n \in Names : n = call[d].name
      BY DEF Typed, Call
    <2>1. call'[d].name = n /\ PromotedAt(d) /\ LockedAt(d) /\ dir[n] \in Dir \union {None}
      BY <1>1, <2>0 DEF Onward, Promoted, Locked, Typed
    <2>2. CASE d # c
      <3>1. ASSUME call[d].at = "promoted"
            PROVE  dir'[n] # None /\ d \in dir'[n].store
        <4>1. dir[n] # None /\ d \in dir[n].store /\ lock[n] = d /\ lock[n] # None
          BY <2>0, <2>1, <3>1, RepositoryLifeAssumption DEF PromotedAt, LockedAt
        <4> QED
          BY <4>1, StaysLocked
      <3> QED
        BY <1>1, <2>1, <2>2, <3>1 DEF PromotedAt
    <2>3. CASE d = c
      <3>1. CASE PromotePush(c)
        <4>1. dir' = [dir EXCEPT ![n] = [Open(dir[n]) EXCEPT !.store = @ \union {c}]]
          BY <2>0, <2>3, <3>1 DEF PromotePush, Open, Typed
        <4>2. [Open(dir[n]) EXCEPT !.store = @ \union {c}] \in Dir /\ None \notin Dir /\ Open(dir[n]) \in Dir
          BY <2>1, DirTypes
        <4>3. dir'[n] # None /\ c \in dir'[n].store
          BY <4>1, <4>2 DEF Dir, Typed
        <4> QED
          BY <2>1, <2>3, <4>3 DEF PromotedAt
      <3>2. CASE ~PromotePush(c)
        BY <2>3, <3>2, Arrives DEF PromotedAt
      <3> QED
        BY <3>1, <3>2
    <2> QED
      BY <2>2, <2>3
  <1> QED
    BY <1>2 DEF Promoted

LEMMA FreshWorks ==
    ASSUME Typed, Kinds, Fresh, NEW c \in Calls, Works(c), ~Drop(c), ~Fail(c)
    PROVE  Fresh'
  <1>1. \A d \in Calls \ {c} : call'[d] = call[d]
    BY WorksAlone
  <1>2. ASSUME call'[c].at \in {"counted", "loaded", "waiting"}
        PROVE  call'[c].copied = {}
    <2>1. CASE CheckFork(c)
      <3>1. call[c].at = "counted" /\ call'[c].copied = call[c].copied
        BY <2>1 DEF CheckFork, Goto, Typed, Call
      <3> QED
        BY <3>1 DEF Fresh
    <2>2. CASE OpenDir(c)
      <3>1. call[c].at = "loaded" /\ call'[c].copied = call[c].copied
        BY <2>2 DEF OpenDir, Goto, Typed, Call
      <3> QED
        BY <3>1 DEF Fresh
    <2> QED
      BY <1>2, <2>1, <2>2, Arrives
  <1> QED
    BY <1>1, <1>2 DEF Fresh

\* To a name that nobody else makes, copies into, pushes to or removes,
\* nothing happens but files.
Same(n) ==
    /\ dir'[n] # None => dir'[n].store = Open(dir[n]).store /\ dir'[n].refs = Open(dir[n]).refs
    /\ dir[n] # None => dir'[n] # None

LEMMA Apart ==
    ASSUME Typed, Kinds, NEW c \in Calls, Works(c), NEW n \in Names,
           call[c].name = n => /\ call[c].op \notin {"create", "fork"}
                               /\ call[c].at \notin {"receiving", "promoted"}
                               /\ call[c].op = "delete" => lock[n] # None
    PROVE  Same(n)
  <1> DEFINE m == call[c].name
  <1>0. /\ m \in Names /\ dir \in [Names -> Dir \union {None}] /\ dir[n] \in Dir \union {None}
        /\ Kind(call[c]) /\ (dir[n] # None => Open(dir[n]) = dir[n])
    BY OpenFacts DEF Typed, Kinds, Call
  <1> HIDE DEF m
  <1>1. CASE dir'[n] = dir[n]
    BY <1>0, <1>1 DEF Same
  <1>2. CASE m # n
    <2>1. dir'[n] = dir[n]
      BY <1>0, <1>2, Effects DEF Opens, Files, CopyPart, PromotePush, LandPush, m
    <2> QED
      BY <1>1, <2>1
  <1>3. CASE m = n /\ dir' # dir
    <2>1. call[c].op \in Blob /\ Files(n)
      BY <1>0, <1>3, Effects DEF MakeDir, LockSource, RejectPush, CopyPart, RemoveDir, PromotePush, LandPush,
         Kind, Fits, m
    <2>2. PICK v \in Dir : dir' = [dir EXCEPT ![n] = v] /\ v.store = Open(dir[n]).store /\ v.refs = Open(dir[n]).refs
      BY <2>1 DEF Files
    <2> QED
      BY <1>0, <2>2, RepositoryLifeAssumption DEF Same
  <1> QED
    BY <1>1, <1>2, <1>3

\* No step but a copy makes the refs name what the store lacks.
LEMMA Wholesome ==
    ASSUME Typed, Kinds, Promoted, NEW c \in Calls, Works(c), NEW n \in Names, NEW X,
           call[c].name = n => \A part \in {"objects", "refs"} : ~CopyPart(c, part),
           dir'[n] # None, dir[n] # None => dir[n].refs \subseteq dir[n].store \union X
    PROVE  dir'[n].refs \subseteq dir'[n].store \union X
  <1> DEFINE m == call[c].name
  <1>0. /\ m \in Names /\ dir \in [Names -> Dir \union {None}] /\ dir[n] \in Dir \union {None}
        /\ Kind(call[c]) /\ (dir[n] # None => Open(dir[n]) = dir[n]) /\ Open(dir[n]) \in Dir
        /\ (dir[n] = None => Open(dir[n]).refs = {})
    BY OpenFacts DEF Typed, Kinds, Call
  <1>h. Open(dir[n]).refs \subseteq Open(dir[n]).store \union X
    BY <1>0
  <1> HIDE DEF m
  <1>1. CASE dir'[n] = dir[n]
    BY <1>1
  <1>2. CASE m # n
    <2>1. dir'[n] = dir[n]
      BY <1>0, <1>2, Effects DEF Opens, Files, CopyPart, PromotePush, LandPush, m
    <2> QED
      BY <1>1, <2>1
  <1>3. CASE m = n /\ dir' # dir
    <2>1. CASE Opens(n)
      BY <1>0, <1>h, <2>1 DEF Opens
    <2>2. CASE RemoveDir(c)
      BY <1>0, <1>3, <2>2 DEF RemoveDir, m
    <2>3. CASE PromotePush(c)
      <3>1. dir'[n] = [Open(dir[n]) EXCEPT !.store = @ \union {c}]
        BY <1>0, <1>3, <2>3 DEF PromotePush, Open, m
      <3> DEFINE o == Open(dir[n])
      <3> HIDE DEF o
      <3>2. o \in Dir /\ o.refs \subseteq o.store \union X /\ dir'[n] = [o EXCEPT !.store = @ \union {c}]
        BY <1>0, <1>h, <3>1 DEF o
      <3> QED
        BY <3>2 DEF Dir
    <2>4. CASE LandPush(c)
      <3>1. dir'[n] = [dir[n] EXCEPT !.refs = @ \union {c}] /\ dir[n] # None
        BY <1>0, <1>3, <2>4 DEF LandPush, m
      <3>2. c \in dir[n].store
        BY <1>3, <2>4 DEF LandPush, Promoted, PromotedAt, m
      <3> QED
        BY <1>0, <3>1, <3>2 DEF Dir
    <2>5. CASE Files(n)
      <3>1. PICK v \in Dir : dir' = [dir EXCEPT ![n] = v] /\ v.store = Open(dir[n]).store /\ v.refs = Open(dir[n]).refs
        BY <2>5 DEF Files
      <3> QED
        BY <1>0, <1>h, <3>1
    <2> QED
      BY <1>0, <1>3, <2>1, <2>2, <2>3, <2>4, <2>5, Effects DEF m
  <1> QED
    BY <1>1, <1>2, <1>3

LEMMA WholeWorks ==
    ASSUME Typed, Kinds, Locked, Promoted, Whole, Halves, NEW c \in Calls, Works(c), ~Drop(c), ~Fail(c)
    PROVE  Whole'
  <1>1. Onward /\ \A d \in Calls \ {c} : call'[d] = call[d]
    BY WorksType, WorksAlone
  <1>2. ASSUME NEW n \in Names, dir'[n] # None, n \in Mine => n \notin raced,
               \A d \in Calls : ~(call'[d].at = "copying" /\ call'[d].name = n)
        PROVE  dir'[n].refs \subseteq dir'[n].store
    <2>1. CASE ~Copying(n)
      <3>1. WholeAt(n)
        BY DEF Whole
      <3>2. call[c].name = n => \A part \in {"objects", "refs"} : ~CopyPart(c, part)
        BY <2>1 DEF CopyPart, Copying
      <3>3. dir'[n].refs \subseteq dir'[n].store \union {}
        BY <1>2, <2>1, <3>1, <3>2, Wholesome DEF WholeAt
      <3> QED
        BY <3>3
    <2>2. CASE Copying(n)
      <3>1. call[c].at = "copying" /\ call[c].name = n /\ call'[c].at # "copying" /\ call[c] \in Call
        BY <1>1, <1>2, <2>2 DEF Copying, Onward, Typed
      <3>2. EndCopy(c)
        <4>1. call[c].op = "fork"
          BY <3>1 DEF Kinds, Kind, Fits
        <4>2. ASSUME NEW part \in {"objects", "refs"}, CopyPart(c, part)
              PROVE  FALSE
          BY <3>1, <4>2 DEF CopyPart, Typed, Call
        <4> QED
          BY <3>1, <4>1, <4>2 DEF Works, MakeDir, InsertRow, CheckFork, LockSource, RemoveDir, DeleteRow,
             OpenDir, LockPush, PromotePush, RejectPush, LandPush, OpenFile, FillFile, InsertBlob, AbortAsset, Blob
      <3>3. PICK s \in Names : s = call[c].src
        BY DEF Typed, Call
      <3>4. n \in Mine /\ s \notin Mine /\ \A d \in Calls : call[d].at = "copying" => call[d].name \in Mine
        BY <3>1, <3>3 DEF Kinds, Kind, Fits
      <3>5. HalfAt(c) /\ WholeAt(s) /\ dir' = dir
        BY <3>2 DEF Halves, Whole, EndCopy
      <3>6. CASE dir[s] = None
        <4>1. call[c].copied = {}
          BY <1>2, <3>1, <3>3, <3>4, <3>5, <3>6 DEF HalfAt
        <4> QED
          BY <1>2, <3>1, <3>4, <3>5, <4>1 DEF HalfAt
      <3>7. CASE dir[s] # None
        <4>1. call[c].copied = {"objects", "refs"}
          BY <3>2, <3>3, <3>7 DEF EndCopy
        <4>2. dir[s].refs \subseteq dir[s].store
          BY <3>4, <3>5, <3>7 DEF WholeAt, Copying
        <4> QED
          BY <1>2, <3>1, <3>3, <3>4, <3>5, <4>1, <4>2 DEF HalfAt
      <3> QED
        BY <3>6, <3>7
    <2> QED
      BY <2>1, <2>2
  <1>3. ASSUME NEW n \in Names
        PROVE  WholeAt(n)'
    BY <1>1, <1>2 DEF WholeAt, Copying, Onward
  <1> QED
    BY <1>3 DEF Whole

\* A copy goes on beside others: they leave both directories alone.
LEMMA HalfBeside ==
    ASSUME Typed, Kinds, Met, Locked, Halves, NEW c \in Calls, c \in Busy, Works(c), NEW d \in Calls \ {c}
    PROVE  HalfAt(d)'
  <1>1. Onward /\ call'[d] = call[d] /\ raced' = raced /\ HalfAt(d) /\ Kind(call[c]) /\ Kind(call[d])
    BY WorksType, WorksAlone DEF Onward, Halves, Kinds
  <1> SUFFICES ASSUME call[d].at = "copying", call[d].name \notin raced
               PROVE  HalfAt(d)'
    BY <1>1 DEF HalfAt
  <1>2. PICK n \in Names, s \in Names : n = call[d].name /\ s = call[d].src
    BY DEF Typed, Call
  <1>3. s \notin Mine /\ lock[s] = d /\ d # None /\ call[d].op = "fork" /\ d \in Busy
    BY <1>1, <1>2, RepositoryLifeAssumption DEF Kind, Fits, Locked, LockedAt, Busy, Over
  <1>4. Same(n)
    <2>1. call[c].name = n => call[c].op \notin {"create", "fork", "push", "delete"}
      BY <1>2, <1>3 DEF Met, Meet
    <2>2. call[c].at \in {"receiving", "promoted"} => call[c].op = "push"
      BY <1>1 DEF Kind, Fits
    <2> QED
      BY <2>1, <2>2, Apart
  <1>5. Same(s)
    <2>1. call[c].name = s => call[c].op \notin {"create", "fork"}
      BY <1>1, <1>3 DEF Kind
    <2>2. call[c].at \in {"receiving", "promoted"} => lock[call[c].name] = c
      BY DEF Locked, LockedAt
    <2> QED
      BY <1>3, <2>1, <2>2, Apart
  <1>6. dir[n] \in Dir \union {None} /\ dir[s] \in Dir \union {None}
    BY DEF Typed
  <1>7. /\ dir[n] # None => Open(dir[n]) = dir[n]
        /\ dir[s] # None => Open(dir[s]) = dir[s]
        /\ dir[n] = None => Open(dir[n]).refs = {}
    BY <1>6, OpenFacts
  <1>8. /\ call[d].copied # {} => dir[n] # None /\ dir[s] # None
        /\ dir[n] # None => dir[n].refs \subseteq
                    dir[n].store \union (IF "refs" \in call[d].copied THEN dir[s].refs ELSE {})
        /\ "objects" \in call[d].copied => dir[s].store \subseteq dir[n].store
    BY <1>1, <1>2 DEF HalfAt
  <1>9. call[d].copied # {} => dir'[n] # None /\ dir'[s] # None
    BY <1>4, <1>5, <1>8 DEF Same
  <1>10. "objects" \in call[d].copied => dir'[s].store \subseteq dir'[n].store
    BY <1>4, <1>5, <1>7, <1>8, <1>9 DEF Same
  <1>11. ASSUME dir'[n] # None
         PROVE  dir'[n].refs \subseteq dir'[n].store \union (IF "refs" \in call[d].copied THEN dir'[s].refs ELSE {})
    <2>1. CASE dir[n] = None
      BY <1>4, <1>7, <1>11, <2>1 DEF Same
    <2>2. CASE dir[n] # None
      <3>1. "refs" \in call[d].copied => dir'[s].refs = dir[s].refs
        BY <1>5, <1>7, <1>8, <1>9 DEF Same
      <3> QED
        BY <1>4, <1>7, <1>8, <1>11, <2>2, <3>1 DEF Same
    <2> QED
      BY <2>1, <2>2
  <1> QED
    BY <1>1, <1>2, <1>9, <1>10, <1>11 DEF HalfAt

LEMMA HalfCopies ==
    ASSUME Typed, Kinds, Halves, NEW c \in Calls, NEW part \in {"objects", "refs"}, CopyPart(c, part),
           call[c].name \notin raced
    PROVE  HalfAt(c)'
  <1>1. PICK n \in Names, s \in Names : n = call[c].name /\ s = call[c].src
    BY DEF Typed, Call
  <1>2. n # s /\ call[c].at = "copying"
    BY <1>1 DEF CopyPart, Kinds, Kind, Fits
  <1>3. /\ call'[c].name = n /\ call'[c].src = s /\ call'[c].at = "copying"
        /\ call'[c].copied = call[c].copied \union {part}
    BY <1>1, <1>2 DEF CopyPart, Typed, Call
  <1> DEFINE o == Open(dir[n])
             f == dir[s]
             k == call[c].copied
  <1>4. o \in Dir /\ f \in Dir /\ dir'[s] = f /\ f # None /\ dir'[n] = Overlay(f, part, o)
    BY <1>1, <1>2, OpenFacts DEF CopyPart, Typed, Open
  <1>5. dir'[n] # None
    BY <1>4, DirTypes DEF Typed
  <1>6. /\ o.refs \subseteq o.store \union (IF "refs" \in k THEN f.refs ELSE {})
        /\ "objects" \in k => f.store \subseteq o.store
    <2>1. /\ k # {} => dir[n] # None
          /\ dir[n] # None => dir[n].refs \subseteq dir[n].store \union (IF "refs" \in k THEN f.refs ELSE {})
          /\ "objects" \in k => f.store \subseteq dir[n].store
      BY <1>1, <1>2 DEF Halves, HalfAt
    <2>2. dir[n] \in Dir \union {None}
      BY DEF Typed
    <2> QED
      BY <2>1, <2>2, OpenFacts
  <1> HIDE DEF o, f, k
  <1>7. CASE part = "objects"
    <2>1. /\ Overlay(f, part, o).store = o.store \union f.store /\ Overlay(f, part, o).refs = o.refs
          /\ "refs" \in k \union {part} <=> "refs" \in k
      BY <1>4, <1>7 DEF Overlay, Dir
    <2>2. /\ dir'[n].refs \subseteq dir'[n].store \union (IF "refs" \in k \union {part} THEN dir'[s].refs ELSE {})
          /\ dir'[s].store \subseteq dir'[n].store
      BY <1>4, <1>6, <2>1
    <2> QED
      BY <1>3, <1>4, <1>5, <2>2 DEF HalfAt, k
  <1>8. CASE part = "refs"
    <2>1. /\ Overlay(f, part, o).store = o.store
          /\ Overlay(f, part, o).refs = IF f.refs = {} THEN o.refs ELSE f.refs
          /\ "refs" \in k \union {part}
      BY <1>4, <1>8 DEF Overlay, Dir
    <2>2. dir'[n].refs \subseteq dir'[n].store \union dir'[s].refs
      BY <1>4, <1>6, <2>1
    <2>3. "objects" \in k \union {part} => dir'[s].store \subseteq dir'[n].store
      BY <1>4, <1>6, <1>8, <2>1
    <2> QED
      BY <1>3, <1>4, <1>5, <2>1, <2>2, <2>3 DEF HalfAt, k
  <1> QED
    BY <1>7, <1>8

LEMMA HalvesWorks ==
    ASSUME Typed, Kinds, Met, Locked, Promoted, Fresh, Whole, Halves,
           NEW c \in Calls, c \in Busy, Works(c), ~Drop(c), ~Fail(c)
    PROVE  Halves'
  <1>1. Onward
    BY WorksType
  <1>2. ASSUME call'[c].at = "copying", call[c].name \notin raced
        PROVE  HalfAt(c)'
    <2>1. ASSUME NEW part \in {"objects", "refs"}, CopyPart(c, part)
          PROVE  HalfAt(c)'
      BY <1>2, <2>1, HalfCopies
    <2>2. CASE LockSource(c)
      <3>1. PICK n \in Names : n = call[c].name
        BY DEF Typed, Call
      <3>2. call[c].op = "fork" /\ call[c].at = "waiting" /\ call[c].copied = {} /\ n \in Mine
        BY <2>2, <3>1 DEF LockSource, Fresh, Kinds, Kind
      <3>3. call'[c].name = n /\ call'[c].copied = {}
        BY <1>1, <2>2, <3>1, <3>2 DEF LockSource, Goto, Onward, Typed, Call
      <3>4. ~Copying(n)
        <4>1. ASSUME NEW d \in Calls, call[d].at = "copying", call[d].name = n
              PROVE  FALSE
          <5>1. d # c /\ d \in Busy /\ call[d].op = "fork"
            BY <3>2, <4>1 DEF Busy, Over, Kinds, Kind, Fits
          <5> QED
            BY <1>2, <3>1, <3>2, <4>1, <5>1 DEF Met, Meet
        <4> QED
          BY <4>1 DEF Copying
      <3>5. dir[n] # None => dir[n].refs \subseteq dir[n].store \union {}
        BY <1>2, <3>1, <3>4 DEF Whole, WholeAt
      <3>6. \A part \in {"objects", "refs"} : ~CopyPart(c, part)
        BY <3>2 DEF CopyPart
      <3>7. dir'[n] # None => dir'[n].refs \subseteq dir'[n].store \union {}
        BY <3>5, <3>6, Wholesome
      <3> QED
        BY <3>3, <3>7 DEF HalfAt
    <2> QED
      BY <1>2, <2>1, <2>2, Arrives
  <1>3. HalfAt(c)'
    BY <1>1, <1>2 DEF HalfAt, Onward
  <1>4. \A d \in Calls \ {c} : HalfAt(d)'
    BY HalfBeside
  <1> QED
    BY <1>3, <1>4 DEF Halves

LEMMA CopyWorks ==
    ASSUME Typed, Kinds, Met, CopyInv, NEW c \in Calls, Works(c)
    PROVE  CopyInv'
  <1> SUFFICES ASSUME Calm' PROVE (Locked /\ Promoted /\ Fresh /\ Whole /\ Halves)'
    BY DEF CopyInv
  <1>1. Calm /\ ~Drop(c) /\ ~Fail(c) /\ c \in Busy
    BY CalmWorks
  <1> QED
    BY <1>1, LockedWorks, PromotedWorks, FreshWorks, WholeWorks, HalvesWorks DEF CopyInv

LEMMA CopyStarts ==
    ASSUME Typed, Met, CopyInv, NEW c \in Calls, Starts(c)
    PROVE  CopyInv'
  <1>1. /\ raced \subseteq raced' /\ UNCHANGED <<row, dir, lock, faults, leaves>>
        /\ call[c].at = "idle" /\ call'[c].at \in {"counted", "loaded"} /\ call'[c].copied = {}
        /\ \A d \in Calls \ {c} : call'[d] = call[d]
    BY MetStarts
  <1> SUFFICES ASSUME Calm' PROVE (Locked /\ Promoted /\ Fresh /\ Whole /\ Halves)'
    BY DEF CopyInv
  <1>2. Locked /\ Promoted /\ Fresh /\ Whole /\ Halves
    BY <1>1 DEF Calm, CopyInv
  <1>3. Locked'
    BY <1>1, <1>2 DEF Locked, LockedAt
  <1>4. Promoted'
    BY <1>1, <1>2 DEF Promoted, PromotedAt
  <1>5. Fresh'
    BY <1>1, <1>2 DEF Fresh
  <1>6. Whole'
    <2>1. \A n : Copying(n) => \E d \in Calls : call'[d].at = "copying" /\ call'[d].name = n
      BY <1>1 DEF Copying
    <2> QED
      BY <1>1, <1>2, <2>1 DEF Whole, WholeAt, Copying
  <1>7. Halves'
    <2>1. ASSUME NEW d \in Calls
          PROVE  HalfAt(d)'
      <3>1. CASE d = c
        BY <1>1, <3>1 DEF HalfAt
      <3>2. CASE d # c
        BY <1>1, <1>2, <3>2 DEF Halves, HalfAt
      <3> QED
        BY <3>1, <3>2
    <2> QED
      BY <2>1 DEF Halves
  <1> QED
    BY <1>3, <1>4, <1>5, <1>6, <1>7

LEMMA StartHistory == Init => Met /\ Pushed /\ CopyInv
  <1> SUFFICES ASSUME Init PROVE Met /\ Pushed /\ CopyInv
    OBVIOUS
  <1>1. \A c \in Calls : call[c].at = "idle" /\ call[c].op = None
    BY DEF Init
  <1>2. None # "push"
    BY RepositoryLifeAssumption DEF AllOps
  <1>3. Met /\ Pushed
    BY <1>1, <1>2 DEF Met, Busy, Pushed, PushedAt
  <1>4. Whole
    BY DEF Init, Whole, WholeAt, Bare
  <1>5. Locked /\ Promoted /\ Fresh /\ Halves
    <2>1. Fresh
      BY <1>1 DEF Fresh
    <2> QED
      BY <1>1, <2>1 DEF Locked, LockedAt, Promoted, PromotedAt, Halves, HalfAt
  <1> QED
    BY <1>3, <1>4, <1>5 DEF CopyInv

(***************************************************************************)
(* fork_repo copies under the source's lock and run_receive_pack moves the *)
(* refs under the repository's: without faults every directory that nobody *)
(* copies into has what its refs name, and, faults or not, an accepted     *)
(* push stays where it landed until a deletion of it is asked for.  Names  *)
(* on which a removal or a fork met another call are left out (raced).     *)
(***************************************************************************)
THEOREM HistoryKept == Spec => []NothingLost
  <1> DEFINE I == Typed /\ Kinds /\ Met /\ Pushed /\ CopyInv
  <1>1. Init => I
    BY Start, StartHistory
  <1>2. I /\ [Next]_vars => I'
    <2> SUFFICES ASSUME Typed, Kinds, Met, Pushed, CopyInv, [Next]_vars PROVE I'
      OBVIOUS
    <2>1. CASE UNCHANGED vars
      BY <2>1 DEF vars, Typed, Kinds, Met, Busy, Pushed, PushedAt, Doomed, CopyInv, Calm, Locked, LockedAt,
         Promoted, PromotedAt, Fresh, Whole, WholeAt, Copying, Halves, HalfAt
    <2>2. ASSUME NEW c \in Calls, Starts(c)
          PROVE  I'
      BY <2>2, StartsType, MetStarts, PushedStarts, CopyStarts
    <2>3. ASSUME NEW c \in Calls, Works(c)
          PROVE  I'
      BY <2>3, WorksType, MetOnward, PushedWorks, CopyWorks
    <2>4. CASE Crash
      <3>1. faults' # MaxFaults
        BY <2>4, RepositoryLifeAssumption DEF Crash, Fault, Typed
      <3>2. CopyInv'
        BY <3>1 DEF CopyInv, Calm
      <3> QED
        BY <2>4, <3>2, CrashType, MetOnward, PushedCrash
    <2> QED
      BY <2>1, <2>2, <2>3, <2>4, NextIs
  <1>3. I => NothingLost
    <2> SUFFICES ASSUME Typed, Pushed, CopyInv PROVE NothingLost
      OBVIOUS
    <2>1. PushSurvives
      BY DEF Pushed, PushedAt, Doomed, PushSurvives
    <2>2. CopiesConnected
      <3>1. ASSUME Calm, NEW n \in Names, dir[n] # None,
                   \A c \in Busy : call[c].at = "copying" => call[c].name # n, n \notin raced
            PROVE  dir[n].refs \subseteq dir[n].store
        <4>1. ~Copying(n)
          BY <3>1 DEF Copying, Busy, Over
        <4> QED
          BY <3>1, <4>1 DEF CopyInv, Whole, WholeAt
      <3> QED
        BY <3>1 DEF CopiesConnected
    <2> QED
      BY <2>1, <2>2 DEF NothingLost
  <1> QED
    BY <1>1, <1>2, <1>3, PTL DEF Spec

-----------------------------------------------------------------------------
(* Whose the rows and the objects are                                      *)

\* A row is its name's from the start, or its maker's.
Owned(x, n) ==
    \/ x = n
    \/ x \in Calls /\ call[x].name = n /\ call[x].at = "done" /\ call[x].op \in {"create", "fork"}

\* The same in the next state, of a value of this one.
OwnedNext(x, n) ==
    \/ x = n
    \/ x \in Calls /\ call'[x].name = n /\ call'[x].at = "done" /\ call'[x].op \in {"create", "fork"}

Rows ==
    /\ \A n \in Names : row[n] # None => Owned(row[n], n)
    /\ \A c \in Calls : call[c].op \in {"delete", "push"} \union Blob => Owned(call[c].row, call[c].name)
    /\ blobs \subseteq Id \X Blob
    /\ \A b \in blobs : \E n \in Names : row[n] = b[1]

LEMMA OwnerUnique ==
    ASSUME NEW x, NEW m \in Names, NEW n \in Names, Owned(x, m), Owned(x, n)
    PROVE  m = n
  BY RepositoryLifeAssumption DEF Owned

LEMMA OwnedStays ==
    ASSUME NEW x, NEW n, Owned(x, n), \A d \in Calls : call[d].at = "done" => call'[d] = call[d]
    PROVE  OwnedNext(x, n)
  BY DEF Owned, OwnedNext

\* The steps that write rows: of a repository, or of an object.
LEMMA RowEffects ==
    ASSUME NEW c \in Calls, Works(c)
    PROVE  \/ row' = row /\ blobs' = blobs
           \/ InsertRow(c) /\ row[call[c].name] = None /\ row' = [row EXCEPT ![call[c].name] = c]
              /\ Goto(c, "done") /\ blobs' = blobs
           \/ DeleteRow(c)
           \/ InsertBlob(c) /\ row' = row /\ (\E m \in Names : row[m] = call[c].row)
              /\ blobs' = blobs \union {<<call[c].row, call[c].op>>}
  BY DEF Works, MakeDir, InsertRow, CheckFork, LockSource, EndCopy, CopyPart, RemoveDir, OpenDir, LockPush,
     PromotePush, RejectPush, LandPush, OpenFile, FillFile, InsertBlob, AbortAsset, Drop, Fail

LEMMA RowsWorks ==
    ASSUME Typed, Kinds, Rows, NEW c \in Calls, Works(c)
    PROVE  Rows'
  <1> DEFINE n == call[c].name
  <1>0. /\ call[c] \in Call /\ n \in Names /\ Kind(call[c]) /\ call \in [Calls -> Call]
        /\ row \in [Names -> Id \union {None}] /\ None \notin Id
    BY RepositoryLifeAssumption DEF Typed, Kinds, Call, Id
  <1>1. Onward /\ \A d \in Calls : call[d].at = "done" => call'[d] = call[d]
    BY WorksType DEF Onward, Busy, Over
  <1> HIDE DEF n
  <1>2. \A x, m : Owned(x, m) => OwnedNext(x, m)
    BY <1>1, OwnedStays
  <1>3. \A d \in Calls : call'[d].op \in {"delete", "push"} \union Blob => OwnedNext(call'[d].row, call'[d].name)
    BY <1>1, <1>2 DEF Onward, Rows
  <1>4. CASE row' = row /\ blobs' = blobs
    <2>1. \A m \in Names : row[m] # None => OwnedNext(row[m], m)
      BY <1>2 DEF Rows
    <2> QED
      BY <1>3, <1>4, <2>1 DEF Rows, Owned, OwnedNext
  <1>5. CASE InsertRow(c) /\ row[n] = None /\ row' = [row EXCEPT ![n] = c] /\ Goto(c, "done") /\ blobs' = blobs
    <2>1. call'[c].at = "done" /\ call'[c].op = call[c].op /\ call'[c].name = n
      BY <1>0, <1>1, <1>5 DEF Goto, Onward, n, Call
    <2>2. call[c].op \in {"create", "fork"}
      BY <1>0, <1>5 DEF InsertRow, Kind, Fits
    <2>3. ASSUME NEW m \in Names, row'[m] # None
          PROVE  OwnedNext(row'[m], m)
      <3>1. CASE m = n
        BY <1>0, <1>5, <2>1, <2>2, <3>1 DEF OwnedNext
      <3>2. CASE m # n
        BY <1>0, <1>1, <1>5, <2>3, <3>2, <1>2 DEF Rows, OwnedNext
      <3> QED
        BY <3>1, <3>2
    <2>4. ASSUME NEW b \in blobs'
          PROVE  \E m \in Names : row'[m] = b[1]
      <3>1. PICK m \in Names : row[m] = b[1]
        BY <1>5, <2>4 DEF Rows
      <3>2. b[1] \in Id
        BY <1>5, <2>4 DEF Rows
      <3>3. m # n
        BY <1>0, <1>5, <3>1, <3>2
      <3> QED
        BY <1>0, <1>5, <3>1, <3>3
    <2> QED
      BY <1>3, <1>5, <2>3, <2>4 DEF Rows, Owned, OwnedNext
  <1>6. CASE DeleteRow(c)
    <2>1. /\ row' = [m \in Names |-> IF row[m] = call[c].row THEN None ELSE row[m]]
          /\ blobs' = {b \in blobs : b[1] # call[c].row}
      BY <1>6 DEF DeleteRow
    <2>2. \A m \in Names : row'[m] # None => OwnedNext(row'[m], m)
      BY <1>2, <2>1 DEF Rows, OwnedNext
    <2>3. \A b \in blobs' : \E m \in Names : row'[m] = b[1]
      BY <2>1 DEF Rows
    <2> QED
      BY <1>3, <2>1, <2>2, <2>3 DEF Rows, Owned, OwnedNext
  <1>7. CASE InsertBlob(c) /\ row' = row /\ (\E m \in Names : row[m] = call[c].row)
             /\ blobs' = blobs \union {<<call[c].row, call[c].op>>}
    <2>1. call[c].op \in Blob
      BY <1>0, <1>7 DEF InsertBlob, Kind, Fits
    <2>2. call[c].row \in Id
      BY <1>0, <1>7, <2>1, RepositoryLifeAssumption DEF Rows, Owned, n, Id
    <2>3. \A m \in Names : row[m] # None => OwnedNext(row[m], m)
      BY <1>2 DEF Rows
    <2> QED
      BY <1>3, <1>7, <2>1, <2>2, <2>3 DEF Rows, Owned, OwnedNext
  <1> QED
    BY <1>4, <1>5, <1>6, <1>7, RowEffects DEF n

LEMMA RowsBeside ==
    ASSUME Typed, Kinds, Rows, Crash \/ \E c \in Calls : Starts(c)
    PROVE  Rows'
  <1>1. ASSUME row' = row, blobs' = blobs, \A d \in Calls : call[d].at = "done" => call'[d] = call[d],
               \A d \in Calls : call'[d].op \in {"delete", "push"} \union Blob => Owned(call'[d].row, call'[d].name)
        PROVE  Rows'
    <2>1. \A m \in Names : row[m] # None => OwnedNext(row[m], m)
      BY <1>1, OwnedStays DEF Rows
    <2>2. \A d \in Calls : call'[d].op \in {"delete", "push"} \union Blob => OwnedNext(call'[d].row, call'[d].name)
      BY <1>1, OwnedStays
    <2> QED
      BY <1>1, <2>1, <2>2 DEF Rows, Owned, OwnedNext
  <1>2. CASE Crash
    <2>1. Onward /\ row' = row /\ blobs' = blobs
      BY <1>2, CrashType DEF Crash
    <2> QED
      BY <1>1, <2>1 DEF Onward, Rows, Busy, Over
  <1>3. ASSUME NEW c \in Calls, Starts(c)
        PROVE  Rows'
    <2>1. PICK op \in AllOps, n \in Names, src \in Names, at \in {"counted", "loaded"} :
             Begin(c, op, n, src, at) /\ (op \notin {"create", "fork"} => row[n] # None)
      BY <1>3 DEF Starts
    <2> DEFINE y == [op |-> op, name |-> n, src |-> src, row |-> row[n], at |-> at, copied |-> {}]
    <2>2. call' = [call EXCEPT ![c] = y] /\ row' = row /\ blobs' = blobs /\ call[c].at = "idle"
      BY <2>1 DEF Begin
    <2>3. y.op = op /\ y.row = row[n] /\ y.name = n
      OBVIOUS
    <2> HIDE DEF y
    <2>4. call'[c] = y /\ \A d \in Calls \ {c} : call'[d] = call[d]
      BY <2>2 DEF Typed
    <2>5. op \in {"delete", "push"} \union Blob => Owned(row[n], n)
      BY <2>1 DEF Rows, Blob
    <2> QED
      BY <1>1, <2>2, <2>3, <2>4, <2>5 DEF Rows
  <1> QED
    BY <1>2, <1>3

-----------------------------------------------------------------------------
(* The locks, and how many make something at once                          *)

Holds(n) == lock[n] # None => lock[n] \in Calls /\ call[lock[n]].at \in Section
Holders == \A n \in Names : Holds(n)

Crowded == crowd =< Cardinality(Calls)

LEMMA LockEffects ==
    ASSUME Typed, NEW c \in Calls, Works(c)
    PROVE  \/ lock' = Free(c)
           \/ lock' = lock /\ (call[c].at \in Section => call'[c].at \in Section)
           \/ \E m \in Names : lock' = [lock EXCEPT ![m] = c] /\ call'[c].at \in Section
  <1>0. call \in [Calls -> Call] /\ call[c].name \in Names /\ call[c].src \in Names
    BY DEF Typed, Call
  <1>1. \A q : Goto(c, q) => call'[c].at = q
    BY <1>0 DEF Goto, Call
  <1>2. CASE EndCopy(c) \/ RejectPush(c) \/ LandPush(c) \/ Drop(c) \/ Fail(c)
    BY <1>2 DEF EndCopy, RejectPush, LandPush, Drop, Fail
  <1>3. CASE LockSource(c) \/ LockPush(c)
    BY <1>0, <1>1, <1>3 DEF LockSource, LockPush, Section
  <1>4. CASE PromotePush(c)
    BY <1>1, <1>4 DEF PromotePush, Section
  <1>5. ASSUME NEW part \in {"objects", "refs"}, CopyPart(c, part)
        PROVE  lock' = lock /\ call'[c].at \in Section
    BY <1>0, <1>5 DEF CopyPart, Section, Call
  <1>6. CASE \/ MakeDir(c) \/ InsertRow(c) \/ CheckFork(c) \/ RemoveDir(c) \/ DeleteRow(c) \/ OpenDir(c)
             \/ OpenFile(c) \/ FillFile(c) \/ InsertBlob(c) \/ AbortAsset(c)
    BY <1>6 DEF MakeDir, InsertRow, CheckFork, RemoveDir, DeleteRow, OpenDir, OpenFile, FillFile, InsertBlob,
       AbortAsset, Section
  <1> QED
    BY <1>2, <1>3, <1>4, <1>5, <1>6 DEF Works

LEMMA HoldersWorks ==
    ASSUME Typed, Holders, NEW c \in Calls, Works(c)
    PROVE  Holders'
  <1>1. \A d \in Calls \ {c} : call'[d] = call[d]
    BY WorksAlone
  <1>2. lock \in [Names -> Calls \union {None}] /\ None \notin Calls
    BY RepositoryLifeAssumption DEF Typed
  <1>3. ASSUME NEW n \in Names
        PROVE  Holds(n)'
    <2>1. Holds(n)
      BY DEF Holders
    <2>2. CASE lock' = Free(c)
      BY <1>1, <1>2, <2>1, <2>2 DEF Holds, Free
    <2>3. CASE lock' = lock /\ (call[c].at \in Section => call'[c].at \in Section)
      BY <1>1, <1>2, <2>1, <2>3 DEF Holds
    <2>4. CASE \E m \in Names : lock' = [lock EXCEPT ![m] = c] /\ call'[c].at \in Section
      BY <1>1, <1>2, <2>1, <2>4 DEF Holds
    <2> QED
      BY <2>2, <2>3, <2>4, LockEffects
  <1> QED
    BY <1>3 DEF Holders

LEMMA HoldersBeside ==
    ASSUME Typed, Holders, Crash \/ \E c \in Calls : Starts(c)
    PROVE  Holders'
  <1>1. CASE Crash
    BY <1>1 DEF Crash, Holders, Holds
  <1>2. ASSUME NEW c \in Calls, Starts(c)
        PROVE  Holders'
    <2>1. PICK op \in AllOps, n \in Names, src \in Names, at \in {"counted", "loaded"} : Begin(c, op, n, src, at)
      BY <1>2 DEF Starts
    <2>2. lock' = lock /\ call[c].at = "idle" /\ \A d \in Calls \ {c} : call'[d] = call[d]
      BY <2>1 DEF Begin, Typed
    <2>3. ASSUME NEW m \in Names
          PROVE  Holds(m)'
      <3>1. Holds(m)
        BY DEF Holders
      <3> QED
        BY <2>2, <3>1 DEF Holds, Section
    <2> QED
      BY <2>3 DEF Holders
  <1> QED
    BY <1>1, <1>2

LEMMA CrowdedStarts ==
    ASSUME Typed, Crowded, NEW c \in Calls, Starts(c)
    PROVE  Crowded'
  <1>1. PICK op \in AllOps, n \in Names, src \in Names, at \in {"counted", "loaded"} : Begin(c, op, n, src, at)
    BY DEF Starts
  <1>2. c \notin Makers /\ Makers \union {c} \subseteq Calls
    BY <1>1 DEF Begin, Makers, Busy
  <1>3. IsFiniteSet(Makers) /\ Cardinality(Makers) \in Nat
    BY Finite
  <1>4. IsFiniteSet(Makers \union {c}) /\ Cardinality(Makers \union {c}) = Cardinality(Makers) + 1
    BY <1>2, <1>3, FS_AddElement
  <1>5. IsFiniteSet(Calls) /\ Cardinality(Calls) \in Nat
    BY RepositoryLifeAssumption, FS_CardinalityType
  <1>6. Cardinality(Makers \union {c}) =< Cardinality(Calls)
    BY <1>2, <1>5, FS_Subset
  <1>7. crowd' \in {crowd, Cardinality(Makers) + 1}
    BY <1>1 DEF Begin
  <1> QED
    BY <1>4, <1>6, <1>7 DEF Crowded

TypeInv == Typed /\ Kinds /\ Rows /\ Holders /\ Crowded

LEMMA TypeInvSteps == TypeInv /\ [Next]_vars => TypeInv'
  <1> SUFFICES ASSUME TypeInv, [Next]_vars PROVE TypeInv'
    OBVIOUS
  <1>0. Typed /\ Kinds /\ Rows /\ Holders /\ Crowded
    BY DEF TypeInv
  <1>1. CASE UNCHANGED vars
    BY <1>0, <1>1 DEF TypeInv, vars, Typed, Kinds, Rows, Owned, Holders, Holds, Crowded
  <1>2. ASSUME NEW c \in Calls, Starts(c)
        PROVE  TypeInv'
    BY <1>0, <1>2, StartsType, RowsBeside, HoldersBeside, CrowdedStarts DEF TypeInv
  <1>3. ASSUME NEW c \in Calls, Works(c)
        PROVE  TypeInv'
    <2>1. Crowded'
      BY <1>0, <1>3, WorksType DEF Onward, Crowded
    <2> QED
      BY <1>0, <1>3, <2>1, WorksType, RowsWorks, HoldersWorks DEF TypeInv
  <1>4. CASE Crash
    <2>1. Crowded'
      BY <1>0, <1>4, CrashType DEF Onward, Crowded
    <2> QED
      BY <1>0, <1>4, <2>1, CrashType, RowsBeside, HoldersBeside DEF TypeInv
  <1> QED
    BY <1>1, <1>2, <1>3, <1>4, NextIs

LEMMA TypeInvInit == Init => TypeInv
  <1> SUFFICES ASSUME Init PROVE TypeInv
    OBVIOUS
  <1>1. Typed /\ Kinds
    BY Start
  <1>2. Rows
    <2>1. \A n \in Names : row[n] # None => row[n] = n
      BY DEF Init
    <2>2. \A c \in Calls : call[c].op = None
      BY DEF Init
    <2>3. None \notin {"delete", "push"} \union Blob
      BY RepositoryLifeAssumption DEF AllOps, Blob
    <2> QED
      BY <2>1, <2>2, <2>3 DEF Init, Rows, Owned
  <1>3. Holders
    BY DEF Init, Holders, Holds
  <1>4. Crowded
    <2>1. Cardinality(Calls) \in Nat /\ crowd = 0
      BY RepositoryLifeAssumption, FS_CardinalityType DEF Init
    <2> QED
      BY <2>1 DEF Crowded
  <1> QED
    BY <1>1, <1>2, <1>3, <1>4 DEF TypeInv

(***************************************************************************)
(* Whatever overlaps and fails: an object's row names a repository that    *)
(* there is (ON DELETE CASCADE, and the id a deletion loaded is its        *)
(* name's), and the LockRegistry's locks are held only inside the sections *)
(* they guard, so that none is left behind by a handler that is gone.      *)
(***************************************************************************)
THEOREM TypesKept == Spec => []TypeOK
  <1>1. TypeInv => TypeOK
    <2> SUFFICES ASSUME TypeInv PROVE TypeOK
      OBVIOUS
    <2>1. Typed /\ Rows /\ Holders /\ Crowded
      BY DEF TypeInv
    <2>2. crowd \in 0..Cardinality(Calls)
      <3>1. Cardinality(Calls) \in Nat
        BY RepositoryLifeAssumption, FS_CardinalityType
      <3> QED
        BY <2>1, <3>1 DEF Typed, Crowded
    <2>3. \A n \in Names : lock[n] # None => call[lock[n]].at \in {"copying", "receiving", "promoted"}
      BY <2>1 DEF Holders, Holds, Section
    <2> QED
      BY <2>1, <2>2, <2>3 DEF TypeOK, Typed, Rows
  <1> QED
    BY <1>1, TypeInvInit, TypeInvSteps, PTL DEF Spec

-----------------------------------------------------------------------------
(* A row exactly if there is a directory                                   *)

\* Between the directory and the row, and the other way round:
Maker(d, n) == call[d].name = n /\ call[d].op \in {"create", "fork"} /\ call[d].at \in {"made", "copying"}
Remover(d, n) == call[d].name = n /\ call[d].at = "removed"

\* one creation at a time, one deletion at a time,
Single(n) ==
    \A d, e \in Calls :
        \/ Maker(d, n) /\ Maker(e, n)
        \/ Remover(d, n) /\ Remover(e, n)
        => d = e

\* has one without the other; whoever writes to a repository, or is to remove
\* it, found it there,
PairOf(d, n) ==
    /\ Maker(d, n) => row[n] = None /\ dir[n] # None
    /\ Remover(d, n) => row[n] = call[d].row /\ dir[n] = None
    /\ d \in Busy /\ call[d].name = n =>
        /\ call[d].op = "fork" /\ call[d].at = "waiting" => row[n] = None /\ dir[n] = None
        /\ call[d].op = "push" \/ call[d].op \in Blob => row[n] # None /\ dir[n] # None
        /\ call[d].op = "delete" => row[n] \in {None, call[d].row}

\* and nothing else tells the two apart.
Both(n) ==
    /\ dir[n] # None => row[n] # None \/ \E d \in Calls : Maker(d, n)
    /\ row[n] # None => dir[n] # None \/ \E d \in Calls : Remover(d, n)

PairAt(n) == Single(n) /\ Both(n) /\ \A d \in Calls : PairOf(d, n)
Pairs == \A n \in Names \ raced : PairAt(n)

\* What a fork reads from stays.
SourceAt(d) ==
    call[d].op = "fork" /\ call[d].at \in {"waiting", "copying"} /\ call[d].name \notin raced
        => dir[call[d].src] # None
Sources == \A d \in Calls : SourceAt(d)

\* Of two under way on a name, unless it is raced: what they cannot be.
LEMMA Alone ==
    ASSUME Met, NEW c \in Busy, NEW d \in Busy, c # d, call[c].name = call[d].name, call[c].name \notin raced
    PROVE  /\ call[c].op = "delete" <=> call[d].op = "delete"
           /\ call[c].op = "fork" => call[d].op \notin {"create", "fork", "push"}
           /\ call[d].op = "fork" => call[c].op \notin {"create", "fork", "push"}
  BY DEF Met, Meet

LEMMA AtWork ==
    ASSUME Kinds, NEW d \in Calls, NEW n
    PROVE  /\ Maker(d, n) => d \in Busy /\ call[d].op # "delete"
           /\ Remover(d, n) => d \in Busy /\ call[d].op = "delete"
           /\ Maker(d, n) /\ call[d].at = "copying" => call[d].op = "fork"
  BY DEF Maker, Remover, Busy, Over, Kinds, Kind, Fits

LEMMA DirElsewhere ==
    ASSUME Typed, Kinds, NEW c \in Calls, Works(c), NEW n \in Names, n # call[c].name
    PROVE  dir'[n] = dir[n]
  <1> DEFINE m == call[c].name
  <1>0. m \in Names /\ dir \in [Names -> Dir \union {None}] /\ m # n
    BY DEF Typed, Call
  <1> HIDE DEF m
  <1> QED
    BY <1>0, Effects DEF Opens, Files, CopyPart, PromotePush, LandPush, m

LEMMA RowElsewhere ==
    ASSUME Typed, Kinds, Rows, NEW c \in Calls, Works(c), NEW n \in Names, n # call[c].name
    PROVE  row'[n] = row[n]
  <1>0. row \in [Names -> Id \union {None}] /\ call[c].name \in Names
    BY DEF Typed, Call
  <1>1. CASE DeleteRow(c)
    <2>1. call[c].op = "delete"
      BY <1>1 DEF DeleteRow, Kinds, Kind, Fits
    <2>2. row[n] # None => row[n] # call[c].row
      BY <1>0, <2>1, OwnerUnique DEF Rows
    <2> QED
      BY <1>1, <2>2 DEF DeleteRow
  <1> QED
    BY <1>0, <1>1, RowEffects

LEMMA SourcesWorks ==
    ASSUME Typed, Kinds, Met, Sources, NEW c \in Busy, Works(c), ~Drop(c), ~Fail(c)
    PROVE  Sources'
  <1>0. c \in Calls
    BY DEF Busy
  <1>1. Onward /\ \A d \in Calls \ {c} : call'[d] = call[d]
    BY <1>0, WorksType, WorksAlone
  <1>2. ASSUME NEW d \in Calls, call[d].op = "fork", call'[d].at \in {"waiting", "copying"}, call[d].name \notin raced
        PROVE  dir'[call[d].src] # None
    <2>1. PICK s \in Names : s = call[d].src
      BY DEF Typed, Call
    <2>2. dir[s] # None
      <3>1. CASE call[d].at \in {"waiting", "copying"}
        BY <1>2, <2>1, <3>1 DEF Sources, SourceAt
      <3>2. CASE call[d].at \notin {"waiting", "copying"}
        <4>1. d = c
          BY <1>1, <1>2, <3>2
        <4>2. CheckFork(c) \/ OpenDir(c)
          BY <1>0, <1>2, <3>2, <4>1, Arrives DEF LockSource, CopyPart
        <4>3. CheckFork(c)
          BY <1>2, <4>1, <4>2 DEF OpenDir
        <4>4. Goto(c, "waiting") \/ Goto(c, "refused")
          BY <4>3 DEF CheckFork
        <4>5. \A q : Goto(c, q) => call'[c].at = q
          BY <1>0 DEF Goto, Typed, Call
        <4>6. ~Goto(c, "refused")
          BY <1>2, <4>1, <4>5
        <4> QED
          BY <2>1, <4>1, <4>3, <4>6 DEF CheckFork
      <3> QED
        BY <3>1, <3>2
    <2>3. ~(call[c].op = "delete" /\ call[c].name = s)
      <3>1. ASSUME call[c].op = "delete", call[c].name = s
            PROVE  FALSE
        <4>1. d # c
          BY <1>2, <3>1
        <4>2. d \in Busy
          BY <1>1, <1>2, <4>1 DEF Busy, Over
        <4> QED
          BY <1>2, <2>1, <3>1, <4>1, <4>2 DEF Met, Meet
      <3> QED
        BY <3>1
    <2> QED
      BY <1>0, <2>1, <2>2, <2>3, Stays
  <1>3. ASSUME NEW d \in Calls
        PROVE  SourceAt(d)'
    BY <1>1, <1>2 DEF SourceAt, Onward
  <1> QED
    BY <1>3 DEF Sources

\* A step that neither begins nor ends a creation or a deletion of the name.
LEMMA PairSteady ==
    ASSUME NEW c \in Calls, NEW n, PairAt(n), Onward, \A d \in Calls \ {c} : call'[d] = call[d],
           row'[n] = row[n], dir'[n] = None <=> dir[n] = None,
           Maker(c, n)' <=> Maker(c, n), Remover(c, n)' <=> Remover(c, n),
           call[c].op = "fork" /\ call[c].name = n /\ call'[c].at = "waiting" => row[n] = None /\ dir[n] = None
    PROVE  PairAt(n)'
  <1>1. \A d \in Calls : (Maker(d, n)' <=> Maker(d, n)) /\ (Remover(d, n)' <=> Remover(d, n))
    BY DEF Maker, Remover
  <1>2. /\ \A d \in Calls : call'[d].op = call[d].op /\ call'[d].name = call[d].name /\ call'[d].row = call[d].row
        /\ Busy' \subseteq Busy
    BY OnwardMakers DEF Onward
  <1>3. Single(n)' /\ Both(n)'
    BY <1>1 DEF PairAt, Single, Both
  <1>4. ASSUME NEW d \in Calls
        PROVE  PairOf(d, n)'
    <2>1. PairOf(d, n)
      BY DEF PairAt
    <2>2. call'[d].at # call[d].at => d = c
      OBVIOUS
    <2> QED
      BY <1>1, <1>2, <2>1, <2>2 DEF PairOf
  <1> QED
    BY <1>3, <1>4 DEF PairAt

\* A step that does, beside requests that are neither making nor removing it.
Bystander(d, n) ==
    /\ ~Maker(d, n) /\ ~Remover(d, n)
    /\ ~(call[d].op = "fork" /\ call[d].name = n /\ call[d].at = "waiting")

LEMMA PairAnew ==
    ASSUME NEW c \in Calls, NEW n, Onward, \A d \in Calls \ {c} : call'[d] = call[d],
           \A d \in Calls \ {c} : d \in Busy /\ call[d].name = n =>
                /\ Bystander(d, n)
                /\ call[d].op = "push" \/ call[d].op \in Blob => row'[n] # None /\ dir'[n] # None
                /\ call[d].op = "delete" => row'[n] \in {None, call[d].row},
           PairOf(c, n)',
           dir'[n] # None => row'[n] # None \/ Maker(c, n)',
           row'[n] # None => dir'[n] # None \/ Remover(c, n)'
    PROVE  PairAt(n)'
  <1>1. /\ \A d \in Calls : call'[d].op = call[d].op /\ call'[d].name = call[d].name /\ call'[d].row = call[d].row
        /\ Busy' \subseteq Busy
    BY OnwardMakers DEF Onward
  <1>2. \A d \in Calls \ {c} : ~Maker(d, n)' /\ ~Remover(d, n)'
    BY DEF Bystander, Maker, Remover, Busy, Over
  <1>3. Single(n)' /\ Both(n)'
    BY <1>2 DEF Single, Both
  <1>4. ASSUME NEW d \in Calls \ {c}
        PROVE  PairOf(d, n)'
    BY <1>1, <1>2 DEF PairOf, Bystander
  <1> QED
    BY <1>3, <1>4 DEF PairAt

LEMMA PairMakes ==
    ASSUME Typed, Kinds, Met, NEW c \in Busy, Works(c), NEW n \in Names \ raced, n = call[c].name, PairAt(n),
           MakeDir(c) \/ LockSource(c) \/ InsertRow(c)
    PROVE  PairAt(n)'
  <1>0. c \in Calls /\ call[c] \in Call /\ call \in [Calls -> Call] /\ Kind(call[c]) /\ c # None
        /\ row \in [Names -> Id \union {None}] /\ dir \in [Names -> Dir \union {None}] /\ Bare # None
    BY DirTypes, RepositoryLifeAssumption DEF Busy, Typed, Kinds
  <1>1. Onward /\ \A d \in Calls \ {c} : call'[d] = call[d]
    BY <1>0, WorksType, WorksAlone
  <1>2. \A q : Goto(c, q) => call'[c].at = q
    BY <1>0 DEF Goto, Call
  <1>3. Both(n) /\ Single(n) /\ \A d \in Calls : PairOf(d, n)
    BY DEF PairAt
  <1>4. call'[c].op = call[c].op /\ call'[c].name = n
    BY <1>0, <1>1 DEF Onward
  <1>5. call[c].op \in {"create", "fork"}
    BY <1>0 DEF MakeDir, LockSource, InsertRow, Kind, Fits
  <1>6. \A d \in Busy \ {c} : call[d].name = n =>
            /\ call[d].op \notin {"delete", "fork"}
            /\ call[c].op = "fork" => call[d].op \notin {"create", "push"}
    BY <1>5, Alone
  <1>7. \A d \in Calls \ {c} : ~Remover(d, n) /\ (d \in Busy /\ call[d].name = n =>
            call[d].op # "delete" /\ ~(call[d].op = "fork" /\ call[d].name = n /\ call[d].at = "waiting"))
    <2>1. \A d \in Calls : Remover(d, n) => d \in Busy /\ call[d].op = "delete" /\ call[d].name = n
      BY AtWork DEF Remover
    <2> QED
      BY <1>6, <2>1
  <1>8. CASE MakeDir(c)
    <2>1. \/ dir[n] # None /\ Goto(c, "refused") /\ dir' = dir /\ row' = row
          \/ dir[n] = None /\ dir'[n] = Bare /\ Goto(c, "made") /\ row' = row
      BY <1>0, <1>8 DEF MakeDir
    <2>2. call[c].at = "counted" /\ call[c].op = "create" /\ ~Maker(c, n) /\ ~Remover(c, n)
      BY <1>8 DEF MakeDir, Maker, Remover
    <2>3. CASE dir[n] # None /\ Goto(c, "refused") /\ dir' = dir /\ row' = row
      <3>1. ~Maker(c, n)' /\ ~Remover(c, n)' /\ call'[c].at # "waiting"
        BY <1>2, <2>3 DEF Maker, Remover
      <3> QED
        BY <1>0, <1>1, <2>2, <2>3, <3>1, PairSteady
    <2>4. CASE dir[n] = None /\ dir'[n] = Bare /\ Goto(c, "made") /\ row' = row
      <3>1. row[n] = None
        BY <1>3, <1>7, <2>2, <2>4 DEF Both
      <3>2. \A d \in Calls \ {c} : ~Maker(d, n) /\ (d \in Busy /\ call[d].name = n => call[d].op # "push" /\ call[d].op \notin Blob)
        BY <1>3, <2>4 DEF PairOf
      <3>3. Maker(c, n)' /\ ~Remover(c, n)' /\ call'[c].op = "create"
        BY <1>2, <1>4, <2>2, <2>4 DEF Maker, Remover
      <3>4. PairOf(c, n)'
        BY <1>0, <2>4, <3>1, <3>3 DEF PairOf, Blob
      <3>5. \A d \in Calls \ {c} : d \in Busy /\ call[d].name = n => Bystander(d, n)
        BY <1>7, <3>2 DEF Bystander
      <3> QED
        BY <1>0, <1>1, <1>7, <2>4, <3>1, <3>2, <3>3, <3>4, <3>5, PairAnew
    <2> QED
      BY <2>1, <2>3, <2>4
  <1>9. CASE LockSource(c)
    <2>1. call[c].op = "fork" /\ call[c].at = "waiting" /\ Goto(c, "copying") /\ row' = row
      BY <1>9 DEF LockSource
    <2>2. row[n] = None /\ dir[n] = None
      BY <1>0, <1>3, <2>1 DEF PairOf
    <2>3. dir'[n] = Bare
      BY <1>0, <1>9, <2>2 DEF LockSource
    <2>4. \A d \in Calls \ {c} : ~Maker(d, n) /\ (d \in Busy /\ call[d].name = n => call[d].op # "push" /\ call[d].op \notin Blob)
      BY <1>3, <2>2 DEF PairOf
    <2>5. Maker(c, n)' /\ ~Remover(c, n)' /\ call'[c].op = "fork" /\ call'[c].at = "copying"
      BY <1>2, <1>4, <2>1 DEF Maker, Remover
    <2>6. PairOf(c, n)'
      BY <1>0, <2>1, <2>2, <2>3, <2>5 DEF PairOf, Blob
    <2>7. \A d \in Calls \ {c} : d \in Busy /\ call[d].name = n => Bystander(d, n)
      BY <1>7, <2>4 DEF Bystander
    <2> QED
      BY <1>0, <1>1, <1>7, <2>1, <2>2, <2>3, <2>4, <2>5, <2>6, <2>7, PairAnew
  <1>10. CASE InsertRow(c)
    <2>1. Maker(c, n) /\ dir' = dir
      BY <1>5, <1>10 DEF InsertRow, Maker
    <2>2. row[n] = None /\ dir[n] # None
      BY <1>0, <1>3, <2>1 DEF PairOf
    <2>3. row'[n] = c /\ Goto(c, "done")
      BY <1>0, <1>10, <2>2 DEF InsertRow
    <2>4. \A d \in Calls \ {c} : ~Maker(d, n)
      BY <1>0, <1>3, <2>1 DEF Single
    <2>5. ~Maker(c, n)' /\ ~Remover(c, n)' /\ c \notin Busy'
      BY <1>2, <2>3 DEF Maker, Remover, Busy, Over
    <2>6. PairOf(c, n)'
      BY <2>5 DEF PairOf
    <2>7. \A d \in Calls \ {c} : d \in Busy /\ call[d].name = n => Bystander(d, n)
      BY <1>7, <2>4 DEF Bystander
    <2> QED
      BY <1>0, <1>1, <1>7, <2>1, <2>2, <2>3, <2>6, <2>7, PairAnew
  <1> QED
    BY <1>8, <1>9, <1>10

LEMMA PairRemoves ==
    ASSUME Typed, Kinds, Met, NEW c \in Busy, Works(c), NEW n \in Names \ raced, n = call[c].name, PairAt(n),
           RemoveDir(c) \/ DeleteRow(c)
    PROVE  PairAt(n)'
  <1>0. c \in Calls /\ call[c] \in Call /\ call \in [Calls -> Call] /\ Kind(call[c])
        /\ row \in [Names -> Id \union {None}] /\ dir \in [Names -> Dir \union {None}]
    BY DEF Busy, Typed, Kinds
  <1>1. Onward /\ \A d \in Calls \ {c} : call'[d] = call[d]
    BY <1>0, WorksType, WorksAlone
  <1>2. \A q : Goto(c, q) => call'[c].at = q
    BY <1>0 DEF Goto, Call
  <1>3. Both(n) /\ Single(n) /\ \A d \in Calls : PairOf(d, n)
    BY DEF PairAt
  <1>4. call'[c].op = call[c].op /\ call'[c].name = n /\ call'[c].row = call[c].row
    BY <1>0, <1>1 DEF Onward
  <1>5. call[c].op = "delete"
    BY <1>0 DEF RemoveDir, DeleteRow, Kind, Fits
  <1>6. \A d \in Busy \ {c} : call[d].name = n => call[d].op = "delete"
    BY <1>5, Alone
  <1>7. \A d \in Calls : ~Maker(d, n)
    <2>1. \A d \in Calls : Maker(d, n) => d \in Busy /\ call[d].op # "delete" /\ call[d].name = n
      BY AtWork DEF Maker
    <2> QED
      BY <1>5, <1>6, <2>1
  <1>8. CASE RemoveDir(c)
    <2>1. \/ dir[n] = None /\ Goto(c, "refused") /\ dir' = dir /\ row' = row
          \/ dir[n] # None /\ dir'[n] = None /\ Goto(c, "removed") /\ row' = row
      BY <1>0, <1>8 DEF RemoveDir
    <2>2. call[c].at = "loaded" /\ ~Maker(c, n) /\ ~Remover(c, n)
      BY <1>8 DEF RemoveDir, Maker, Remover
    <2>3. CASE dir[n] = None /\ Goto(c, "refused") /\ dir' = dir /\ row' = row
      <3>1. ~Maker(c, n)' /\ ~Remover(c, n)' /\ call'[c].at # "waiting"
        BY <1>2, <2>3 DEF Maker, Remover
      <3> QED
        BY <1>0, <1>1, <2>2, <2>3, <3>1, PairSteady
    <2>4. CASE dir[n] # None /\ dir'[n] = None /\ Goto(c, "removed") /\ row' = row
      <3>1. row[n] = call[c].row
        BY <1>0, <1>3, <1>5, <1>7, <2>4 DEF Both, PairOf
      <3>2. \A d \in Calls \ {c} : ~Remover(d, n)
        BY <1>3, <2>4 DEF PairOf
      <3>3. Remover(c, n)' /\ ~Maker(c, n)' /\ call'[c].op = "delete"
        BY <1>2, <1>4, <1>5, <2>4 DEF Maker, Remover
      <3>4. PairOf(c, n)'
        BY <1>4, <2>4, <3>1, <3>3 DEF PairOf, Blob
      <3>5. \A d \in Calls \ {c} : d \in Busy /\ call[d].name = n =>
                /\ Bystander(d, n) /\ call[d].op = "delete"
                /\ row'[n] \in {None, call[d].row}
        BY <1>3, <1>6, <1>7, <2>4, <3>2 DEF Bystander, PairOf
      <3> QED
        BY <1>0, <1>1, <2>4, <3>3, <3>4, <3>5, PairAnew DEF Blob
    <2> QED
      BY <2>1, <2>3, <2>4
  <1>9. CASE DeleteRow(c)
    <2>1. Remover(c, n) /\ dir' = dir /\ Goto(c, "done")
      BY <1>9 DEF DeleteRow, Remover
    <2>2. row[n] = call[c].row /\ dir[n] = None
      BY <1>0, <1>3, <2>1 DEF PairOf
    <2>3. row'[n] = None
      BY <1>9, <2>2 DEF DeleteRow
    <2>4. \A d \in Calls \ {c} : ~Remover(d, n)
      BY <1>0, <1>3, <2>1 DEF Single
    <2>5. ~Maker(c, n)' /\ ~Remover(c, n)' /\ c \notin Busy'
      BY <1>2, <2>1 DEF Maker, Remover, Busy, Over
    <2>6. PairOf(c, n)'
      BY <2>5 DEF PairOf
    <2>7. \A d \in Calls \ {c} : d \in Busy /\ call[d].name = n => Bystander(d, n) /\ call[d].op = "delete"
      BY <1>6, <1>7, <2>4 DEF Bystander
    <2> QED
      BY <1>0, <1>1, <2>1, <2>2, <2>3, <2>6, <2>7, PairAnew DEF Blob
  <1> QED
    BY <1>8, <1>9

LEMMA PairCopies ==
    ASSUME Typed, Kinds, Met, Locked, Sources, NEW c \in Busy, Works(c),
           NEW n \in Names \ raced, n = call[c].name, PairAt(n),
           CheckFork(c) \/ EndCopy(c) \/ \E part \in {"objects", "refs"} : CopyPart(c, part)
    PROVE  PairAt(n)'
  <1>0. c \in Calls /\ call[c] \in Call /\ call \in [Calls -> Call] /\ Kind(call[c])
    BY DEF Busy, Typed, Kinds
  <1>1. Onward /\ \A d \in Calls \ {c} : call'[d] = call[d]
    BY <1>0, WorksType, WorksAlone
  <1>2. \A q : Goto(c, q) => call'[c].at = q
    BY <1>0 DEF Goto, Call
  <1>3. Both(n) /\ \A d \in Calls : PairOf(d, n)
    BY DEF PairAt
  <1>4. call'[c].op = call[c].op /\ call'[c].name = n /\ call[c].op = "fork"
    BY <1>0, <1>1 DEF Onward, CheckFork, EndCopy, CopyPart, Kind, Fits
  <1>5. CASE CheckFork(c)
    <2>1. /\ call[c].at = "counted" /\ row' = row /\ dir' = dir
          /\ Goto(c, "refused") \/ (Goto(c, "waiting") /\ dir[n] = None)
      BY <1>5 DEF CheckFork
    <2>2. dir[n] = None => row[n] = None
      <3>1. ASSUME NEW d \in Calls, Remover(d, n)
            PROVE  FALSE
        <4>1. d \in Busy /\ call[d].op = "delete" /\ call[d].name = n
          BY <3>1, AtWork DEF Remover
        <4> QED
          BY <1>4, <4>1, Alone
      <3> QED
        BY <1>3, <3>1 DEF Both
    <2>3. /\ Maker(c, n)' <=> Maker(c, n) 
          /\ Remover(c, n)' <=> Remover(c, n)
          /\ call'[c].at = "waiting" => dir[n] = None
      BY <1>2, <2>1 DEF Maker, Remover
    <2> QED
      BY <1>0, <1>1, <2>1, <2>2, <2>3, PairSteady
  <1>6. CASE EndCopy(c)
    <2>1. call[c].at = "copying" /\ row' = row /\ dir' = dir
      BY <1>6 DEF EndCopy
    <2>2. dir[call[c].src] # None /\ lock[call[c].src] = c
      BY <1>0, <1>4, <2>1 DEF Sources, SourceAt, Locked, LockedAt
    <2>3. Goto(c, "made")
      BY <1>6, <2>2 DEF EndCopy
    <2>4. call'[c].at = "made"
      BY <1>2, <2>3
    <2>5. Maker(c, n) /\ Maker(c, n)' /\ ~Remover(c, n) /\ ~Remover(c, n)'
      BY <1>4, <2>1, <2>4 DEF Maker, Remover
    <2> QED
      BY <1>0, <1>1, <2>1, <2>4, <2>5, PairSteady
  <1>7. ASSUME NEW part \in {"objects", "refs"}, CopyPart(c, part)
        PROVE  PairAt(n)'
    <2>1. call[c].at = "copying" /\ row' = row /\ call'[c].at = "copying"
      BY <1>0, <1>7 DEF CopyPart, Call
    <2>2. Maker(c, n) /\ Maker(c, n)' /\ ~Remover(c, n) /\ ~Remover(c, n)'
      BY <1>4, <2>1 DEF Maker, Remover
    <2>3. dir[n] # None
      BY <1>0, <1>3, <2>2 DEF PairOf
    <2>4. dir'[n] # None
      BY <1>0, <1>4, <2>3, Stays
    <2> QED
      BY <1>0, <1>1, <2>1, <2>2, <2>3, <2>4, PairSteady
  <1> QED
    BY <1>5, <1>6, <1>7

LEMMA PairWrites ==
    ASSUME Typed, Kinds, NEW c \in Busy, Works(c), NEW n \in Names, n = call[c].name, PairAt(n),
           call[c].op \in {"push"} \union Blob
    PROVE  PairAt(n)' /\ row' = row /\ row[n] # None /\ dir[n] # None /\ dir'[n] # None
  <1>0. c \in Calls /\ Kind(call[c])
    BY DEF Busy, Kinds
  <1>1. Onward /\ Kinds' /\ \A d \in Calls \ {c} : call'[d] = call[d]
    BY <1>0, WorksType, WorksAlone
  <1>2. call'[c].op = call[c].op /\ Kind(call'[c])
    BY <1>0, <1>1 DEF Onward, Kinds
  <1>3. row[n] # None /\ dir[n] # None
    BY <1>0 DEF PairAt, PairOf
  <1>4. dir'[n] # None
    BY <1>0, <1>3, Stays DEF Blob
  <1>5. row' = row
    BY <1>0, RowEffects DEF InsertRow, DeleteRow, Kind, Fits, Blob
  <1>6. /\ ~Maker(c, n) /\ ~Remover(c, n) /\ ~Maker(c, n)' /\ ~Remover(c, n)'
        /\ call[c].op # "fork"
    BY <1>0, <1>2 DEF Maker, Remover, Kind, Fits, Blob
  <1> QED
    BY <1>0, <1>1, <1>3, <1>4, <1>5, <1>6, PairSteady

LEMMA PairsWorks ==
    ASSUME Typed, Kinds, Rows, Met, Locked, Sources, Pairs, NEW c \in Busy, Works(c), ~Drop(c), ~Fail(c)
    PROVE  Pairs'
  <1>0. c \in Calls /\ Kind(call[c])
    BY DEF Busy, Kinds
  <1>1. Onward /\ \A d \in Calls \ {c} : call'[d] = call[d]
    BY <1>0, WorksType, WorksAlone
  <1>2. ASSUME NEW n \in Names \ raced
        PROVE  PairAt(n)'
    <2>0. PairAt(n)
      BY DEF Pairs
    <2>1. CASE n # call[c].name
      <3>1. dir'[n] = dir[n] /\ row'[n] = row[n]
        BY <1>0, <2>1, DirElsewhere, RowElsewhere
      <3>2. ~Maker(c, n) /\ ~Remover(c, n) /\ ~Maker(c, n)' /\ ~Remover(c, n)'
        BY <1>0, <1>1, <2>1 DEF Maker, Remover, Onward
      <3> QED
        BY <1>0, <1>1, <2>0, <2>1, <3>1, <3>2, PairSteady
    <2>2. CASE n = call[c].name
      <3>1. \/ MakeDir(c) \/ LockSource(c) \/ InsertRow(c)
            \/ RemoveDir(c) \/ DeleteRow(c)
            \/ CheckFork(c) \/ EndCopy(c) \/ \E part \in {"objects", "refs"} : CopyPart(c, part)
            \/ call[c].op \in {"push"} \union Blob
        BY <1>0 DEF Works, OpenDir, LockPush, PromotePush, RejectPush, LandPush, OpenFile, FillFile, InsertBlob,
           AbortAsset, Kind, Fits, Blob
      <3>2. CASE MakeDir(c) \/ LockSource(c) \/ InsertRow(c)
        BY <2>0, <2>2, <3>2, PairMakes
      <3>3. CASE RemoveDir(c) \/ DeleteRow(c)
        BY <2>0, <2>2, <3>3, PairRemoves
      <3>4. CASE CheckFork(c) \/ EndCopy(c) \/ \E part \in {"objects", "refs"} : CopyPart(c, part)
        BY <2>0, <2>2, <3>4, PairCopies
      <3>5. CASE call[c].op \in {"push"} \union Blob
        BY <2>0, <2>2, <3>5, PairWrites
      <3> QED
        BY <3>1, <3>2, <3>3, <3>4, <3>5
    <2> QED
      BY <2>1, <2>2
  <1> QED
    BY <1>1, <1>2 DEF Pairs, Onward

LEMMA PairsStarts ==
    ASSUME Typed, Kinds, Met, Sources, Pairs, NEW c \in Calls, Starts(c)
    PROVE  Sources' /\ Pairs'
  <1>1. /\ Met' /\ raced \subseteq raced' /\ UNCHANGED <<row, dir>>
        /\ call[c].at = "idle" /\ call'[c].at \in {"counted", "loaded"}
        /\ \A d \in Calls \ {c} : call'[d] = call[d]
    BY MetStarts
  <1>2. Sources'
    <2>1. ASSUME NEW d \in Calls
          PROVE  SourceAt(d)'
      <3>1. SourceAt(d)
        BY DEF Sources
      <3> QED
        BY <1>1, <3>1 DEF SourceAt
    <2> QED
      BY <2>1 DEF Sources
  <1>3. PICK op \in AllOps, m \in Names, src \in Names, at \in {"counted", "loaded"} :
           Begin(c, op, m, src, at) /\ (op \notin {"create", "fork"} => row[m] # None)
    BY DEF Starts
  <1> DEFINE y == [op |-> op, name |-> m, src |-> src, row |-> row[m], at |-> at, copied |-> {}]
  <1>4. call' = [call EXCEPT ![c] = y]
    BY <1>3 DEF Begin
  <1>5. call'[c].op = op /\ call'[c].name = m /\ call'[c].row = row[m]
    BY <1>4 DEF Typed
  <1> HIDE DEF y
  <1>6. ASSUME NEW n \in Names \ raced'
        PROVE  PairAt(n)'
    <2>0. PairAt(n)
      BY <1>1 DEF Pairs
    <2>1. ~Maker(c, n) /\ ~Remover(c, n) /\ ~Maker(c, n)' /\ ~Remover(c, n)'
      BY <1>1 DEF Maker, Remover
    <2>2. Single(n)' /\ Both(n)'
      <3>1. \A d \in Calls : (Maker(d, n)' <=> Maker(d, n)) /\ (Remover(d, n)' <=> Remover(d, n))
        BY <1>1, <2>1 DEF Maker, Remover
      <3> QED
        BY <1>1, <2>0, <3>1 DEF PairAt, Single, Both
    <2>3. ASSUME NEW d \in Calls
          PROVE  PairOf(d, n)'
      <3>1. CASE d # c
        BY <1>1, <2>0, <3>1 DEF PairAt, PairOf, Maker, Remover, Busy
      <3>2. CASE d = c
        <4>1. ASSUME m = n, op \in {"push"} \union Blob
              PROVE  row[n] # None /\ dir[n] # None
          <5>1. row[n] # None
            BY <1>3, <4>1 DEF Blob
          <5>2. ASSUME NEW e \in Calls, Remover(e, n)
                PROVE  FALSE
            <6>1. e # c /\ e \in Busy /\ call[e].op = "delete" /\ call[e].name = n
              BY <2>1, <5>2, AtWork DEF Remover
            <6>2. e \in Busy' /\ c \in Busy' /\ call'[e] = call[e]
              BY <1>1, <6>1 DEF Busy, Over
            <6> QED
              BY <1>1, <1>5, <4>1, <6>1, <6>2 DEF Met, Meet, Blob
          <5> QED
            BY <2>0, <5>1, <5>2 DEF PairAt, Both
        <4> QED
          BY <1>1, <1>5, <2>1, <3>2, <4>1 DEF PairOf
      <3> QED
        BY <3>1, <3>2
    <2> QED
      BY <2>2, <2>3 DEF PairAt
  <1>7. Pairs'
    BY <1>6 DEF Pairs
  <1> QED
    BY <1>2, <1>7

-----------------------------------------------------------------------------
(* An object's row only with its file                                      *)

\* The file is there, or whoever emptied it is filling it.
Here(n) ==
    \/ "lfs" \in dir[n].files
    \/ \E d \in Calls : call[d].op = "lfs" /\ call[d].name = n /\ call[d].at = "torn"

LfsAt(n) ==
    /\ row[n] # None /\ dir[n] # None /\ <<row[n], "lfs">> \in blobs => Here(n)
    /\ \A d \in Calls : call[d].op = "lfs" /\ call[d].name = n /\ call[d].at = "written" => Here(n)
Objects == \A n \in Names \ raced : LfsAt(n)

\* No other step takes a file away but its removal with the directory.
LEMMA FilesKept ==
    ASSUME Typed, Kinds, NEW c \in Calls, Works(c), NEW n \in Names, dir[n] # None, dir'[n] # None,
           "lfs" \in dir[n].files
    PROVE  "lfs" \in dir'[n].files \/ (OpenFile(c) /\ call[c].op = "lfs" /\ call[c].name = n)
  <1>0. /\ dir \in [Names -> Dir \union {None}] /\ dir[n] \in Dir /\ Open(dir[n]) = dir[n] /\ Kind(call[c])
        /\ call[c].src \in Names
    BY OpenFacts DEF Typed, Kinds, Call
  <1>1. CASE dir'[n] = dir[n]
    BY <1>1
  <1>2. CASE dir'[n] # dir[n]
    <2>0. call[c].name = n
      BY <1>2, DirElsewhere
    <2>1. CASE MakeDir(c) \/ LockSource(c) \/ RejectPush(c) \/ RemoveDir(c)
      BY <1>0, <1>2, <2>0, <2>1 DEF MakeDir, LockSource, RejectPush, RemoveDir
    <2>2. ASSUME NEW part \in {"objects", "refs"}, CopyPart(c, part)
          PROVE  "lfs" \in dir'[n].files
      <3>1. PICK f \in Dir : dir'[n] = Overlay(f, part, dir[n])
        BY <1>0, <2>0, <2>2 DEF CopyPart
      <3> QED
        BY <1>0, <3>1 DEF Overlay, Dir
    <2>3. CASE PromotePush(c)
      BY <1>0, <2>0, <2>3 DEF PromotePush, Dir
    <2>4. CASE LandPush(c)
      BY <1>0, <2>0, <2>4 DEF LandPush, Dir
    <2>5. CASE OpenFile(c)
      <3>1. CASE call[c].op # "lfs"
        <4>1. dir'[n] = [dir[n] EXCEPT !.files = @ \ {call[c].op}]
          BY <1>0, <2>0, <2>5 DEF OpenFile
        <4> QED
          BY <1>0, <3>1, <4>1 DEF Dir
      <3> QED
        BY <2>0, <2>5, <3>1
    <2>6. CASE FillFile(c)
      <3>1. dir'[n] = [dir[n] EXCEPT !.files = @ \union {call[c].op}]
        BY <1>0, <2>0, <2>6 DEF FillFile
      <3> QED
        BY <1>0, <3>1 DEF Dir
    <2>7. CASE InsertBlob(c) \/ AbortAsset(c)
      <3>1. dir'[n] = [dir[n] EXCEPT !.files = @ \ {"asset"}]
        BY <1>0, <1>2, <2>0, <2>7 DEF InsertBlob, AbortAsset
      <3> QED
        BY <1>0, <3>1 DEF Dir
    <2>8. CASE \/ InsertRow(c) \/ CheckFork(c) \/ EndCopy(c) \/ DeleteRow(c) \/ OpenDir(c) \/ LockPush(c)
               \/ Drop(c) \/ Fail(c)
      BY <1>2, <2>8 DEF InsertRow, CheckFork, EndCopy, DeleteRow, OpenDir, LockPush, Drop, Fail
    <2> QED
      BY <2>1, <2>2, <2>3, <2>4, <2>5, <2>6, <2>7, <2>8 DEF Works
  <1> QED
    BY <1>1, <1>2

LEMMA Filled ==
    ASSUME Typed, NEW c \in Calls, FillFile(c), NEW n \in Names, n = call[c].name, dir[n] # None
    PROVE  call[c].op \in dir'[n].files
  <1>1. dir \in [Names -> Dir \union {None}] /\ dir[n] \in Dir
    BY DEF Typed
  <1>2. dir'[n] = [dir[n] EXCEPT !.files = @ \union {call[c].op}]
    BY <1>1 DEF FillFile
  <1> QED
    BY <1>1, <1>2 DEF Dir

LEMMA HereKeeps ==
    ASSUME Typed, Kinds, NEW c \in Calls, Works(c), ~Drop(c), ~Fail(c),
           NEW n \in Names, dir[n] # None, dir'[n] # None, Here(n)
    PROVE  Here(n)'
  <1>0. Onward /\ \A d \in Calls \ {c} : call'[d] = call[d]
    BY WorksType, WorksAlone
  <1>1. CASE "lfs" \in dir[n].files
    <2>1. CASE OpenFile(c) /\ call[c].op = "lfs" /\ call[c].name = n
      <3>1. call'[c].at = "torn"
        BY <2>1 DEF OpenFile, Goto, Typed, Call
      <3> QED
        BY <1>0, <2>1, <3>1 DEF Here, Onward
    <2> QED
      BY <1>1, <2>1, FilesKept DEF Here
  <1>2. ASSUME NEW d \in Calls, call[d].op = "lfs", call[d].name = n, call[d].at = "torn"
        PROVE  Here(n)'
    <2>1. CASE d # c
      BY <1>0, <1>2, <2>1 DEF Here
    <2>2. CASE d = c
      <3>1. FillFile(c)
        BY <1>2, <2>2 DEF Works, MakeDir, InsertRow, CheckFork, LockSource, EndCopy, CopyPart, RemoveDir, DeleteRow,
           OpenDir, LockPush, PromotePush, RejectPush, LandPush, OpenFile, InsertBlob, AbortAsset
      <3> QED
        BY <1>2, <2>2, <3>1, Filled DEF Here
    <2> QED
      BY <2>1, <2>2
  <1> QED
    BY <1>1, <1>2 DEF Here

LEMMA ObjectsWorks ==
    ASSUME Typed, Kinds, Rows, Pairs, Pairs', Objects, NEW c \in Busy, Works(c), ~Drop(c), ~Fail(c)
    PROVE  Objects'
  <1>0. c \in Calls /\ Kind(call[c]) /\ call[c].name \in Names
    BY DEF Busy, Kinds, Typed, Call
  <1>1. Onward /\ raced' = raced /\ \A d \in Calls \ {c} : call'[d] = call[d]
    BY <1>0, WorksType, WorksAlone DEF Onward
  <1>2. \A q : Goto(c, q) => call'[c].at = q
    BY <1>0 DEF Goto, Typed, Call
  <1>3. ASSUME NEW n \in Names \ raced
        PROVE  LfsAt(n)'
    <2>0. PairAt(n) /\ PairAt(n)' /\ LfsAt(n)
      BY <1>1 DEF Pairs, Objects
    <2>k. dir[n] # None /\ dir'[n] # None /\ Here(n) => Here(n)'
      BY <1>0, HereKeeps
    <2>1. ASSUME NEW d \in Calls, call[d].op = "lfs", call[d].name = n, call[d].at = "written"
          PROVE  Here(n) /\ dir[n] # None
      <3>1. d \in Busy /\ call[d].op \in Blob
        BY <2>1 DEF Busy, Over, Blob
      <3> QED
        BY <2>0, <2>1, <3>1 DEF LfsAt, PairAt, PairOf
    <2>2. ASSUME NEW d \in Calls, call[d].op = "lfs", call[d].name = n, call'[d].at = "written"
          PROVE  Here(n)'
      <3>1. call'[d].op = "lfs" /\ call'[d].name = n /\ d \in Busy'
        BY <1>1, <2>2 DEF Onward, Busy, Over
      <3>2. dir'[n] # None
        BY <2>0, <3>1 DEF PairAt, PairOf, Blob
      <3>3. CASE d # c
        BY <1>1, <2>k, <2>1, <2>2, <3>2, <3>3
      <3>4. CASE d = c
        <4>1. dir[n] # None
          BY <2>0, <2>2, <3>4 DEF PairAt, PairOf, Blob
        <4>2. CASE FillFile(c)
          BY <1>0, <2>2, <3>4, <4>1, <4>2, Filled DEF Here
        <4>3. CASE ~FillFile(c)
          <5>1. OpenFile(c) \/ InsertBlob(c)
            BY <1>0, <2>2, <3>4, <4>3 DEF Works, MakeDir, InsertRow, CheckFork, LockSource, EndCopy, CopyPart,
               RemoveDir, DeleteRow, OpenDir, LockPush, PromotePush, RejectPush, LandPush, AbortAsset, Kind, Fits
          <5>2. Goto(c, "torn") \/ Goto(c, "done") \/ Goto(c, "refused")
            BY <5>1 DEF OpenFile, InsertBlob
          <5> QED
            BY <1>2, <2>2, <3>4, <5>2
        <4> QED
          BY <4>2, <4>3
      <3> QED
        BY <3>3, <3>4
    <2>3. ASSUME row'[n] # None, dir'[n] # None, <<row'[n], "lfs">> \in blobs'
          PROVE  Here(n)'
      <3>1. ASSUME row'[n] = row[n], <<row[n], "lfs">> \in blobs
            PROVE  Here(n)'
        <4>1. dir[n] # None
          <5>1. ASSUME NEW d \in Calls, Remover(d, n)
                PROVE  FALSE
            <6>1. CASE d # c
              <7>1. Remover(d, n)'
                BY <1>1, <5>1, <6>1 DEF Remover
              <7> QED
                BY <2>0, <2>3, <7>1 DEF PairAt, PairOf
            <6>2. CASE d = c
              <7>1. call[c].at = "removed" /\ row[n] = call[c].row /\ row[n] # None
                BY <2>0, <2>3, <3>1, <5>1, <6>2 DEF Remover, PairAt, PairOf
              <7>2. DeleteRow(c)
                BY <1>0, <7>1 DEF Works, MakeDir, InsertRow, CheckFork, LockSource, EndCopy, CopyPart, RemoveDir,
                   OpenDir, LockPush, PromotePush, RejectPush, LandPush, OpenFile, FillFile, InsertBlob, AbortAsset
              <7> QED
                BY <2>3, <7>1, <7>2 DEF DeleteRow
            <6> QED
              BY <6>1, <6>2
          <5> QED
            BY <2>0, <2>3, <3>1, <5>1 DEF PairAt, Both
        <4> QED
          BY <2>k, <2>0, <2>3, <3>1, <4>1 DEF LfsAt
      <3>2. CASE row' = row /\ blobs' = blobs
        BY <2>3, <3>1, <3>2
      <3>3. CASE InsertRow(c) /\ row[call[c].name] = None /\ row' = [row EXCEPT ![call[c].name] = c] /\ blobs' = blobs
        <4>1. CASE n = call[c].name
          <5>1. row'[n] = c /\ <<c, "lfs">> \in blobs
            BY <1>0, <2>3, <3>3, <4>1 DEF Typed
          <5>2. PICK m \in Names : row[m] = c
            BY <5>1 DEF Rows
          <5>3. c \notin Names /\ c # None /\ call[c].at = "made"
            BY <1>0, <3>3, RepositoryLifeAssumption DEF InsertRow
          <5>4. Owned(c, m)
            BY <5>2, <5>3 DEF Rows
          <5> QED
            BY <5>3, <5>4 DEF Owned
        <4>2. CASE n # call[c].name
          BY <1>0, <2>3, <3>1, <3>3, <4>2 DEF Typed
        <4> QED
          BY <4>1, <4>2
      <3>4. CASE DeleteRow(c)
        <4>1. row'[n] = row[n] /\ blobs' \subseteq blobs
          BY <2>3, <3>4 DEF DeleteRow
        <4> QED
          BY <2>3, <3>1, <4>1
      <3>5. CASE InsertBlob(c) /\ row' = row /\ blobs' = blobs \union {<<call[c].row, call[c].op>>}
        <4>1. CASE <<row[n], "lfs">> \in blobs
          BY <3>1, <3>5, <4>1
        <4>2. CASE <<row[n], "lfs">> \notin blobs
          <5>1. row[n] = call[c].row /\ call[c].op = "lfs" /\ call[c].at = "written"
            BY <2>3, <3>5, <4>2 DEF InsertBlob
          <5>2. n = call[c].name
            BY <1>0, <2>3, <3>5, <5>1, OwnerUnique DEF Rows, Blob
          <5> QED
            BY <1>0, <2>k, <2>1, <2>3, <5>1, <5>2
        <4> QED
          BY <4>1, <4>2
      <3> QED
        BY <1>0, <3>2, <3>3, <3>4, <3>5, RowEffects
    <2>4. \A d \in Calls : call'[d].op = call[d].op /\ call'[d].name = call[d].name
      BY <1>1 DEF Onward
    <2> QED
      BY <2>2, <2>3, <2>4 DEF LfsAt
  <1> QED
    BY <1>1, <1>3 DEF Objects

LEMMA ObjectsStarts ==
    ASSUME Typed, Kinds, Met, Objects, NEW c \in Calls, Starts(c)
    PROVE  Objects'
  <1>1. /\ raced \subseteq raced' /\ UNCHANGED <<row, dir>>
        /\ call[c].at = "idle" /\ call'[c].at \in {"counted", "loaded"}
        /\ \A d \in Calls \ {c} : call'[d] = call[d]
    BY MetStarts
  <1>2. blobs' = blobs
    BY DEF Starts, Begin
  <1>3. ASSUME NEW n \in Names \ raced'
        PROVE  LfsAt(n)'
    <2>1. LfsAt(n)
      BY <1>1 DEF Objects
    <2>2. Here(n) => Here(n)'
      BY <1>1 DEF Here
    <2> QED
      BY <1>1, <1>2, <2>1, <2>2 DEF LfsAt
  <1> QED
    BY <1>3 DEF Objects

DiskInv == Calm => Sources /\ Pairs /\ Objects

LEMMA DiskWorks ==
    ASSUME Typed, Kinds, Rows, Met, CopyInv, DiskInv, NEW c \in Calls, Works(c)
    PROVE  DiskInv'
  <1> SUFFICES ASSUME Calm' PROVE (Sources /\ Pairs /\ Objects)'
    BY DEF DiskInv
  <1>1. Calm /\ ~Drop(c) /\ ~Fail(c) /\ c \in Busy
    BY CalmWorks
  <1>2. Sources /\ Pairs /\ Objects /\ Locked
    BY <1>1 DEF DiskInv, CopyInv
  <1>3. Sources'
    BY <1>1, <1>2, SourcesWorks
  <1>4. Pairs'
    BY <1>1, <1>2, PairsWorks
  <1>5. Objects'
    BY <1>1, <1>2, <1>4, ObjectsWorks
  <1> QED
    BY <1>3, <1>4, <1>5

LEMMA DiskStarts ==
    ASSUME Typed, Kinds, Met, DiskInv, NEW c \in Calls, Starts(c)
    PROVE  DiskInv'
  <1> SUFFICES ASSUME Calm' PROVE (Sources /\ Pairs /\ Objects)'
    BY DEF DiskInv
  <1>1. Calm
    BY MetStarts DEF Calm
  <1> QED
    BY <1>1, PairsStarts, ObjectsStarts DEF DiskInv

LEMMA DiskInit == Init => DiskInv
  <1> SUFFICES ASSUME Init PROVE Sources /\ Pairs /\ Objects
    BY DEF DiskInv
  <1>1. \A c \in Calls : call[c].at = "idle"
    BY DEF Init
  <1>2. Sources
    BY <1>1 DEF Sources, SourceAt
  <1>3. Objects
    BY <1>1 DEF Init, Objects, LfsAt
  <1>4. ASSUME NEW n \in Names
        PROVE  PairAt(n)
    <2>1. \A d \in Calls : ~Maker(d, n) /\ ~Remover(d, n) /\ d \notin Busy
      BY <1>1 DEF Maker, Remover, Busy
    <2>2. row[n] # None <=> dir[n] # None
      <3>1. [Bare EXCEPT !.store = {n}, !.refs = {n}] \in Dir
        BY DEF Bare, Dir, Id
      <3> QED
        BY <3>1, RepositoryLifeAssumption DEF Init
    <2> QED
      BY <2>1, <2>2 DEF PairAt, Single, Both, PairOf
  <1>5. Pairs
    BY <1>4 DEF Pairs
  <1> QED
    BY <1>2, <1>3, <1>5

(***************************************************************************)
(* Without faults, on a name where no removal and no fork met another      *)
(* call: once nothing is under way on it there is a row exactly if there   *)
(* is a directory, and an LFS object's row only with its file, however     *)
(* creations, pushes and uploads overlapped.                               *)
(***************************************************************************)
THEOREM SettledKept == Spec => []Settled
  <1> DEFINE I == TypeInv /\ Met /\ CopyInv /\ DiskInv
  <1>1. Init => I
    BY TypeInvInit, StartHistory, DiskInit
  <1>2. I /\ [Next]_vars => I'
    <2> SUFFICES ASSUME TypeInv, Met, CopyInv, DiskInv, [Next]_vars PROVE I'
      OBVIOUS
    <2>0. TypeInv' /\ Typed /\ Kinds /\ Rows
      BY TypeInvSteps DEF TypeInv
    <2>1. CASE UNCHANGED vars
      <3>1. Met' /\ CopyInv'
        BY <2>1 DEF vars, Met, Busy, CopyInv, Calm, Locked, LockedAt,
           Promoted, PromotedAt, Fresh, Whole, WholeAt, Copying, Halves, HalfAt
      <3>2. (Sources <=> Sources') /\ (Objects <=> Objects') /\ (Calm <=> Calm')
        BY <2>1 DEF vars, Calm, Sources, SourceAt, Objects, LfsAt, Here
      <3>3. Pairs <=> Pairs'
        BY <2>1 DEF vars, Pairs, PairAt, Single, Both, PairOf, Maker, Remover, Busy
      <3> QED
        BY <2>0, <3>1, <3>2, <3>3 DEF DiskInv
    <2>2. ASSUME NEW c \in Calls, Starts(c)
          PROVE  I'
      BY <2>0, <2>2, MetStarts, CopyStarts, DiskStarts
    <2>3. ASSUME NEW c \in Calls, Works(c)
          PROVE  I'
      BY <2>0, <2>3, WorksType, MetOnward, CopyWorks, DiskWorks
    <2>4. CASE Crash
      <3>1. faults' # MaxFaults
        BY <2>0, <2>4, RepositoryLifeAssumption DEF Crash, Fault, Typed
      <3>2. CopyInv' /\ DiskInv'
        BY <3>1 DEF CopyInv, DiskInv, Calm
      <3> QED
        BY <2>0, <2>4, <3>2, CrashType, MetOnward
    <2> QED
      BY <2>1, <2>2, <2>3, <2>4, NextIs
  <1>3. I => Settled
    <2> SUFFICES ASSUME TypeInv, DiskInv, Calm, NEW n \in Names \ raced
                 PROVE  /\ Quiet(n) => (row[n] # None <=> dir[n] # None)
                        /\ /\ row[n] # None /\ dir[n] # None
                           /\ <<row[n], "lfs">> \in blobs
                           /\ \A c \in Busy : ~(call[c].op = "lfs" /\ call[c].name = n)
                           => "lfs" \in dir[n].files
      BY DEF Settled, Paired, LfsRowsHaveBytes
    <2>1. PairAt(n) /\ LfsAt(n) /\ Kinds
      BY DEF DiskInv, Pairs, Objects, TypeInv
    <2>2. ASSUME Quiet(n)
          PROVE  row[n] # None <=> dir[n] # None
      <3>1. \A d \in Calls : ~Maker(d, n) /\ ~Remover(d, n)
        BY <2>1, <2>2, AtWork DEF Quiet, Maker, Remover
      <3> QED
        BY <2>1, <3>1 DEF PairAt, Both
    <2>3. ASSUME row[n] # None, dir[n] # None, <<row[n], "lfs">> \in blobs,
                 \A c \in Busy : ~(call[c].op = "lfs" /\ call[c].name = n)
          PROVE  "lfs" \in dir[n].files
      BY <2>1, <2>3 DEF LfsAt, Here, Busy, Over
    <2> QED
      BY <2>2, <2>3
  <1> QED
    BY <1>1, <1>2, <1>3, PTL DEF Spec

=============================================================================
