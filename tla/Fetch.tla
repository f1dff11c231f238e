-------------------------------- MODULE Fetch --------------------------------
(***************************************************************************)
(* Clones and fetches: the ref advertisement, the request of wants, haves  *)
(* and shallow lines over HTTP or SSH, and the walks over the object graph *)
(* that make the pack (edda-git's protocol.rs and pack.rs, edda-app's      *)
(* git_http, edda-ssh's handler).                                          *)
(*                                                                         *)
(* Commits are numbers, a commit after its parents.  The trees and blobs   *)
(* of a commit are its content, a set of files.  Nothing removes an object *)
(* the server has: see ReceivePack.                                        *)
(***************************************************************************)
EXTENDS Integers, FiniteSets, Sequences, SequencesExt

CONSTANTS Clients,
          N,          \* commits are 1..N
          Parents,    \* Parents[c], a sequence of earlier commits
          Content,    \* Content[c], the trees and blobs of c
          Tags,       \* annotated tags
          Target,     \* Target[t]: the commit or tag it names
          Date,       \* Date[c], the committer's
          Local,      \* commits only the clients have
          RefStates,  \* what the server's refs may name: sequences of objects
          Deepens,    \* what a client may ask: full, [depth |-> n], [since |-> d]
          Full,
          MaxFetches  \* bound: fetches by a client

Commits == 1..N

ASSUME FetchAssumption ==
    /\ N \in Nat /\ MaxFetches \in Nat
    /\ DOMAIN Parents = Commits
    /\ \A c \in Commits : \A i \in DOMAIN Parents[c] : Parents[c][i] \in 1..(c - 1)
    /\ Tags \intersect Commits = {}
    /\ Local \subseteq Commits
    /\ \A c \in Commits \ Local : \A i \in DOMAIN Parents[c] : Parents[c][i] \notin Local
    /\ \A r \in RefStates : r # <<>> /\ ToSet(r) \subseteq (Commits \ Local) \union Tags

VARIABLES
    tips,     \* what each of the server's refs names: a commit or a tag
    client,   \* each client
    left      \* what is left of MaxFetches

vars == <<tips, client, left>>

-----------------------------------------------------------------------------
(* The object graph *)

ParentsOf(c) == {Parents[c][i] : i \in DOMAIN Parents[c]}

\* The tags from o to the commit it stands for, and that commit.
Chain[o \in Commits \union Tags] ==
    IF o \in Tags THEN {o} \union Chain[Target[o]] ELSE {o}
Peel(o) == CHOOSE c \in Chain[o] : c \in Commits

History[c \in Commits] == {c} \union UNION {History[p] : p \in ParentsOf(c)}

\* Everything reachable from o, as extend_queue_from walks it.
Closure_NoTagTarget(o) ==
    IF o \in Tags THEN {o} ELSE History[o] \union UNION {Content[c] : c \in History[o]}
Closure(o) ==
    LET h == History[Peel(o)]
    IN  Chain[o] \union h \union UNION {Content[c] : c \in h}
Closures(os) == UNION {Closure(o) : o \in os}

Objects == Commits \union Tags \union UNION {Content[c] : c \in Commits}
Stored == Closures((Commits \ Local) \union Tags)

-----------------------------------------------------------------------------
(* pack.rs *)

\* A have the server does not know is skipped, and nothing behind it.
Seen(haves) == Closures(haves \intersect Stored)

BuildPackExcluding(wants, haves) == Closures(ToSet(wants)) \ Seen(haves)

\* Deepen::Depth, Deepen::Since: whether to go on to parent p of a commit
\* that is depth steps from the want.
Follows_OffByOne(deepen, depth, p) ==
    IF "depth" \in DOMAIN deepen THEN depth =< deepen.depth ELSE Date[p] >= deepen.since
Follows(deepen, depth, p) ==
    IF "depth" \in DOMAIN deepen THEN depth < deepen.depth ELSE Date[p] >= deepen.since

\* Whether a parent of c is withheld when the walk goes on to next.
Withholds(c, next) == Len(next) < Len(Parents[c])

\* One turn of the commit walk of build_shallow_pack.
Turn(w, deepen, clientShallow) ==
    LET id == Head(w.queue)[1]
        depth == Head(w.queue)[2]
        rest == Tail(w.queue)
        next == SelectSeq(Parents[id], LAMBDA p : Follows(deepen, depth, p))
        cut == Withholds(id, next)
    IN  IF id \in w.seen THEN [w EXCEPT !.queue = rest]
        ELSE IF id \in Tags
        THEN [w EXCEPT !.queue = Append(rest, <<Target[id], depth>>),
                       !.seen = @ \union {id}, !.packed = @ \union {id}]
        ELSE [queue |-> rest \o [i \in DOMAIN next |-> <<next[i], depth + 1>>],
              seen |-> w.seen \union {id}, packed |-> w.packed \union {id},
              shallow |-> w.shallow \union (IF cut THEN {id} \ clientShallow ELSE {}),
              unshallow |-> w.unshallow \union
                  (IF cut \/ Parents[id] = <<>> THEN {} ELSE {id} \intersect clientShallow)]

Turns == N * N + Cardinality(Tags) + 2

BuildShallowPack(wants, haves, deepen, clientShallow) ==
    LET have == Seen(haves)
        walk[n \in 0..Turns] ==
            IF n = 0
            THEN [queue |-> [i \in DOMAIN wants |-> <<wants[i], 1>>], seen |-> have,
                  packed |-> {}, shallow |-> {}, unshallow |-> {}]
            ELSE LET w == walk[n - 1]
                 IN  IF w.queue = <<>> THEN w ELSE Turn(w, deepen, clientShallow)
        end == walk[Turns]
        files == UNION {Content[c] : c \in end.packed \intersect Commits} \ have
    IN  [pack |-> end.packed \union files,
         shallow |-> end.shallow, unshallow |-> end.unshallow]

\* With Deepen::None the client's shallow lines have no effect.
Response(wants, haves, deepen, clientShallow) ==
    IF deepen = Full
    THEN [pack |-> BuildPackExcluding(wants, haves), shallow |-> {}, unshallow |-> {}]
    ELSE BuildShallowPack(wants, haves, deepen, clientShallow)

-----------------------------------------------------------------------------
(* What a client can use *)

\* Commits a client reaches without going past its shallow boundary.
Reached(o, shallow) ==
    LET r[c \in Commits] ==
            {c} \union (IF c \in shallow THEN {} ELSE UNION {r[p] : p \in ParentsOf(c)})
    IN  r[Peel(o)]

Complete(o, objects, shallow) ==
    LET h == Reached(o, shallow)
    IN  Chain[o] \union h \union UNION {Content[c] : c \in h} \subseteq objects

Transport == {"http", "ssh"}
Place == {"idle", "advertised", "negotiated", "sent", "buffering", "broken"}
Client == [at : Place, over : Transport, wants : RefStates, haves : SUBSET Commits,
           deepen : Deepens, objects : SUBSET Objects, shallow : SUBSET Commits,
           refs : SUBSET (Commits \union Tags), lines : SUBSET Commits,
           boundary : [shallow : SUBSET Commits, unshallow : SUBSET Commits]]

NoBoundary == [shallow |-> {}, unshallow |-> {}]

\* Between fetches a client has its repository and nothing of the last fetch.
Idle(objects, shallow, refs) ==
    [at |-> "idle", over |-> "http", wants |-> tips, haves |-> {}, deepen |-> Full,
     objects |-> objects, shallow |-> shallow, refs |-> refs, boundary |-> NoBoundary, lines |-> {}]

TypeOK ==
    /\ tips \in RefStates
    /\ client \in [Clients -> Client]
    /\ left \in [Clients -> 0..MaxFetches]

Init ==
    /\ tips \in RefStates
    /\ client = [k \in Clients |-> Idle({}, {}, {})]
    /\ left = [k \in Clients |-> MaxFetches]

\* Somebody pushes, forcibly or not.
Push == \E t \in RefStates \ {tips} : tips' = t /\ UNCHANGED <<client, left>>

\* A client commits on top of what it has.
CommitLocally(k) ==
    \E c \in Local :
        /\ client[k].at = "idle" /\ c \notin client[k].objects
        /\ ParentsOf(c) \subseteq client[k].objects
        /\ client' = [client EXCEPT ![k].objects = @ \union {c} \union Content[c],
                                    ![k].refs = @ \union {c}]
        /\ UNCHANGED <<tips, left>>

\* info/refs, or the advertisement an SSH exec request is answered with.
Advertise(k) ==
    /\ client[k].at = "idle" /\ left[k] > 0
    /\ \E over \in Transport :
         client' = [client EXCEPT ![k].at = "advertised", ![k].over = over, ![k].wants = tips]
    /\ left' = [left EXCEPT ![k] = @ - 1]
    /\ UNCHANGED tips

\* The request: some of the commits the client's refs name as haves, and its
\* shallow boundary.  Over SSH shallow is not advertised, so not asked for.
Request(k) ==
    /\ client[k].at = "advertised"
    /\ \E haves \in SUBSET {Peel(o) : o \in client[k].refs},
          deepen \in Deepens :
         /\ client[k].over = "ssh" => deepen = Full
         /\ client' = [client EXCEPT ![k].haves = haves, ![k].deepen = deepen,
                ![k].lines = client[k].shallow,
                ![k].at = IF client[k].over = "ssh" THEN "buffering"
                          ELSE IF deepen = Full THEN "sent" ELSE "negotiated"]
    /\ UNCHANGED <<tips, left>>

\* Over SSH the request arrives in chunks; until upload_pack_request_is_complete
\* the channel only buffers.
Chunk(k) ==
    /\ client[k].at = "buffering"
    /\ client' = [client EXCEPT ![k].at = "sent"]
    /\ UNCHANGED <<tips, left>>

Answer(k, haves) ==
    Response(client[k].wants, haves, client[k].deepen, client[k].lines)

Negotiate_KeepsPack(k) ==
    /\ client[k].at = "negotiated"
    /\ client' = [client EXCEPT ![k].at = "sent", ![k].boundary = Answer(k, {})]
    /\ UNCHANGED <<tips, left>>
\* The first of the two stateless requests of a shallow fetch has no haves and
\* no done line: its answer is the boundary alone.
Negotiate(k) ==
    /\ client[k].at = "negotiated"
    /\ LET a == Answer(k, {})
       IN  client' = [client EXCEPT ![k].at = "sent",
               ![k].boundary = [shallow |-> a.shallow, unshallow |-> a.unshallow]]
    /\ UNCHANGED <<tips, left>>

\* The client takes the pack, and the boundary it was told of first.
Receive(k) ==
    /\ client[k].at = "sent"
    /\ LET objects == client[k].objects \union Answer(k, client[k].haves).pack
           boundary == client[k].boundary
           shallow == (client[k].shallow \union boundary.shallow) \ boundary.unshallow
           refs == client[k].refs \union ToSet(client[k].wants)
           ok == \A o \in refs : Complete(o, objects, shallow)
       IN  client' = [client EXCEPT ![k] =
               IF ok THEN Idle(objects, shallow, refs) ELSE [@ EXCEPT !.at = "broken"]]
    /\ UNCHANGED <<tips, left>>

Next == \/ Push
        \/ \E k \in Clients : CommitLocally(k) \/ Advertise(k) \/ Request(k) \/ Chunk(k)
                              \/ Negotiate(k) \/ Receive(k)

Spec == Init /\ [][Next]_vars

-----------------------------------------------------------------------------
(* Properties *)

\* build_pack_excluding leaves out "anything reachable from haves ... i.e.
\* objects it already has", which is only so of a client without a boundary:
\* every client that had none when it asked, be it for a clone, a shallow clone
\* or a fetch, or to cut itself off, gets a repository in which whatever its
\* refs name is there, up to its new boundary.
UnboundedFetchesComplete ==
    \A k \in Clients : client[k].at = "broken" => client[k].lines # {}

\* --depth n: a clone gets the commits within n of a want, and no other.  (Of
\* several wants none may be a tag: the walk puts a tag's commit, a want's own,
\* behind the parents of the wants before it, and may count it from those.)
CloneDepth ==
    \A k \in Clients :
        /\ client[k].at = "sent" /\ client[k].haves = {} /\ client[k].deepen # Full
        /\ "depth" \in DOMAIN client[k].deepen
        /\ Len(client[k].wants) = 1 \/ ToSet(client[k].wants) \subseteq Commits
        => LET near[n \in 1..N] ==
                   IF n = 1 THEN {Peel(o) : o \in ToSet(client[k].wants)}
                   ELSE near[n - 1] \union UNION {ParentsOf(c) : c \in near[n - 1]}
               within == IF client[k].deepen.depth > N THEN near[N]
                         ELSE near[client[k].deepen.depth]
           IN  Answer(k, {}).pack \intersect Commits = within

\* The second answer of a shallow fetch, the one with the pack, announces no
\* boundary the client was not told of in the first, though by then the walk
\* stops at what the client has and refs have moved.
BoundaryAnnounced ==
    \A k \in Clients :
        client[k].at = "sent" =>
            Answer(k, client[k].haves).shallow \subseteq client[k].boundary.shallow

\* The two answers of a shallow clone or fetch carry what was asked for, and agree.
ShallowAnswers == CloneDepth /\ BoundaryAnnounced
=============================================================================
