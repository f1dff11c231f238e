------------------------------ MODULE Tracker -------------------------------
(***************************************************************************)
(* The tracker of one repository: the number shared by issues and pull     *)
(* requests (repo_number_repo.rs), an issue's state, labels and assignees  *)
(* (services/issue.rs), the release of a tag (services/release.rs), and    *)
(* who is told of what: watches, the fan-out of the outbox events and the  *)
(* handler that writes a notification (dispatcher.rs, jobs.rs).            *)
(*                                                                         *)
(* Statements of one transaction that see what others have committed in    *)
(* between (READ COMMITTED) are steps of their own.                        *)
(***************************************************************************)
EXTENDS Integers, Sequences, FiniteSets

CONSTANTS Calls,        \* requests under way at once (a bound)
          Users,
          Author,       \* of the issue and of the pull request
          Labels,
          ScopeOf,      \* the scope of each label, NoScope for a plain one
          NoScope,
          MaxAttempts,  \* MAX_ATTEMPTS of an allocation (10 in the code: a bound)
          Starts,       \* where a behaviour starts: [menu, rows, watch] (a bound)
          MaxCalls,     \* bound: operations asked for in all
          MaxFaults     \* bound: calls, fan-outs and handlers cut

Levels == {"none", "watching", "ignoring"}
Ops == {"issue", "pull", "close", "reopen", "merge", "assign", "unassign", "comment", "watch",
        "apply", "unlabel", "release", "tag"}

ASSUME TrackerAssumption ==
    /\ Author \in Users
    /\ DOMAIN ScopeOf = Labels
    /\ MaxAttempts \in Nat \ {0} /\ MaxCalls \in Nat /\ MaxFaults \in Nat
    /\ \A s \in Starts : /\ s.menu \subseteq Ops /\ s.watch \in [Users -> Levels]
                         /\ s.rows \in {{}, {<<1, "issue">>}}

VARIABLES
    next,       \* repo_number_counters.next_number, 0 while there is no row
    rows,       \* issues and pull_requests: <<number, kind>>
    closed,     \* state of issue 1
    labels,     \* issue_labels of issue 1
    assignees,  \* issue_assignees of issue 1
    merged,     \* state of the pull request whose text closes issue 1
    tag,        \* refs/tags of a release: its commit, 0 for none
    releases,   \* releases of that tag: at most one row [target, moved]
    watch,      \* watches of the repository: each user's level
    events,     \* the outbox, oldest first
    taken,      \* what the dispatcher has read for the event it is fanning out
    jobs,       \* create_notification jobs
    notes,      \* notifications
    call,       \* each request
    menu, left, faults,   \* what is left of the bounds
    torn        \* history: the scopes whose last change overlapped another

tracker == <<next, rows, closed, labels, assignees, merged>>
git == <<tag, releases>>
mail == <<watch, events, taken, jobs, notes>>
vars == <<tracker, git, mail, call, menu, left, faults, torn>>

-----------------------------------------------------------------------------
Kinds == {"closed", "merged", "released", "assigned", "mention"}
Scopes == {ScopeOf[l] : l \in Labels} \ {NoScope}
Place == {"idle", "ensure", "read", "advance", "insert", "close", "merge", "put", "tag", "row"}
Commits == {1, 2}
Numbered == 0..MaxCalls + 2

Idle == [op |-> "issue", by |-> Author, own |-> FALSE, next |-> 0, tries |-> 0, open |-> FALSE,
         label |-> NoScope, seen |-> {}, alone |-> TRUE, target |-> 1, moved |-> FALSE, at |-> "idle"]
NoEvent == [id |-> 0, involved |-> {}]

\* Each job and notification knows its event, its reader and the kind of what is said.
Matching(n, j) == n.to = j.to /\ n.kind = j.kind

TypeOK ==
    /\ next \in Numbered /\ rows \subseteq Numbered \X {"issue", "pull"} /\ closed \in BOOLEAN
    /\ labels \subseteq Labels /\ torn \subseteq Scopes /\ assignees \subseteq Users
    /\ merged \in BOOLEAN /\ tag \in Commits \union {0}
    /\ releases \subseteq [target : Commits, moved : BOOLEAN] /\ Cardinality(releases) <= 1
    /\ watch \in [Users -> Levels]
    /\ events \in Seq([kind : Kinds, by : Users, to : SUBSET Users, due : SUBSET Users,
                       may : SUBSET Users, done : BOOLEAN])
    /\ taken.id \in 0..Len(events) /\ taken.involved \subseteq Users
    /\ jobs \subseteq [event : DOMAIN events, to : Users, kind : Kinds, looked : BOOLEAN, alone : BOOLEAN]
    /\ \A n \in notes : /\ n.event \in DOMAIN events /\ n.covers \subseteq DOMAIN events
                        /\ n.to \in Users /\ n.kind \in Kinds
                        /\ n.read \in BOOLEAN /\ n.alone \in BOOLEAN
    /\ DOMAIN call = Calls
    /\ \A c \in Calls : /\ DOMAIN call[c] = DOMAIN Idle /\ call[c].op \in Ops /\ call[c].at \in Place
                        /\ call[c].tries \in 0..MaxAttempts /\ call[c].next \in Numbered
    /\ menu \subseteq Ops /\ left \in 0..MaxCalls /\ faults \in 0..MaxFaults

Init ==
    /\ \E start \in Starts : menu = start.menu /\ rows = start.rows /\ watch = start.watch
                             /\ next = IF start.rows = {} THEN 0 ELSE 2
    /\ closed = FALSE /\ labels = {} /\ assignees = {} /\ merged = FALSE
    /\ tag = 0 /\ releases = {}
    /\ events = <<>> /\ taken = NoEvent /\ jobs = {} /\ notes = {}
    /\ call = [c \in Calls |-> Idle] /\ left = MaxCalls /\ faults = MaxFaults /\ torn = {}

-----------------------------------------------------------------------------
(* The outbox: who should hear of an event, and who does. *)

Watching == {u \in Users : watch[u] = "watching"}
Ignoring == {u \in Users : watch[u] = "ignoring"}

\* Involved in what the event is about, watching or not.
Involved(kind) ==
    CASE kind = "closed" -> assignees \union {Author}
      [] kind = "merged" -> {Author}
      [] OTHER -> {}

\* notify_watchers; an assignment or a mention goes to its subject whatever he watches. The event
\* of a merge does not say who merged.
Recipients(e, involved) ==
    IF e.kind \in {"assigned", "mention"} THEN e.to
    ELSE ((Watching \union involved) \ Ignoring) \ (IF e.kind = "merged" THEN {} ELSE {e.by})

\* History: who should hear of it, had it been fanned out in the instant it was committed.
Audience(kind, by, to) == to \union {u \in Users :
    /\ kind \notin {"assigned", "mention"} /\ watch[u] # "ignoring"
    /\ watch[u] = "watching" \/ u \in Involved(kind)
    /\ u = by => kind = "merged"}

Event(kind, by, to) ==
    [kind |-> kind, by |-> by, to |-> to, due |-> Audience(kind, by, to), may |-> Audience(kind, by, to),
     done |-> FALSE]

\* An unread notification that is there already speaks for a later event of its kind.
Covering(new) ==
    {IF n.read THEN n
     ELSE [n EXCEPT !.covers = @ \union {Len(events) + i : i \in {i \in DOMAIN new : new[i].kind = n.kind}}] :
         n \in notes}

\* The events an operation appends in its transaction.
Publish(new) == events' = events \o new /\ notes' = Covering(new)

\* The user's own subscription or assignment changes: what is not fanned out yet no longer owes
\* him anything, and may reach him.
Stirred(user) ==
    [i \in DOMAIN events |->
        IF events[i].done THEN events[i]
        ELSE [events[i] EXCEPT !.due = @ \ {user}, !.may = @ \union {user}]]

-----------------------------------------------------------------------------
(* Requests *)

Asked(op) == op \in menu /\ left > 0 /\ left' = left - 1 /\ UNCHANGED menu
Step(c, op, place) == call[c].op = op /\ call[c].at = place
Leave(c) == call' = [call EXCEPT ![c] = Idle]
Goto(c, place) == call' = [call EXCEPT ![c].at = place]
Start(c, op, by, place) ==
    /\ call[c].at = "idle" /\ Asked(op)
    /\ call' = [call EXCEPT ![c] = [Idle EXCEPT !.op = op, !.by = by, !.at = place]]
Issue1 == <<1, "issue">> \in rows   \* load_issue: the one issue the operations are about

\* IssueService::open and PullRequestService::open: a transaction allocates the number, inserts
\* the row and appends an event (that tells nobody).
Open(c, kind, by) ==
    /\ Start(c, kind, by, "ensure")
    /\ UNCHANGED <<tracker, git, mail, faults, torn>>

\* The counter row is locked by the transaction that has inserted or advanced it.
Locked(c) == \E d \in Calls \ {c} : call[d].own

\* ensure_counter_row: waits for a transaction that is inserting it.
EnsureCounterRow(c) ==
    /\ call[c].at = "ensure"
    /\ next = 0 => ~Locked(c)
    /\ call' = [call EXCEPT ![c].at = "read", ![c].own = next = 0, ![c].tries = MaxAttempts,
                            ![c].next = IF next = 0 THEN 1 ELSE 0]
    /\ UNCHANGED <<tracker, git, mail, menu, left, faults, torn>>

\* read_current: its own uncommitted row, or the committed one.
ReadCurrent(c) ==
    /\ call[c].at = "read"
    /\ call' = [call EXCEPT ![c].at = "advance", ![c].next = IF call[c].own THEN @ ELSE next]
    /\ UNCHANGED <<tracker, git, mail, menu, left, faults, torn>>

\* The UPDATE waits for the row, then looks at it again.
Wins_Always(c) == TRUE
Wins(c) == call[c].own \/ next = call[c].next

\* try_advance: the winner's number is the one it read; a loser reads again, MaxAttempts times.
TryAdvance(c) ==
    /\ call[c].at = "advance" /\ ~Locked(c)
    /\ call' = IF Wins(c) THEN [call EXCEPT ![c].own = TRUE, ![c].at = "insert"]
               ELSE IF call[c].tries = 1 THEN [call EXCEPT ![c] = Idle]
               ELSE [call EXCEPT ![c].tries = @ - 1, ![c].at = "read"]
    /\ UNCHANGED <<tracker, git, mail, menu, left, faults, torn>>

\* The row is inserted under its number and the transaction commits, the counter with it; a
\* number taken by a row of the same kind rolls both back.
Insert(c) ==
    LET row == <<call[c].next, call[c].op>>
    IN  /\ call[c].at = "insert"
        /\ IF row \in rows THEN UNCHANGED <<next, rows>>
           ELSE next' = call[c].next + 1 /\ rows' = rows \union {row}
        /\ Leave(c)
        /\ UNCHANGED <<closed, labels, assignees, merged, git, mail, menu, left, faults, torn>>

\* IssueService::close reads the state before its transaction, the merge (of the pull request
\* whose text closes the issue) in it.
BeginClose(c, by) ==
    /\ Issue1 /\ ~closed
    /\ Start(c, "close", by, "close")
    /\ UNCHANGED <<tracker, git, mail, faults, torn>>

Close(c) ==
    /\ Step(c, "close", "close")
    /\ closed' = TRUE
    /\ Publish(<<Event("closed", call[c].by, {})>>)
    /\ Leave(c)
    /\ UNCHANGED <<next, rows, labels, assignees, merged, git, watch, taken, jobs, menu, left, faults, torn>>

BeginMerge(c, by) ==
    /\ ~merged /\ \A d \in Calls : call[d].op # "merge" \/ call[d].at = "idle"
    /\ call[c].at = "idle" /\ Asked("merge")
    /\ call' = [call EXCEPT ![c] = [Idle EXCEPT !.op = "merge", !.by = by, !.at = "merge",
                                                !.open = Issue1 /\ ~closed]]
    /\ UNCHANGED <<tracker, git, mail, faults, torn>>

Merge(c) ==
    LET told == <<Event("merged", call[c].by, {})>>
    IN  /\ Step(c, "merge", "merge")
        /\ merged' = TRUE
        /\ closed' = (closed \/ call[c].open)
        /\ Publish(IF call[c].open THEN told \o <<Event("closed", call[c].by, {})>> ELSE told)
        /\ Leave(c)
        /\ UNCHANGED <<next, rows, labels, assignees, git, watch, taken, jobs, menu, left, faults, torn>>

\* One statement each, whatever state the issue is in.
Reopen ==
    /\ Issue1 /\ Asked("reopen")
    /\ closed' = FALSE
    /\ UNCHANGED <<next, rows, labels, assignees, merged, git, mail, call, faults, torn>>

Comment(by, to) ==
    /\ Issue1 /\ Asked("comment")
    /\ Publish(IF to = by THEN <<>> ELSE <<Event("mention", by, {to})>>)
    /\ UNCHANGED <<tracker, git, watch, taken, jobs, call, faults, torn>>

\* The event only goes with a row that was not there. (The assignment and what it stirs are
\* one commit.)
Assign(by, to) ==
    /\ Issue1 /\ Asked("assign")
    /\ assignees' = assignees \union {to}
    /\ LET new == IF to \in assignees THEN <<>> ELSE <<Event("assigned", by, {to})>>
       IN  /\ events' = Stirred(to) \o new
           /\ notes' = Covering(new)
    /\ UNCHANGED <<next, rows, closed, labels, merged, git, watch, taken, jobs, call, faults, torn>>

Unassign(user) ==
    /\ Issue1 /\ Asked("unassign")
    /\ assignees' = assignees \ {user} /\ events' = Stirred(user)
    /\ UNCHANGED <<next, rows, closed, labels, merged, git, watch, taken, jobs, notes, call, faults, torn>>

\* WatchRepo::set, or clear for "none".
Watch(user, level) ==
    /\ Asked("watch") /\ watch[user] # level
    /\ watch' = [watch EXCEPT ![user] = level] /\ events' = Stirred(user)
    /\ UNCHANGED <<tracker, git, taken, jobs, notes, call, faults, torn>>

\* LabelRepo::apply_to_issue: the labels of the scope that it has read go, its own comes.
Stale_None(c) == {}
Stale(c) ==
    IF ScopeOf[call[c].label] = NoScope THEN {}
    ELSE {l \in call[c].seen \ {call[c].label} : ScopeOf[l] = ScopeOf[call[c].label]}

BeginApply(c, label) ==
    LET others == {d \in Calls : call[d].at = "put"}
    IN  /\ Issue1 /\ call[c].at = "idle" /\ Asked("apply")
        /\ call' = [d \in Calls |->
               IF d = c THEN [Idle EXCEPT !.op = "apply", !.label = label, !.seen = labels,
                                          !.alone = others = {}, !.at = "put"]
               ELSE IF d \in others THEN [call[d] EXCEPT !.alone = FALSE] ELSE call[d]]
        /\ UNCHANGED <<tracker, git, mail, faults, torn>>

Apply(c) ==
    /\ Step(c, "apply", "put")
    /\ labels' = (labels \ Stale(c)) \union {call[c].label}
    /\ torn' = LET scope == {ScopeOf[call[c].label]} \ {NoScope}
               IN  IF call[c].alone THEN torn \ scope ELSE torn \union scope
    /\ Leave(c)
    /\ UNCHANGED <<next, rows, closed, assignees, merged, git, mail, menu, left, faults>>

Unlabel(label) ==
    /\ Issue1 /\ Asked("unlabel")
    /\ labels' = labels \ {label}
    /\ UNCHANGED <<next, rows, closed, assignees, merged, git, mail, call, faults, torn>>

\* ReleaseService::create: an existing tag decides the commit, whatever was asked for; a missing
\* one is made before the row.
Resolved(c, target) == IF tag = 0 THEN target ELSE tag

BeginRelease(c, by, target) ==
    /\ call[c].at = "idle" /\ Asked("release")
    /\ call' = [call EXCEPT ![c] = [Idle EXCEPT !.op = "release", !.by = by,
                   !.target = Resolved(c, target), !.at = IF tag = 0 THEN "tag" ELSE "row"]]
    /\ UNCHANGED <<tracker, git, mail, faults, torn>>

\* create_annotated_tag: refused once the tag exists.
MakeTag(c) ==
    /\ Step(c, "release", "tag")
    /\ IF tag = 0 THEN tag' = call[c].target /\ Goto(c, "row") ELSE UNCHANGED tag /\ Leave(c)
    /\ UNCHANGED <<tracker, releases, mail, menu, left, faults, torn>>

\* One release per tag; a draft is told to nobody.
Stored_NoIndex(c) == releases \union {[target |-> call[c].target, moved |-> call[c].moved]}
Stored(c) ==
    IF releases # {} THEN releases ELSE {[target |-> call[c].target, moved |-> call[c].moved]}

InsertRelease(c, draft) ==
    /\ Step(c, "release", "row")
    /\ releases' = Stored(c)
    /\ Publish(IF draft \/ releases # {} THEN <<>> ELSE <<Event("released", call[c].by, {})>>)
    /\ Leave(c)
    /\ UNCHANGED <<tracker, tag, watch, taken, jobs, menu, left, faults, torn>>

\* A push sets the tag, or deletes it.
PushTag(commit) ==
    /\ Asked("tag") /\ tag # commit
    /\ tag' = commit
    /\ releases' = {[r EXCEPT !.moved = TRUE] : r \in releases}
    /\ call' = [c \in Calls |-> IF call[c].at = "row" THEN [call[c] EXCEPT !.moved = TRUE] ELSE call[c]]
    /\ UNCHANGED <<tracker, mail, faults, torn>>

\* The request is dropped: nothing of its open transaction stays, everything before it does.
Cut(c) ==
    /\ call[c].at # "idle" /\ faults > 0
    /\ faults' = faults - 1 /\ Leave(c)
    /\ UNCHANGED <<tracker, git, mail, menu, left, torn>>

-----------------------------------------------------------------------------
(* Fan-out and delivery *)

\* The dispatcher reads who is involved, then who watches; marking the event as processed and
\* enqueueing the jobs is one transaction. A fan-out that is cut starts over.
FanOut(id) ==
    /\ taken = NoEvent /\ ~events[id].done
    /\ taken' = [id |-> id, involved |-> Involved(events[id].kind)]
    /\ UNCHANGED <<tracker, git, watch, events, jobs, notes, call, menu, left, faults, torn>>

Enqueue ==
    LET e == events[taken.id]
    IN  /\ taken # NoEvent
        /\ jobs' = jobs \union [event : {taken.id}, to : Recipients(e, taken.involved), kind : {e.kind},
                                looked : {FALSE}, alone : {TRUE}]
        /\ events' = [events EXCEPT ![taken.id].done = TRUE]
        /\ taken' = NoEvent
        /\ UNCHANGED <<tracker, git, watch, notes, call, menu, left, faults, torn>>

CutFanOut ==
    /\ taken # NoEvent /\ faults > 0
    /\ taken' = NoEvent /\ faults' = faults - 1
    /\ UNCHANGED <<tracker, git, watch, events, jobs, notes, call, menu, left, torn>>

\* insert_if_new: an unread notification of the same kind makes the job a no-op.
Unread_Any(j) == \E n \in notes : Matching(n, j)
Unread(j) == \E n \in notes : Matching(n, j) /\ ~n.read

Look(j) ==
    LET rivals == {k \in jobs : k.looked /\ Matching(k, j)}
        ready == [j EXCEPT !.looked = TRUE, !.alone = rivals = {}]
    IN  /\ ~j.looked
        /\ jobs' = IF Unread(j) THEN jobs \ {j}
                   ELSE ((jobs \ {j}) \ rivals) \union {ready}
                            \union {[k EXCEPT !.alone = FALSE] : k \in rivals}
        /\ UNCHANGED <<tracker, git, watch, events, taken, notes, call, menu, left, faults, torn>>

\* The row is written; the job is done, unless the process ends before it is marked so.
InsertNote(j) ==
    /\ j.looked
    /\ notes' = notes \union {[id |-> Cardinality(notes), event |-> j.event, to |-> j.to, kind |-> j.kind,
           read |-> FALSE, alone |-> j.alone,
           covers |-> {i \in DOMAIN events : events[i].kind = j.kind}]}
    /\ \/ jobs' = jobs \ {j} /\ UNCHANGED faults
       \/ /\ faults > 0 /\ faults' = faults - 1
          /\ jobs' = (jobs \ {j}) \union {[j EXCEPT !.looked = FALSE, !.alone = TRUE]}
    /\ UNCHANGED <<tracker, git, watch, events, taken, call, menu, left, torn>>

MarkRead(n) ==
    /\ ~n.read
    /\ notes' = (notes \ {n}) \union {[n EXCEPT !.read = TRUE]}
    /\ UNCHANGED <<tracker, git, watch, events, taken, jobs, call, menu, left, faults, torn>>

Next ==
    \/ \E c \in Calls :
        \/ \E u \in Users : \/ \E kind \in {"issue", "pull"} : Open(c, kind, u)
                            \/ BeginClose(c, u) \/ BeginMerge(c, u)
                            \/ \E commit \in Commits : BeginRelease(c, u, commit)
        \/ EnsureCounterRow(c) \/ ReadCurrent(c) \/ TryAdvance(c) \/ Insert(c)
        \/ Close(c) \/ Merge(c)
        \/ \E l \in Labels : BeginApply(c, l)
        \/ Apply(c)
        \/ MakeTag(c)
        \/ \E draft \in BOOLEAN : InsertRelease(c, draft)
        \/ Cut(c)
    \/ Reopen
    \/ \E u \in Users : \/ \E v \in Users : Comment(u, v) \/ Assign(u, v)
                        \/ Unassign(u)
                        \/ \E level \in Levels : Watch(u, level)
    \/ \E l \in Labels : Unlabel(l)
    \/ \E commit \in Commits \union {0} : PushTag(commit)
    \/ \E id \in DOMAIN events : FanOut(id)
    \/ Enqueue \/ CutFanOut
    \/ \E j \in jobs : Look(j) \/ InsertNote(j)
    \/ \E n \in notes : MarkRead(n)

Spec == Init /\ [][Next]_vars

-----------------------------------------------------------------------------
(* Properties *)

\* Issues and pull requests share one sequence of numbers without a gap or a repetition, however
\* many transactions allocate at once, lose, are rolled back or give up (next_number, CAS loop).
Numbers ==
    /\ {r[1] : r \in rows} = 1..next - 1
    /\ \A r, s \in rows : r[1] = s[1] => r = s

\* Whoever was to hear of an event when it was committed, and has changed neither his subscription
\* nor his assignment before its fan-out, has had a notification that was unread since then, once
\* the jobs are done; whoever was not has none of it (notify_watchers, insert_if_new).
Heard == \A id \in DOMAIN events :
    LET e == events[id]
        about == {n \in notes : id \in n.covers}
    IN  /\ e.done /\ (\A j \in jobs : j.event # id) => e.due \subseteq {n.to : n \in about}
        /\ \A j \in jobs \union notes : j.event = id => j.to \in e.may

\* A user sees the same thing unread twice only if two handlers overlapped: a handler that is run
\* again, or a later event, finds the first (insert_if_new looks, then inserts).
NoTwin == \A n, m \in notes :
    n # m /\ Matching(n, m) /\ ~n.read /\ ~m.read => ~n.alone \/ ~m.alone

\* Who is told, and how often.
Told == Heard /\ NoTwin

\* At most one label of a scope is on the issue, unless the scope's last change overlapped another.
ScopeHeld == \A l, m \in labels :
    l # m /\ ScopeOf[l] = ScopeOf[m] /\ ScopeOf[l] # NoScope => ScopeOf[l] \in torn

\* A release names the commit its tag is on, unless a push has moved the tag since it was resolved.
Pinned == \A r \in releases : r.moved \/ r.target = tag

\* What an issue and a release show agrees with what was asked last.
Kept == ScopeHeld /\ Pinned
=============================================================================
