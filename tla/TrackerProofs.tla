---------------------------- MODULE TrackerProofs ----------------------------
(***************************************************************************)
(* Theorems about Tracker, for any number of requests under way, users,    *)
(* labels, scopes, attempts and cuts.                                      *)
(***************************************************************************)
EXTENDS Tracker, FiniteSetTheorems, SequenceTheorems, TLAPS

USE TrackerAssumption

-----------------------------------------------------------------------------
(* Types, of what the theorems speak of *)

Label == Labels \union {NoScope}

Request == [op : Ops, by : Users, own : BOOLEAN, next : Nat, tries : Int, open : BOOLEAN,
            label : Label, seen : SUBSET Label, alone : BOOLEAN,
            target : Commits, moved : BOOLEAN, at : Place]

Typed ==
    /\ next \in Nat /\ rows \subseteq Nat \X Ops
    /\ labels \subseteq Label /\ tag \in Commits \union {0}
    /\ releases \subseteq [target : Commits, moved : BOOLEAN]
    /\ call \in [Calls -> Request]

LEMMA Located ==
    ASSUME NEW r \in Request, NEW b \in BOOLEAN, NEW m \in Int, NEW n \in Nat
    PROVE  [r EXCEPT !.at = "read", !.own = b, !.tries = m, !.next = n] \in Request
  BY DEF Request, Place

LEMMA IdleType == Idle \in Request
  BY DEF Idle, Request, Label, Ops, Place, Commits

\* The requests that begin with more than who asks.
LEMMA BeginTypes ==
    ASSUME NEW u \in Users, NEW b \in BOOLEAN
    PROVE  /\ [Idle EXCEPT !.op = "merge", !.by = u, !.at = "merge", !.open = b] \in Request
           /\ \A t \in Commits, p \in {"tag", "row"} :
                [Idle EXCEPT !.op = "release", !.by = u, !.target = t, !.at = p] \in Request
           /\ \A l \in Label, s \in SUBSET Label :
                [Idle EXCEPT !.op = "apply", !.label = l, !.seen = s, !.alone = b, !.at = "put"] \in Request
  <1>1. /\ "merge" \in Ops /\ "release" \in Ops /\ "apply" \in Ops
        /\ "merge" \in Place /\ "tag" \in Place /\ "row" \in Place /\ "put" \in Place
    BY DEF Ops, Place
  <1>2. ASSUME NEW x \in Request, NEW op \in Ops, NEW p \in Place
        PROVE  /\ [x EXCEPT !.op = op, !.by = u, !.at = p, !.open = b] \in Request
               /\ \A t \in Commits : [x EXCEPT !.op = op, !.by = u, !.target = t, !.at = p] \in Request
               /\ \A l \in Label, s \in SUBSET Label :
                    [x EXCEPT !.op = op, !.label = l, !.seen = s, !.alone = b, !.at = p] \in Request
    <2>1. [x EXCEPT !.op = op, !.by = u, !.at = p, !.open = b] \in Request
      BY DEF Request
    <2>2. \A t \in Commits : [x EXCEPT !.op = op, !.by = u, !.target = t, !.at = p] \in Request
      BY DEF Request
    <2>3. \A l \in Label, s \in SUBSET Label :
            [x EXCEPT !.op = op, !.label = l, !.seen = s, !.alone = b, !.at = p] \in Request
      BY DEF Request
    <2> QED
      BY <2>1, <2>2, <2>3
  <1>3. PICK x \in Request : x = Idle
    BY IdleType
  <1>4. [x EXCEPT !.op = "merge", !.by = u, !.at = "merge", !.open = b] \in Request
    BY <1>1, <1>2
  <1>5. \A t \in Commits, p \in {"tag", "row"} :
          [x EXCEPT !.op = "release", !.by = u, !.target = t, !.at = p] \in Request
    <2> TAKE t \in Commits, p \in {"tag", "row"}
    <2>1. p \in Place
      BY <1>1
    <2> QED
      BY <1>1, <1>2, <2>1
  <1>6. \A l \in Label, s \in SUBSET Label :
          [x EXCEPT !.op = "apply", !.label = l, !.seen = s, !.alone = b, !.at = "put"] \in Request
    BY <1>1, <1>2
  <1> QED
    BY <1>3, <1>4, <1>5, <1>6

\* The operations that give no call anything to do, and touch nothing but mail.
Mail ==
    \/ \E u, v \in Users : Comment(u, v)
    \/ \E u \in Users, level \in Levels : Watch(u, level)
    \/ \E id \in DOMAIN events : FanOut(id)
    \/ Enqueue \/ CutFanOut
    \/ \E j \in jobs : Look(j) \/ InsertNote(j)
    \/ \E n \in notes : MarkRead(n)

LEMMA MailLeaves == Mail => UNCHANGED <<tracker, git, call, torn>>
  BY DEF Mail, Comment, Watch, FanOut, Enqueue, CutFanOut, Look, InsertNote, MarkRead

\* A call's record stays one whatever step it takes.
LEMMA CallTyped ==
    ASSUME Typed, [Next]_vars
    PROVE  call' \in [Calls -> Request]
  <1> USE DEF Typed
  <1>1. ASSUME NEW c \in Calls, NEW place \in Place, Goto(c, place) PROVE call' \in [Calls -> Request]
    <2>1. call[c] \in Request
      OBVIOUS
    <2>2. [call[c] EXCEPT !.at = place] \in Request
      BY <2>1 DEF Request
    <2> QED
      BY <1>1, <2>2 DEF Goto
  <1>2. ASSUME NEW c \in Calls, Leave(c) PROVE call' \in [Calls -> Request]
    BY <1>2, IdleType DEF Leave
  <1>3. ASSUME NEW c \in Calls, NEW op \in Ops, NEW u \in Users, NEW place \in Place,
               Start(c, op, u, place)
        PROVE  call' \in [Calls -> Request]
    BY <1>3, IdleType DEF Start, Request
  <1>4. ASSUME NEW c \in Calls, NEW u \in Users, NEW kind \in {"issue", "pull"}, Open(c, kind, u)
        PROVE  call' \in [Calls -> Request]
    BY <1>3, <1>4 DEF Open, Ops, Place
  <1>5. ASSUME NEW c \in Calls, NEW u \in Users, BeginClose(c, u) PROVE call' \in [Calls -> Request]
    BY <1>3, <1>5 DEF BeginClose, Ops, Place
  <1>6. ASSUME NEW c \in Calls, NEW u \in Users, BeginMerge(c, u) PROVE call' \in [Calls -> Request]
    <2>1. [Idle EXCEPT !.op = "merge", !.by = u, !.at = "merge", !.open = Issue1 /\ ~closed] \in Request
      <3>1. (Issue1 /\ ~closed) \in BOOLEAN
        OBVIOUS
      <3> QED
        BY <3>1, BeginTypes
    <2> QED
      BY <1>6, <2>1 DEF BeginMerge
  <1>7. ASSUME NEW c \in Calls, NEW u \in Users, NEW commit \in Commits, BeginRelease(c, u, commit)
        PROVE  call' \in [Calls -> Request]
    <2>1. Resolved(c, commit) \in Commits
      BY DEF Resolved
    <2>2. [Idle EXCEPT !.op = "release", !.by = u, !.target = Resolved(c, commit),
                       !.at = IF tag = 0 THEN "tag" ELSE "row"] \in Request
      <3>1. (IF tag = 0 THEN "tag" ELSE "row") \in {"tag", "row"} /\ TRUE \in BOOLEAN
        OBVIOUS
      <3> QED
        BY <2>1, <3>1, BeginTypes
    <2> QED
      BY <1>7, <2>2 DEF BeginRelease
  <1>8. ASSUME NEW c \in Calls, EnsureCounterRow(c) PROVE call' \in [Calls -> Request]
    <2>1. [call[c] EXCEPT !.at = "read", !.own = next = 0, !.tries = MaxAttempts,
                          !.next = IF next = 0 THEN 1 ELSE 0] \in Request
      <3>1. call[c] \in Request /\ (next = 0) \in BOOLEAN /\ (IF next = 0 THEN 1 ELSE 0) \in Nat
        OBVIOUS
      <3>2. MaxAttempts \in Int
        OBVIOUS
      <3> QED
        BY <3>1, <3>2, Located
    <2> QED
      BY <1>8, <2>1 DEF EnsureCounterRow
  <1>9. ASSUME NEW c \in Calls, ReadCurrent(c) PROVE call' \in [Calls -> Request]
    <2>1. [call[c] EXCEPT !.at = "advance", !.next = IF call[c].own THEN @ ELSE next] \in Request
      <3>1. call[c] \in Request
        OBVIOUS
      <3> QED
        BY <3>1 DEF Request, Place
    <2> QED
      BY <1>9, <2>1 DEF ReadCurrent
  <1>10. ASSUME NEW c \in Calls, TryAdvance(c) PROVE call' \in [Calls -> Request]
    BY <1>10, IdleType DEF TryAdvance, Request, Place
  <1>11. ASSUME NEW c \in Calls, Insert(c) \/ Close(c) \/ Merge(c) \/ Apply(c) \/ Cut(c)
         PROVE  call' \in [Calls -> Request]
    BY <1>2, <1>11 DEF Insert, Close, Merge, Apply, Cut
  <1>12. ASSUME NEW c \in Calls, NEW l \in Labels, BeginApply(c, l) PROVE call' \in [Calls -> Request]
    <2>1. [Idle EXCEPT !.op = "apply", !.label = l, !.seen = labels, !.alone = {d \in Calls : call[d].at = "put"} = {},
                       !.at = "put"] \in Request
      <3>1. ({d \in Calls : call[d].at = "put"} = {}) \in BOOLEAN /\ l \in Label /\ labels \in SUBSET Label
        BY DEF Label
      <3>2. Author \in Users
        BY TrackerAssumption
      <3> QED
        BY <3>1, <3>2, BeginTypes
    <2>2. \A d \in Calls : call[d] \in Request /\ [call[d] EXCEPT !.alone = FALSE] \in Request
      <3> TAKE d \in Calls
      <3>1. call[d] \in Request
        OBVIOUS
      <3> QED
        BY <3>1 DEF Request
    <2> QED
      BY <1>12, <2>1, <2>2 DEF BeginApply
  <1>13. ASSUME NEW c \in Calls, MakeTag(c) PROVE call' \in [Calls -> Request]
    BY <1>1, <1>2, <1>13 DEF MakeTag, Place
  <1>14. ASSUME NEW c \in Calls, NEW draft \in BOOLEAN, InsertRelease(c, draft)
         PROVE  call' \in [Calls -> Request]
    BY <1>2, <1>14 DEF InsertRelease
  <1>15. ASSUME NEW commit \in Commits \union {0}, PushTag(commit) PROVE call' \in [Calls -> Request]
    <2>1. \A d \in Calls : call[d] \in Request /\ [call[d] EXCEPT !.moved = TRUE] \in Request
      <3> TAKE d \in Calls
      <3>1. call[d] \in Request
        OBVIOUS
      <3> QED
        BY <3>1 DEF Request
    <2> QED
      BY <1>15, <2>1 DEF PushTag
  <1>16. CASE Mail \/ Reopen \/ (\E u, v \in Users : Assign(u, v)) \/ (\E u \in Users : Unassign(u))
                   \/ (\E l \in Labels : Unlabel(l)) \/ UNCHANGED vars
    BY <1>16, MailLeaves DEF Reopen, Assign, Unassign, Unlabel, vars
  <1> QED
    BY <1>4, <1>5, <1>6, <1>7, <1>8, <1>9, <1>10, <1>11, <1>12, <1>13, <1>14, <1>15, <1>16
       DEF Next, Mail

\* The steps that change what Typed speaks of, calls aside.
Rest == <<next, rows, labels, tag, releases>>

LEMMA RestChanges ==
    ASSUME [Next]_vars
    PROVE  \/ \E c \in Calls : Insert(c) \/ Apply(c) \/ MakeTag(c)
           \/ \E c \in Calls, draft \in BOOLEAN : InsertRelease(c, draft)
           \/ \E l \in Labels : Unlabel(l)
           \/ \E commit \in Commits \union {0} : PushTag(commit)
           \/ UNCHANGED Rest
  <1>1. CASE Mail \/ UNCHANGED vars
    BY <1>1, MailLeaves DEF vars, Rest, tracker, git
  <1>2. ASSUME NEW c \in Calls, NEW u \in Users,
               \/ \E kind \in {"issue", "pull"} : Open(c, kind, u)
               \/ BeginClose(c, u) \/ BeginMerge(c, u)
               \/ \E commit \in Commits : BeginRelease(c, u, commit)
        PROVE  UNCHANGED Rest
    BY <1>2 DEF Open, BeginClose, BeginMerge, BeginRelease, Rest, tracker, git
  <1>3. ASSUME NEW c \in Calls,
               \/ EnsureCounterRow(c) \/ ReadCurrent(c) \/ TryAdvance(c)
               \/ Close(c) \/ Merge(c) \/ Cut(c) \/ \E l \in Labels : BeginApply(c, l)
        PROVE  UNCHANGED Rest
    BY <1>3 DEF EnsureCounterRow, ReadCurrent, TryAdvance, Close, Merge, Cut, BeginApply,
                Rest, tracker, git
  <1>4. CASE Reopen \/ (\E u, v \in Users : Assign(u, v)) \/ (\E u \in Users : Unassign(u))
    BY <1>4 DEF Reopen, Assign, Unassign, Rest, git
  <1> QED
    BY <1>1, <1>2, <1>3, <1>4 DEF Next, Mail

LEMMA TypesKept ==
    ASSUME Typed, [Next]_vars
    PROVE  Typed'
  <1> USE DEF Typed
  <1>1. call' \in [Calls -> Request]
    BY CallTyped
  <1>2. ASSUME NEW c \in Calls, Insert(c) PROVE Typed'
    <2>1. call[c] \in Request
      OBVIOUS
    <2>2. call[c].next \in Nat /\ call[c].op \in Ops
      BY <2>1 DEF Request
    <2> QED
      BY <1>1, <1>2, <2>2 DEF Insert, git
  <1>3. ASSUME NEW c \in Calls, Apply(c) PROVE Typed'
    <2>1. call[c] \in Request
      OBVIOUS
    <2>2. call[c].label \in Label
      BY <2>1 DEF Request
    <2> QED
      BY <1>1, <1>3, <2>2 DEF Apply, git
  <1>4. ASSUME NEW c \in Calls, MakeTag(c) PROVE Typed'
    <2>1. call[c] \in Request
      OBVIOUS
    <2>2. call[c].target \in Commits
      BY <2>1 DEF Request
    <2> QED
      BY <1>1, <1>4, <2>2 DEF MakeTag, tracker
  <1>5. ASSUME NEW c \in Calls, NEW draft \in BOOLEAN, InsertRelease(c, draft) PROVE Typed'
    <2>1. call[c] \in Request
      OBVIOUS
    <2>2. [target |-> call[c].target, moved |-> call[c].moved] \in [target : Commits, moved : BOOLEAN]
      BY <2>1 DEF Request
    <2> QED
      BY <1>1, <1>5, <2>2 DEF InsertRelease, Stored, tracker
  <1>6. ASSUME NEW commit \in Commits \union {0}, PushTag(commit) PROVE Typed'
    <2>1. releases' \subseteq [target : Commits, moved : BOOLEAN]
      BY <1>6 DEF PushTag
    <2> QED
      BY <1>1, <1>6, <2>1 DEF PushTag, tracker
  <1>7. CASE (\E l \in Labels : Unlabel(l)) \/ UNCHANGED Rest
    BY <1>1, <1>7 DEF Unlabel, Rest, git
  <1> QED
    BY <1>2, <1>3, <1>4, <1>5, <1>6, <1>7, RestChanges

-----------------------------------------------------------------------------
(* Numbers *)

\* The transaction that has the counter row is alone, and what it read is still the next number;
\* a call that has read it has found the row.
CounterInv ==
    /\ \A c, d \in Calls : call[c].own /\ call[d].own => c = d
    /\ \A c \in Calls :
        /\ call[c].own => call[c].next = IF next = 0 THEN 1 ELSE next
        /\ call[c].own => call[c].at \in {"read", "advance", "insert"}
        /\ call[c].at = "insert" => call[c].own
        /\ call[c].at \in {"read", "advance"} /\ ~call[c].own => next # 0

NumbersInv == Typed /\ CounterInv /\ Numbers

Allocating(c) == EnsureCounterRow(c) \/ ReadCurrent(c) \/ TryAdvance(c) \/ Insert(c)

\* A step that does not allocate leaves a call as it is, or takes it elsewhere without the row.
Aside(c) ==
    \/ call'[c].own = call[c].own /\ call'[c].at = call[c].at /\ call'[c].next = call[c].next
    \/ ~call'[c].own /\ call'[c].at \notin {"read", "advance", "insert"}

LEMMA OthersAside ==
    ASSUME Typed, CounterInv, [Next]_vars, ~\E c \in Calls : Allocating(c)
    PROVE  UNCHANGED <<next, rows>> /\ \A c \in Calls : Aside(c)
  <1> USE DEF Typed, Aside
  <1>1. UNCHANGED <<next, rows>>
    BY RestChanges DEF Allocating, Rest, Apply, MakeTag, InsertRelease, Unlabel, PushTag, tracker
  <1>2. ASSUME NEW c \in Calls, Leave(c) PROVE \A d \in Calls : Aside(d)
    BY <1>2 DEF Leave, Idle
  <1>3. ASSUME NEW c \in Calls, NEW op \in Ops, NEW u \in Users,
               NEW place \in {"ensure", "close"}, Start(c, op, u, place)
        PROVE  \A d \in Calls : Aside(d)
    BY <1>3 DEF Start, Idle
  <1>4. ASSUME NEW c \in Calls, NEW u \in Users,
               \/ \E kind \in {"issue", "pull"} : Open(c, kind, u)
               \/ BeginClose(c, u)
        PROVE  \A d \in Calls : Aside(d)
    BY <1>3, <1>4 DEF Open, BeginClose, Ops
  <1>5. ASSUME NEW c \in Calls, NEW u \in Users, BeginMerge(c, u) PROVE \A d \in Calls : Aside(d)
    BY <1>5 DEF BeginMerge, Idle
  <1>6. ASSUME NEW c \in Calls, NEW u \in Users, NEW commit \in Commits, BeginRelease(c, u, commit)
        PROVE  \A d \in Calls : Aside(d)
    BY <1>6 DEF BeginRelease, Idle
  <1>7. ASSUME NEW c \in Calls, NEW l \in Labels, BeginApply(c, l) PROVE \A d \in Calls : Aside(d)
    <2> TAKE d \in Calls
    <2>1. call[d] \in Request
      OBVIOUS
    <2> QED
      BY <1>7, <2>1 DEF BeginApply, Idle, Request
  <1>8. ASSUME NEW c \in Calls, MakeTag(c) PROVE \A d \in Calls : Aside(d)
    <2>1. CASE tag = 0
      <3>1. ~call[c].own /\ call[c] \in Request
        BY <1>8 DEF MakeTag, Step, CounterInv
      <3> QED
        BY <1>8, <2>1, <3>1 DEF MakeTag, Goto, Request
    <2>2. CASE tag # 0
      BY <1>2, <1>8, <2>2 DEF MakeTag
    <2> QED
      BY <2>1, <2>2
  <1>9. ASSUME NEW commit \in Commits \union {0}, PushTag(commit) PROVE \A d \in Calls : Aside(d)
    <2> TAKE d \in Calls
    <2>1. call[d] \in Request
      OBVIOUS
    <2> QED
      BY <1>9, <2>1 DEF PushTag, Request
  <1>10. ASSUME NEW c \in Calls, Close(c) \/ Merge(c) \/ Apply(c) \/ Cut(c) \/ \E b \in BOOLEAN : InsertRelease(c, b)
         PROVE  \A d \in Calls : Aside(d)
    BY <1>2, <1>10 DEF Close, Merge, Apply, Cut, InsertRelease
  <1>11. CASE Mail \/ Reopen \/ (\E u, v \in Users : Assign(u, v)) \/ (\E u \in Users : Unassign(u))
                   \/ (\E l \in Labels : Unlabel(l)) \/ UNCHANGED vars
    <2>1. UNCHANGED call
      BY <1>11, MailLeaves DEF Reopen, Assign, Unassign, Unlabel, vars
    <2> QED
      BY <1>1, <2>1
  <1> QED
    BY <1>1, <1>4, <1>5, <1>6, <1>7, <1>8, <1>9, <1>10, <1>11 DEF Next, Mail, Allocating

LEMMA NumbersKept ==
    ASSUME NumbersInv, [Next]_vars
    PROVE  NumbersInv'
  <1> USE DEF NumbersInv
  <1>1. Typed'
    BY TypesKept
  <1>2. ASSUME NEW c \in Calls, EnsureCounterRow(c) PROVE CounterInv' /\ Numbers'
    <2>1. Numbers'
      BY <1>2 DEF EnsureCounterRow, Numbers, tracker
    <2>2. /\ UNCHANGED next
          /\ call'[c].own = (next = 0) /\ call'[c].at = "read"
          /\ next = 0 => call'[c].next = 1
          /\ \A d \in Calls \ {c} : call'[d] = call[d]
      <3>1. call[c] \in Request
        BY DEF Typed
      <3> QED
        BY <1>2, <3>1 DEF EnsureCounterRow, Typed, Request, tracker
    <2>3. next = 0 => \A d \in Calls \ {c} : ~call[d].own
      BY <1>2 DEF EnsureCounterRow, Locked
    <2>4. CASE next = 0
      <3>1. call'[c].own /\ call'[c].next = 1
        BY <2>2, <2>4
      <3>2. \A d \in Calls \ {c} : ~call'[d].own /\ call'[d] = call[d]
        BY <2>2, <2>3, <2>4
      <3> QED
        BY <2>1, <2>2, <2>4, <3>1, <3>2 DEF CounterInv
    <2>5. CASE next # 0
      <3>1. ~call'[c].own
        BY <2>2, <2>5
      <3> QED
        BY <2>1, <2>2, <2>5, <3>1 DEF CounterInv
    <2> QED
      BY <2>1, <2>4, <2>5
  <1>3. ASSUME NEW c \in Calls, ReadCurrent(c) PROVE CounterInv' /\ Numbers'
    <2>1. Numbers'
      BY <1>3 DEF ReadCurrent, Numbers, tracker
    <2>2. /\ UNCHANGED next
          /\ call'[c].own = call[c].own /\ call'[c].at = "advance"
          /\ call[c].own => call'[c].next = call[c].next
          /\ \A d \in Calls \ {c} : call'[d] = call[d]
      <3>1. call[c] \in Request
        BY DEF Typed
      <3> QED
        BY <1>3, <3>1 DEF ReadCurrent, Typed, Request, tracker
    <2>3. call[c].at = "read"
      BY <1>3 DEF ReadCurrent
    <2> QED
      BY <2>1, <2>2, <2>3 DEF CounterInv
  <1>4. ASSUME NEW c \in Calls, TryAdvance(c) PROVE CounterInv' /\ Numbers'
    <2>1. Numbers' /\ UNCHANGED next
      BY <1>4 DEF TryAdvance, Numbers, tracker
    <2>2. /\ call[c].at = "advance"
          /\ \A d \in Calls \ {c} : ~call[d].own /\ call'[d] = call[d]
      BY <1>4 DEF TryAdvance, Locked, Typed
    <2>3. CASE Wins(c)
      <3>1. call'[c].own /\ call'[c].at = "insert" /\ call'[c].next = call[c].next
        <4>1. call[c] \in Request
          BY DEF Typed
        <4> QED
          BY <1>4, <2>3, <4>1 DEF TryAdvance, Typed, Request
      <3>2. call[c].next = IF next = 0 THEN 1 ELSE next
        BY <2>2, <2>3 DEF Wins, CounterInv
      <3> QED
        BY <2>1, <2>2, <3>1, <3>2 DEF CounterInv
    <2>4. CASE ~Wins(c) /\ call[c].tries = 1
      <3>1. call'[c] = Idle
        BY <1>4, <2>4 DEF TryAdvance, Typed
      <3> QED
        BY <2>1, <2>2, <3>1 DEF CounterInv, Idle
    <2>5. CASE ~Wins(c) /\ call[c].tries # 1
      <3>1. call'[c].own = call[c].own /\ call'[c].at = "read" /\ call'[c].next = call[c].next
        <4>1. call[c] \in Request
          BY DEF Typed
        <4> QED
          BY <1>4, <2>5, <4>1 DEF TryAdvance, Typed, Request
      <3> QED
        BY <2>1, <2>2, <3>1 DEF CounterInv
    <2> QED
      BY <2>3, <2>4, <2>5
  <1>5. ASSUME NEW c \in Calls, Insert(c) PROVE CounterInv' /\ Numbers'
    <2> DEFINE n == call[c].next  row == <<n, call[c].op>>
    <2>1. call[c].own /\ n = IF next = 0 THEN 1 ELSE next
      BY <1>5 DEF Insert, CounterInv
    <2>2. next \in Nat /\ n \in Nat \ {0} /\ rows \subseteq Nat \X Ops /\ call[c] \in Request
      BY <2>1 DEF Typed
    <2>3. {r[1] : r \in rows} = 1..n - 1
      BY <2>1, <2>2 DEF Numbers
    <2>4. row \notin rows
      <3>1. n \notin 1..n - 1
        BY <2>2
      <3>2. row \in rows => n \in {r[1] : r \in rows}
        OBVIOUS
      <3> QED
        BY <2>3, <3>1, <3>2
    <2>5. next' = n + 1 /\ rows' = rows \union {row} /\ call' = [call EXCEPT ![c] = Idle]
      BY <1>5, <2>4 DEF Insert, Leave
    <2>6. Numbers'
      <3>1. {r[1] : r \in rows'} = {r[1] : r \in rows} \union {n}
        <4>1. row[1] = n
          OBVIOUS
        <4> HIDE DEF row, n
        <4> QED
          BY <2>5, <4>1
      <3>2. (1..n - 1) \union {n} = 1..(n + 1) - 1
        BY <2>2
      <3>3. \A r \in rows : r[1] # n
        BY <2>2, <2>3
      <3>4. {r[1] : r \in rows'} = 1..next' - 1
        BY <2>3, <2>5, <3>1, <3>2
      <3>5. ASSUME NEW p \in rows', NEW q \in rows', p[1] = q[1]
            PROVE  p = q
        <4>1. row[1] = n
          OBVIOUS
        <4> HIDE DEF row, n
        <4>2. (p \in rows \/ p = row) /\ (q \in rows \/ q = row)
          BY <2>5
        <4>3. CASE p \in rows /\ q \in rows
          BY <3>5, <4>3 DEF Numbers
        <4>4. CASE p = row \/ q = row
          BY <3>3, <3>5, <4>1, <4>2, <4>4
        <4> QED
          BY <4>2, <4>3, <4>4
      <3> QED
        BY <3>4, <3>5 DEF Numbers
    <2>7. CounterInv'
      <3>1. \A d \in Calls \ {c} : ~call[d].own /\ call'[d] = call[d]
        BY <2>1, <2>5 DEF CounterInv, Typed
      <3>2. call'[c] = Idle
        BY <2>5 DEF Typed
      <3> QED
        BY <2>2, <2>5, <3>1, <3>2 DEF CounterInv, Idle
    <2> QED
      BY <2>6, <2>7
  <1>6. CASE ~\E c \in Calls : Allocating(c)
    <2>1. UNCHANGED <<next, rows>> /\ \A c \in Calls : Aside(c)
      BY <1>6, OthersAside
    <2>2. Numbers'
      BY <2>1 DEF Numbers
    <2>3. CounterInv'
      BY <2>1 DEF Aside, CounterInv
    <2> QED
      BY <1>1, <2>2, <2>3
  <1> QED
    BY <1>1, <1>2, <1>3, <1>4, <1>5, <1>6 DEF Allocating

LEMMA NumbersAtFirst ==
    ASSUME Init
    PROVE  NumbersInv
  <1>1. call = [c \in Calls |-> Idle] /\ labels = {} /\ tag = 0 /\ releases = {}
    BY DEF Init
  <1>2. \/ rows = {} /\ next = 0
        \/ rows = {<<1, "issue">>} /\ next = 2
    BY DEF Init
  <1>3. Typed
    BY <1>1, <1>2, IdleType DEF Typed, Ops
  <1>4. CounterInv
    BY <1>1 DEF CounterInv, Idle
  <1>5. Numbers
    <2>1. CASE rows = {} /\ next = 0
      BY <2>1 DEF Numbers
    <2>2. CASE rows = {<<1, "issue">>} /\ next = 2
      BY <2>2 DEF Numbers
    <2> QED
      BY <1>2, <2>1, <2>2
  <1> QED
    BY <1>3, <1>4, <1>5 DEF NumbersInv

\* Issues and pull requests share one sequence of numbers without a gap or a repetition, for any
\* number of transactions that allocate, lose, are rolled back or give up (next_number).
THEOREM NumbersAllocated == Spec => []Numbers
  <1>1. Init => NumbersInv
    BY NumbersAtFirst
  <1>2. NumbersInv /\ [Next]_vars => NumbersInv'
    BY NumbersKept
  <1>3. NumbersInv => Numbers
    BY DEF NumbersInv
  <1> QED
    BY <1>1, <1>2, <1>3, PTL DEF Spec

-----------------------------------------------------------------------------
(* Labels and releases *)

\* A call that has met no other knows every label that is on the issue, and is the only one.
ScopeInv ==
    /\ ScopeHeld
    /\ \A c \in Calls : call[c].at = "put" /\ call[c].alone =>
        labels \subseteq call[c].seen /\ \A d \in Calls \ {c} : call[d].at # "put"

\* A tag that a call has resolved has stayed, unless the call knows of a push that moved it.
PinnedInv ==
    /\ Pinned
    /\ \A c \in Calls : call[c].at = "row" => call[c].moved \/ call[c].target = tag

KeptInv == Typed /\ ScopeInv /\ PinnedInv

Labelling == \E c \in Calls : Apply(c) \/ \E l \in Labels : BeginApply(c, l)
Releasing == \/ \E c \in Calls : \/ MakeTag(c)
                                 \/ \E draft \in BOOLEAN : InsertRelease(c, draft)
                                 \/ \E u \in Users, commit \in Commits : BeginRelease(c, u, commit)
             \/ \E commit \in Commits \union {0} : PushTag(commit)

\* What the steps of others do to a call that is about to label, or about to release.
StillLabelling(c) ==
    \/ call'[c].at # "put"
    \/ call'[c].at = call[c].at /\ call'[c].alone = call[c].alone /\ call'[c].seen = call[c].seen

StillReleasing(c) ==
    \/ call'[c].at # "row"
    \/ call'[c].at = call[c].at /\ call'[c].target = call[c].target /\ call'[c].moved = call[c].moved

LEMMA OthersStill ==
    ASSUME Typed, [Next]_vars, ~Labelling, ~Releasing
    PROVE  /\ UNCHANGED <<tag, releases, torn>> /\ labels' \subseteq labels
           /\ \A c \in Calls : StillLabelling(c) /\ StillReleasing(c)
  <1> USE DEF Typed, StillLabelling, StillReleasing
  <1> DEFINE Still == \A c \in Calls : StillLabelling(c) /\ StillReleasing(c)
             Untouched == UNCHANGED <<tag, releases, torn>> /\ labels' \subseteq labels
  <1>1. ASSUME NEW c \in Calls, Leave(c) PROVE Still
    BY <1>1 DEF Leave, Idle
  <1>2. ASSUME NEW c \in Calls, NEW op \in Ops, NEW u \in Users,
               NEW place \in {"ensure", "close"}, Start(c, op, u, place)
        PROVE  Still
    BY <1>2 DEF Start, Idle
  <1>3. ASSUME NEW c \in Calls, NEW u \in Users,
               (\E kind \in {"issue", "pull"} : Open(c, kind, u)) \/ BeginClose(c, u)
        PROVE  Still /\ Untouched
    BY <1>2, <1>3 DEF Open, BeginClose, Ops, tracker, git
  <1>4. ASSUME NEW c \in Calls, NEW u \in Users, BeginMerge(c, u) PROVE Still /\ Untouched
    BY <1>4 DEF BeginMerge, Idle, tracker, git
  <1>5. ASSUME NEW c \in Calls, EnsureCounterRow(c) \/ ReadCurrent(c) \/ TryAdvance(c)
        PROVE  Still /\ Untouched
    <2>1. call[c] \in Request
      OBVIOUS
    <2>2. Untouched /\ \A d \in Calls \ {c} : call'[d] = call[d]
      BY <1>5 DEF EnsureCounterRow, ReadCurrent, TryAdvance, tracker, git
    <2>3. call'[c].at \in {"read", "advance", "insert", "idle"}
      BY <1>5, <2>1 DEF EnsureCounterRow, ReadCurrent, TryAdvance, Request, Idle
    <2> QED
      BY <2>2, <2>3
  <1>6. ASSUME NEW c \in Calls, Insert(c) \/ Close(c) \/ Merge(c) \/ Cut(c) PROVE Still /\ Untouched
    BY <1>1, <1>6 DEF Insert, Close, Merge, Cut, tracker, git
  <1>7. CASE Mail \/ Reopen \/ (\E u, v \in Users : Assign(u, v)) \/ (\E u \in Users : Unassign(u))
                  \/ (\E l \in Labels : Unlabel(l)) \/ UNCHANGED vars
    <2>1. UNCHANGED <<call, tag, releases, torn>> /\ labels' \subseteq labels
      BY <1>7, MailLeaves DEF Reopen, Assign, Unassign, Unlabel, vars, tracker, git
    <2> QED
      BY <2>1
  <1> QED
    BY <1>3, <1>4, <1>5, <1>6, <1>7 DEF Next, Mail, Labelling, Releasing

LEMMA ScopeKept ==
    ASSUME Typed, ScopeInv, [Next]_vars
    PROVE  ScopeInv'
  <1>1. ASSUME NEW c \in Calls, Apply(c) PROVE ScopeInv'
    <2> DEFINE mine == call[c].label  scope == ScopeOf[mine]
    <2>1. /\ labels' = (labels \ Stale(c)) \union {mine}
          /\ call'[c] = Idle /\ \A d \in Calls \ {c} : call'[d] = call[d]
          /\ call[c].at = "put"
      BY <1>1 DEF Apply, Leave, Step, Typed
    <2>2. CASE call[c].alone
      <3>1. /\ labels \subseteq call[c].seen
            /\ \A d \in Calls \ {c} : call[d].at # "put"
        BY <2>1, <2>2 DEF ScopeInv
      <3>2. torn' = torn \ ({scope} \ {NoScope})
        BY <1>1, <2>2 DEF Apply
      <3>3. \A l \in labels' : scope # NoScope /\ ScopeOf[l] = scope => l = mine
        BY <2>1, <3>1 DEF Stale
      <3>4. ScopeHeld'
        BY <2>1, <3>2, <3>3 DEF ScopeHeld, ScopeInv
      <3> QED
        BY <2>1, <3>1, <3>4 DEF ScopeInv, Idle
    <2>3. CASE ~call[c].alone
      <3>1. torn' = torn \union ({scope} \ {NoScope})
        BY <1>1, <2>3 DEF Apply
      <3>2. ScopeHeld'
        BY <2>1, <3>1 DEF ScopeHeld, ScopeInv
      <3>3. \A d \in Calls \ {c} : ~(call[d].at = "put" /\ call[d].alone)
        BY <2>1 DEF ScopeInv
      <3> QED
        BY <2>1, <3>2, <3>3 DEF ScopeInv, Idle
    <2> QED
      BY <2>2, <2>3
  <1>2. ASSUME NEW c \in Calls, NEW l \in Labels, BeginApply(c, l) PROVE ScopeInv'
    <2> DEFINE others == {d \in Calls : call[d].at = "put"}
    <2>1. /\ call[c].at = "idle" /\ UNCHANGED <<labels, torn>>
          /\ call' = [d \in Calls |->
               IF d = c THEN [Idle EXCEPT !.op = "apply", !.label = l, !.seen = labels,
                                          !.alone = others = {}, !.at = "put"]
               ELSE IF d \in others THEN [call[d] EXCEPT !.alone = FALSE] ELSE call[d]]
      BY <1>2 DEF BeginApply, tracker
    <2>2. call'[c].seen = labels /\ (call'[c].alone => others = {})
      BY <2>1 DEF Idle
    <2>3. \A d \in Calls \ {c} : call'[d].at = call[d].at /\ (call[d].at = "put" => ~call'[d].alone)
      <3> TAKE d \in Calls \ {c}
      <3>1. call[d] \in Request
        BY DEF Typed
      <3> QED
        BY <2>1, <3>1 DEF Request
    <2> QED
      BY <2>1, <2>2, <2>3 DEF ScopeInv, ScopeHeld
  <1>3. ASSUME Releasing PROVE ScopeInv'
    <2>1. UNCHANGED <<labels, torn>>
      BY <1>3 DEF Releasing, MakeTag, InsertRelease, BeginRelease, PushTag, tracker
    <2>2. \A d \in Calls : StillLabelling(d)
      <3>1. ASSUME NEW c \in Calls, MakeTag(c) PROVE \A d \in Calls : StillLabelling(d)
        <4>1. call[c] \in Request
          BY DEF Typed
        <4>2. call'[c].at # "put" /\ \A d \in Calls \ {c} : call'[d] = call[d]
          BY <3>1, <4>1 DEF MakeTag, Goto, Leave, Idle, Typed, Request
        <4> QED
          BY <4>2 DEF StillLabelling
      <3>2. ASSUME NEW c \in Calls,
                   \/ \E draft \in BOOLEAN : InsertRelease(c, draft)
                   \/ \E u \in Users, commit \in Commits : BeginRelease(c, u, commit)
            PROVE  \A d \in Calls : StillLabelling(d)
        <4>1. ASSUME NEW draft \in BOOLEAN, InsertRelease(c, draft)
              PROVE  call'[c].at # "put" /\ \A d \in Calls \ {c} : call'[d] = call[d]
          BY <4>1 DEF InsertRelease, Leave, Idle, Typed
        <4>2. ASSUME NEW u \in Users, NEW commit \in Commits, BeginRelease(c, u, commit)
              PROVE  call'[c].at # "put" /\ \A d \in Calls \ {c} : call'[d] = call[d]
          BY <4>2 DEF BeginRelease, Idle, Typed
        <4> QED
          BY <3>2, <4>1, <4>2 DEF StillLabelling
      <3>3. ASSUME NEW commit \in Commits \union {0}, PushTag(commit)
            PROVE  \A d \in Calls : StillLabelling(d)
        <4> TAKE d \in Calls
        <4>1. call[d] \in Request
          BY DEF Typed
        <4> QED
          BY <3>3, <4>1 DEF PushTag, StillLabelling, Request
      <3> QED
        BY <1>3, <3>1, <3>2, <3>3 DEF Releasing
    <2> QED
      BY <2>1, <2>2 DEF StillLabelling, ScopeInv, ScopeHeld
  <1>4. CASE ~Labelling /\ ~Releasing
    <2>1. UNCHANGED torn /\ labels' \subseteq labels /\ \A d \in Calls : StillLabelling(d)
      BY <1>4, OthersStill
    <2>2. ScopeHeld'
      BY <2>1 DEF ScopeInv, ScopeHeld
    <2> QED
      BY <2>1, <2>2 DEF StillLabelling, ScopeInv
  <1> QED
    BY <1>1, <1>2, <1>3, <1>4 DEF Labelling

LEMMA PinnedKept ==
    ASSUME Typed, PinnedInv, [Next]_vars
    PROVE  PinnedInv'
  <1>1. ASSUME NEW c \in Calls, MakeTag(c) PROVE PinnedInv'
    <2>1. /\ call[c] \in Request /\ call[c].at = "tag" /\ UNCHANGED releases
          /\ \A d \in Calls \ {c} : call'[d] = call[d]
      BY <1>1 DEF MakeTag, Step, Typed, Goto, Leave
    <2>2. CASE tag = 0
      <3>1. tag' = call[c].target /\ call'[c].target = call[c].target
        BY <1>1, <2>1, <2>2 DEF MakeTag, Goto, Typed, Request
      <3>2. \A d \in Calls : call[d].at = "row" => call[d].moved
        <4> TAKE d \in Calls
        <4>1. call[d] \in Request
          BY DEF Typed
        <4>2. call[d].target # 0
          BY <4>1 DEF Request, Commits
        <4> QED
          BY <2>2, <4>2 DEF PinnedInv
      <3>3. \A r \in releases : r.moved
        <4> TAKE r \in releases
        <4>1. r \in [target : Commits, moved : BOOLEAN]
          BY DEF Typed
        <4> QED
          BY <2>2, <4>1 DEF PinnedInv, Pinned, Commits
      <3> QED
        BY <2>1, <3>1, <3>2, <3>3 DEF PinnedInv, Pinned
    <2>3. CASE tag # 0
      <3>1. UNCHANGED tag /\ call'[c] = Idle
        BY <1>1, <2>3 DEF MakeTag, Leave, Typed
      <3> QED
        BY <2>1, <3>1 DEF PinnedInv, Pinned, Idle
    <2> QED
      BY <2>2, <2>3
  <1>2. ASSUME NEW c \in Calls, NEW draft \in BOOLEAN, InsertRelease(c, draft) PROVE PinnedInv'
    <2>1. /\ UNCHANGED tag /\ releases' = Stored(c) /\ call[c].at = "row"
          /\ call'[c] = Idle /\ \A d \in Calls \ {c} : call'[d] = call[d]
      BY <1>2 DEF InsertRelease, Step, Leave, Typed
    <2>2. call[c].moved \/ call[c].target = tag
      BY <2>1 DEF PinnedInv
    <2>3. \A r \in releases' : r \in releases \/ r = [target |-> call[c].target, moved |-> call[c].moved]
      BY <2>1 DEF Stored
    <2>4. Pinned'
      BY <2>1, <2>2, <2>3 DEF Pinned, PinnedInv
    <2> QED
      BY <2>1, <2>4 DEF PinnedInv, Idle
  <1>3. ASSUME NEW c \in Calls, NEW u \in Users, NEW commit \in Commits, BeginRelease(c, u, commit)
        PROVE  PinnedInv'
    <2>1. /\ UNCHANGED <<tag, releases>>
          /\ call'[c].target = Resolved(c, commit)
          /\ call'[c].at = IF tag = 0 THEN "tag" ELSE "row"
          /\ \A d \in Calls \ {c} : call'[d] = call[d]
      BY <1>3 DEF BeginRelease, Typed, Idle, git
    <2>2. call'[c].at = "row" => call'[c].target = tag
      BY <2>1 DEF Resolved
    <2> QED
      BY <2>1, <2>2 DEF PinnedInv, Pinned
  <1>4. ASSUME NEW commit \in Commits \union {0}, PushTag(commit) PROVE PinnedInv'
    <2>1. \A r \in releases' : r.moved
      <3>1. \A r \in releases : [r EXCEPT !.moved = TRUE].moved
        BY DEF Typed
      <3> QED
        BY <1>4, <3>1 DEF PushTag
    <2>2. \A d \in Calls : call'[d].at = "row" => call'[d].moved
      <3> TAKE d \in Calls
      <3>1. call[d] \in Request
        BY DEF Typed
      <3> QED
        BY <1>4, <3>1 DEF PushTag, Request
    <2> QED
      BY <2>1, <2>2 DEF PinnedInv, Pinned
  <1>5. ASSUME NEW c \in Calls, Apply(c) \/ \E l \in Labels : BeginApply(c, l) PROVE PinnedInv'
    <2>1. UNCHANGED <<tag, releases>>
      BY <1>5 DEF Apply, BeginApply, git
    <2>2. \A d \in Calls : StillReleasing(d)
      <3> TAKE d \in Calls
      <3>1. call[d] \in Request
        BY DEF Typed
      <3>2. CASE Apply(c)
        BY <3>2 DEF Apply, Leave, Idle, Typed, StillReleasing
      <3>3. ASSUME NEW l \in Labels, BeginApply(c, l) PROVE StillReleasing(d)
        BY <3>1, <3>3 DEF BeginApply, Idle, Request, StillReleasing
      <3> QED
        BY <1>5, <3>2, <3>3
    <2> QED
      BY <2>1, <2>2 DEF StillReleasing, PinnedInv, Pinned
  <1>6. CASE ~Labelling /\ ~Releasing
    <2>1. UNCHANGED <<tag, releases>> /\ \A d \in Calls : StillReleasing(d)
      BY <1>6, OthersStill
    <2> QED
      BY <2>1 DEF StillReleasing, PinnedInv, Pinned
  <1> QED
    BY <1>1, <1>2, <1>3, <1>4, <1>5, <1>6 DEF Labelling, Releasing

\* At most one label of a scope is on the issue once the scope's last change met no other, and a
\* release names the commit its tag is on unless a push moved it (apply_to_issue, create).
THEOREM LabelsAndReleasesKept == Spec => []Kept
  <1>1. Init => KeptInv
    <2> SUFFICES ASSUME Init PROVE KeptInv
      OBVIOUS
    <2>1. /\ call = [c \in Calls |-> Idle] /\ labels = {} /\ tag = 0 /\ releases = {}
          /\ (rows = {} /\ next = 0) \/ (rows = {<<1, "issue">>} /\ next = 2)
      BY DEF Init
    <2>2. Typed
      BY <2>1, IdleType DEF Typed, Ops
    <2> QED
      BY <2>1, <2>2 DEF KeptInv, ScopeInv, ScopeHeld, PinnedInv, Pinned, Idle
  <1>2. KeptInv /\ [Next]_vars => KeptInv'
    BY TypesKept, ScopeKept, PinnedKept DEF KeptInv
  <1>3. KeptInv => Kept
    BY DEF KeptInv, ScopeInv, PinnedInv, Kept
  <1> QED
    BY <1>1, <1>2, <1>3, PTL DEF Spec

-----------------------------------------------------------------------------
(* Who is told                                                             *)

EventRow == [kind : Kinds, by : Users, to : SUBSET Users, due : SUBSET Users, may : SUBSET Users,
             done : BOOLEAN]
JobRow == [event : Nat, to : Users, kind : Kinds, looked : BOOLEAN, alone : BOOLEAN]
NoteRow == [id : Nat, event : Nat, to : Users, kind : Kinds, read : BOOLEAN, alone : BOOLEAN,
            covers : SUBSET Nat]

MailTyped ==
    /\ assignees \subseteq Users /\ watch \in [Users -> Levels]
    /\ events \in Seq(EventRow)
    /\ taken.id \in 0..Len(events) /\ taken.involved \subseteq Users
    /\ jobs \subseteq JobRow
    /\ notes \subseteq NoteRow /\ IsFiniteSet(notes)
    /\ \A n \in notes : n.covers \subseteq 1..Len(events)

\* Whether a user is to hear of an event, by these subscriptions and with these involved.
Hears(w, e, involved, u) ==
    IF e.kind \in {"assigned", "mention"} THEN u \in e.to
    ELSE /\ w[u] = "watching" \/ u \in involved
         /\ w[u] # "ignoring"
         /\ e.kind = "merged" \/ u # e.by

InvolvedBy(assigned, kind) ==
    CASE kind = "closed" -> assigned \union {Author}
      [] kind = "merged" -> {Author}
      [] OTHER -> {}

\* A fan-out at this moment reaches all it must, and none it must not.
Aimed(w, e, involved) ==
    \A u \in Users : /\ u \in e.due => Hears(w, e, involved, u)
                     /\ Hears(w, e, involved, u) => u \in e.may

\* A job or a notification is about an event that has been fanned out, and for one it may reach.
Known(x) ==
    /\ x.event \in 1..Len(events) /\ events[x.event].done
    /\ x.kind = events[x.event].kind /\ x.to \in events[x.event].may

\* A notification nobody has read speaks for every event of its kind.
Speaks(n) == ~n.read => \A i \in 1..Len(events) : events[i].kind = n.kind => i \in n.covers

\* Who has still to hear of an event that was fanned out has a job.
Owed(id) ==
    events[id].done => \A u \in events[id].due :
        \/ \E j \in jobs : j.event = id /\ j.to = u
        \/ \E n \in notes : id \in n.covers /\ n.to = u

Pending(id) == ~events[id].done => Aimed(watch, events[id], InvolvedBy(assignees, events[id].kind))

FanningOut ==
    /\ taken.id = 0 => taken = NoEvent
    /\ taken.id # 0 => ~events[taken.id].done /\ Aimed(watch, events[taken.id], taken.involved)

HeardInv ==
    /\ MailTyped
    /\ \A x \in jobs \union notes : Known(x)
    /\ \A n \in notes : Speaks(n)
    /\ \A id \in 1..Len(events) : Owed(id) /\ Pending(id)
    /\ FanningOut

\* Two handlers that have both looked, or one and what the other has written, overlapped.
Overlapped ==
    /\ \A j, k \in jobs : j # k /\ j.looked /\ k.looked /\ Matching(j, k) => ~j.alone /\ ~k.alone
    /\ \A j \in jobs, n \in notes : j.looked /\ ~n.read /\ Matching(n, j) => ~j.alone /\ ~n.alone

ToldInv == HeardInv /\ Overlapped /\ NoTwin

\* The sets those conditions come from.
LEMMA Recipient ==
    ASSUME watch \in [Users -> Levels], NEW e \in EventRow, NEW involved \in SUBSET Users
    PROVE  Recipients(e, involved) = {u \in Users : Hears(watch, e, involved, u)}
  <1>1. e.to \subseteq Users
    BY DEF EventRow
  <1> QED
    BY <1>1 DEF Recipients, Hears, Watching, Ignoring

LEMMA InvolvedOnes ==
    ASSUME assignees \subseteq Users, NEW kind
    PROVE  Involved(kind) = InvolvedBy(assignees, kind) /\ Involved(kind) \subseteq Users
  BY DEF Involved, InvolvedBy

\* An event is aimed when it is made; one for its subject alone, whatever is watched.
LEMMA EventAimed ==
    ASSUME assignees \subseteq Users, watch \in [Users -> Levels],
           NEW kind \in Kinds, NEW by \in Users, NEW to \in SUBSET Users,
           kind \in {"assigned", "mention"} \/ to = {}
    PROVE  /\ Event(kind, by, to) \in EventRow
           /\ Event(kind, by, to).kind = kind /\ ~Event(kind, by, to).done
           /\ Aimed(watch, Event(kind, by, to), InvolvedBy(assignees, kind))
           /\ kind \in {"assigned", "mention"} => \A w, x : Aimed(w, Event(kind, by, to), x)
  <1> DEFINE e == Event(kind, by, to)
             aud == Audience(kind, by, to)
  <1>1. aud \in SUBSET Users
    BY DEF Audience
  <1>2. e = [kind |-> kind, by |-> by, to |-> to, due |-> aud, may |-> aud, done |-> FALSE]
    BY DEF Event
  <1>3. \A u \in Users : kind \in {"assigned", "mention"} => (u \in aud <=> u \in to)
    BY DEF Audience
  <1>4. kind \notin {"assigned", "mention"} => \A u \in Users :
           (u \in aud <=> /\ watch[u] # "ignoring"
                          /\ watch[u] = "watching" \/ u \in Involved(kind)
                          /\ kind = "merged" \/ u # by)
    BY DEF Audience
  <1> HIDE DEF aud, e
  <1>5. /\ e.kind = kind /\ e.by = by /\ e.to = to /\ e.due = aud /\ e.may = aud /\ ~e.done
        /\ e \in EventRow
    BY <1>1, <1>2 DEF EventRow
  <1>6. kind \in {"assigned", "mention"} => \A w, x : Aimed(w, e, x)
    BY <1>3, <1>5 DEF Aimed, Hears
  <1>7. Aimed(watch, e, InvolvedBy(assignees, kind))
    <2>1. Involved(kind) = InvolvedBy(assignees, kind)
      BY InvolvedOnes
    <2> QED
      BY <1>4, <1>5, <1>6, <2>1 DEF Aimed, Hears
  <1> QED
    BY <1>5, <1>6, <1>7 DEF e

\* A row of the outbox once the user's own subscription or assignment has changed.
Old(e, f, s) ==
    /\ f.kind = e.kind /\ f.by = e.by /\ f.to = e.to /\ (f.done <=> e.done)
    /\ f.due = IF e.done THEN e.due ELSE e.due \ s
    /\ f.may = IF e.done THEN e.may ELSE e.may \union s

\* Operations append their events, and may stir what was there for some user.
Posts(s, new) ==
    /\ s \subseteq Users /\ new \in Seq(EventRow)
    /\ events' \in Seq(EventRow) /\ Len(events') = Len(events) + Len(new)
    /\ \A i \in 1..Len(events) : Old(events[i], events'[i], s)
    /\ \A i \in 1..Len(new) : events'[Len(events) + i] = new[i]
    /\ \A i \in 1..Len(new) : ~new[i].done /\ Aimed(watch', new[i], InvolvedBy(assignees', new[i].kind))
    /\ notes' = Covering(new) /\ UNCHANGED <<jobs, taken>>
    /\ watch' \in [Users -> Levels] /\ assignees' \subseteq Users
    /\ \A u \in Users \ s : watch'[u] = watch[u] /\ (u \in assignees' <=> u \in assignees)

\* What Covering makes of a notification.
Extended(n, new) ==
    IF n.read THEN n
    ELSE [n EXCEPT !.covers = @ \union {Len(events) + i : i \in {i \in DOMAIN new : new[i].kind = n.kind}}]

LEMMA CoveringIs == \A new : Covering(new) = {Extended(n, new) : n \in notes}
  BY DEF Covering, Extended

LEMMA ExtendedRow ==
    ASSUME MailTyped, NEW n \in notes, NEW new \in Seq(EventRow), NEW m, m = Extended(n, new)
    PROVE  /\ m \in NoteRow /\ m.id = n.id /\ m.event = n.event /\ m.to = n.to /\ m.kind = n.kind
           /\ (m.read <=> n.read) /\ (m.alone <=> n.alone)
           /\ n.covers \subseteq m.covers /\ m.covers \subseteq 1..(Len(events) + Len(new))
           /\ ~n.read => \A i \in 1..Len(new) : new[i].kind = n.kind => Len(events) + i \in m.covers
  <1>1. n \in NoteRow /\ n.covers \subseteq 1..Len(events) /\ Len(events) \in Nat /\ Len(new) \in Nat
        /\ DOMAIN new = 1..Len(new)
    BY DEF MailTyped
  <1> DEFINE more == {Len(events) + i : i \in {i \in DOMAIN new : new[i].kind = n.kind}}
  <1>2. more \subseteq 1..(Len(events) + Len(new))
    BY <1>1
  <1>3. \A i \in 1..Len(new) : new[i].kind = n.kind => Len(events) + i \in more
    BY <1>1
  <1>4. n.covers \union more \in SUBSET Nat
    BY <1>1, <1>2
  <1>5. m = IF n.read THEN n ELSE [n EXCEPT !.covers = n.covers \union more]
    BY DEF Extended
  <1> HIDE DEF more
  <1>6. CASE n.read
    <2>1. m = n
      BY <1>5, <1>6
    <2>2. n.covers \subseteq 1..(Len(events) + Len(new))
      BY <1>1
    <2> QED
      BY <1>1, <1>6, <2>1, <2>2
  <1>7. CASE ~n.read
    <2>1. m = [n EXCEPT !.covers = n.covers \union more]
      BY <1>5, <1>7
    <2>2. m \in NoteRow /\ m.covers = n.covers \union more
      BY <1>1, <1>4, <2>1 DEF NoteRow
    <2>3. /\ m.id = n.id /\ m.event = n.event /\ m.to = n.to /\ m.kind = n.kind
          /\ (m.read <=> n.read) /\ (m.alone <=> n.alone)
      BY <1>1, <2>1 DEF NoteRow
    <2>4. n.covers \subseteq 1..(Len(events) + Len(new))
      BY <1>1
    <2> QED
      BY <1>2, <1>3, <2>2, <2>3, <2>4
  <1> QED
    BY <1>6, <1>7

\* Whoever is not stirred hears of an event as before; who is may, and need not.
LEMMA AimedStirred ==
    ASSUME NEW e, NEW f, NEW s, NEW w, NEW v, NEW x, NEW y, Old(e, f, s), ~e.done, Aimed(w, e, x),
           \A u \in Users \ s : v[u] = w[u] /\ (u \in y <=> u \in x)
    PROVE  Aimed(v, f, y)
  <1>1. \A u \in Users \ s : Hears(v, f, y, u) <=> Hears(w, e, x, u)
    BY DEF Hears, Old
  <1>2. f.due = e.due \ s /\ f.may = e.may \union s
    BY DEF Old
  <1> QED
    BY <1>1, <1>2 DEF Aimed

LEMMA InvolvedStirred ==
    ASSUME NEW s, NEW old, NEW new, NEW kind, \A u \in Users \ s : u \in new <=> u \in old
    PROVE  \A u \in Users \ s : u \in InvolvedBy(new, kind) <=> u \in InvolvedBy(old, kind)
  BY DEF InvolvedBy

LEMMA PostHeard ==
    ASSUME HeardInv, NEW s, NEW new, Posts(s, new)
    PROVE  HeardInv'
  <1>0. /\ MailTyped /\ events \in Seq(EventRow) /\ Len(events) \in Nat /\ new \in Seq(EventRow)
        /\ Len(new) \in Nat /\ Len(events') = Len(events) + Len(new)
        /\ jobs' = jobs /\ taken' = taken /\ taken.id \in 0..Len(events)
        /\ notes' = {Extended(n, new) : n \in notes}
    BY CoveringIs DEF HeardInv, MailTyped, Posts
  <1>1. \A i \in 1..Len(events) : Old(events[i], events'[i], s)
    BY DEF Posts
  <1>2. MailTyped'
    <2>1. notes' \subseteq NoteRow /\ \A n \in notes' : n.covers \subseteq 1..Len(events')
      <3> SUFFICES ASSUME NEW m \in notes'
                   PROVE  m \in NoteRow /\ m.covers \subseteq 1..Len(events')
        OBVIOUS
      <3>1. PICK n \in notes : m = Extended(n, new)
        BY <1>0
      <3> QED
        BY <1>0, <3>1, ExtendedRow
    <2>2. IsFiniteSet(notes')
      <3> DEFINE f == [n \in notes |-> Extended(n, new)]
      <3>1. f \in [notes -> notes'] /\ \A m \in notes' : \E n \in notes : f[n] = m
        BY <1>0
      <3>2. f \in Surjection(notes, notes')
        BY <3>1 DEF Surjection
      <3>3. IsFiniteSet(notes)
        BY <1>0 DEF MailTyped
      <3> HIDE DEF f
      <3> QED
        BY <3>2, <3>3, FS_Surjection
    <2>3. /\ assignees' \subseteq Users /\ watch' \in [Users -> Levels] /\ events' \in Seq(EventRow)
      BY DEF Posts
    <2>4. taken'.id \in 0..Len(events') /\ taken'.involved \subseteq Users
      BY <1>0 DEF MailTyped
    <2> QED
      BY <1>0, <2>1, <2>2, <2>3, <2>4 DEF MailTyped
  <1>3. ASSUME NEW x, Known(x), NEW y, y.event = x.event, y.kind = x.kind, y.to = x.to
        PROVE  y.event \in 1..Len(events') /\ events'[y.event].done
               /\ y.kind = events'[y.event].kind /\ y.to \in events'[y.event].may
    <2>1. Old(events[x.event], events'[x.event], s) /\ events[x.event].done
      BY <1>1, <1>3 DEF Known
    <2> QED
      BY <1>0, <1>3, <2>1 DEF Known, Old
  <1>4. ASSUME NEW y \in (jobs \union notes)'
        PROVE  Known(y)'
    <2>1. CASE y \in jobs
      <3>1. Known(y)
        BY <2>1 DEF HeardInv
      <3> QED
        BY <1>3, <3>1 DEF Known
    <2>2. CASE y \in notes'
      <3>1. PICK n \in notes : y = Extended(n, new)
        BY <1>0, <2>2
      <3>2. Known(n) /\ y.event = n.event /\ y.kind = n.kind /\ y.to = n.to
        BY <1>0, <3>1, ExtendedRow DEF HeardInv
      <3> QED
        BY <1>3, <3>2 DEF Known
    <2> QED
      BY <1>0, <1>4, <2>1, <2>2
  <1>5. ASSUME NEW m \in notes'
        PROVE  Speaks(m)'
    <2>1. PICK n \in notes : m = Extended(n, new)
      BY <1>0
    <2>2. /\ m.kind = n.kind /\ (m.read <=> n.read) /\ n.covers \subseteq m.covers
          /\ ~n.read => \A i \in 1..Len(new) : new[i].kind = n.kind => Len(events) + i \in m.covers
      BY <1>0, <2>1, ExtendedRow
    <2>3. Speaks(n)
      BY DEF HeardInv
    <2> SUFFICES ASSUME ~n.read, NEW i \in 1..Len(events'), events'[i].kind = n.kind
                 PROVE  i \in m.covers
      BY <2>2 DEF Speaks
    <2>4. CASE i \in 1..Len(events)
      BY <1>1, <2>2, <2>3, <2>4 DEF Speaks, Old
    <2>5. CASE i \notin 1..Len(events)
      <3>1. i - Len(events) \in 1..Len(new) /\ i = Len(events) + (i - Len(events))
        BY <1>0, <2>5
      <3> DEFINE k == i - Len(events)
      <3>2. k \in 1..Len(new) /\ i = Len(events) + k
        BY <3>1
      <3> HIDE DEF k
      <3>3. new[k] = events'[i]
        BY <3>2 DEF Posts
      <3> QED
        BY <2>2, <3>2, <3>3
    <2> QED
      BY <2>4, <2>5
  <1>6. ASSUME NEW i \in 1..Len(events'), i \notin 1..Len(events)
        PROVE  ~events'[i].done /\ Aimed(watch', events'[i], InvolvedBy(assignees', events'[i].kind))
    <2> DEFINE k == i - Len(events)
    <2>1. k \in 1..Len(new) /\ i = Len(events) + k
      BY <1>0, <1>6
    <2> HIDE DEF k
    <2>2. events'[i] = new[k]
      BY <2>1 DEF Posts
    <2> QED
      BY <2>1, <2>2 DEF Posts
  <1>7. ASSUME NEW i \in 1..Len(events')
        PROVE  Owed(i)'
    <2>1. CASE i \notin 1..Len(events)
      BY <1>6, <2>1 DEF Owed
    <2>2. CASE i \in 1..Len(events)
      <3> SUFFICES ASSUME events'[i].done, NEW u \in events'[i].due
                   PROVE  \/ \E j \in jobs' : j.event = i /\ j.to = u
                          \/ \E n \in notes' : i \in n.covers /\ n.to = u
        BY DEF Owed
      <3>1. events[i].done /\ u \in events[i].due
        BY <1>1, <2>2 DEF Old
      <3>2. Owed(i)
        BY <2>2 DEF HeardInv
      <3>3. CASE \E j \in jobs : j.event = i /\ j.to = u
        BY <1>0, <3>3
      <3>4. CASE \E n \in notes : i \in n.covers /\ n.to = u
        <4>1. PICK n \in notes : i \in n.covers /\ n.to = u
          BY <3>4
        <4>2. PICK m : m = Extended(n, new)
          OBVIOUS
        <4>3. m \in notes' /\ i \in m.covers /\ m.to = u
          BY <1>0, <4>1, <4>2, ExtendedRow
        <4> QED
          BY <4>3
      <3> QED
        BY <3>1, <3>2, <3>3, <3>4 DEF Owed
    <2> QED
      BY <2>1, <2>2
  <1>8. \A u \in Users \ s : watch'[u] = watch[u] /\ (u \in assignees' <=> u \in assignees)
    BY DEF Posts
  <1>9. ASSUME NEW i \in 1..Len(events')
        PROVE  Pending(i)'
    <2>1. CASE i \notin 1..Len(events)
      BY <1>6, <2>1 DEF Pending
    <2>2. CASE i \in 1..Len(events)
      <3> SUFFICES ASSUME ~events'[i].done
                   PROVE  Aimed(watch', events'[i], InvolvedBy(assignees', events'[i].kind))
        BY DEF Pending
      <3>1. Old(events[i], events'[i], s)
        BY <1>1, <2>2
      <3>2. ~events[i].done /\ events'[i].kind = events[i].kind
        BY <3>1 DEF Old
      <3>3. Aimed(watch, events[i], InvolvedBy(assignees, events[i].kind))
        BY <2>2, <3>2 DEF HeardInv, Pending
      <3>4. \A u \in Users \ s : u \in InvolvedBy(assignees', events[i].kind)
                                    <=> u \in InvolvedBy(assignees, events[i].kind)
        BY <1>8, InvolvedStirred
      <3>5. Aimed(watch', events'[i], InvolvedBy(assignees', events[i].kind))
        BY <1>8, <3>1, <3>2, <3>3, <3>4, AimedStirred
      <3> QED
        BY <3>2, <3>5
    <2> QED
      BY <2>1, <2>2
  <1>10. FanningOut'
    <2>1. CASE taken.id = 0
      BY <1>0, <2>1 DEF HeardInv, FanningOut
    <2>2. CASE taken.id # 0
      <3>1. taken.id \in 1..Len(events) /\ ~events[taken.id].done /\ Aimed(watch, events[taken.id], taken.involved)
        BY <1>0, <2>2 DEF HeardInv, FanningOut
      <3>2. Old(events[taken.id], events'[taken.id], s)
        BY <1>1, <3>1
      <3>3. Aimed(watch', events'[taken.id], taken.involved)
        BY <1>8, <3>1, <3>2, AimedStirred
      <3>4. ~events'[taken.id].done
        BY <3>1, <3>2 DEF Old
      <3> QED
        BY <1>0, <2>2, <3>3, <3>4 DEF FanningOut
    <2> QED
      BY <2>1, <2>2
  <1> QED
    BY <1>2, <1>4, <1>5, <1>7, <1>9, <1>10 DEF HeardInv

LEMMA PostTwins ==
    ASSUME HeardInv, Overlapped, NoTwin, NEW s, NEW new, Posts(s, new)
    PROVE  Overlapped' /\ NoTwin'
  <1>0. /\ MailTyped /\ new \in Seq(EventRow) /\ jobs' = jobs
        /\ notes' = {Extended(n, new) : n \in notes}
    BY CoveringIs DEF HeardInv, Posts
  <1>1. ASSUME NEW m \in notes'
        PROVE  \E n \in notes : /\ m = Extended(n, new) /\ m.to = n.to /\ m.kind = n.kind
                                /\ (m.read <=> n.read) /\ (m.alone <=> n.alone)
    <2>1. PICK n \in notes : m = Extended(n, new)
      BY <1>0
    <2>2. m.to = n.to /\ m.kind = n.kind /\ (m.read <=> n.read) /\ (m.alone <=> n.alone)
      BY <1>0, <2>1, ExtendedRow
    <2> QED
      BY <2>1, <2>2
  <1>2. Overlapped'
    BY <1>0, <1>1 DEF Overlapped, Matching
  <1>3. NoTwin'
    <2> SUFFICES ASSUME NEW p \in notes', NEW q \in notes', p # q, Matching(p, q), ~p.read, ~q.read
                 PROVE  ~p.alone \/ ~q.alone
      BY DEF NoTwin
    <2>1. PICK n \in notes : /\ p = Extended(n, new) /\ p.to = n.to /\ p.kind = n.kind
                             /\ (p.read <=> n.read) /\ (p.alone <=> n.alone)
      BY <1>1
    <2>2. PICK m \in notes : /\ q = Extended(m, new) /\ q.to = m.to /\ q.kind = m.kind
                             /\ (q.read <=> m.read) /\ (q.alone <=> m.alone)
      BY <1>1
    <2>3. n # m
      BY <2>1, <2>2
    <2> QED
      BY <2>1, <2>2, <2>3 DEF NoTwin, Matching
  <1> QED
    BY <1>2, <1>3

LEMMA OldSame == \A e : Old(e, e, {})
  BY DEF Old

LEMMA StirredOld ==
    ASSUME events \in Seq(EventRow), NEW u \in Users
    PROVE  /\ Stirred(u) \in Seq(EventRow) /\ Len(Stirred(u)) = Len(events)
           /\ \A i \in 1..Len(events) : Old(events[i], Stirred(u)[i], {u})
  <1> DEFINE g == [i \in 1..Len(events) |->
                     IF events[i].done THEN events[i]
                     ELSE [events[i] EXCEPT !.due = @ \ {u}, !.may = @ \union {u}]]
  <1>1. Stirred(u) = g /\ Len(events) \in Nat
    BY DEF Stirred
  <1>2. ASSUME NEW i \in 1..Len(events)
        PROVE  g[i] \in EventRow /\ Old(events[i], g[i], {u})
    <2>1. events[i] \in EventRow
      OBVIOUS
    <2>2. CASE events[i].done
      BY <2>1, <2>2 DEF Old
    <2>3. CASE ~events[i].done
      <3> DEFINE y == [events[i] EXCEPT !.due = @ \ {u}, !.may = @ \union {u}]
      <3>1. g[i] = y
        BY <2>3
      <3>2. y \in EventRow
        BY <2>1 DEF EventRow
      <3>3. /\ y.kind = events[i].kind /\ y.by = events[i].by /\ y.to = events[i].to
            /\ y.done = events[i].done
            /\ y.due = events[i].due \ {u} /\ y.may = events[i].may \union {u}
        BY <2>1 DEF EventRow
      <3> HIDE DEF y, g
      <3> QED
        BY <2>3, <3>1, <3>2, <3>3 DEF Old
    <2> QED
      BY <2>2, <2>3
  <1>3. DOMAIN g = 1..Len(events)
    OBVIOUS
  <1> HIDE DEF g
  <1>4. g \in Seq(EventRow) /\ Len(g) = Len(events)
    <2>1. g \in [1..Len(events) -> EventRow]
      BY <1>2, <1>3, <1>1 DEF g
    <2> QED
      BY <1>1, <2>1
  <1> QED
    BY <1>1, <1>2, <1>4

LEMMA CoveringNothing ==
    ASSUME MailTyped
    PROVE  Covering(<<>>) = notes
  <1>1. \A n \in notes : Extended(n, <<>>) = n
    <2> TAKE n \in notes
    <2>1. n \in NoteRow
      BY DEF MailTyped
    <2>2. n.covers \union {} = n.covers
      OBVIOUS
    <2>3. {Len(events) + i : i \in {i \in DOMAIN <<>> : <<>>[i].kind = n.kind}} = {}
      OBVIOUS
    <2>4. [n EXCEPT !.covers = n.covers] = n
      BY <2>1 DEF NoteRow
    <2> QED
      BY <2>2, <2>3, <2>4 DEF Extended
  <1> QED
    BY <1>1, CoveringIs

\* What an operation shows to be one that posts.
LEMMA Appending ==
    ASSUME MailTyped, NEW s \in SUBSET Users, NEW base \in Seq(EventRow), Len(base) = Len(events),
           \A i \in 1..Len(events) : Old(events[i], base[i], s),
           NEW new \in Seq(EventRow), events' = base \o new, notes' = Covering(new),
           UNCHANGED <<jobs, taken>>,
           watch' \in [Users -> Levels], assignees' \subseteq Users,
           \A u \in Users \ s : watch'[u] = watch[u] /\ (u \in assignees' <=> u \in assignees),
           \A i \in 1..Len(new) : ~new[i].done /\ Aimed(watch', new[i], InvolvedBy(assignees', new[i].kind))
    PROVE  Posts(s, new)
  <1> DEFINE both == base \o new
  <1>1. both \in Seq(EventRow) /\ Len(both) = Len(base) + Len(new)
    BY ConcatProperties
  <1>2. \A i \in 1..Len(base) : both[i] = base[i]
    BY ConcatProperties
  <1>3. \A i \in 1..Len(new) : both[Len(base) + i] = new[i]
    BY ConcatProperties
  <1> HIDE DEF both
  <1>4. events' = both
    BY DEF both
  <1> QED
    BY <1>1, <1>2, <1>3, <1>4 DEF Posts

\* An operation that tells of its event, and changes nothing of who is told.
LEMMA Publishing ==
    ASSUME MailTyped, NEW new \in Seq(EventRow), Publish(new), UNCHANGED <<jobs, taken, watch, assignees>>,
           \A i \in 1..Len(new) : ~new[i].done /\ Aimed(watch, new[i], InvolvedBy(assignees, new[i].kind))
    PROVE  Posts({}, new)
  <1>1. events \in Seq(EventRow) /\ watch \in [Users -> Levels] /\ assignees \subseteq Users
    BY DEF MailTyped
  <1>2. \A i \in 1..Len(events) : Old(events[i], events[i], {})
    BY OldSame
  <1>3. events' = events \o new /\ notes' = Covering(new)
    BY DEF Publish
  <1> QED
    BY <1>1, <1>2, <1>3, Appending

\* Each of the operations that post.
LEMMA CallPosts ==
    ASSUME Typed, MailTyped, NEW c \in Calls, Close(c) \/ Merge(c) \/ (\E draft \in BOOLEAN : InsertRelease(c, draft))
    PROVE  \E new : Posts({}, new)
  <1>1. call[c].by \in Users
    <2>1. call[c] \in Request
      BY DEF Typed
    <2> QED
      BY <2>1 DEF Request
  <1>2. assignees \subseteq Users /\ watch \in [Users -> Levels]
    BY DEF MailTyped
  <1> DEFINE closing == Event("closed", call[c].by, {})
             merging == Event("merged", call[c].by, {})
             releasing == Event("released", call[c].by, {})
             Good(e) == e \in EventRow /\ ~e.done /\ Aimed(watch, e, InvolvedBy(assignees, e.kind))
  <1>3. Good(closing) /\ Good(merging) /\ Good(releasing)
    <2>1. {"closed", "merged", "released"} \subseteq Kinds /\ {} \in SUBSET Users
      BY DEF Kinds
    <2> QED
      BY <1>1, <1>2, <2>1, EventAimed
  <1>4. \E new : /\ new \in {<<>>, <<closing>>, <<merging>>, <<releasing>>, <<merging>> \o <<closing>>}
                 /\ Publish(new) /\ UNCHANGED <<jobs, taken, watch, assignees>>
    BY DEF Close, Merge, InsertRelease, tracker
  <1> HIDE DEF closing, merging, releasing, Good
  <1>5. PICK new : /\ new \in {<<>>, <<closing>>, <<merging>>, <<releasing>>, <<merging>> \o <<closing>>}
                   /\ Publish(new) /\ UNCHANGED <<jobs, taken, watch, assignees>>
    BY <1>4
  <1>6. closing \in EventRow /\ merging \in EventRow /\ releasing \in EventRow
    BY <1>3 DEF Good
  <1> DEFINE both == <<merging>> \o <<closing>>
  <1>7. both \in Seq(EventRow) /\ Len(both) = 2 /\ both[1] = merging /\ both[2] = closing
    <2>1. /\ <<merging>> \in Seq(EventRow) /\ <<closing>> \in Seq(EventRow)
          /\ Len(<<merging>>) = 1 /\ Len(<<closing>>) = 1
          /\ <<merging>>[1] = merging /\ <<closing>>[1] = closing
      BY <1>6
    <2> QED
      BY <2>1, ConcatProperties
  <1> HIDE DEF both
  <1>8. new \in Seq(EventRow) /\ \A i \in 1..Len(new) : Good(new[i])
    <2>1. CASE new = <<>>
      BY <2>1
    <2>2. CASE \E e \in {closing, merging, releasing} : new = <<e>>
      <3>1. PICK e \in {closing, merging, releasing} : new = <<e>>
        BY <2>2
      <3> QED
        BY <1>3, <1>6, <3>1
    <2>3. CASE new = both
      <3>1. \A i \in 1..2 : i = 1 \/ i = 2
        OBVIOUS
      <3> QED
        BY <1>3, <1>7, <2>3, <3>1
    <2> QED
      BY <1>5, <2>1, <2>2, <2>3 DEF both
  <1>9. \A i \in 1..Len(new) : ~new[i].done /\ Aimed(watch, new[i], InvolvedBy(assignees, new[i].kind))
    BY <1>8 DEF Good
  <1> QED
    BY <1>5, <1>8, <1>9, Publishing

LEMMA CommentPosts ==
    ASSUME MailTyped, NEW u \in Users, NEW v \in Users, Comment(u, v)
    PROVE  \E new : Posts({}, new)
  <1>1. assignees \subseteq Users /\ watch \in [Users -> Levels]
    BY DEF MailTyped
  <1> DEFINE e == Event("mention", u, {v})
             new == IF v = u THEN <<>> ELSE <<e>>
  <1>2. e \in EventRow /\ ~e.done /\ Aimed(watch, e, InvolvedBy(assignees, e.kind))
    <2>1. "mention" \in Kinds /\ {v} \in SUBSET Users
      BY DEF Kinds
    <2> QED
      BY <1>1, <2>1, EventAimed
  <1>3. Publish(new) /\ UNCHANGED <<jobs, taken, watch, assignees>>
    BY DEF Comment, tracker
  <1> HIDE DEF e
  <1>4. new \in Seq(EventRow)
    BY <1>2
  <1>5. \A i \in 1..Len(new) : ~new[i].done /\ Aimed(watch, new[i], InvolvedBy(assignees, new[i].kind))
    <2>1. CASE v = u
      BY <2>1
    <2>2. CASE v # u
      BY <1>2, <2>2
    <2> QED
      BY <2>1, <2>2
  <1> HIDE DEF new
  <1> QED
    BY <1>3, <1>4, <1>5, Publishing

LEMMA AssignPosts ==
    ASSUME MailTyped, NEW u \in Users, NEW v \in Users, Assign(u, v)
    PROVE  \E new : Posts({v}, new)
  <1>1. /\ assignees \subseteq Users /\ watch \in [Users -> Levels] /\ events \in Seq(EventRow)
    BY DEF MailTyped
  <1> DEFINE e == Event("assigned", u, {v})
             new == IF v \in assignees THEN <<>> ELSE <<e>>
  <1>2. e \in EventRow /\ ~e.done /\ \A w, x : Aimed(w, e, x)
    <2>1. "assigned" \in Kinds /\ {v} \in SUBSET Users
      BY DEF Kinds
    <2> QED
      BY <1>1, <2>1, EventAimed
  <1>3. /\ events' = Stirred(v) \o new /\ notes' = Covering(new)
        /\ UNCHANGED <<jobs, taken, watch>> /\ assignees' = assignees \union {v}
    BY DEF Assign
  <1> HIDE DEF e
  <1>4. new \in Seq(EventRow)
    BY <1>2
  <1>5. \A i \in 1..Len(new) : ~new[i].done /\ Aimed(watch', new[i], InvolvedBy(assignees', new[i].kind))
    <2>1. CASE v \in assignees
      BY <2>1
    <2>2. CASE v \notin assignees
      BY <1>2, <2>2
    <2> QED
      BY <2>1, <2>2
  <1> HIDE DEF new
  <1>6. /\ Stirred(v) \in Seq(EventRow) /\ Len(Stirred(v)) = Len(events)
        /\ \A i \in 1..Len(events) : Old(events[i], Stirred(v)[i], {v})
    BY <1>1, StirredOld
  <1>7. /\ watch' \in [Users -> Levels] /\ assignees' \subseteq Users /\ {v} \in SUBSET Users
        /\ \A x \in Users \ {v} : watch'[x] = watch[x] /\ (x \in assignees' <=> x \in assignees)
    BY <1>1, <1>3
  <1>8. Posts({v}, new)
    BY <1>3, <1>4, <1>5, <1>6, <1>7, Appending
  <1> QED
    BY <1>8

LEMMA StirringPosts ==
    ASSUME MailTyped, NEW u \in Users, Unassign(u) \/ (\E level \in Levels : Watch(u, level))
    PROVE  Posts({u}, <<>>)
  <1>1. /\ assignees \subseteq Users /\ watch \in [Users -> Levels] /\ events \in Seq(EventRow)
    BY DEF MailTyped
  <1>2. events' = Stirred(u) /\ notes' = notes /\ UNCHANGED <<jobs, taken>>
    BY DEF Unassign, Watch
  <1>3. notes' = Covering(<<>>)
    BY <1>2, CoveringNothing
  <1>4. /\ Stirred(u) \in Seq(EventRow) /\ Len(Stirred(u)) = Len(events)
        /\ \A i \in 1..Len(events) : Old(events[i], Stirred(u)[i], {u})
    BY <1>1, StirredOld
  <1>5. /\ watch' \in [Users -> Levels] /\ assignees' \subseteq Users
        /\ \A x \in Users \ {u} : watch'[x] = watch[x] /\ (x \in assignees' <=> x \in assignees)
    <2>1. CASE Unassign(u)
      BY <1>1, <2>1 DEF Unassign
    <2>2. ASSUME NEW level \in Levels, Watch(u, level)
          PROVE  /\ watch' \in [Users -> Levels] /\ assignees' \subseteq Users
                 /\ \A x \in Users \ {u} : watch'[x] = watch[x] /\ (x \in assignees' <=> x \in assignees)
      BY <1>1, <2>2 DEF Watch, tracker
    <2> QED
      BY <2>1, <2>2
  <1>6. events' = Stirred(u) \o <<>> /\ <<>> \in Seq(EventRow) /\ Len(<<>>) = 0
    BY <1>2, <1>4, ConcatEmptySeq
  <1>7. \A i \in 1..Len(<<>>) : FALSE
    OBVIOUS
  <1> QED
    BY <1>2, <1>3, <1>4, <1>5, <1>6, <1>7, Appending

-----------------------------------------------------------------------------
(* Fan-out and delivery *)

\* What the steps that only take an event up, or drop it, leave as it was.
LEMMA TakingHeard ==
    ASSUME HeardInv, UNCHANGED <<assignees, watch, events, jobs, notes>>,
           taken'.id \in 0..Len(events), taken'.involved \subseteq Users, FanningOut'
    PROVE  HeardInv'
  <1>1. MailTyped'
    BY DEF HeardInv, MailTyped
  <1>2. \A x \in (jobs \union notes)' : Known(x)'
    BY DEF HeardInv, Known
  <1>3. \A n \in notes' : Speaks(n)'
    BY DEF HeardInv, Speaks
  <1>4. \A i \in 1..Len(events') : Owed(i)' /\ Pending(i)'
    <2> TAKE i \in 1..Len(events')
    <2>1. Owed(i) /\ Pending(i)
      BY DEF HeardInv
    <2>2. Owed(i)'
      BY <2>1 DEF Owed
    <2>3. Pending(i)'
      BY <2>1 DEF Pending
    <2> QED
      BY <2>2, <2>3
  <1> QED
    BY <1>1, <1>2, <1>3, <1>4 DEF HeardInv

LEMMA FanOutHeard ==
    ASSUME HeardInv, NEW id \in DOMAIN events, FanOut(id)
    PROVE  HeardInv'
  <1>1. id \in 1..Len(events) /\ Len(events) \in Nat /\ assignees \subseteq Users
    BY DEF HeardInv, MailTyped
  <1>2. /\ UNCHANGED <<assignees, watch, events, jobs, notes>> /\ ~events[id].done
        /\ taken' = [id |-> id, involved |-> Involved(events[id].kind)]
    BY DEF FanOut, tracker
  <1>3. taken'.id = id /\ taken'.involved = InvolvedBy(assignees, events[id].kind)
        /\ taken'.involved \subseteq Users
    BY <1>1, <1>2, InvolvedOnes
  <1>4. Aimed(watch, events[id], InvolvedBy(assignees, events[id].kind))
    BY <1>1, <1>2 DEF HeardInv, Pending
  <1>5. FanningOut'
    BY <1>1, <1>2, <1>3, <1>4 DEF FanningOut
  <1>6. taken'.id \in 0..Len(events)
    BY <1>1, <1>3
  <1> QED
    BY <1>2, <1>3, <1>5, <1>6, TakingHeard

LEMMA CutFanOutHeard ==
    ASSUME HeardInv, CutFanOut
    PROVE  HeardInv'
  <1>1. UNCHANGED <<assignees, watch, events, jobs, notes>> /\ taken' = NoEvent
    BY DEF CutFanOut, tracker
  <1>2. taken'.id = 0 /\ taken'.involved \subseteq Users
    BY <1>1 DEF NoEvent
  <1>3. FanningOut'
    BY <1>1, <1>2 DEF FanningOut
  <1>4. taken'.id \in 0..Len(events)
    BY <1>2 DEF HeardInv, MailTyped
  <1> QED
    BY <1>1, <1>2, <1>3, <1>4, TakingHeard

\* The jobs of an event are those of everybody a fan-out was to reach.
LEMMA EnqueueHeard ==
    ASSUME HeardInv, Enqueue
    PROVE  HeardInv'
  <1> DEFINE id == taken.id
             e == events[id]
             reached == Recipients(e, taken.involved)
             new == [event : {id}, to : reached, kind : {e.kind}, looked : {FALSE}, alone : {TRUE}]
  <1>0. /\ MailTyped /\ events \in Seq(EventRow) /\ Len(events) \in Nat /\ DOMAIN events = 1..Len(events)
        /\ taken.involved \in SUBSET Users /\ watch \in [Users -> Levels] /\ jobs \subseteq JobRow
    BY DEF HeardInv, MailTyped
  <1>1. /\ UNCHANGED <<assignees, watch, notes>> /\ taken' = NoEvent
        /\ jobs' = jobs \union new
        /\ events' = [events EXCEPT ![id].done = TRUE]
    BY DEF Enqueue, tracker
  <1>2. id \in 1..Len(events) /\ ~e.done /\ Aimed(watch, e, taken.involved)
    <2>1. id # 0
      BY DEF Enqueue, HeardInv, FanningOut
    <2> QED
      BY <1>0, <2>1 DEF HeardInv, FanningOut, MailTyped
  <1>3. e \in EventRow
    BY <1>0, <1>2
  <1>4. reached = {u \in Users : Hears(watch, e, taken.involved, u)}
    BY <1>0, <1>3, Recipient
  <1>5. reached \subseteq Users /\ e.due \subseteq reached /\ reached \subseteq e.may
    BY <1>2, <1>3, <1>4 DEF Aimed, EventRow
  <1>6. events' = [events EXCEPT ![id] = [e EXCEPT !.done = TRUE]]
    BY <1>0, <1>1, <1>2
  <1>7. [e EXCEPT !.done = TRUE] \in EventRow
    BY <1>3 DEF EventRow
  <1>8. events' \in Seq(EventRow) /\ Len(events') = Len(events)
        /\ (\A i \in 1..Len(events) : i # id => events'[i] = events[i])
        /\ events'[id] = [e EXCEPT !.done = TRUE]
    <2> HIDE DEF e, id
    <2> QED
      BY <1>0, <1>2, <1>6, <1>7
  <1>9. /\ events'[id].kind = e.kind /\ events'[id].due = e.due /\ events'[id].may = e.may
        /\ events'[id].done
    BY <1>3, <1>8 DEF EventRow
  <1>10. \A j \in new : j \in JobRow /\ j.event = id /\ j.kind = e.kind /\ j.to \in reached /\ ~j.looked
    <2>1. id \in Nat /\ e.kind \in Kinds
      BY <1>2, <1>3 DEF EventRow
    <2> HIDE DEF id, e, reached
    <2> QED
      BY <1>5, <2>1 DEF JobRow
  <1>11. \A u \in reached : \E j \in new : j.event = id /\ j.to = u
    <2> TAKE u \in reached
    <2> DEFINE j == [event |-> id, to |-> u, kind |-> e.kind, looked |-> FALSE, alone |-> TRUE]
    <2>1. j \in new /\ j.event = id /\ j.to = u
      OBVIOUS
    <2> QED
      BY <2>1
  <1> HIDE DEF e, id, reached, new
  <1>12. \A i \in 1..Len(events) : /\ events'[i].kind = events[i].kind
                                   /\ events'[i].due = events[i].due /\ events'[i].may = events[i].may
                                   /\ events[i].done => events'[i].done
                                   /\ i # id => events'[i] = events[i]
    BY <1>2, <1>8, <1>9 DEF e
  <1>13. MailTyped'
    <2>1. jobs' \subseteq JobRow
      BY <1>0, <1>1, <1>10
    <2>2. taken'.id \in 0..Len(events') /\ taken'.involved \subseteq Users
      BY <1>0, <1>1, <1>8 DEF NoEvent
    <2> QED
      BY <1>0, <1>1, <1>8, <2>1, <2>2 DEF MailTyped
  <1>14. \A x \in (jobs \union notes)' : Known(x)'
    <2> SUFFICES ASSUME NEW x \in jobs' \union notes' PROVE Known(x)'
      OBVIOUS
    <2>1. CASE x \in jobs \union notes
      <3>1. Known(x)
        BY <2>1 DEF HeardInv
      <3> QED
        BY <1>8, <1>12, <3>1 DEF Known
    <2>2. CASE x \in new
      BY <1>2, <1>5, <1>8, <1>9, <1>10, <2>2 DEF Known
    <2> QED
      BY <1>1, <2>1, <2>2
  <1>15. \A n \in notes' : Speaks(n)'
    BY <1>1, <1>8, <1>12 DEF HeardInv, Speaks
  <1>16. ASSUME NEW i \in 1..Len(events')
         PROVE  Owed(i)'
    <2>1. CASE i = id
      <3>1. \A u \in events'[i].due : \E j \in jobs' : j.event = i /\ j.to = u
        BY <1>1, <1>5, <1>9, <1>11, <2>1
      <3> QED
        BY <3>1 DEF Owed
    <2>2. CASE i # id
      <3>1. Owed(i) /\ events'[i] = events[i]
        BY <1>8, <1>12, <2>2 DEF HeardInv
      <3> QED
        BY <1>1, <3>1 DEF Owed
    <2> QED
      BY <2>1, <2>2
  <1>17. ASSUME NEW i \in 1..Len(events')
         PROVE  Pending(i)'
    <2>1. CASE i = id
      BY <1>9, <2>1 DEF Pending
    <2>2. CASE i # id
      <3>1. Pending(i) /\ events'[i] = events[i]
        BY <1>8, <1>12, <2>2 DEF HeardInv
      <3> QED
        BY <1>1, <3>1 DEF Pending
    <2> QED
      BY <2>1, <2>2
  <1>18. FanningOut'
    BY <1>1 DEF FanningOut, NoEvent
  <1> QED
    BY <1>13, <1>14, <1>15, <1>16, <1>17, <1>18 DEF HeardInv

\* Of one event, for one reader.
SameTold(x, y) == x.event = y.event /\ x.to = y.to /\ x.kind = y.kind

\* The steps of the handlers: jobs and notifications come from jobs and notifications, and whoever
\* had either has one.
LEMMA DeliveryHeard ==
    ASSUME HeardInv, UNCHANGED <<assignees, watch, events, taken>>,
           jobs' \subseteq JobRow, notes' \subseteq NoteRow, IsFiniteSet(notes'),
           \A k \in jobs' : \E i \in jobs : SameTold(k, i),
           \A n \in notes' :
               \/ \E m \in notes : SameTold(n, m) /\ n.covers = m.covers /\ (m.read => n.read)
               \/ /\ \E i \in jobs : SameTold(n, i)
                  /\ n.covers = {i \in 1..Len(events) : events[i].kind = n.kind},
           \A m \in notes : \E n \in notes' : n.to = m.to /\ n.covers = m.covers,
           \A i \in jobs : \/ \E k \in jobs' : SameTold(k, i)
                           \/ \E n \in notes' : n.to = i.to /\ i.event \in n.covers
    PROVE  HeardInv'
  <1>1. \A x \in jobs \union notes : Known(x)
    BY DEF HeardInv
  <1>2. ASSUME NEW x, NEW y \in jobs \union notes, SameTold(x, y) PROVE Known(x)'
    BY <1>1, <1>2 DEF Known, SameTold
  <1>3. \A x \in jobs' \union notes' : Known(x)'
    BY <1>2
  <1>4. ASSUME NEW n \in notes' PROVE n.covers \subseteq 1..Len(events') /\ Speaks(n)'
    <2>1. CASE \E m \in notes : SameTold(n, m) /\ n.covers = m.covers /\ (m.read => n.read)
      BY <2>1 DEF HeardInv, MailTyped, Speaks, SameTold
    <2>2. CASE n.covers = {i \in 1..Len(events) : events[i].kind = n.kind}
      BY <2>2 DEF Speaks
    <2> QED
      BY <2>1, <2>2
  <1>5. ASSUME NEW i \in 1..Len(events') PROVE Owed(i)'
    <2>1. Owed(i)
      BY DEF HeardInv
    <2>2. ASSUME NEW u, \/ \E j \in jobs : j.event = i /\ j.to = u
                        \/ \E n \in notes : i \in n.covers /\ n.to = u
          PROVE  \/ \E j \in jobs' : j.event = i /\ j.to = u
                 \/ \E n \in notes' : i \in n.covers /\ n.to = u
      BY <2>2 DEF SameTold
    <2> QED
      BY <2>1, <2>2 DEF Owed
  <1>6. \A i \in 1..Len(events') : Pending(i)'
    BY DEF HeardInv, Pending
  <1>7. FanningOut'
    BY DEF HeardInv, FanningOut
  <1>8. MailTyped'
    BY <1>4 DEF HeardInv, MailTyped
  <1> QED
    BY <1>3, <1>4, <1>5, <1>6, <1>7, <1>8 DEF HeardInv

LEMMA LookTold ==
    ASSUME ToldInv, NEW j \in jobs, Look(j)
    PROVE  ToldInv'
  <1> DEFINE rivals == {k \in jobs : k.looked /\ Matching(k, j)}
             ready == [j EXCEPT !.looked = TRUE, !.alone = rivals = {}]
             Dimmed(k) == [k EXCEPT !.alone = FALSE]
             dim == {Dimmed(k) : k \in rivals}
  <1>1. /\ HeardInv /\ Overlapped /\ NoTwin /\ jobs \subseteq JobRow /\ notes \subseteq NoteRow
        /\ IsFiniteSet(notes)
    BY DEF ToldInv, HeardInv, MailTyped
  <1>2. /\ ~j.looked
        /\ jobs' = IF Unread(j) THEN jobs \ {j} ELSE ((jobs \ {j}) \ rivals) \union {ready} \union dim
        /\ UNCHANGED <<assignees, watch, events, taken, notes>>
    BY DEF Look, tracker
  <1>3. ready \in JobRow /\ SameTold(ready, j) /\ ready.looked /\ (ready.alone <=> rivals = {})
    <2>1. j \in JobRow /\ (rivals = {}) \in BOOLEAN
      BY <1>1
    <2> HIDE DEF rivals
    <2> QED
      BY <2>1 DEF JobRow, SameTold
  <1>4. \A k \in jobs : /\ Dimmed(k) \in JobRow /\ SameTold(Dimmed(k), k)
                        /\ (Dimmed(k).looked <=> k.looked) /\ ~Dimmed(k).alone
    BY <1>1 DEF JobRow, SameTold
  <1>5. rivals \subseteq jobs /\ \A k \in jobs : k \in rivals <=> k.looked /\ k.to = j.to /\ k.kind = j.kind
    BY DEF Matching
  <1> HIDE DEF ready, Dimmed, rivals
  <1>6. HeardInv'
    <2>1. jobs' \subseteq JobRow
      BY <1>1, <1>2, <1>3, <1>4, <1>5
    <2>2. \A k \in jobs' : \E i \in jobs : SameTold(k, i)
      <3>1. \A k \in jobs : SameTold(k, k)
        BY DEF SameTold
      <3> QED
        BY <1>2, <1>3, <1>4, <1>5, <3>1
    <2>3. \A n \in notes' : \E m \in notes : SameTold(n, m) /\ n.covers = m.covers /\ (m.read => n.read)
      BY <1>2 DEF SameTold
    <2>4. ASSUME NEW i \in jobs
          PROVE  \/ \E k \in jobs' : SameTold(k, i)
                 \/ \E n \in notes' : n.to = i.to /\ i.event \in n.covers
      <3>1. CASE i # j /\ (i \notin rivals \/ Unread(j))
        <4>1. i \in jobs' /\ SameTold(i, i)
          BY <1>2, <3>1 DEF SameTold
        <4> QED
          BY <4>1
      <3>2. CASE i # j /\ i \in rivals /\ ~Unread(j)
        <4>1. Dimmed(i) \in jobs'
          BY <1>2, <3>2
        <4> QED
          BY <1>4, <4>1
      <3>3. CASE i = j /\ ~Unread(j)
        BY <1>2, <1>3, <3>3
      <3>4. CASE i = j /\ Unread(j)
        <4>1. PICK n \in notes : n.to = j.to /\ n.kind = j.kind /\ ~n.read
          BY <3>4 DEF Unread, Matching
        <4>2. Speaks(n) /\ Known(j)
          BY <1>1 DEF HeardInv
        <4>3. j.event \in n.covers
          BY <4>1, <4>2 DEF Speaks, Known
        <4> QED
          BY <1>2, <3>4, <4>1, <4>3
      <3> QED
        BY <3>1, <3>2, <3>3, <3>4
    <2>5. \A m \in notes : \E n \in notes' : n.to = m.to /\ n.covers = m.covers
      BY <1>2
    <2> QED
      BY <1>1, <1>2, <2>1, <2>2, <2>3, <2>4, <2>5, DeliveryHeard
  <1>7. CASE Unread(j)
    <2>1. Overlapped' /\ NoTwin'
      BY <1>1, <1>2, <1>7 DEF Overlapped, NoTwin, Matching
    <2> QED
      BY <1>6, <2>1 DEF ToldInv
  <1>8. CASE ~Unread(j)
    <2>1. \A n \in notes : ~n.read => n.to # j.to \/ n.kind # j.kind
      BY <1>8 DEF Unread, Matching
    <2>2. ASSUME NEW k \in jobs', k.looked
          PROVE  \/ k = ready
                 \/ k \in jobs /\ (k.to # j.to \/ k.kind # j.kind)
                 \/ k.to = j.to /\ k.kind = j.kind /\ ~k.alone /\ rivals # {}
      BY <1>2, <1>4, <1>5, <1>8, <2>2 DEF SameTold
    <2>3. ready.to = j.to /\ ready.kind = j.kind
      BY <1>3 DEF SameTold
    <2>4. \A k, l \in jobs' : k # l /\ k.looked /\ l.looked /\ Matching(k, l) => ~k.alone /\ ~l.alone
      BY <1>1, <1>3, <2>2, <2>3 DEF Overlapped, Matching
    <2>5. \A k \in jobs', n \in notes' : k.looked /\ ~n.read /\ Matching(n, k) => ~k.alone /\ ~n.alone
      BY <1>1, <1>2, <2>1, <2>2, <2>3 DEF Overlapped, Matching
    <2>6. NoTwin'
      BY <1>1, <1>2 DEF NoTwin
    <2> QED
      BY <1>6, <2>4, <2>5, <2>6 DEF ToldInv, Overlapped, Matching
  <1> QED
    BY <1>7, <1>8

LEMMA InsertNoteTold ==
    ASSUME ToldInv, NEW j \in jobs, InsertNote(j)
    PROVE  ToldInv'
  <1> DEFINE covered == {i \in 1..Len(events) : events[i].kind = j.kind}
             note == [id |-> Cardinality(notes), event |-> j.event, to |-> j.to, kind |-> j.kind,
                      read |-> FALSE, alone |-> j.alone, covers |-> covered]
             reset == [j EXCEPT !.looked = FALSE, !.alone = TRUE]
  <1>1. /\ HeardInv /\ Overlapped /\ NoTwin /\ jobs \subseteq JobRow /\ notes \subseteq NoteRow
        /\ IsFiniteSet(notes) /\ DOMAIN events = 1..Len(events) /\ Len(events) \in Nat
    BY DEF ToldInv, HeardInv, MailTyped
  <1>2. /\ j.looked /\ notes' = notes \union {note} /\ jobs' \in {jobs \ {j}, (jobs \ {j}) \union {reset}}
        /\ UNCHANGED <<assignees, watch, events, taken>>
    BY <1>1 DEF InsertNote, tracker
  <1>3. note \in NoteRow
    <2>1. Cardinality(notes) \in Nat
      BY <1>1, FS_CardinalityType
    <2>2. covered \in SUBSET Nat
      BY <1>1
    <2>3. j.event \in Nat /\ j.to \in Users /\ j.kind \in Kinds /\ j.alone \in BOOLEAN
      BY <1>1 DEF JobRow
    <2> HIDE DEF covered
    <2> QED
      BY <2>1, <2>2, <2>3 DEF NoteRow
  <1>4. /\ SameTold(note, j) /\ note.to = j.to /\ note.kind = j.kind /\ (note.alone <=> j.alone)
        /\ note.covers = {i \in 1..Len(events) : events[i].kind = note.kind} /\ j.event \in note.covers
    <2>1. Known(j)
      BY <1>1 DEF HeardInv
    <2> QED
      BY <2>1 DEF Known, SameTold
  <1>5. reset \in JobRow /\ SameTold(reset, j) /\ ~reset.looked
    BY <1>1 DEF JobRow, SameTold
  <1> HIDE DEF note, reset
  <1>6. HeardInv'
    <2>1. jobs' \subseteq JobRow
      BY <1>1, <1>2, <1>5
    <2>2. notes' \subseteq NoteRow
      BY <1>1, <1>2, <1>3
    <2>3. IsFiniteSet(notes')
      BY <1>1, <1>2, FS_AddElement
    <2>4. \A k : SameTold(k, k)
      BY DEF SameTold
    <2>5. \A k \in jobs' : \E i \in jobs : SameTold(k, i)
      BY <1>2, <1>5, <2>4
    <2>6. \A n \in notes' :
             \/ \E m \in notes : SameTold(n, m) /\ n.covers = m.covers /\ (m.read => n.read)
             \/ /\ \E i \in jobs : SameTold(n, i)
                /\ n.covers = {i \in 1..Len(events) : events[i].kind = n.kind}
      BY <1>2, <1>4, <2>4
    <2>7. \A m \in notes : \E n \in notes' : n.to = m.to /\ n.covers = m.covers
      BY <1>2
    <2>8. ASSUME NEW i \in jobs
          PROVE  \/ \E k \in jobs' : SameTold(k, i)
                 \/ \E n \in notes' : n.to = i.to /\ i.event \in n.covers
      <3>1. CASE i = j
        BY <1>2, <1>4, <3>1
      <3>2. CASE i # j
        BY <1>2, <2>4, <3>2
      <3> QED
        BY <3>1, <3>2
    <2> QED
      BY <1>1, <1>2, <2>1, <2>2, <2>3, <2>5, <2>6, <2>7, <2>8, DeliveryHeard
  <1>7. \A k \in jobs' : k.looked => k \in jobs /\ k # j
    BY <1>2, <1>5
  <1>8. Overlapped'
    <2>1. \A k, l \in jobs' : k # l /\ k.looked /\ l.looked /\ Matching(k, l) => ~k.alone /\ ~l.alone
      BY <1>1, <1>7 DEF Overlapped
    <2>2. \A k \in jobs', n \in notes' : k.looked /\ ~n.read /\ Matching(n, k) => ~k.alone /\ ~n.alone
      BY <1>1, <1>2, <1>4, <1>7 DEF Overlapped, Matching
    <2> QED
      BY <2>1, <2>2 DEF Overlapped, Matching
  <1>9. NoTwin'
    BY <1>1, <1>2, <1>4 DEF Overlapped, NoTwin, Matching
  <1> QED
    BY <1>6, <1>8, <1>9 DEF ToldInv

LEMMA MarkReadTold ==
    ASSUME ToldInv, NEW n \in notes, MarkRead(n)
    PROVE  ToldInv'
  <1> DEFINE seen == [n EXCEPT !.read = TRUE]
  <1>1. /\ HeardInv /\ Overlapped /\ NoTwin /\ jobs \subseteq JobRow /\ notes \subseteq NoteRow
        /\ IsFiniteSet(notes)
    BY DEF ToldInv, HeardInv, MailTyped
  <1>2. notes' = (notes \ {n}) \union {seen} /\ UNCHANGED <<assignees, watch, events, taken, jobs>>
    BY DEF MarkRead, tracker
  <1>3. seen \in NoteRow /\ SameTold(seen, n) /\ seen.covers = n.covers /\ seen.read
    BY <1>1 DEF NoteRow, SameTold
  <1> HIDE DEF seen
  <1>4. HeardInv'
    <2>1. notes' \subseteq NoteRow
      BY <1>1, <1>2, <1>3
    <2>2. IsFiniteSet(notes')
      BY <1>1, <1>2, FS_AddElement, FS_RemoveElement
    <2>3. \A k : SameTold(k, k)
      BY DEF SameTold
    <2>4. \A m \in notes' : \E i \in notes : SameTold(m, i) /\ m.covers = i.covers /\ (i.read => m.read)
      BY <1>2, <1>3, <2>3
    <2>5. \A m \in notes : \E i \in notes' : i.to = m.to /\ i.covers = m.covers
      BY <1>2, <1>3 DEF SameTold
    <2> QED
      BY <1>1, <1>2, <2>1, <2>2, <2>3, <2>4, <2>5, DeliveryHeard
  <1>5. Overlapped' /\ NoTwin'
    BY <1>1, <1>2, <1>3 DEF Overlapped, NoTwin, Matching
  <1> QED
    BY <1>4, <1>5 DEF ToldInv

\* The steps of the dispatcher.
LEMMA DispatchTold ==
    ASSUME ToldInv, (\E id \in DOMAIN events : FanOut(id)) \/ Enqueue \/ CutFanOut
    PROVE  ToldInv'
  <1>1. HeardInv /\ Overlapped /\ NoTwin
    BY DEF ToldInv
  <1>2. HeardInv'
    BY <1>1, FanOutHeard, EnqueueHeard, CutFanOutHeard
  <1>3. notes' = notes /\ jobs \subseteq jobs' /\ \A k \in jobs' : k.looked => k \in jobs
    BY DEF FanOut, Enqueue, CutFanOut
  <1>4. Overlapped' /\ NoTwin'
    BY <1>1, <1>3 DEF Overlapped, NoTwin, Matching
  <1> QED
    BY <1>2, <1>4 DEF ToldInv

\* The steps that tell nobody anything.
LEMMA QuietTold ==
    ASSUME ToldInv, UNCHANGED <<mail, assignees>>
    PROVE  ToldInv'
  <1> USE DEF mail
  <1>1. HeardInv'
    <2>1. \A n \in notes' : Speaks(n)'
      BY DEF ToldInv, HeardInv, Speaks
    <2>2. \A x \in jobs' \union notes' : Known(x)'
      BY DEF ToldInv, HeardInv, Known
    <2>3. \A i \in 1..Len(events') : Owed(i)' /\ Pending(i)'
      BY DEF ToldInv, HeardInv, Owed, Pending
    <2>4. FanningOut' /\ MailTyped'
      BY DEF ToldInv, HeardInv, FanningOut, MailTyped
    <2> QED
      BY <2>1, <2>2, <2>3, <2>4 DEF HeardInv
  <1>2. Overlapped' /\ NoTwin'
    BY DEF ToldInv, Overlapped, NoTwin, Matching
  <1> QED
    BY <1>1, <1>2 DEF ToldInv

LEMMA PostTold ==
    ASSUME ToldInv, NEW s, NEW new, Posts(s, new)
    PROVE  ToldInv'
  BY PostHeard, PostTwins DEF ToldInv

LEMMA ToldStep ==
    ASSUME Typed, ToldInv, [Next]_vars
    PROVE  ToldInv'
  <1>0. MailTyped
    BY DEF ToldInv, HeardInv
  <1>1. ASSUME NEW c \in Calls, \/ Close(c) \/ Merge(c) \/ \E draft \in BOOLEAN : InsertRelease(c, draft)
        PROVE  ToldInv'
    BY <1>0, <1>1, CallPosts, PostTold
  <1>2. ASSUME NEW u \in Users, \/ \E v \in Users : Comment(u, v) \/ Assign(u, v)
                                \/ Unassign(u) \/ \E level \in Levels : Watch(u, level)
        PROVE  ToldInv'
    BY <1>0, <1>2, CommentPosts, AssignPosts, StirringPosts, PostTold
  <1>3. CASE \/ \E id \in DOMAIN events : FanOut(id)
             \/ Enqueue \/ CutFanOut
             \/ \E j \in jobs : Look(j) \/ InsertNote(j)
             \/ \E n \in notes : MarkRead(n)
    BY <1>3, DispatchTold, LookTold, InsertNoteTold, MarkReadTold
  <1>4. ASSUME NEW c \in Calls, NEW u \in Users,
               \/ \E kind \in {"issue", "pull"} : Open(c, kind, u)
               \/ BeginClose(c, u) \/ BeginMerge(c, u)
               \/ \E commit \in Commits : BeginRelease(c, u, commit)
        PROVE  ToldInv'
    <2>1. UNCHANGED <<mail, assignees>>
      BY <1>4 DEF Open, BeginClose, BeginMerge, BeginRelease, tracker
    <2> QED
      BY <2>1, QuietTold
  <1>5. ASSUME NEW c \in Calls,
               \/ EnsureCounterRow(c) \/ ReadCurrent(c) \/ TryAdvance(c) \/ Insert(c)
               \/ (\E l \in Labels : BeginApply(c, l)) \/ Apply(c) \/ MakeTag(c) \/ Cut(c)
        PROVE  ToldInv'
    <2>1. UNCHANGED <<mail, assignees>>
      BY <1>5 DEF EnsureCounterRow, ReadCurrent, TryAdvance, Insert, BeginApply, Apply, MakeTag, Cut, tracker
    <2> QED
      BY <2>1, QuietTold
  <1>6. CASE \/ Reopen \/ (\E l \in Labels : Unlabel(l))
             \/ (\E commit \in Commits \union {0} : PushTag(commit)) \/ UNCHANGED vars
    <2>1. UNCHANGED <<mail, assignees>>
      BY <1>6 DEF Reopen, Unlabel, PushTag, vars, tracker
    <2> QED
      BY <2>1, QuietTold
  <1> QED
    BY <1>1, <1>2, <1>3, <1>4, <1>5, <1>6 DEF Next

LEMMA ToldAtFirst ==
    ASSUME Init
    PROVE  ToldInv
  <1>1. /\ events = <<>> /\ taken = NoEvent /\ jobs = {} /\ notes = {} /\ assignees = {}
        /\ watch \in [Users -> Levels]
    BY DEF Init
  <1>2. Len(events) = 0 /\ 1..Len(events) = {} /\ events \in Seq(EventRow)
    BY <1>1
  <1>3. MailTyped
    <2>1. IsFiniteSet(notes)
      BY <1>1, FS_EmptySet
    <2>2. taken.id = 0 /\ taken.involved = {}
      BY <1>1 DEF NoEvent
    <2>3. taken.id \in 0..Len(events)
      BY <1>2, <2>2
    <2> QED
      BY <1>1, <1>2, <2>1, <2>2, <2>3 DEF MailTyped
  <1>4. FanningOut
    BY <1>1 DEF FanningOut, NoEvent
  <1>5. HeardInv
    BY <1>1, <1>2, <1>3, <1>4 DEF HeardInv
  <1> QED
    BY <1>1, <1>5 DEF ToldInv, Overlapped, NoTwin

\* Whoever was to hear of an event when it was committed, and has changed nothing of his own since,
\* has had a notification that was unread since then once the jobs are done, whoever was not has
\* none, and nobody has the same thing unread twice unless two handlers overlapped
\* (notify_watchers, insert_if_new).
THEOREM EverybodyTold == Spec => []Told
  <1> DEFINE Inv == Typed /\ ToldInv
  <1>1. Init => Inv
    BY NumbersAtFirst, ToldAtFirst DEF NumbersInv
  <1>2. Inv /\ [Next]_vars => Inv'
    BY TypesKept, ToldStep
  <1>3. Inv => Told
    <2> SUFFICES ASSUME ToldInv PROVE Told
      OBVIOUS
    <2>1. DOMAIN events = 1..Len(events)
      BY DEF ToldInv, HeardInv, MailTyped
    <2>2. ASSUME NEW id \in DOMAIN events, events[id].done, \A j \in jobs : j.event # id
          PROVE  events[id].due \subseteq {n.to : n \in {n \in notes : id \in n.covers}}
      BY <2>1, <2>2 DEF ToldInv, HeardInv, Owed
    <2>3. ASSUME NEW id \in DOMAIN events, NEW j \in jobs \union notes, j.event = id
          PROVE  j.to \in events[id].may
      BY <2>3 DEF ToldInv, HeardInv, Known
    <2> QED
      BY <2>2, <2>3 DEF Told, Heard, ToldInv
  <1> QED
    BY <1>1, <1>2, <1>3, PTL DEF Spec

-----------------------------------------------------------------------------
(* The bounds of every type                                                *)

Allocations == {"ensure", "read", "advance", "insert"}
Allocators == {c \in Calls : call[c].at \in Allocations}

\* The next number, as an allocation will make it when there is no row yet.
Height == IF next = 0 THEN 1 ELSE next

\* A request's record, while the next number is at most h.
Sound(r, h) ==
    /\ r.next <= h /\ r.tries \in 0..MaxAttempts
    /\ r.at \in {"read", "advance"} => r.tries >= 1
    /\ r.at \in Allocations => r.op \in {"issue", "pull"}
    /\ r.at = "put" => r.label \in Labels

\* What is left of the bounds.
Budget == left \in 0..MaxCalls /\ faults \in 0..MaxFaults /\ menu \subseteq Ops

\* Every number to come has been asked for.
Room == IsFiniteSet(Allocators) /\ Height + Cardinality(Allocators) + left <= MaxCalls + 2

\* The tables the theorems above leave as wide as Typed.
Tables ==
    /\ closed \in BOOLEAN /\ merged \in BOOLEAN /\ \A r \in rows : r[2] \in {"issue", "pull"}
    /\ labels \subseteq Labels /\ torn \subseteq Scopes /\ \A r, s \in releases : r = s

BoundInv == Budget /\ Room /\ Tables /\ \A c \in Calls : Sound(call[c], Height)

LEMMA SoundHigher ==
    ASSUME NEW r \in Request, NEW h \in Nat, NEW k \in Nat, Sound(r, h), h <= k
    PROVE  Sound(r, k)
  BY DEF Sound, Request

LEMMA IdleSound ==
    ASSUME NEW h \in Nat
    PROVE  /\ Sound(Idle, h)
           /\ \A op \in Ops, u \in Users : \A place \in Place \ {"read", "advance", "insert", "put"} :
                 (place = "ensure" => op \in {"issue", "pull"}) =>
                     Sound([Idle EXCEPT !.op = op, !.by = u, !.at = place], h)
  BY DEF Sound, Idle, Allocations

LEMMA BudgetSteps ==
    ASSUME Typed, [Next]_vars, Budget
    PROVE  Budget' /\ left' <= left
  <1> USE DEF Budget
  <1>1. CASE UNCHANGED <<menu, left>> \/ \E op \in Ops : Asked(op)
    <2>1. menu' = menu /\ left' \in {left, left - 1} /\ left' \in 0..MaxCalls
      BY <1>1 DEF Asked
    <2>2. CASE UNCHANGED faults \/ (faults > 0 /\ faults' = faults - 1)
      BY <2>1, <2>2
    <2>3. UNCHANGED faults \/ (faults > 0 /\ faults' = faults - 1)
      <3>1. ASSUME NEW c \in Calls,
                   \/ \E u \in Users : \/ \E kind \in {"issue", "pull"} : Open(c, kind, u)
                                       \/ BeginClose(c, u) \/ BeginMerge(c, u)
                                       \/ \E commit \in Commits : BeginRelease(c, u, commit)
                   \/ EnsureCounterRow(c) \/ ReadCurrent(c) \/ TryAdvance(c) \/ Insert(c)
                   \/ Close(c) \/ Merge(c)
                   \/ \E l \in Labels : BeginApply(c, l)
                   \/ Apply(c) \/ MakeTag(c)
                   \/ \E draft \in BOOLEAN : InsertRelease(c, draft)
            PROVE  UNCHANGED faults
        BY <3>1 DEF Open, BeginClose, BeginMerge, BeginRelease, EnsureCounterRow, ReadCurrent, TryAdvance,
                    Insert, Close, Merge, BeginApply, Apply, MakeTag, InsertRelease
      <3>2. ASSUME NEW c \in Calls, Cut(c) PROVE faults > 0 /\ faults' = faults - 1
        BY <3>2 DEF Cut
      <3>3. CASE \/ Reopen \/ (\E u, v \in Users : Comment(u, v) \/ Assign(u, v))
                 \/ (\E u \in Users : Unassign(u)) \/ (\E u \in Users, level \in Levels : Watch(u, level))
                 \/ (\E l \in Labels : Unlabel(l)) \/ (\E commit \in Commits \union {0} : PushTag(commit))
                 \/ (\E id \in DOMAIN events : FanOut(id)) \/ Enqueue
                 \/ (\E j \in jobs : Look(j)) \/ (\E n \in notes : MarkRead(n)) \/ UNCHANGED vars
        BY <3>3 DEF Reopen, Comment, Assign, Unassign, Watch, Unlabel, PushTag, FanOut, Enqueue, Look,
                    MarkRead, vars
      <3>4. CASE CutFanOut \/ \E j \in jobs : InsertNote(j)
        BY <3>4 DEF CutFanOut, InsertNote
      <3> QED
        BY <3>1, <3>2, <3>3, <3>4 DEF Next
    <2> QED
      BY <2>2, <2>3
  <1>2. UNCHANGED <<menu, left>> \/ \E op \in Ops : Asked(op)
    <2>1. ASSUME NEW c \in Calls, NEW u \in Users,
                 \/ \E kind \in {"issue", "pull"} : Open(c, kind, u)
                 \/ BeginClose(c, u) \/ BeginMerge(c, u)
                 \/ \E commit \in Commits : BeginRelease(c, u, commit)
          PROVE  \E op \in Ops : Asked(op)
      BY <2>1 DEF Open, BeginClose, BeginMerge, BeginRelease, Start, Ops
    <2>2. ASSUME NEW c \in Calls,
                 \/ EnsureCounterRow(c) \/ ReadCurrent(c) \/ TryAdvance(c) \/ Insert(c)
                 \/ Close(c) \/ Merge(c) \/ Apply(c) \/ MakeTag(c) \/ Cut(c)
                 \/ \E draft \in BOOLEAN : InsertRelease(c, draft)
          PROVE  UNCHANGED <<menu, left>>
      BY <2>2 DEF EnsureCounterRow, ReadCurrent, TryAdvance, Insert, Close, Merge, Apply, MakeTag, Cut,
                  InsertRelease
    <2>3. ASSUME \/ \E c \in Calls, l \in Labels : BeginApply(c, l)
                 \/ Reopen \/ (\E u, v \in Users : Comment(u, v) \/ Assign(u, v))
                 \/ (\E u \in Users : Unassign(u)) \/ (\E u \in Users, level \in Levels : Watch(u, level))
                 \/ (\E l \in Labels : Unlabel(l)) \/ (\E commit \in Commits \union {0} : PushTag(commit))
          PROVE  \E op \in Ops : Asked(op)
      BY <2>3 DEF BeginApply, Reopen, Comment, Assign, Unassign, Watch, Unlabel, PushTag, Ops
    <2>4. CASE \/ (\E id \in DOMAIN events : FanOut(id)) \/ Enqueue \/ CutFanOut
               \/ (\E j \in jobs : Look(j) \/ InsertNote(j)) \/ (\E n \in notes : MarkRead(n))
               \/ UNCHANGED vars
      BY <2>4 DEF FanOut, Enqueue, CutFanOut, Look, InsertNote, MarkRead, vars
    <2> QED
      BY <2>1, <2>2, <2>3, <2>4 DEF Next
  <1> QED
    BY <1>1, <1>2

\* The next number only grows, and by one for each row.
LEMMA HeightSteps ==
    ASSUME NumbersInv, [Next]_vars
    PROVE  /\ Height \in Nat /\ Height' \in Nat /\ Height <= Height'
           /\ \/ Height' = Height
              \/ Height' = Height + 1 /\ \E c \in Calls : Insert(c)
  <1>1. next \in Nat
    BY DEF NumbersInv, Typed
  <1>2. ASSUME NEW c \in Calls, Insert(c) PROVE Height' \in {Height, Height + 1}
    <2>1. call[c].next = Height
      BY <1>2 DEF Insert, NumbersInv, CounterInv, Height
    <2>2. next' = next \/ next' = Height + 1
      BY <1>2, <2>1 DEF Insert
    <2> QED
      BY <1>1, <2>2 DEF Height
  <1>3. CASE ~\E c \in Calls : Insert(c)
    <2>1. next' = next
      BY <1>3, RestChanges DEF Rest, Apply, MakeTag, InsertRelease, Unlabel, PushTag, tracker
    <2> QED
      BY <1>1, <2>1 DEF Height
  <1>4. Height \in Nat
    BY <1>1 DEF Height
  <1> HIDE DEF Height
  <1>5. CASE \E c \in Calls : Insert(c)
    <2>1. Height' \in {Height, Height + 1}
      BY <1>2, <1>5
    <2> QED
      BY <1>4, <1>5, <2>1
  <1> QED
    BY <1>3, <1>4, <1>5

\* A request's next record is sound, and only Open makes an allocation of it.
LEMMA CallBounds ==
    ASSUME NumbersInv, [Next]_vars, NEW h \in Nat, h = Height',
           \A c \in Calls : Sound(call[c], h),
           NEW d \in Calls
    PROVE  /\ Sound(call'[d], h)
           /\ \/ call'[d].at \in Allocations => call[d].at \in Allocations
              \/ \E kind \in {"issue", "pull"}, u \in Users : Open(d, kind, u)
  <1> DEFINE Stays == call'[d].at \in Allocations => call[d].at \in Allocations
             Good == Sound(call'[d], h) /\ Stays
  <1> USE DEF NumbersInv, Typed
  <1>0. call \in [Calls -> Request] /\ call[d] \in Request /\ Sound(call[d], h)
    OBVIOUS
  <1>1. ASSUME NEW c \in Calls, Leave(c) PROVE Good
    <2>1. call'[d] = IF d = c THEN Idle ELSE call[d]
      BY <1>1 DEF Leave
    <2>2. Idle.at \notin Allocations
      BY DEF Idle, Allocations
    <2> QED
      BY <1>0, <2>1, <2>2, IdleSound
  <1>2. ASSUME NEW c \in Calls, NEW op \in Ops, NEW u \in Users, NEW place \in {"ensure", "close"},
               place = "ensure" => op \in {"issue", "pull"}, Start(c, op, u, place)
        PROVE  /\ Sound(call'[d], h)
               /\ d # c \/ place # "ensure" => Stays
    <2>1. call'[d] = IF d = c THEN [Idle EXCEPT !.op = op, !.by = u, !.at = place] ELSE call[d]
      BY <1>2 DEF Start
    <2>2. place \in Place \ {"read", "advance", "insert", "put"}
      BY DEF Place
    <2>3. [Idle EXCEPT !.op = op, !.by = u, !.at = place].at = place
      BY DEF Idle
    <2>4. place # "ensure" => place \notin Allocations
      BY DEF Allocations
    <2>5. CASE d = c
      <3> DEFINE begun == [Idle EXCEPT !.op = op, !.by = u, !.at = place]
      <3>1. Sound(begun, h)
        BY <1>2, <2>2, IdleSound
      <3>2. call'[d] = begun /\ begun.at = place
        BY <2>1, <2>3, <2>5
      <3> HIDE DEF begun
      <3> QED
        BY <2>4, <2>5, <3>1, <3>2
    <2>6. CASE d # c
      BY <1>0, <2>1, <2>6
    <2> QED
      BY <2>5, <2>6
  <1>3. ASSUME NEW c \in Calls, NEW kind \in {"issue", "pull"}, NEW u \in Users, Open(c, kind, u)
        PROVE  Sound(call'[d], h) /\ (d # c => Stays)
    BY <1>2, <1>3 DEF Open, Ops
  <1>4. ASSUME NEW c \in Calls, NEW u \in Users, BeginClose(c, u) PROVE Good
    BY <1>2, <1>4 DEF BeginClose, Ops
  <1>5. ASSUME NEW c \in Calls, NEW u \in Users,
               \/ BeginMerge(c, u)
               \/ \E commit \in Commits : BeginRelease(c, u, commit)
        PROVE  Good
    <2>1. call'[d] = call[d] \/ (/\ call'[d].next = 0 /\ call'[d].tries = 0
                                 /\ call'[d].at \in {"merge", "tag", "row"})
      <3>1. CASE BeginMerge(c, u)
        <4>1. \E b : call' = [call EXCEPT ![c] = [Idle EXCEPT !.op = "merge", !.by = u, !.at = "merge", !.open = b]]
          BY <3>1 DEF BeginMerge
        <4> QED
          BY <1>0, <4>1 DEF Idle
      <3>2. ASSUME NEW commit \in Commits, BeginRelease(c, u, commit)
            PROVE  call'[d] = call[d] \/ (/\ call'[d].next = 0 /\ call'[d].tries = 0
                                          /\ call'[d].at \in {"merge", "tag", "row"})
        BY <1>0, <3>2 DEF BeginRelease, Idle
      <3> QED
        BY <1>5, <3>1, <3>2
    <2> QED
      BY <1>0, <2>1 DEF Sound, Allocations
  <1>6. ASSUME NEW c \in Calls, EnsureCounterRow(c) \/ ReadCurrent(c) \/ TryAdvance(c)
        PROVE  Good
    <2>1. CASE d # c
      <3>1. call'[d] = call[d]
        BY <1>6, <2>1 DEF EnsureCounterRow, ReadCurrent, TryAdvance
      <3> QED
        BY <1>0, <3>1
    <2>2. CASE d = c
      <3>1. /\ next' = next /\ h = (IF next = 0 THEN 1 ELSE next)
        BY <1>6 DEF EnsureCounterRow, ReadCurrent, TryAdvance, tracker, Height
      <3>2. call[d].at \in {"ensure", "read", "advance"}
        BY <1>6, <2>2 DEF EnsureCounterRow, ReadCurrent, TryAdvance
      <3>3. /\ call[d].op \in {"issue", "pull"} /\ call[d].next <= h /\ call[d].tries \in 0..MaxAttempts
            /\ call[d].at \in {"read", "advance"} => call[d].tries >= 1
        BY <1>0, <3>2 DEF Sound, Allocations
      <3>4. CASE EnsureCounterRow(c)
        <4>1. /\ call'[d].op = call[d].op /\ call'[d].at = "read" /\ call'[d].tries = MaxAttempts
              /\ call'[d].next = IF next = 0 THEN 1 ELSE 0
          BY <1>0, <2>2, <3>4 DEF EnsureCounterRow, Request
        <4> QED
          BY <3>1, <3>2, <3>3, <4>1 DEF Sound, Allocations
      <3>5. CASE ReadCurrent(c)
        <4>1. /\ call'[d].op = call[d].op /\ call'[d].at = "advance" /\ call'[d].tries = call[d].tries
              /\ call'[d].next \in {call[d].next, next} /\ call[d].at = "read"
          BY <1>0, <2>2, <3>5 DEF ReadCurrent, Request
        <4> QED
          BY <3>1, <3>2, <3>3, <4>1 DEF Sound, Allocations
      <3>6. CASE TryAdvance(c)
        <4>1. \/ call'[d] = Idle
              \/ /\ call'[d].op = call[d].op /\ call'[d].next = call[d].next /\ call[d].at = "advance"
                 /\ \/ call'[d].at = "insert" /\ call'[d].tries = call[d].tries
                    \/ /\ call'[d].at = "read" /\ call[d].tries # 1
                       /\ call'[d].tries = call[d].tries - 1
          BY <1>0, <2>2, <3>6 DEF TryAdvance, Request
        <4>2. CASE call'[d] = Idle
          <5>1. Idle.at \notin Allocations
            BY DEF Idle, Allocations
          <5> QED
            BY <4>2, <5>1, IdleSound
        <4>3. CASE call'[d] # Idle
          BY <3>2, <3>3, <4>1, <4>3 DEF Sound, Allocations
        <4> QED
          BY <4>2, <4>3
      <3> QED
        BY <1>6, <3>4, <3>5, <3>6
    <2> QED
      BY <2>1, <2>2
  <1>7. ASSUME NEW c \in Calls, \/ Insert(c) \/ Close(c) \/ Merge(c) \/ Apply(c) \/ Cut(c)
                                \/ \E draft \in BOOLEAN : InsertRelease(c, draft)
        PROVE  Good
    <2>1. Leave(c)
      BY <1>7 DEF Insert, Close, Merge, Apply, Cut, InsertRelease
    <2> QED
      BY <1>1, <2>1
  <1>8. ASSUME NEW c \in Calls, NEW l \in Labels, BeginApply(c, l) PROVE Good
    <2>1. \/ /\ call'[d].next = 0 /\ call'[d].tries = 0 /\ call'[d].at = "put" /\ call'[d].label = l
          \/ /\ call'[d].next = call[d].next /\ call'[d].tries = call[d].tries /\ call'[d].at = call[d].at
             /\ call'[d].op = call[d].op /\ call'[d].label = call[d].label
      BY <1>0, <1>8 DEF BeginApply, Idle, Request
    <2> QED
      BY <1>0, <2>1 DEF Sound, Allocations
  <1>9. ASSUME \/ \E c \in Calls : MakeTag(c)
               \/ \E commit \in Commits \union {0} : PushTag(commit)
        PROVE  Good
    <2>1. \/ call'[d] = Idle
          \/ /\ call'[d].next = call[d].next /\ call'[d].tries = call[d].tries
             /\ call'[d].at \in {call[d].at, "row"}
             /\ call'[d].op = call[d].op /\ call'[d].label = call[d].label
      BY <1>0, <1>9 DEF MakeTag, PushTag, Goto, Leave, Request
    <2>2. Idle.at \notin Allocations
      BY DEF Idle, Allocations
    <2>3. CASE call'[d] = Idle
      BY <2>2, <2>3, IdleSound
    <2>4. CASE call'[d] # Idle
      BY <1>0, <2>1, <2>4 DEF Sound, Allocations
    <2> QED
      BY <2>3, <2>4
  <1>10. CASE Mail \/ Reopen \/ (\E u, v \in Users : Assign(u, v)) \/ (\E u \in Users : Unassign(u))
                   \/ (\E l \in Labels : Unlabel(l)) \/ UNCHANGED vars
    <2>1. UNCHANGED call
      BY <1>10, MailLeaves DEF Reopen, Assign, Unassign, Unlabel, vars
    <2> QED
      BY <1>0, <2>1
  <1> QED
    BY <1>3, <1>4, <1>5, <1>6, <1>7, <1>8, <1>9, <1>10 DEF Next, Mail

\* A number that is asked for takes the place of a call that is left; one that is given out, the
\* place of its request.
LEMMA RoomKept ==
    ASSUME NumbersInv, BoundInv, [Next]_vars
    PROVE  Room'
  <1>1. /\ Height \in Nat /\ Height' \in Nat /\ Height <= Height'
        /\ \/ Height' = Height
           \/ Height' = Height + 1 /\ \E c \in Calls : Insert(c)
    BY HeightSteps
  <1>2. left \in Nat /\ left' \in Nat /\ left' <= left
    BY BudgetSteps DEF BoundInv, Budget, NumbersInv
  <1>3. IsFiniteSet(Allocators) /\ Cardinality(Allocators) \in Nat
        /\ Height + Cardinality(Allocators) + left <= MaxCalls + 2
    BY FS_CardinalityType DEF BoundInv, Room
  <1>4. \A c \in Calls : Sound(call[c], Height')
    <2>1. call \in [Calls -> Request]
      BY DEF NumbersInv, Typed
    <2> HIDE DEF Height
    <2> QED
      BY <1>1, <2>1, SoundHigher DEF BoundInv
  <1>5. ASSUME NEW c \in Calls, c \in Allocators', c \notin Allocators
        PROVE  \E kind \in {"issue", "pull"}, u \in Users : Open(c, kind, u)
    <2> DEFINE h == Height'
    <2>1. h \in Nat /\ h = Height' /\ \A d \in Calls : Sound(call[d], h)
      BY <1>1, <1>4
    <2> HIDE DEF h
    <2>2. \/ call'[c].at \in Allocations => call[c].at \in Allocations
          \/ \E kind \in {"issue", "pull"}, u \in Users : Open(c, kind, u)
      BY <2>1, CallBounds
    <2> QED
      BY <1>5, <2>2 DEF Allocators
  <1>6. Allocators' \subseteq Calls
    BY DEF Allocators
  <1>7. ASSUME NEW c \in Calls, NEW kind \in {"issue", "pull"}, NEW u \in Users, Open(c, kind, u)
        PROVE  Room'
    <2>1. left' = left - 1 /\ UNCHANGED next /\ \A d \in Calls : d # c => call'[d] = call[d]
      BY <1>7 DEF Open, Start, Asked, tracker, NumbersInv, Typed
    <2>2. Allocators' \subseteq Allocators \union {c}
      BY <2>1 DEF Allocators
    <2>3. IsFiniteSet(Allocators \union {c}) /\ Cardinality(Allocators \union {c}) <= Cardinality(Allocators) + 1
      <3>1. /\ IsFiniteSet(Allocators \union {c})
            /\ \/ Cardinality(Allocators \union {c}) = Cardinality(Allocators)
               \/ Cardinality(Allocators \union {c}) = Cardinality(Allocators) + 1
        BY <1>3, FS_AddElement
      <3> QED
        BY <1>3, <3>1
    <2>4. IsFiniteSet(Allocators') /\ Cardinality(Allocators') \in Nat
          /\ Cardinality(Allocators') <= Cardinality(Allocators) + 1
      BY <1>3, <2>2, <2>3, FS_Subset, FS_CardinalityType
    <2>5. Height' = Height
      BY <2>1 DEF Height
    <2> HIDE DEF Height, Allocators
    <2> QED
      BY <1>1, <1>2, <1>3, <2>1, <2>4, <2>5 DEF Room
  <1>8. CASE Allocators' \subseteq Allocators
    <2>1. IsFiniteSet(Allocators') /\ Cardinality(Allocators') \in Nat
          /\ Cardinality(Allocators') <= Cardinality(Allocators)
      BY <1>3, <1>8, FS_Subset, FS_CardinalityType
    <2>2. CASE Height' = Height
      <3> HIDE DEF Height, Allocators
      <3> QED
        BY <1>1, <1>2, <1>3, <2>1, <2>2 DEF Room
    <2>3. CASE Height' = Height + 1 /\ \E c \in Calls : Insert(c)
      <3>1. PICK c \in Calls : Insert(c)
        BY <2>3
      <3>2. c \in Allocators /\ c \notin Allocators'
        BY <3>1 DEF Insert, Leave, Idle, Allocators, Allocations, NumbersInv, Typed
      <3>3. Allocators' \subseteq Allocators \ {c}
        BY <1>8, <3>2
      <3>4. IsFiniteSet(Allocators \ {c}) /\ Cardinality(Allocators \ {c}) = Cardinality(Allocators) - 1
        BY <1>3, <3>2, FS_RemoveElement
      <3>5. Cardinality(Allocators') <= Cardinality(Allocators) - 1
        BY <3>3, <3>4, FS_Subset
      <3> HIDE DEF Height, Allocators
      <3> QED
        BY <1>1, <1>2, <1>3, <2>1, <2>3, <3>5 DEF Room
    <2> QED
      BY <1>1, <2>2, <2>3
  <1> QED
    BY <1>5, <1>6, <1>7, <1>8

LEMMA TablesKept ==
    ASSUME NumbersInv, BoundInv, [Next]_vars
    PROVE  Tables'
  <1> USE DEF NumbersInv, Typed, BoundInv, Tables
  <1>1. \A r \in rows' : r[2] \in {"issue", "pull"}
    <2>1. ASSUME NEW c \in Calls, Insert(c) PROVE \A r \in rows' : r[2] \in {"issue", "pull"}
      <3>1. call[c].op \in {"issue", "pull"}
        BY <2>1 DEF Insert, Sound, Allocations
      <3>2. rows' = rows \/ rows' = rows \union {<<call[c].next, call[c].op>>}
        BY <2>1 DEF Insert
      <3> QED
        BY <3>1, <3>2
    <2>2. CASE ~\E c \in Calls : Insert(c)
      <3>1. rows' = rows
        BY <2>2, RestChanges DEF Rest, Apply, MakeTag, InsertRelease, Unlabel, PushTag, tracker
      <3> QED
        BY <3>1
    <2> QED
      BY <2>1, <2>2
  <1>2. labels' \subseteq Labels /\ torn' \subseteq Scopes
    <2>1. ASSUME NEW c \in Calls, Apply(c) PROVE labels' \subseteq Labels /\ torn' \subseteq Scopes
      <3>1. call[c].label \in Labels
        BY <2>1 DEF Apply, Step, Sound
      <3>2. {ScopeOf[call[c].label]} \ {NoScope} \subseteq Scopes
        BY <3>1 DEF Scopes
      <3> QED
        BY <2>1, <3>1, <3>2 DEF Apply
    <2>2. ASSUME ~\E c \in Calls : Apply(c) PROVE torn' = torn
      <3>1. ASSUME NEW c \in Calls,
                   \/ \E u \in Users : \/ \E kind \in {"issue", "pull"} : Open(c, kind, u)
                                       \/ BeginClose(c, u) \/ BeginMerge(c, u)
                                       \/ \E commit \in Commits : BeginRelease(c, u, commit)
                   \/ EnsureCounterRow(c) \/ ReadCurrent(c) \/ TryAdvance(c) \/ Insert(c)
                   \/ Close(c) \/ Merge(c)
                   \/ \E l \in Labels : BeginApply(c, l)
                   \/ MakeTag(c) \/ Cut(c)
                   \/ \E draft \in BOOLEAN : InsertRelease(c, draft)
            PROVE  torn' = torn
        BY <3>1 DEF Open, BeginClose, BeginMerge, BeginRelease, EnsureCounterRow, ReadCurrent, TryAdvance,
                    Insert, Close, Merge, BeginApply, MakeTag, Cut, InsertRelease
      <3>2. CASE \/ Mail \/ Reopen \/ (\E u, v \in Users : Assign(u, v)) \/ (\E u \in Users : Unassign(u))
                 \/ (\E l \in Labels : Unlabel(l)) \/ (\E commit \in Commits \union {0} : PushTag(commit))
                 \/ UNCHANGED vars
        BY <3>2, MailLeaves DEF Reopen, Assign, Unassign, Unlabel, PushTag, vars
      <3> QED
        BY <2>2, <3>1, <3>2 DEF Next, Mail
    <2>3. ASSUME ~\E c \in Calls : Apply(c) PROVE labels' \subseteq labels
      BY <2>3, RestChanges DEF Rest, Insert, MakeTag, InsertRelease, Unlabel, PushTag, tracker
    <2> QED
      BY <2>1, <2>2, <2>3
  <1>3. \A r, s \in releases' : r = s
    <2>1. ASSUME NEW c \in Calls, NEW draft \in BOOLEAN, InsertRelease(c, draft)
          PROVE  \A r, s \in releases' : r = s
      BY <2>1 DEF InsertRelease, Stored
    <2>2. ASSUME NEW commit \in Commits \union {0}, PushTag(commit)
          PROVE  \A r, s \in releases' : r = s
      BY <2>2 DEF PushTag
    <2>3. CASE /\ ~\E c \in Calls, draft \in BOOLEAN : InsertRelease(c, draft)
               /\ ~\E commit \in Commits \union {0} : PushTag(commit)
      <3>1. releases' = releases
        BY <2>3, RestChanges DEF Rest, Insert, Apply, MakeTag, Unlabel, git
      <3> QED
        BY <3>1
    <2> QED
      BY <2>1, <2>2, <2>3
  <1>4. closed' \in BOOLEAN /\ merged' \in BOOLEAN
    <2>1. ASSUME NEW c \in Calls, Close(c) \/ Merge(c) PROVE closed' \in BOOLEAN /\ merged' \in BOOLEAN
      BY <2>1 DEF Close, Merge
    <2>2. CASE Reopen
      BY <2>2 DEF Reopen
    <2>3. ASSUME NEW c \in Calls,
                 \/ \E u \in Users : \/ \E kind \in {"issue", "pull"} : Open(c, kind, u)
                                     \/ BeginClose(c, u) \/ BeginMerge(c, u)
                                     \/ \E commit \in Commits : BeginRelease(c, u, commit)
                 \/ EnsureCounterRow(c) \/ ReadCurrent(c) \/ TryAdvance(c) \/ Insert(c)
                 \/ \E l \in Labels : BeginApply(c, l)
                 \/ Apply(c) \/ MakeTag(c) \/ Cut(c)
                 \/ \E draft \in BOOLEAN : InsertRelease(c, draft)
          PROVE  UNCHANGED <<closed, merged>>
      BY <2>3 DEF Open, BeginClose, BeginMerge, BeginRelease, EnsureCounterRow, ReadCurrent, TryAdvance,
                  Insert, BeginApply, Apply, MakeTag, Cut, InsertRelease, tracker
    <2>4. CASE \/ Mail \/ (\E u, v \in Users : Assign(u, v)) \/ (\E u \in Users : Unassign(u))
               \/ (\E l \in Labels : Unlabel(l)) \/ (\E commit \in Commits \union {0} : PushTag(commit))
               \/ UNCHANGED vars
      BY <2>4, MailLeaves DEF Assign, Unassign, Unlabel, PushTag, vars, tracker
    <2> QED
      BY <2>1, <2>2, <2>3, <2>4 DEF Next, Mail
  <1> QED
    BY <1>1, <1>2, <1>3, <1>4

LEMMA BoundKept ==
    ASSUME NumbersInv, BoundInv, [Next]_vars
    PROVE  BoundInv'
  <1>1. Budget'
    BY BudgetSteps DEF BoundInv, NumbersInv
  <1>2. ASSUME NEW d \in Calls PROVE Sound(call'[d], Height')
    <2> DEFINE h == Height'
    <2>1. h \in Nat /\ h = Height' /\ \A c \in Calls : Sound(call[c], h)
      <3>1. call \in [Calls -> Request] /\ Height \in Nat /\ Height' \in Nat /\ Height <= Height'
        BY HeightSteps DEF NumbersInv, Typed
      <3> HIDE DEF Height
      <3> QED
        BY <3>1, SoundHigher DEF BoundInv
    <2> HIDE DEF h
    <2>2. Sound(call'[d], h)
      BY <2>1, CallBounds
    <2> QED
      BY <2>1, <2>2
  <1>3. Room' /\ Tables'
    BY RoomKept, TablesKept
  <1> QED
    BY <1>1, <1>2, <1>3 DEF BoundInv

\* Every variable keeps its type, and every number, attempt and count its bound: the number grows
\* with the requests for one, and a loser runs out of attempts (next_number, MAX_ATTEMPTS).
THEOREM TrackerTypes == Spec => []TypeOK
  <1> DEFINE Inv == NumbersInv /\ ToldInv /\ BoundInv
  <1>1. Init => Inv
    <2> SUFFICES ASSUME Init PROVE Inv
      OBVIOUS
    <2>1. /\ call = [c \in Calls |-> Idle] /\ labels = {} /\ tag = 0 /\ releases = {}
          /\ left = MaxCalls /\ faults = MaxFaults /\ torn = {} /\ closed = FALSE /\ merged = FALSE
          /\ menu \subseteq Ops
      BY DEF Init
    <2>2. \/ rows = {} /\ next = 0
          \/ rows = {<<1, "issue">>} /\ next = 2
      BY DEF Init
    <2>3. NumbersInv
      BY NumbersAtFirst
    <2>4. ToldInv
      BY ToldAtFirst
    <2>5. Height <= 2 /\ Height \in Nat
      BY <2>2 DEF Height
    <2>6. Room
      <3>1. Allocators = {}
        BY <2>1 DEF Allocators, Allocations, Idle
      <3>2. IsFiniteSet(Allocators) /\ Cardinality(Allocators) = 0
        BY <3>1, FS_EmptySet
      <3> HIDE DEF Allocators, Height
      <3> QED
        BY <2>1, <2>5, <3>2 DEF Room
    <2>7. \A c \in Calls : Sound(call[c], Height)
      BY <2>1, <2>5, IdleSound
    <2>8. Budget /\ Tables
      <3>1. \A r \in rows : r[2] \in {"issue", "pull"}
        BY <2>2
      <3>2. Tables
        BY <2>1, <3>1 DEF Tables
      <3>3. Budget
        BY <2>1 DEF Budget
      <3> QED
        BY <3>2, <3>3
    <2> QED
      BY <2>3, <2>4, <2>6, <2>7, <2>8 DEF BoundInv
  <1>2. Inv /\ [Next]_vars => Inv'
    BY NumbersKept, BoundKept, ToldStep DEF NumbersInv
  <1>3. Inv => TypeOK
    <2> SUFFICES ASSUME NumbersInv, ToldInv, BoundInv PROVE TypeOK
      OBVIOUS
    <2>1. /\ Typed /\ MailTyped /\ Budget /\ Tables /\ DOMAIN events = 1..Len(events)
          /\ Len(events) \in Nat
      BY DEF NumbersInv, ToldInv, HeardInv, MailTyped, BoundInv
    <2>2. Height \in Nat /\ Height <= MaxCalls + 2
      <3>1. Height \in Nat
        BY <2>1 DEF Height, Typed
      <3>2. Cardinality(Allocators) \in Nat /\ left \in Nat
        BY <2>1, FS_CardinalityType DEF Room, BoundInv, Budget
      <3> HIDE DEF Height, Allocators
      <3> QED
        BY <3>1, <3>2 DEF BoundInv, Room
    <2>3. next \in Numbered
      BY <2>1, <2>2 DEF Height, Numbered, Typed
    <2>4. rows \subseteq Numbered \X {"issue", "pull"}
      <3>1. \A r \in rows : r \in Nat \X Ops /\ r[1] \in 1..next - 1 /\ r[2] \in {"issue", "pull"}
        BY <2>1 DEF NumbersInv, Numbers, Typed, Tables
      <3> QED
        BY <2>3, <3>1 DEF Numbered
    <2>5. Cardinality(releases) <= 1
      <3>1. CASE releases = {}
        BY <3>1, FS_EmptySet
      <3>2. CASE releases # {}
        <4>1. PICK r \in releases : TRUE
          BY <3>2
        <4>2. releases = {r}
          BY <2>1, <4>1 DEF Tables
        <4> QED
          BY <4>2, FS_Singleton
      <3> QED
        BY <3>1, <3>2
    <2>6. jobs \subseteq [event : DOMAIN events, to : Users, kind : Kinds, looked : BOOLEAN, alone : BOOLEAN]
      <3>1. \A j \in jobs : j \in JobRow /\ j.event \in DOMAIN events
        BY <2>1 DEF MailTyped, ToldInv, HeardInv, Known
      <3> QED
        BY <3>1 DEF JobRow
    <2>7. \A n \in notes : /\ n.event \in DOMAIN events /\ n.covers \subseteq DOMAIN events
                           /\ n.to \in Users /\ n.kind \in Kinds
                           /\ n.read \in BOOLEAN /\ n.alone \in BOOLEAN
      <3>1. \A n \in notes : n \in NoteRow /\ n.event \in DOMAIN events /\ n.covers \subseteq DOMAIN events
        BY <2>1 DEF MailTyped, ToldInv, HeardInv, Known
      <3> QED
        BY <3>1 DEF NoteRow
    <2>8. ASSUME NEW c \in Calls
          PROVE  /\ DOMAIN call[c] = DOMAIN Idle /\ call[c].op \in Ops /\ call[c].at \in Place
                 /\ call[c].tries \in 0..MaxAttempts /\ call[c].next \in Numbered
      <3>1. call[c] \in Request /\ Sound(call[c], Height)
        BY <2>1 DEF Typed, BoundInv
      <3>2. DOMAIN call[c] = DOMAIN Idle /\ call[c].op \in Ops /\ call[c].at \in Place /\ call[c].next \in Nat
        BY <3>1 DEF Request, Idle
      <3> HIDE DEF Height
      <3> QED
        BY <2>2, <3>1, <3>2 DEF Sound, Numbered
    <2>9. DOMAIN call = Calls
      BY <2>1 DEF Typed
    <2>10. events \in Seq([kind : Kinds, by : Users, to : SUBSET Users, due : SUBSET Users,
                           may : SUBSET Users, done : BOOLEAN])
      BY <2>1 DEF MailTyped, EventRow
    <2>11. /\ closed \in BOOLEAN /\ labels \subseteq Labels /\ torn \subseteq Scopes /\ assignees \subseteq Users
           /\ merged \in BOOLEAN /\ tag \in Commits \union {0}
           /\ releases \subseteq [target : Commits, moved : BOOLEAN] /\ watch \in [Users -> Levels]
           /\ taken.id \in 0..Len(events) /\ taken.involved \subseteq Users
           /\ menu \subseteq Ops /\ left \in 0..MaxCalls /\ faults \in 0..MaxFaults
      BY <2>1 DEF Typed, MailTyped, Tables, Budget
    <2> HIDE DEF Numbered
    <2> QED
      BY <2>3, <2>4, <2>5, <2>6, <2>7, <2>8, <2>9, <2>10, <2>11 DEF TypeOK
  <1> QED
    BY <1>1, <1>2, <1>3, PTL DEF Spec

=============================================================================
