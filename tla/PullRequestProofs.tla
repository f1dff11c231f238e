-------------------------- MODULE PullRequestProofs --------------------------
(***************************************************************************)
(* Theorems about PullRequest, for any number of handlers, reviewers,      *)
(* pushes and faults, and any protection rule; and about Pages, as an      *)
(* instance, for any number of clicks.                                     *)
(***************************************************************************)
EXTENDS PullRequest, FiniteSetTheorems, TLAPS

USE PullRequestAssumption

-----------------------------------------------------------------------------
(* Types *)

LEMMA SpendType ==
    ASSUME TypeOK, NEW b \in {"calls", "reviews", "faults"}, Spend(b)
    PROVE  budget' \in Budget
  BY DEF TypeOK, Budget, Spend

\* A handler's record stays one when it moves on, returns or begins.
LEMMA CallType ==
    ASSUME TypeOK, NEW c \in Calls
    PROVE  /\ \A place \in {"loaded", "approved", "checked", "locked"} :
                Goto(c, place) => call' \in [Calls -> Call]
           /\ Return(c) => call' \in [Calls -> Call]
  <1>1. call \in [Calls -> Call] /\ call[c] \in Call
    BY DEF TypeOK
  <1>2. Idle \in Call
    BY DEF Idle, Call, Strategy
  <1>3. ASSUME NEW place \in {"loaded", "approved", "checked", "locked"}
        PROVE  [call[c] EXCEPT !.at = place] \in Call
    BY <1>1 DEF Call
  <1> QED
    BY <1>1, <1>2, <1>3 DEF Goto, Return

\* Landing appends at most one commit, and it is the call's.
LEMMA LandedType ==
    ASSUME TypeOK, NEW c \in Calls, GitMerge(c)
    PROVE  /\ mainline' \in Seq(Commit)
           /\ Len(mainline') \in Nat
           /\ source' \in [version : Nat, base : Nat]
           /\ call' \in [Calls -> Call]
  <1>1. call[c].strategy \in Strategy
    BY DEF TypeOK, Call
  <1>2. [how |-> call[c].strategy, version |-> source.version] \in Commit
    BY <1>1 DEF TypeOK, Commit
  <1>3. mainline' \in Seq(Commit)
    BY <1>2 DEF GitMerge, TypeOK
  <1>4. Len(mainline') \in Nat
    BY <1>3
  <1>5. source' \in [version : Nat, base : Nat]
    BY <1>4 DEF GitMerge, TypeOK
  <1>6. call' \in [Calls -> Call]
    <2>1. call \in [Calls -> Call] /\ call[c] \in Call
      BY DEF TypeOK
    <2>2. [call[c] EXCEPT !.at = "landed", !.commit = Len(mainline')] \in Call
      BY <1>4, <2>1 DEF Call
    <2>3. call' = [call EXCEPT ![c] = [call[c] EXCEPT !.at = "landed",
                                                      !.commit = Len(mainline')]]
      BY <2>1 DEF GitMerge
    <2> QED
      BY <2>1, <2>2, <2>3
  <1> QED
    BY <1>3, <1>4, <1>5, <1>6

\* TypeOK needs no strengthening.
THEOREM TypeCorrect == Spec => []TypeOK
  <1>1. Init => TypeOK
    BY DEF Init, TypeOK, PrState, Review, Commit, Call, Idle, Strategy, Budget
  <1>2. TypeOK /\ [Next]_vars => TypeOK'
    <2> SUFFICES ASSUME TypeOK, [Next]_vars
                 PROVE  TypeOK'
      OBVIOUS
    <2>1. CASE Open
      BY <2>1 DEF Open, TypeOK, PrState
    <2>2. CASE PushSource
      <3>1. source' \in [version : Nat, base : Nat]
        BY <2>2 DEF PushSource, TypeOK, Tip
      <3>2. source.version + 1 \in Nat
        BY DEF TypeOK
      <3>3. outbox' \in SUBSET Nat
        BY <2>2, <3>2 DEF PushSource, TypeOK
      <3>4. budget' \in Budget
        BY <2>2, SpendType DEF PushSource, TypeOK
      <3> QED
        BY <2>2, <3>1, <3>3, <3>4 DEF PushSource, TypeOK
    <2>3. CASE PushTarget
      <3>1. [how |-> "push", version |-> 0] \in Commit
        BY DEF Commit
      <3> QED
        BY <2>3, <3>1 DEF PushTarget, TypeOK
    <2>4. CASE ReportStatus
      BY <2>4 DEF ReportStatus, TypeOK
    <2>5. ASSUME NEW a \in Reviewers, NEW v \in Verdict, SubmitReview(a, v)
          PROVE  TypeOK'
      <3>1. [verdict |-> v, version |-> source.version, active |-> TRUE] \in Review
        BY DEF TypeOK, Review
      <3> QED
        BY <2>5, <3>1, SpendType DEF SubmitReview, TypeOK
    <2>6. ASSUME NEW v \in outbox, DispatchPush(v)
          PROVE  TypeOK'
      <3>1. Dismissed(reviews) \in [Reviewers -> Review \union {None}]
        BY DEF TypeOK, Dismissed, Review
      <3>2. /\ reviews' \in [Reviewers -> Review \union {None}]
            /\ dismissed' \in Nat
        BY <2>6, <3>1 DEF DispatchPush, TypeOK
      <3>3. outbox' \in SUBSET Nat /\ budget' \in Budget
        BY <2>6, SpendType DEF DispatchPush, TypeOK
      <3> QED
        BY <2>6, <3>2, <3>3 DEF DispatchPush, TypeOK
    <2>7. ASSUME NEW c \in Calls, NEW op \in Rewrite, StartRewrite(c, op)
          PROVE  TypeOK'
      <3>1. [Idle EXCEPT !.op = op, !.at = "loaded"] \in Call
        BY DEF Idle, Call, Strategy
      <3> QED
        BY <2>7, <3>1, SpendType DEF StartRewrite, TypeOK
    <2>8. ASSUME NEW c \in Calls, NEW s \in Strategy, StartMerge(c, s)
          PROVE  TypeOK'
      <3>1. [Idle EXCEPT !.op = "merge", !.at = "loaded", !.strategy = s] \in Call
        BY DEF Idle, Call
      <3> QED
        BY <2>8, <3>1, SpendType DEF StartMerge, TypeOK
    <2>9. ASSUME NEW c \in Calls, Step(c)
          PROVE  TypeOK'
      <3>1. CASE FinishRewrite(c)
        <4>1. Rewritten(call[c].op) \in PrState
          BY <3>1 DEF FinishRewrite, Rewritten, Rewrite, PrState
        <4> QED
          BY <3>1, <4>1, CallType DEF FinishRewrite, TypeOK
      <3>2. CASE CheckReviews(c)
        BY <3>2, CallType DEF CheckReviews, TypeOK
      <3>3. CASE CheckStatuses(c)
        BY <3>3, CallType DEF CheckStatuses, TypeOK
      <3>4. CASE AcquireLock(c)
        BY <3>4, CallType DEF AcquireLock, TypeOK
      <3>5. CASE GitMerge(c)
        BY <3>5, LandedType DEF GitMerge, TypeOK
      <3>6. CASE GitMergeFails(c)
        BY <3>6, CallType DEF GitMergeFails, Refused, TypeOK
      <3>7. CASE RecordMerge(c)
        <4>1. call[c].commit \in Nat
          BY DEF TypeOK, Call
        <4> QED
          BY <3>7, <4>1, CallType DEF RecordMerge, TypeOK, PrState
      <3> QED
        BY <2>9, <3>1, <3>2, <3>3, <3>4, <3>5, <3>6, <3>7 DEF Step
    <2>10. ASSUME NEW c \in Calls, Drop(c)
           PROVE  TypeOK'
      BY <2>10, CallType, SpendType DEF Drop, TypeOK
    <2>11. CASE UNCHANGED vars
      BY <2>11 DEF TypeOK, vars
    <2> QED
      BY <2>1, <2>2, <2>3, <2>4, <2>5, <2>6, <2>7, <2>8, <2>9, <2>10, <2>11 DEF Next
  <1> QED
    BY <1>1, <1>2, PTL DEF Spec

-----------------------------------------------------------------------------
(* The lock and the record of the merge *)

\* What holds between landing and recording, and after: the merge's own
\* commit is at or behind the one its call is about to record.
Landed == \A c \in Calls : call[c].at = "landed" =>
              \E i \in 1..call[c].commit : mainline[i].how # "push"

MergeInv == LockedMerge /\ Landed /\ MergeRecorded

\* Calls that do not touch the branches, the row or the lock, and neither
\* enter nor leave the part of a merge under the lock.
LEMMA OutsideTheLock ==
    ASSUME TypeOK, MergeInv,
           \A c \in Calls : \/ call'[c] = call[c]
                            \/ /\ call[c].at \notin {"locked", "landed"}
                               /\ call'[c].at \notin {"locked", "landed"},
           UNCHANGED <<mainline, lock>>,
           pr'.state = "merged" => UNCHANGED <<pr, merged>>,
           UNCHANGED merged
    PROVE  MergeInv'
  <1>1. LockedMerge'
    BY DEF MergeInv, LockedMerge, Tip
  <1>2. Landed'
    BY DEF MergeInv, Landed
  <1>3. MergeRecorded'
    BY DEF MergeInv, MergeRecorded, Tip
  <1> QED
    BY <1>1, <1>2, <1>3 DEF MergeInv

\* A target branch that grows keeps what landed on it.
LEMMA BranchGrows ==
    ASSUME TypeOK, NEW x \in Commit, mainline' = Append(mainline, x)
    PROVE  /\ Tip \in Nat
           /\ Tip' = Tip + 1
           /\ mainline'[Tip + 1] = x
           /\ \A i \in 1..Tip : mainline'[i] = mainline[i]
  BY DEF TypeOK, Tip

LEMMA RecordKept ==
    ASSUME TypeOK, MergeRecorded, UNCHANGED <<pr, merged>>,
           Tip \in Nat, Tip' \in Nat, Tip <= Tip',
           \A i \in 1..Tip : mainline'[i] = mainline[i]
    PROVE  MergeRecorded'
  <1>1. ASSUME pr.state = "merged"
        PROVE  /\ merged > 0
               /\ pr.commit \in 1..Tip'
               /\ \E i \in 1..pr.commit : mainline'[i].how # "push"
    <2>1. /\ merged > 0 /\ pr.commit \in 1..Tip
          /\ \E i \in 1..pr.commit : mainline[i].how # "push"
      BY <1>1 DEF MergeRecorded
    <2>2. PICK i \in 1..pr.commit : mainline[i].how # "push"
      BY <2>1
    <2>3. i \in 1..Tip
      BY <2>1
    <2>4. mainline'[i].how # "push"
      BY <2>2, <2>3
    <2> QED
      BY <2>1, <2>4
  <1>2. ASSUME merged > 0
        PROVE  \E i \in 1..Tip' : mainline'[i].how # "push"
    <2>1. PICK i \in 1..Tip : mainline[i].how # "push"
      BY <1>2 DEF MergeRecorded
    <2>2. i \in 1..Tip' /\ mainline'[i].how # "push"
      BY <2>1
    <2> QED
      BY <2>2
  <1> QED
    BY <1>1, <1>2 DEF MergeRecorded

\* Under the lock a merge sees no other write: LockedMerge; and what it
\* records is what landed: MergeRecorded.  Neither is inductive alone.
LEMMA MergeStep ==
    ASSUME TypeOK, MergeInv, [Next]_vars
    PROVE  MergeInv'
  <1>1. CASE Open
    BY <1>1, OutsideTheLock DEF Open, TypeOK
  <1>2. CASE PushSource
    BY <1>2, OutsideTheLock DEF PushSource
  <1>3. CASE PushTarget
    <2>1. [how |-> "push", version |-> 0] \in Commit
      BY DEF Commit
    <2>2. /\ Tip \in Nat
          /\ Tip' = Tip + 1
          /\ \A i \in 1..Tip : mainline'[i] = mainline[i]
      BY <1>3, <2>1, BranchGrows DEF PushTarget
    <2>3. \A c \in Calls : call[c].at \notin {"locked", "landed"}
      BY <1>3 DEF PushTarget, MergeInv, LockedMerge
    <2>4. LockedMerge' /\ Landed'
      BY <1>3, <2>3 DEF PushTarget, MergeInv, LockedMerge, Landed
    <2>5. MergeRecorded'
      <3>1. MergeRecorded /\ UNCHANGED <<pr, merged>>
        BY <1>3 DEF PushTarget, MergeInv
      <3>2. Tip' \in Nat /\ Tip <= Tip'
        BY <2>2
      <3> QED
        BY <2>2, <3>1, <3>2, RecordKept
    <2> QED
      BY <2>4, <2>5 DEF MergeInv
  <1>4. CASE ReportStatus
    BY <1>4, OutsideTheLock DEF ReportStatus
  <1>5. ASSUME NEW a \in Reviewers, NEW v \in Verdict, SubmitReview(a, v)
        PROVE  MergeInv'
    BY <1>5, OutsideTheLock DEF SubmitReview
  <1>6. ASSUME NEW v \in outbox, DispatchPush(v)
        PROVE  MergeInv'
    BY <1>6, OutsideTheLock DEF DispatchPush
  <1>7. ASSUME NEW c \in Calls, NEW op \in Rewrite, StartRewrite(c, op)
        PROVE  MergeInv'
    BY <1>7, OutsideTheLock DEF StartRewrite, TypeOK, Idle
  <1>8. ASSUME NEW c \in Calls, NEW s \in Strategy, StartMerge(c, s)
        PROVE  MergeInv'
    BY <1>8, OutsideTheLock DEF StartMerge, TypeOK, Idle
  <1>9. ASSUME NEW c \in Calls, Step(c)
        PROVE  MergeInv'
    <2>1. CASE FinishRewrite(c)
      <3>1. Rewritten(call[c].op) # "merged"
        BY <2>1 DEF FinishRewrite, Rewritten, Rewrite
      <3> QED
        BY <2>1, <3>1, OutsideTheLock DEF FinishRewrite, Return, Idle, TypeOK
    <2>2. CASE CheckReviews(c)
      BY <2>2, OutsideTheLock DEF CheckReviews, Goto, Return, Idle, TypeOK, Call
    <2>3. CASE CheckStatuses(c)
      BY <2>3, OutsideTheLock DEF CheckStatuses, Goto, Return, Idle, TypeOK, Call
    <2>4. CASE AcquireLock(c)
      <3>1. /\ lock' = c
            /\ \A d \in Calls : call'[d].at \in {"locked", "landed"} <=> d = c
            /\ \A d \in Calls : call'[d].at # "landed"
        BY <2>4 DEF AcquireLock, Goto, TypeOK, Call, MergeInv, LockedMerge
      <3>2. LockedMerge' /\ Landed'
        BY <3>1 DEF LockedMerge, Landed
      <3>3. MergeRecorded'
        BY <2>4 DEF AcquireLock, MergeInv, MergeRecorded, Tip
      <3> QED
        BY <3>2, <3>3 DEF MergeInv
    <2>5. CASE GitMerge(c)
      <3>1. /\ call'[c].at = "landed"
            /\ call'[c].commit = Tip'
            /\ \A d \in Calls : d # c => call'[d] = call[d]
            /\ lock = c /\ lock' = c
        BY <2>5 DEF GitMerge, TypeOK, Call, MergeInv, LockedMerge, Tip
      <3>2. \A d \in Calls : d # c => call[d].at \notin {"locked", "landed"}
        BY <3>1 DEF MergeInv, LockedMerge
      <3>3. /\ Tip' \in Nat /\ Tip \in Nat /\ Tip <= Tip'
            /\ \A i \in 1..Tip : mainline'[i] = mainline[i]
            /\ \E i \in 1..Tip' : mainline'[i].how # "push"
        <4>1. call[c].strategy \in Strategy
          BY DEF TypeOK, Call
        <4>2. CASE NothingToMove(call[c].strategy)
          <5>1. mainline' = mainline /\ Tip' = Tip
            BY <2>5, <4>2 DEF GitMerge, Tip
          <5>2. Tip \in Nat
            BY DEF TypeOK, Tip
          <5>3. \E i \in 1..Tip : mainline[i].how \in {"merge", "fast_forward"}
            BY <4>2, <5>2 DEF NothingToMove, SameTip, Contained
          <5> QED
            BY <5>1, <5>2, <5>3
        <4>3. CASE ~NothingToMove(call[c].strategy)
          <5> DEFINE x == [how |-> call[c].strategy, version |-> source.version]
          <5>1. x \in Commit /\ x.how # "push"
            BY <4>1 DEF TypeOK, Commit, Strategy
          <5>2. mainline' = Append(mainline, x)
            BY <2>5, <4>3 DEF GitMerge
          <5> HIDE DEF x
          <5>3. /\ Tip \in Nat
                /\ Tip' = Tip + 1
                /\ mainline'[Tip + 1] = x
                /\ \A i \in 1..Tip : mainline'[i] = mainline[i]
            BY <5>1, <5>2, BranchGrows
          <5>4. Tip + 1 \in 1..Tip' /\ mainline'[Tip + 1].how # "push"
            BY <5>1, <5>3
          <5> QED
            BY <5>3, <5>4
        <4> QED
          BY <4>2, <4>3
      <3>4. LockedMerge' /\ Landed'
        BY <3>1, <3>2, <3>3 DEF LockedMerge, Landed
      <3>5. MergeRecorded'
        BY <2>5, <3>3, RecordKept DEF GitMerge, MergeInv
      <3> QED
        BY <3>4, <3>5 DEF MergeInv
    <2>6. CASE GitMergeFails(c)
      <3>1. /\ \A d \in Calls : call'[d].at \notin {"locked", "landed"}
            /\ lock' = None
        BY <2>6 DEF GitMergeFails, Refused, Return, Idle, TypeOK, MergeInv, LockedMerge
      <3>2. LockedMerge' /\ Landed'
        BY <3>1 DEF LockedMerge, Landed
      <3>3. MergeRecorded'
        BY <2>6 DEF GitMergeFails, MergeInv, MergeRecorded, Tip
      <3> QED
        BY <3>2, <3>3 DEF MergeInv
    <2>7. CASE RecordMerge(c)
      <3>1. /\ \A d \in Calls : call'[d].at \notin {"locked", "landed"}
            /\ lock' = None
        BY <2>7 DEF RecordMerge, Return, Idle, TypeOK, MergeInv, LockedMerge
      <3>2. LockedMerge' /\ Landed'
        BY <3>1 DEF LockedMerge, Landed
      <3>3. /\ call[c].commit = Tip /\ Tip > 0 /\ Tip \in Nat
            /\ \E i \in 1..call[c].commit : mainline[i].how # "push"
        BY <2>7 DEF RecordMerge, MergeInv, LockedMerge, Landed, TypeOK, Tip
      <3>4. pr'.commit = call[c].commit /\ merged' > 0 /\ mainline' = mainline
        BY <2>7 DEF RecordMerge, TypeOK
      <3>5. MergeRecorded'
        BY <3>3, <3>4 DEF MergeRecorded, Tip
      <3> QED
        BY <3>2, <3>5 DEF MergeInv
    <2> QED
      BY <1>9, <2>1, <2>2, <2>3, <2>4, <2>5, <2>6, <2>7 DEF Step
  <1>10. ASSUME NEW c \in Calls, Drop(c)
         PROVE  MergeInv'
    <2>1. /\ call'[c].at \notin {"locked", "landed"}
          /\ \A d \in Calls : d # c => call'[d] = call[d]
      BY <1>10 DEF Drop, Return, Idle, TypeOK
    <2>2. LockedMerge' /\ Landed'
      BY <1>10, <2>1 DEF Drop, MergeInv, LockedMerge, Landed, Tip
    <2>3. MergeRecorded'
      BY <1>10 DEF Drop, MergeInv, MergeRecorded, Tip
    <2> QED
      BY <2>2, <2>3 DEF MergeInv
  <1>11. CASE UNCHANGED vars
    BY <1>11, OutsideTheLock DEF vars
  <1> QED
    BY <1>1, <1>2, <1>3, <1>4, <1>5, <1>6, <1>7, <1>8, <1>9, <1>10, <1>11 DEF Next

LEMMA MergeInvariant == Spec => []MergeInv
  <1>1. Init => MergeInv
    BY DEF Init, MergeInv, LockedMerge, Landed, MergeRecorded, Idle, Tip
  <1>2. TypeOK /\ MergeInv /\ [Next]_vars => MergeInv'
    BY MergeStep
  <1> QED
    BY <1>1, <1>2, TypeCorrect, PTL DEF Spec

\* From the git merge to its record no other write reaches the repository:
\* at most one merge is past the lock and its commit is still the tip.
THEOREM MergesAreLocked == Spec => []LockedMerge
  BY MergeInvariant, PTL DEF MergeInv

\* A merged row and its PullRequestMerged event are backed by a landed merge.
THEOREM MergesAreRecorded == Spec => []MergeRecorded
  BY MergeInvariant, PTL DEF MergeInv

-----------------------------------------------------------------------------
(* Approvals *)

\* An approval that counts was given after every push whose event has
\* dismissed approvals, and no event names a push that has not happened.
FreshInv ==
    /\ outbox \subseteq 0..source.version
    /\ dismissed \in 0..source.version
    /\ \A a \in Reviewers : reviews[a] # None /\ reviews[a].active
                               => reviews[a].version >= dismissed

\* Steps that leave the reviews and the branch's events alone.
LEMMA ReviewsAlone ==
    ASSUME FreshInv, UNCHANGED <<source, reviews, outbox, dismissed>>
    PROVE  FreshInv'
  BY DEF FreshInv

LEMMA FreshStep ==
    ASSUME TypeOK, FreshInv, [Next]_vars
    PROVE  FreshInv'
  <1>1. CASE PushSource
    <2>1. source.version \in Nat /\ source'.version = source.version + 1
      BY <1>1 DEF PushSource, TypeOK
    <2>2. outbox' \subseteq 0..source'.version
      <3>1. outbox' \subseteq outbox \union {source.version + 1}
        BY <1>1 DEF PushSource
      <3>2. outbox \subseteq 0..source.version
        BY DEF FreshInv
      <3> QED
        BY <2>1, <3>1, <3>2
    <2> QED
      BY <1>1, <2>1, <2>2 DEF PushSource, FreshInv
  <1>2. ASSUME NEW a \in Reviewers, NEW v \in Verdict, SubmitReview(a, v)
        PROVE  FreshInv'
    BY <1>2 DEF SubmitReview, FreshInv, TypeOK
  <1>3. ASSUME NEW v \in outbox, DispatchPush(v)
        PROVE  FreshInv'
    <2>1. outbox' \subseteq outbox /\ source' = source
      BY <1>3 DEF DispatchPush
    <2>2. CASE UNCHANGED <<reviews, dismissed>>
      BY <2>1, <2>2 DEF FreshInv
    <2>3. CASE /\ reviews' = Dismissed(reviews)
               /\ dismissed' = IF v > dismissed THEN v ELSE dismissed
      <3>1. \A a \in Reviewers : reviews'[a] # None => reviews'[a].active = FALSE
        BY <2>3 DEF Dismissed, TypeOK, Review
      <3>2. dismissed' \in 0..source.version
        BY <2>3 DEF FreshInv
      <3> QED
        BY <2>1, <3>1, <3>2 DEF FreshInv
    <2> QED
      BY <1>3, <2>2, <2>3 DEF DispatchPush
  <1>4. ASSUME NEW c \in Calls, Step(c)
        PROVE  FreshInv'
    <2>1. CASE GitMerge(c)
      <3>1. source'.version = source.version
        BY <2>1 DEF GitMerge, TypeOK
      <3> QED
        BY <2>1, <3>1 DEF GitMerge, FreshInv
    <2>2. CASE ~GitMerge(c)
      BY <1>4, <2>2, ReviewsAlone DEF Step, FinishRewrite, CheckReviews, CheckStatuses,
         AcquireLock, GitMergeFails, RecordMerge
    <2> QED
      BY <2>1, <2>2
  <1>5. CASE Open \/ PushTarget \/ ReportStatus \/ UNCHANGED vars
    BY <1>5, ReviewsAlone DEF Open, PushTarget, ReportStatus, vars
  <1>6. ASSUME NEW c \in Calls,
               \/ \E op \in Rewrite : StartRewrite(c, op)
               \/ \E s \in Strategy : StartMerge(c, s)
               \/ Drop(c)
        PROVE  FreshInv'
    BY <1>6, ReviewsAlone DEF StartRewrite, StartMerge, Drop
  <1> QED
    BY <1>1, <1>2, <1>3, <1>4, <1>5, <1>6 DEF Next

\* Only CheckReviews lets a call through the review gate.
LEMMA OneGate ==
    ASSUME TypeOK, [Next]_vars, NEW c \in Calls,
           call[c].at = "loaded", call'[c].at = "approved"
    PROVE  Cardinality(Approvals) >= RequiredApprovals
  <1>1. call' # call
    OBVIOUS
  <1>2. ASSUME NEW d \in Calls, Step(d)
        PROVE  CheckReviews(d) /\ d = c
    BY <1>2 DEF Step, FinishRewrite, CheckReviews, CheckStatuses, AcquireLock, GitMerge,
       GitMergeFails, RecordMerge, Refused, Goto, Return, Idle, TypeOK, Call
  <1>3. ASSUME NEW d \in Calls, NEW op \in Rewrite, StartRewrite(d, op)
        PROVE  FALSE
    BY <1>3 DEF StartRewrite, Idle, TypeOK
  <1>4. ASSUME NEW d \in Calls, NEW s \in Strategy, StartMerge(d, s)
        PROVE  FALSE
    BY <1>4 DEF StartMerge, Idle, TypeOK
  <1>5. ASSUME NEW d \in Calls, Drop(d)
        PROVE  FALSE
    BY <1>5 DEF Drop, Return, Idle, TypeOK
  <1>6. CheckReviews(c)
    BY <1>1, <1>2, <1>3, <1>4, <1>5
       DEF Next, vars, Open, PushSource, PushTarget, ReportStatus, SubmitReview, DispatchPush
  <1> QED
    BY <1>6 DEF CheckReviews, Return, Idle, TypeOK

\* A merge passes the review gate on enough approvals, each newer than the
\* last push that dismissed the approvals of its pull request.
THEOREM ApprovalsAreFresh == Spec => FreshApprovals
  <1>1. Init => FreshInv
    BY DEF Init, FreshInv
  <1>2. TypeOK /\ FreshInv /\ [Next]_vars => FreshInv'
    BY FreshStep
  <1> DEFINE Fresh == {a \in Reviewers : /\ reviews[a] # None
                                         /\ reviews[a].verdict = "approved"
                                         /\ reviews[a].version >= dismissed}
             Gate == \A c \in Calls :
                       call[c].at = "loaded" /\ call'[c].at = "approved" =>
                          Cardinality(Fresh) >= RequiredApprovals
  <1>3. TypeOK /\ FreshInv /\ [Next]_vars => Gate
    <2> SUFFICES ASSUME TypeOK, FreshInv, [Next]_vars, NEW c \in Calls,
                        call[c].at = "loaded", call'[c].at = "approved"
                 PROVE  Cardinality(Fresh) >= RequiredApprovals
      OBVIOUS
    <2>1. Cardinality(Approvals) >= RequiredApprovals
      BY OneGate
    <2>2. Approvals \subseteq Fresh
      BY DEF Approvals, ActiveApproval, FreshInv
    <2>3. IsFiniteSet(Fresh)
      BY FS_Subset
    <2>4. /\ Cardinality(Approvals) <= Cardinality(Fresh)
          /\ Cardinality(Approvals) \in Nat /\ Cardinality(Fresh) \in Nat
      BY <2>2, <2>3, FS_Subset, FS_CardinalityType
    <2> HIDE DEF Fresh
    <2> QED
      BY <2>1, <2>4
  <1>4. TypeOK /\ FreshInv /\ [Next]_vars => [Gate]_vars
    BY <1>3
  <1> HIDE DEF Gate
  <1>5. Spec => [][Gate]_vars
    BY <1>1, <1>2, <1>4, TypeCorrect, PTL DEF Spec
  <1> QED
    BY <1>5 DEF FreshApprovals, Gate, Fresh

-----------------------------------------------------------------------------
(* The pages of the web interface: their requests under way *)

CONSTANT MaxClicks
VARIABLES panel, left, up, db, loading, shown, told, held, calls, clicks
Page == INSTANCE Pages

Fields == {"form", "no", "served", "wrote"}
Requests == Page!Buttons[panel] \cap DOMAIN Page!Spawned

\* A request under way keeps its form and its number, which no other has.
PageTyped ==
    /\ panel \in DOMAIN Page!Loads /\ left \in BOOLEAN /\ clicks \in Nat
    /\ db \in [Page!Of(panel) -> Int] /\ loading \in [Page!Of(panel) -> Int]
    /\ shown \in [Page!Of(panel) -> Int] /\ told \in [Page!Of(panel) -> Int]
    /\ DOMAIN held = Page!Secrets
    /\ \A c \in calls :
         /\ DOMAIN c = Fields /\ c = [x \in Fields |-> c[x]]
         /\ c.form \in Requests /\ c.no \in 1..clicks /\ DOMAIN c.wrote = Page!Effects[c.form]
         /\ \A r \in Page!Effects[c.form] : c.wrote[r] \in Int
    /\ \A c, d \in calls : c.no = d.no => c = d

\* What the tables say of a request of the page.
LEMMA TablesSay ==
    ASSUME Page!TablesAssumption, panel \in DOMAIN Page!Loads, NEW f \in Requests
    PROVE  /\ Page!Spawned[f].flag \subseteq Page!View[f].hides
           /\ \A e \in Page!Endings(f) : (e.raises \cup e.lowers) \cap Page!Flags = {}
           /\ \A e \in Page!Endings(f) : e.leaves \in BOOLEAN
           /\ Page!Effects[f] \subseteq Page!Of(panel)
           /\ Page!Spawned[f].sets \subseteq Page!View[f].within \ Page!Restarts
  BY DEF Page!TablesAssumption, Page!FlagsGuard, Page!WritesTended, Requests

\* A request is sent: it is one more call.
LEMMA SendEffect ==
    ASSUME PageTyped, NEW f \in Requests, Page!Send(f)
    PROVE  \E c : /\ calls' = calls \cup {c} /\ c \notin calls
                  /\ DOMAIN c = Fields /\ c = [x \in Fields |-> c[x]]
                  /\ c.form = f /\ c.no = clicks' /\ c.served = FALSE
                  /\ c.wrote = [r \in Page!Effects[f] |-> 0]
                  /\ clicks' = clicks + 1
  <1> DEFINE c == [form |-> f, no |-> clicks', served |-> FALSE,
                   wrote |-> [r \in Page!Effects[f] |-> 0]]
  <1>1. /\ DOMAIN c = Fields /\ c = [x \in Fields |-> c[x]]
        /\ c.form = f /\ c.no = clicks' /\ c.served = FALSE /\ c.wrote = [r \in Page!Effects[f] |-> 0]
    BY DEF Fields
  <1>2. calls' = calls \cup {c} /\ clicks' = clicks + 1
    BY DEF Page!Send
  <1> HIDE DEF c
  <1>3. c \notin calls
    <2>1. clicks \in Nat /\ \A d \in calls : d.no \in 1..clicks
      BY DEF PageTyped
    <2> QED
      BY <1>1, <1>2, <2>1
  <1> QED
    BY <1>1, <1>2, <1>3

\* The server carries a request out: the call knows what it wrote.
LEMMA ServeEffect ==
    ASSUME PageTyped, NEW c \in calls, Page!Serve(c)
    PROVE  \E d : /\ calls' = (calls \ {c}) \cup {d}
                  /\ DOMAIN d = Fields /\ d = [x \in Fields |-> d[x]]
                  /\ d.form = c.form /\ d.no = c.no /\ d.served = TRUE
                  /\ d.wrote = [r \in Page!Effects[c.form] |-> db'[r]]
  <1>0. PICK v : v = [r \in Page!Effects[c.form] |-> db'[r]]
    OBVIOUS
  <1> DEFINE d == [c EXCEPT !.served = TRUE, !.wrote = v]
  <1>1. DOMAIN c = Fields /\ c = [x \in Fields |-> c[x]]
    BY DEF PageTyped
  <1>2. /\ DOMAIN d = Fields /\ d = [x \in Fields |-> d[x]]
        /\ d.form = c.form /\ d.no = c.no /\ d.served = TRUE
        /\ d.wrote = [r \in Page!Effects[c.form] |-> db'[r]]
    <2>1. d = [c EXCEPT !.served = TRUE, !.wrote = v]
      OBVIOUS
    <2> HIDE DEF d
    <2>2. /\ DOMAIN d = Fields /\ d = [x \in Fields |-> d[x]]
          /\ d.form = c.form /\ d.no = c.no /\ d.served = TRUE /\ d.wrote = v
      BY <1>1, <2>1 DEF Fields
    <2> QED
      BY <1>0, <2>2
  <1>3. calls' = (calls \ {c}) \cup {d}
    BY <1>0 DEF Page!Serve
  <1> QED
    BY <1>2, <1>3

\* Every step of the page is one of these.
LEMMA PageSteps ==
    ASSUME [Page!Next]_(Page!vars)
    PROVE  \/ \E f \in Requests : Page!Send(f)
           \/ \E f \in Page!Buttons[panel] \cap DOMAIN Page!Signalled : Page!Pick(f)
           \/ \E c \in calls : Page!Serve(c)
           \/ \E c \in calls : \E e \in Page!Spawned[c.form].ok :
                c.served /\ Page!Resume(c, e) /\ Page!Succeed(c)
           \/ \E c \in calls : Page!Resume(c, Page!Spawned[c.form].err) /\ told' = told
           \/ \E r \in Page!Of(panel) : Page!FetchEnds(r)
           \/ UNCHANGED Page!vars
  BY DEF Page!Next, Page!Succeed, Page!Fail, Requests

\* Fetches, versions and secrets stay what they are; what is known of a call stays.
LEMMA PageTypesKept ==
    ASSUME Page!TablesAssumption, PageTyped, [Page!Next]_(Page!vars)
    PROVE  PageTyped' /\ panel' = panel
  <1> USE DEF PageTyped
  <1>1. ASSUME NEW f \in Requests, Page!Send(f) PROVE PageTyped' /\ panel' = panel
    <2>1. PICK c : /\ calls' = calls \cup {c} /\ c \notin calls
                   /\ DOMAIN c = Fields /\ c = [x \in Fields |-> c[x]]
                   /\ c.form = f /\ c.no = clicks' /\ c.served = FALSE
                   /\ c.wrote = [r \in Page!Effects[f] |-> 0]
                   /\ clicks' = clicks + 1
      BY <1>1, SendEffect
    <2>2. UNCHANGED <<panel, left, db, loading, shown, told, held>>
      BY <1>1 DEF Page!Send
    <2>3. clicks' \in Nat /\ c.no \in 1..clicks' /\ \A d \in calls : d.no \in 1..clicks' /\ d.no # c.no
      BY <2>1
    <2>4. DOMAIN c.wrote = Page!Effects[c.form] /\ \A r \in Page!Effects[c.form] : c.wrote[r] \in Int
      BY <2>1
    <2>5. Requests' = Requests
      BY <2>2 DEF Requests
    <2> QED
      BY <1>1, <2>1, <2>2, <2>3, <2>4, <2>5
  <1>2. ASSUME NEW f \in DOMAIN Page!Signalled, Page!Pick(f) PROVE PageTyped' /\ panel' = panel
    <2>1. /\ UNCHANGED <<panel, left, shown>> /\ calls' \subseteq calls
          /\ clicks' \in Nat /\ clicks =< clicks' /\ DOMAIN held' = Page!Secrets
      BY <1>2 DEF Page!Pick
    <2>2. /\ db' \in [Page!Of(panel) -> Int] /\ told' \in [Page!Of(panel) -> Int]
          /\ loading' \in [Page!Of(panel) -> Int]
      BY <1>2 DEF Page!Pick, Page!Restarted
    <2>3. \A c \in calls : c.no \in 1..clicks'
      BY <2>1
    <2>5. Requests' = Requests
      BY <2>1 DEF Requests
    <2> QED
      BY <2>1, <2>2, <2>3, <2>5
  <1>3. ASSUME NEW c \in calls, Page!Serve(c) PROVE PageTyped' /\ panel' = panel
    <2>1. PICK d : /\ calls' = (calls \ {c}) \cup {d}
                   /\ DOMAIN d = Fields /\ d = [x \in Fields |-> d[x]]
                   /\ d.form = c.form /\ d.no = c.no /\ d.served = TRUE
                   /\ d.wrote = [r \in Page!Effects[c.form] |-> db'[r]]
      BY <1>3, ServeEffect
    <2>2. /\ UNCHANGED <<panel, left, loading, shown, told, held, clicks>>
          /\ db' \in [Page!Of(panel) -> Int]
      <3>1. /\ UNCHANGED <<panel, left, loading, shown, told, held, clicks>>
            /\ db' = [r \in Page!Of(panel) |-> IF r \in Page!Effects[c.form] THEN db[r] + 1 ELSE db[r]]
        BY <1>3 DEF Page!Serve
      <3> QED
        BY <3>1
    <2>3. c.form \in Requests /\ Page!Effects[c.form] \subseteq Page!Of(panel)
      BY TablesSay
    <2>4. DOMAIN d.wrote = Page!Effects[d.form] /\ \A r \in Page!Effects[d.form] : d.wrote[r] \in Int
      BY <2>1, <2>2, <2>3
    <2>5. Requests' = Requests
      BY <2>2 DEF Requests
    <2> QED
      BY <2>1, <2>2, <2>3, <2>4, <2>5
  <1>4. ASSUME NEW c \in calls, NEW e \in Page!Endings(c.form), Page!Resume(c, e),
               told' \in [Page!Of(panel) -> Int], e.leaves \in BOOLEAN
        PROVE  PageTyped' /\ panel' = panel
    <2>1. /\ UNCHANGED <<panel, db, clicks>> /\ calls' \subseteq calls
          /\ DOMAIN held' = Page!Secrets /\ left' \in BOOLEAN
      BY <1>4 DEF Page!Resume, Page!SignalsAfter, Page!DisplayedAfter
    <2>2. shown' \in [Page!Of(panel) -> Int]
      BY <1>4 DEF Page!Resume, Page!SignalsAfter, Page!DisplayedAfter, Page!Assumed
    <2>3. loading' \in [Page!Of(panel) -> Int]
      BY <1>4 DEF Page!Resume, Page!SignalsAfter, Page!DisplayedAfter, Page!Restarted
    <2>5. Requests' = Requests
      BY <2>1 DEF Requests
    <2> QED
      BY <1>4, <2>1, <2>2, <2>3, <2>5
  <1>5. ASSUME NEW r \in Page!Of(panel), Page!FetchEnds(r) PROVE PageTyped' /\ panel' = panel
    <2>1. UNCHANGED <<panel, left, db, told, held, calls, clicks>>
      BY <1>5 DEF Page!FetchEnds
    <2>2. shown' \in [Page!Of(panel) -> Int]
      <3>1. PICK v : v \in loading[r]..db[r] \cup {Page!Failed} /\ shown' = [shown EXCEPT ![r] = v]
        BY <1>5 DEF Page!FetchEnds
      <3>2. v \in Int
        BY <3>1 DEF Page!Failed
      <3> QED
        BY <3>1, <3>2
    <2>3. loading' \in [Page!Of(panel) -> Int]
      BY <1>5 DEF Page!FetchEnds, Page!Restarted
    <2>5. Requests' = Requests
      BY <2>1 DEF Requests
    <2> QED
      BY <2>1, <2>2, <2>3, <2>5
  <1>6. CASE UNCHANGED Page!vars
    BY <1>6 DEF Page!vars, Requests
  <1>7. ASSUME NEW c \in calls, NEW e \in Page!Spawned[c.form].ok, c.served, Page!Resume(c, e), Page!Succeed(c)
        PROVE  PageTyped' /\ panel' = panel
    <2>1. told' \in [Page!Of(panel) -> Int]
      BY <1>7 DEF Page!Succeed
    <2>2. e \in Page!Endings(c.form) /\ c.form \in Requests
      BY DEF Page!Endings
    <2>3. e.leaves \in BOOLEAN
      BY <2>2, TablesSay
    <2> QED
      BY <1>4, <1>7, <2>1, <2>2, <2>3
  <1>8. ASSUME NEW c \in calls, Page!Resume(c, Page!Spawned[c.form].err), told' = told
        PROVE  PageTyped' /\ panel' = panel
    <2>1. Page!Spawned[c.form].err \in Page!Endings(c.form) /\ c.form \in Requests
      BY DEF Page!Endings
    <2>2. Page!Spawned[c.form].err.leaves \in BOOLEAN
      BY <2>1, TablesSay
    <2> QED
      BY <1>4, <1>8, <2>1, <2>2
  <1> QED
    BY <1>1, <1>2, <1>3, <1>5, <1>6, <1>7, <1>8, PageSteps

-----------------------------------------------------------------------------
(* The flags of a page *)

\* A raised flag has one request under way that raised it, a lowered one none.
FlagHeld ==
    \A g \in Page!Flags :
        /\ g \in up <=> \E c \in calls : g \in Page!Spawned[c.form].flag
        /\ \A c, d \in calls :
             g \in Page!Spawned[c.form].flag /\ g \in Page!Spawned[d.form].flag => c = d

LEMMA FlagsStep ==
    ASSUME Page!TablesAssumption, PageTyped, FlagHeld, [Page!Next]_(Page!vars)
    PROVE  FlagHeld'
  <1> DEFINE F(c) == Page!Spawned[c.form].flag
  <1>1. ASSUME NEW f \in Requests, Page!Send(f) PROVE FlagHeld'
    <2>1. PICK c : calls' = calls \cup {c} /\ c \notin calls /\ c.form = f
      BY <1>1, SendEffect
    <2>2. up' = up \cup Page!Spawned[f].flag /\ Page!Spawned[f].flag \cap up = {}
      <3>1. Page!Spawned[f].flag \subseteq Page!View[f].hides
        BY TablesSay DEF PageTyped
      <3>2. Page!View[f].hides \cap up = {}
        BY <1>1 DEF Page!Send, Page!Offered, Page!OnScreen
      <3> QED
        BY <1>1, <3>1, <3>2 DEF Page!Send
    <2>3. F(c) = Page!Spawned[f].flag
      BY <2>1
    <2> HIDE DEF F
    <2> QED
      BY <2>1, <2>2, <2>3 DEF FlagHeld, F
  <1>2. ASSUME NEW f \in DOMAIN Page!Signalled, Page!Pick(f) PROVE FlagHeld'
    <2>1. \A g \in Page!Flags : g \in up' <=> g \in up
      BY <1>2 DEF Page!Pick, Page!TablesAssumption, Page!FlagsGuard
    <2>2. calls' \subseteq calls /\ \A c \in calls : c \notin calls' => F(c) = {}
      BY <1>2 DEF Page!Pick, Page!TablesAssumption, Page!FlagsGuard, PageTyped, Requests
    <2> QED
      BY <2>1, <2>2 DEF FlagHeld
  <1>3. ASSUME NEW c \in calls, Page!Serve(c) PROVE FlagHeld'
    <2>1. PICK d : calls' = (calls \ {c}) \cup {d} /\ d.form = c.form
      BY <1>3, ServeEffect
    <2>2. up' = up /\ F(d) = F(c)
      BY <1>3, <2>1 DEF Page!Serve
    <2> HIDE DEF F
    <2> QED
      BY <2>1, <2>2 DEF FlagHeld, F
  <1>4. ASSUME NEW c \in calls, NEW e \in Page!Endings(c.form), Page!Resume(c, e) PROVE FlagHeld'
    <2>1. CASE e.leaves
      BY <1>4, <2>1 DEF Page!Resume, Page!SignalsAfter, Page!DisplayedAfter, FlagHeld
    <2>2. CASE ~e.leaves
      <3>1. \A g \in Page!Flags : g \in up' <=> g \in up /\ g \notin F(c)
        <4>1. (e.raises \cup e.lowers) \cap Page!Flags = {}
          BY TablesSay DEF PageTyped
        <4> QED
          BY <1>4, <2>2, <4>1 DEF Page!Resume, Page!SignalsAfter, Page!DisplayedAfter
      <3>2. calls' = calls \ {c}
        BY <1>4, <2>2 DEF Page!Resume, Page!SignalsAfter, Page!DisplayedAfter
      <3> HIDE DEF F
      <3> QED
        BY <3>1, <3>2 DEF FlagHeld, F
    <2> QED
      BY <2>1, <2>2
  <1>5. ASSUME UNCHANGED <<up, calls>> PROVE FlagHeld'
    BY <1>5 DEF FlagHeld
  <1>6. ASSUME NEW c \in calls, NEW e \in Page!Spawned[c.form].ok, Page!Resume(c, e) PROVE FlagHeld'
    BY <1>4, <1>6 DEF Page!Endings
  <1>7. ASSUME NEW c \in calls, Page!Resume(c, Page!Spawned[c.form].err) PROVE FlagHeld'
    BY <1>4, <1>7 DEF Page!Endings
  <1>8. ASSUME NEW r, Page!FetchEnds(r) PROVE UNCHANGED <<up, calls>>
    BY <1>8 DEF Page!FetchEnds
  <1> QED
    BY <1>1, <1>2, <1>3, <1>5, <1>6, <1>7, <1>8, PageSteps DEF Page!vars

LEMMA PageStart == Page!Init => PageTyped
  <1> SUFFICES ASSUME Page!Init PROVE PageTyped
    OBVIOUS
  <1>1. /\ db = [r \in Page!Of(panel) |-> 1] /\ told = db /\ shown = [r \in Page!Of(panel) |-> 0]
        /\ loading = [r \in Page!Of(panel) |-> IF r \in Page!Loads[panel] THEN 1 ELSE 0]
        /\ DOMAIN held = Page!Secrets /\ calls = {} /\ clicks = 0 /\ left = FALSE
        /\ panel \in DOMAIN Page!Loads
    BY DEF Page!Init
  <1>2. /\ db \in [Page!Of(panel) -> Int] /\ told \in [Page!Of(panel) -> Int]
        /\ shown \in [Page!Of(panel) -> Int]
    BY <1>1
  <1>3. loading \in [Page!Of(panel) -> Int]
    BY <1>1
  <1> QED
    BY <1>1, <1>2, <1>3 DEF PageTyped

\* A button is never left disabled, and none sends beside another that shares
\* its flag, however many clicks there are (`busy.set(true)` before a request
\* and `busy.set(false)` after it, on every page).
THEOREM FlagsTellRequests ==
    ASSUME Page!TablesAssumption
    PROVE  Page!Spec => []Page!FlagsMeanCalls
  <1> DEFINE Inv == PageTyped /\ FlagHeld
  <1>1. Page!Init => Inv
    <2>1. Page!Init => FlagHeld
      BY DEF Page!Init, FlagHeld
    <2> QED
      BY <2>1, PageStart
  <1>2. Inv /\ [Page!Next]_(Page!vars) => Inv'
    BY PageTypesKept, FlagsStep
  <1>3. Inv => Page!FlagsMeanCalls
    <2> SUFFICES ASSUME FlagHeld, NEW g \in Page!Flags
                 PROVE  Page!Cardinality({c \in calls : g \in Page!Spawned[c.form].flag})
                          = IF g \in up THEN 1 ELSE 0
      BY DEF Page!FlagsMeanCalls
    <2> DEFINE S == {c \in calls : g \in Page!Spawned[c.form].flag}
    <2>1. Page!Cardinality(S) = Cardinality(S)
      BY DEF Page!Cardinality, Cardinality
    <2>2. CASE g \in up
      <3>1. PICK c \in S : \A d \in S : c = d
        BY <2>2 DEF FlagHeld
      <3>2. S = {c}
        BY <3>1
      <3> QED
        BY <2>1, <2>2, <3>2, FS_Singleton
    <2>3. CASE g \notin up
      <3>1. S = {}
        BY <2>3 DEF FlagHeld
      <3> QED
        BY <2>1, <2>3, <3>1, FS_EmptySet
    <2> QED
      BY <2>2, <2>3
  <1> HIDE DEF Inv
  <1> QED
    BY <1>1, <1>2, <1>3, PTL DEF Page!Spec

-----------------------------------------------------------------------------
(* What a page shows *)

\* A fetch under way brings no older an answer than the page has been told of;
\* what nothing restarts is fetched once, and stays as it is while a request
\* offered on top of it is under way.
Fetched(r) ==
    /\ 1 =< db[r] /\ told[r] =< db[r] /\ loading[r] =< db[r] /\ loading[r] >= 0
    /\ loading[r] > 0 /\ (left => r \in Page!Navbar) => told[r] =< loading[r]
    /\ shown[r] > 0 \/ loading[r] > 0 => r \in Page!Loads[panel] \cup Page!Restarts
    /\ r \notin Page!Restarts /\ Page!Answered(r) => loading[r] = 0
    /\ loading[r] = 0 /\ shown[r] > 0 /\ (left => r \in Page!Navbar) => shown[r] >= told[r]
Waiting(c) ==
    \A r \in Page!Of(panel) :
        /\ r \in Page!View[c.form].within \ Page!Restarts => loading[r] = 0
        /\ c.served /\ r \in Page!Effects[c.form] => c.wrote[r] =< db[r]
WriteInv ==
    /\ left => calls = {}
    /\ \A r \in Page!Of(panel) : Fetched(r)
    /\ \A c \in calls : Waiting(c)

\* What is fetched again.
LEMMA RestartsHold ==
    /\ \A f \in DOMAIN Page!Signalled : Page!Signalled[f].starts \subseteq Page!Restarts
    /\ \A f \in DOMAIN Page!Spawned : \A e \in Page!Endings(f) : e.starts \subseteq Page!Restarts
    /\ \A r \in DOMAIN Page!Follow : Page!Follow[r] \subseteq Page!Restarts
  <1> DEFINE U(g) == UNION {e.starts : e \in Page!Endings(g)}
             A == UNION {U(f) : f \in DOMAIN Page!Spawned}
             B == UNION {Page!Signalled[f].starts : f \in DOMAIN Page!Signalled}
             C == UNION {Page!Follow[r] : r \in DOMAIN Page!Follow}
  <1>1. ASSUME NEW f \in DOMAIN Page!Signalled PROVE Page!Signalled[f].starts \subseteq B
    OBVIOUS
  <1>2. ASSUME NEW f \in DOMAIN Page!Spawned, NEW e \in Page!Endings(f) PROVE e.starts \subseteq A
    <2>1. e.starts \subseteq U(f)
      OBVIOUS
    <2> HIDE DEF U
    <2>2. U(f) \subseteq A
      OBVIOUS
    <2> QED
      BY <2>1, <2>2
  <1>3. ASSUME NEW r \in DOMAIN Page!Follow PROVE Page!Follow[r] \subseteq C
    OBVIOUS
  <1>4. Page!Restarts = A \cup B \cup C
    BY DEF Page!Restarts
  <1> HIDE DEF A, B, C
  <1> QED
    BY <1>1, <1>2, <1>3, <1>4

LEMMA FetchedInit == Page!Init => WriteInv
  <1> SUFFICES ASSUME Page!Init PROVE WriteInv
    OBVIOUS
  <1>1. /\ db = [r \in Page!Of(panel) |-> 1] /\ told = db /\ shown = [r \in Page!Of(panel) |-> 0]
        /\ loading = [r \in Page!Of(panel) |-> IF r \in Page!Loads[panel] THEN 1 ELSE 0]
        /\ calls = {} /\ left = FALSE
    BY DEF Page!Init
  <1> QED
    BY <1>1 DEF WriteInv, Fetched, Page!Answered, Page!Assumed

\* A request is offered on top of what has been answered.
LEMMA SendWrites ==
    ASSUME PageTyped, WriteInv, NEW f \in Requests, Page!Send(f)
    PROVE  WriteInv'
  <1>1. PICK c : /\ calls' = calls \cup {c} /\ c \notin calls
                 /\ DOMAIN c = Fields /\ c = [x \in Fields |-> c[x]]
                 /\ c.form = f /\ c.no = clicks' /\ c.served = FALSE
                 /\ c.wrote = [r \in Page!Effects[f] |-> 0]
                 /\ clicks' = clicks + 1
    BY SendEffect
  <1>2. UNCHANGED <<panel, left, db, loading, shown, told>> /\ Page!Offered(f)
    BY DEF Page!Send
  <1>3. ~left /\ \A r \in Page!View[f].within : Page!Answered(r)
    BY <1>2 DEF Page!Offered
  <1>4. \A r \in Page!Of(panel) : Fetched(r)'
    BY <1>2 DEF WriteInv, Fetched, Page!Answered
  <1>5. \A d \in calls : Waiting(d)'
    BY <1>2 DEF WriteInv, Waiting
  <1>6. Waiting(c)'
    BY <1>1, <1>2, <1>3 DEF WriteInv, Waiting, Fetched
  <1> QED
    BY <1>1, <1>2, <1>3, <1>4, <1>5, <1>6 DEF WriteInv

\* What the reader picks is fetched anew.
LEMMA PickWrites ==
    ASSUME PageTyped, WriteInv, NEW f \in DOMAIN Page!Signalled, Page!Pick(f)
    PROVE  WriteInv'
  <1> DEFINE starts == Page!Signalled[f].starts
  <1>1. /\ UNCHANGED <<panel, left, shown>> /\ calls' \subseteq calls /\ ~left
        /\ \A r \in Page!Of(panel) :
             IF r \in starts
             THEN db'[r] = db[r] + 1 /\ told'[r] = db'[r] /\ loading'[r] = db'[r]
             ELSE db'[r] = db[r] /\ told'[r] = told[r] /\ loading'[r] = loading[r]
    BY DEF Page!Pick, Page!Restarted, Page!Offered
  <1>2. starts \subseteq Page!Restarts
    BY RestartsHold
  <1>3. ASSUME NEW r \in Page!Of(panel) PROVE Fetched(r)'
    <2>1. db[r] \in Int /\ loading[r] \in Int /\ told[r] \in Int /\ shown[r] \in Int /\ Fetched(r)
      BY DEF PageTyped, WriteInv
    <2>2. CASE r \in starts
      BY <1>1, <1>2, <2>1, <2>2 DEF Fetched
    <2>3. CASE r \notin starts
      BY <1>1, <2>1, <2>3 DEF Fetched, Page!Answered
    <2> QED
      BY <2>2, <2>3
  <1>4. ASSUME NEW c \in calls PROVE Waiting(c)'
    <2>1. Waiting(c) /\ \A r \in Page!Of(panel) : db[r] \in Int /\ db'[r] >= db[r]
      BY <1>1 DEF PageTyped, WriteInv
    <2>2. ASSUME NEW r \in Page!Of(panel)
          PROVE  /\ r \in Page!View[c.form].within \ Page!Restarts => loading'[r] = 0
                 /\ c.served /\ r \in Page!Effects[c.form] => c.wrote[r] =< db'[r]
      <3>1. r \in Page!View[c.form].within \ Page!Restarts => loading'[r] = 0
        BY <1>1, <1>2, <2>1 DEF Waiting
      <3>2. c.served /\ r \in Page!Effects[c.form] => c.wrote[r] =< db'[r]
        BY <1>1, <2>1 DEF Waiting, PageTyped
      <3> QED
        BY <3>1, <3>2
    <2> QED
      BY <1>1, <2>2 DEF Waiting
  <1> QED
    BY <1>1, <1>3, <1>4 DEF WriteInv

\* The server's versions only grow.
LEMMA ServeWrites ==
    ASSUME Page!TablesAssumption, PageTyped, WriteInv, NEW c \in calls, Page!Serve(c)
    PROVE  WriteInv'
  <1>1. PICK d : /\ calls' = (calls \ {c}) \cup {d} /\ d.form = c.form /\ d.served = TRUE
                 /\ d.wrote = [r \in Page!Effects[c.form] |-> db'[r]]
    BY ServeEffect
  <1>2. /\ UNCHANGED <<panel, left, loading, shown, told>> /\ ~left
        /\ \A r \in Page!Of(panel) : db[r] \in Int /\ db'[r] \in Int /\ db'[r] >= db[r]
    <2>1. /\ UNCHANGED <<panel, left, loading, shown, told>>
          /\ db' = [r \in Page!Of(panel) |-> IF r \in Page!Effects[c.form] THEN db[r] + 1 ELSE db[r]]
      BY DEF Page!Serve
    <2>2. left \in BOOLEAN /\ ~left
      BY DEF PageTyped, WriteInv
    <2> QED
      BY <2>1, <2>2 DEF PageTyped
  <1>3. ASSUME NEW r \in Page!Of(panel) PROVE Fetched(r)'
    <2>1. loading[r] \in Int /\ told[r] \in Int /\ shown[r] \in Int /\ Fetched(r)
      BY DEF PageTyped, WriteInv
    <2> QED
      BY <1>2, <2>1 DEF Fetched, Page!Answered
  <1>4. ASSUME NEW b \in calls PROVE Waiting(b)'
    <2>1. Waiting(b) /\ \A r \in Page!Effects[b.form] : b.wrote[r] \in Int
      BY DEF PageTyped, WriteInv
    <2> QED
      BY <1>2, <2>1 DEF Waiting
  <1>5. Waiting(d)'
    <2>1. Waiting(c)
      BY DEF WriteInv
    <2>2. \A r \in Page!Effects[c.form] : r \in Page!Of(panel) => d.wrote[r] =< db'[r]
      BY <1>1, <1>2
    <2> QED
      BY <1>1, <1>2, <2>1, <2>2 DEF Waiting
  <1> QED
    BY <1>1, <1>2, <1>3, <1>4, <1>5 DEF WriteInv

\* A fetch is answered no older than it was sent.
LEMMA FetchWrites ==
    ASSUME PageTyped, WriteInv, NEW r \in Page!Of(panel), Page!FetchEnds(r)
    PROVE  WriteInv'
  <1>1. UNCHANGED <<panel, left, db, told, calls>> /\ loading[r] > 0
    BY DEF Page!FetchEnds
  <1>2. PICK v \in Int : /\ v \in loading[r]..db[r] \/ v = -1
                         /\ shown' = [shown EXCEPT ![r] = v]
    <2>1. PICK v \in loading[r]..db[r] \cup {Page!Failed} : shown' = [shown EXCEPT ![r] = v]
      BY DEF Page!FetchEnds
    <2>2. v \in Int /\ (v \in loading[r]..db[r] \/ v = -1)
      BY <2>1 DEF Page!Failed
    <2> QED
      BY <2>1, <2>2
  <1>3. /\ loading'[r] = 0
        /\ \A q \in Page!Of(panel) \ {r} :
             \/ loading'[q] = loading[q]
             \/ q \in Page!Restarts /\ loading'[q] = db[q]
    BY RestartsHold DEF Page!FetchEnds, Page!Restarted
  <1>4. Fetched(r)'
    <2>1. Fetched(r) /\ db[r] \in Int /\ loading[r] \in Int /\ told[r] \in Int
      BY DEF PageTyped, WriteInv
    <2>2. shown'[r] = v
      BY <1>2 DEF PageTyped
    <2> QED
      BY <1>1, <1>2, <1>3, <2>1, <2>2 DEF Fetched
  <1>5. ASSUME NEW q \in Page!Of(panel), q # r PROVE Fetched(q)'
    <2>1. Fetched(q) /\ db[q] \in Int /\ loading[q] \in Int /\ told[q] \in Int /\ shown[q] \in Int
      BY DEF PageTyped, WriteInv
    <2>2. shown'[q] = shown[q]
      BY <1>2, <1>5 DEF PageTyped
    <2>3. loading'[q] = loading[q] \/ (q \in Page!Restarts /\ loading'[q] = db[q])
      BY <1>3, <1>5
    <2> QED
      BY <1>1, <2>1, <2>2, <2>3 DEF Fetched, Page!Answered
  <1>6. ASSUME NEW c \in calls PROVE Waiting(c)'
    <2>1. Waiting(c)
      BY DEF WriteInv
    <2> QED
      BY <1>1, <1>3, <2>1 DEF Waiting
  <1> QED
    BY <1>1, <1>4, <1>5, <1>6 DEF WriteInv

\* A request's handler goes on: what it wrote is fetched again, or the table
\* says why not.
LEMMA ResumeWrites ==
    ASSUME Page!TablesAssumption, PageTyped, WriteInv, NEW c \in calls, NEW e \in Page!Endings(c.form),
           Page!Resume(c, e), told' \in [Page!Of(panel) -> Int],
           \A r \in Page!Of(panel) :
              \/ told'[r] = told[r]
              \/ /\ told[r] < told'[r] /\ told'[r] =< db[r]
                 /\ \/ r \in e.starts
                    \/ e.leaves /\ r \notin Page!Navbar
                    \/ r \in Page!Spawned[c.form].sets
                    \/ r \notin Page!Loads[panel] \cup Page!Restarts
    PROVE  WriteInv'
  <1> DEFINE sets == Page!Spawned[c.form].sets
  <1>1. c.form \in Requests /\ panel \in DOMAIN Page!Loads
    BY DEF PageTyped
  <1>2. e.leaves \in BOOLEAN /\ sets \subseteq Page!View[c.form].within \ Page!Restarts
    BY <1>1, TablesSay
  <1>3. e.starts \subseteq Page!Restarts
    BY <1>1, RestartsHold DEF Requests
  <1>4. /\ panel' = panel /\ db' = db /\ left' = e.leaves /\ left = FALSE
        /\ calls' = IF e.leaves THEN {} ELSE calls \ {c}
    BY DEF Page!Resume, Page!SignalsAfter, Page!DisplayedAfter, WriteInv, PageTyped
  <1>5. ASSUME NEW r \in Page!Of(panel)
        PROVE  /\ shown'[r] = IF r \in sets THEN -2 ELSE shown[r]
               /\ loading'[r] = IF e.leaves /\ r \notin Page!Navbar THEN 0
                                ELSE IF r \in e.starts THEN db[r] ELSE loading[r]
    BY DEF Page!Resume, Page!SignalsAfter, Page!DisplayedAfter, Page!Restarted, Page!Assumed
  <1> HIDE DEF sets
  <1>6. ASSUME NEW r \in Page!Of(panel) PROVE Fetched(r)'
    <2>1. /\ Fetched(r) /\ db[r] \in Int /\ loading[r] \in Int /\ told[r] \in Int /\ shown[r] \in Int
          /\ told'[r] \in Int
      BY DEF PageTyped, WriteInv
    <2>2. r \in sets => r \notin Page!Restarts /\ loading[r] = 0
      BY <1>2 DEF WriteInv, Waiting
    <2>3. \/ told'[r] = told[r]
          \/ /\ told[r] < told'[r] /\ told'[r] =< db[r]
             /\ \/ r \in e.starts
                \/ e.leaves /\ r \notin Page!Navbar
                \/ r \in sets
                \/ r \notin Page!Loads[panel] \cup Page!Restarts
      BY DEF sets
    <2>4. 1 =< db'[r] /\ told'[r] =< db'[r] /\ loading'[r] =< db'[r] /\ loading'[r] >= 0
      BY <1>4, <1>5, <2>1, <2>3 DEF Fetched
    <2>5. shown'[r] > 0 \/ loading'[r] > 0 => r \in Page!Loads[panel] \cup Page!Restarts
      BY <1>3, <1>5, <2>1 DEF Fetched
    <2>6. r \notin Page!Restarts /\ (shown'[r] > 0 \/ shown'[r] = -2) => loading'[r] = 0
      BY <1>3, <1>5, <2>1, <2>2 DEF Fetched, Page!Answered, Page!Assumed
    <2>7. CASE e.leaves /\ r \notin Page!Navbar
      BY <1>4, <2>4, <2>5, <2>6, <2>7 DEF Fetched, Page!Answered, Page!Assumed
    <2>8. CASE ~(e.leaves /\ r \notin Page!Navbar)
      <3>1. loading'[r] = IF r \in e.starts THEN db[r] ELSE loading[r]
        BY <1>5, <2>8
      <3>2. CASE r \in e.starts
        <4>1. loading'[r] = db[r] /\ loading'[r] > 0 /\ told'[r] =< loading'[r]
          BY <2>1, <2>4, <3>1, <3>2, <1>4
        <4> QED
          BY <1>4, <2>4, <2>5, <2>6, <4>1 DEF Fetched, Page!Answered, Page!Assumed
      <3>3. CASE r \notin e.starts /\ told'[r] = told[r]
        BY <1>4, <1>5, <2>1, <2>4, <2>5, <2>6, <3>1, <3>3 DEF Fetched, Page!Answered, Page!Assumed
      <3>4. CASE r \notin e.starts /\ told'[r] # told[r]
        <4>1. loading'[r] = 0 /\ ~(shown'[r] > 0)
          BY <1>5, <2>1, <2>2, <2>3, <2>8, <3>1, <3>4 DEF Fetched
        <4> QED
          BY <1>4, <2>4, <2>5, <2>6, <4>1 DEF Fetched, Page!Answered, Page!Assumed
      <3> QED
        BY <3>2, <3>3, <3>4
    <2> QED
      BY <2>7, <2>8
  <1>7. ASSUME NEW d \in calls PROVE Waiting(d)'
    <2>1. Waiting(d)
      BY DEF WriteInv
    <2> QED
      BY <1>3, <1>4, <1>5, <2>1 DEF Waiting
  <1> QED
    BY <1>4, <1>6, <1>7 DEF WriteInv

LEMMA WritesStep ==
    ASSUME Page!TablesAssumption, PageTyped, WriteInv, [Page!Next]_(Page!vars)
    PROVE  WriteInv'
  <1>1. ASSUME NEW f \in Requests, Page!Send(f) PROVE WriteInv'
    BY <1>1, SendWrites
  <1>2. ASSUME NEW f \in DOMAIN Page!Signalled, Page!Pick(f) PROVE WriteInv'
    BY <1>2, PickWrites
  <1>3. ASSUME NEW c \in calls, Page!Serve(c) PROVE WriteInv'
    BY <1>3, ServeWrites
  <1>4. ASSUME NEW c \in calls, NEW e \in Page!Spawned[c.form].ok, c.served, Page!Resume(c, e), Page!Succeed(c)
        PROVE  WriteInv'
    <2>1. e \in Page!Endings(c.form) /\ c.form \in Requests /\ panel \in DOMAIN Page!Loads
      BY DEF Page!Endings, PageTyped
    <2>2. told' = [r \in Page!Of(panel) |->
                     IF /\ r \in Page!Effects[c.form] /\ <<c.form, r>> \notin Page!Untended
                        /\ c.wrote[r] > told[r]
                     THEN c.wrote[r] ELSE told[r]]
      BY <1>4 DEF Page!Succeed
    <2>3. \A r \in Page!Effects[c.form] :
              \/ <<c.form, r>> \in Page!Untended \/ r \in e.starts
              \/ e.leaves /\ r \notin Page!Navbar
              \/ r \in Page!Spawned[c.form].sets
              \/ r \notin Page!Loads[panel] \cup Page!Restarts
      BY <2>1 DEF Page!TablesAssumption, Page!WritesTended, Requests
    <2>4. told' \in [Page!Of(panel) -> Int]
      BY <2>2 DEF PageTyped
    <2>5. ASSUME NEW r \in Page!Of(panel), told'[r] # told[r]
          PROVE  /\ told[r] < told'[r] /\ told'[r] =< db[r]
                 /\ \/ r \in e.starts
                    \/ e.leaves /\ r \notin Page!Navbar
                    \/ r \in Page!Spawned[c.form].sets
                    \/ r \notin Page!Loads[panel] \cup Page!Restarts
      <3>1. /\ r \in Page!Effects[c.form] /\ <<c.form, r>> \notin Page!Untended
            /\ c.wrote[r] > told[r] /\ told'[r] = c.wrote[r]
        BY <2>2, <2>5
      <3>2. c.wrote[r] =< db[r] /\ c.wrote[r] \in Int /\ told[r] \in Int
        BY <1>4, <3>1 DEF WriteInv, Waiting, PageTyped
      <3> QED
        BY <2>3, <3>1, <3>2
    <2> QED
      BY <1>4, <2>1, <2>4, <2>5, ResumeWrites
  <1>5. ASSUME NEW c \in calls, Page!Resume(c, Page!Spawned[c.form].err), told' = told
        PROVE  WriteInv'
    <2>1. Page!Spawned[c.form].err \in Page!Endings(c.form) /\ told' \in [Page!Of(panel) -> Int]
      BY <1>5 DEF Page!Endings, PageTyped
    <2> QED
      BY <1>5, <2>1, ResumeWrites
  <1>6. ASSUME NEW r \in Page!Of(panel), Page!FetchEnds(r) PROVE WriteInv'
    BY <1>6, FetchWrites
  <1>7. CASE UNCHANGED Page!vars
    BY <1>7 DEF Page!vars, WriteInv, Fetched, Waiting, Page!Answered
  <1> QED
    BY <1>1, <1>2, <1>3, <1>4, <1>5, <1>6, <1>7, PageSteps

\* Once told that a write of its reader succeeded, a page does not go on
\* showing an older answer unless it is fetching another, whatever the order in
\* which any number of requests and fetches end (the restarts after the awaits
\* of every handler; `Untended` lists what they leave out).
THEOREM WritesAreShown ==
    ASSUME Page!TablesAssumption
    PROVE  Page!Spec => []Page!OwnWritesShown
  <1> DEFINE Inv == PageTyped /\ WriteInv
  <1>1. Page!Init => Inv
    BY PageStart, FetchedInit
  <1>2. Inv /\ [Page!Next]_(Page!vars) => Inv'
    BY PageTypesKept, WritesStep
  <1>3. Inv => Page!OwnWritesShown
    BY DEF WriteInv, Fetched, Page!OwnWritesShown
  <1> HIDE DEF Inv
  <1> QED
    BY <1>1, <1>2, <1>3, PTL DEF Page!Spec

-----------------------------------------------------------------------------
(* The secrets of a page *)

\* What a request writes that gives a secret, and is the secret's version.
Written(f) == CHOOSE r \in Page!Effects[f] : TRUE

\* A secret on display was written before, by its giver; an answer under way
\* brings no older one; and none is on display that a request will hide.
Giving(f, s) == f \in DOMAIN Page!Spawned /\ Page!Gives(f, s)
Telling(c, s) ==
    /\ c.served /\ Giving(c.form, s) =>
         held[s] =< c.wrote[Written(c.form)] /\ 1 =< c.wrote[Written(c.form)]
    /\ \A e \in Page!Endings(c.form) :
         s \in e.takes => held[s] = 0 \/ (s = "enrollment" /\ "codes" \in e.gives)
SecretInv ==
    /\ \A s \in Page!Secrets : held[s] \in Nat
    /\ \A f \in Requests, s \in Page!Secrets : Giving(f, s) => held[s] =< db[Written(f)]
    /\ \A c \in calls, s \in Page!Secrets : Telling(c, s)

\* What the tables say of secrets.
LEMMA GiversSay ==
    ASSUME Page!TablesAssumption, PageTyped, NEW f \in Requests
    PROVE  /\ \A s : Giving(f, s) => Written(f) \in Page!Effects[f] /\ Written(f) \in Page!Of(panel)
           /\ Page!Spawned[f].err.gives = {}
           /\ \A e \in Page!Endings(f) :
                /\ \A s \in e.gives : Giving(f, s) /\ Page!Spawned[f].flag # {}
                                      /\ \A g : Giving(g, s) => f = g
                /\ \A s \in e.takes :
                     \/ s = "enrollment" /\ "codes" \in e.gives
                     \/ /\ s \in Page!View[f].hides /\ s \in Page!Secrets
                        /\ \A g : Giving(g, s) => Page!Spawned[f].flag \cap Page!Spawned[g].flag # {}
  <1>1. f \in DOMAIN Page!Spawned /\ Page!Spawned[f].err \in Page!Endings(f)
    BY DEF Requests, Page!Endings
  <1>2. ASSUME NEW s, Giving(f, s)
        PROVE  Written(f) \in Page!Effects[f] /\ Written(f) \in Page!Of(panel)
    <2>1. Page!Effects[f] # {}
      BY <1>1, <1>2 DEF Page!TablesAssumption, Page!SecretsGuard, Giving, Page!Gives
    <2>2. Page!Effects[f] \subseteq Page!Of(panel)
      BY TablesSay DEF PageTyped
    <2> QED
      BY <2>1, <2>2 DEF Written
  <1>3. Page!Spawned[f].err.gives = {}
    BY <1>1 DEF Page!TablesAssumption, Page!SecretsGuard
  <1>4. ASSUME NEW e \in Page!Endings(f)
        PROVE  /\ \A s \in e.gives : Giving(f, s) /\ Page!Spawned[f].flag # {}
                                     /\ \A g : Giving(g, s) => f = g
               /\ \A s \in e.takes :
                    \/ s = "enrollment" /\ "codes" \in e.gives
                    \/ /\ s \in Page!View[f].hides /\ s \in Page!Secrets
                       /\ \A g : Giving(g, s) => Page!Spawned[f].flag \cap Page!Spawned[g].flag # {}
    <2>1. ASSUME NEW s \in e.gives
          PROVE  Giving(f, s) /\ Page!Spawned[f].flag # {} /\ \A g : Giving(g, s) => f = g
      <3>1. Giving(f, s)
        BY <1>1 DEF Giving, Page!Gives
      <3> QED
        BY <1>1, <3>1 DEF Page!TablesAssumption, Page!SecretsGuard, Giving
    <2>2. ASSUME NEW s \in e.takes
          PROVE  \/ s = "enrollment" /\ "codes" \in e.gives
                 \/ /\ s \in Page!View[f].hides /\ s \in Page!Secrets
                    /\ \A g : Giving(g, s) => Page!Spawned[f].flag \cap Page!Spawned[g].flag # {}
      BY <1>1 DEF Page!TablesAssumption, Page!SecretsGuard, Giving
    <2> QED
      BY <2>1, <2>2
  <1> QED
    BY <1>2, <1>3, <1>4

\* Two requests under way do not meet on a secret that one of them gives.
LEMMA GiversApart ==
    ASSUME Page!TablesAssumption, PageTyped, FlagHeld, NEW c \in calls, NEW d \in calls, c # d,
           NEW e \in Page!Endings(c.form), NEW s \in e.gives
    PROVE  /\ ~Giving(d.form, s)
           /\ \A x \in Page!Endings(d.form) :
                s \in x.takes => s = "enrollment" /\ "codes" \in x.gives
  <1>1. c.form \in Requests /\ d.form \in Requests
    BY DEF PageTyped
  <1>2. ~Giving(d.form, s)
    <2>1. Giving(d.form, s) => c.form = d.form /\ Page!Spawned[c.form].flag # {}
      BY <1>1, GiversSay
    <2> SUFFICES ASSUME c.form = d.form, NEW g \in Page!Spawned[c.form].flag PROVE FALSE
      BY <2>1
    <2>2. g \in Page!Flags
      <3>1. Page!Spawned[c.form].flag \in {Page!Spawned[f].flag : f \in DOMAIN Page!Spawned}
        BY <1>1 DEF Requests
      <3> QED
        BY <3>1 DEF Page!Flags
    <2> QED
      BY <2>2 DEF FlagHeld
  <1>3. ASSUME NEW x \in Page!Endings(d.form), s \in x.takes, ~(s = "enrollment" /\ "codes" \in x.gives)
        PROVE  FALSE
    <2>1. Giving(c.form, s)
      BY <1>1, GiversSay
    <2>2. Page!Spawned[d.form].flag \cap Page!Spawned[c.form].flag # {}
      BY <1>1, <1>3, <2>1, GiversSay
    <2>3. PICK g : g \in Page!Spawned[d.form].flag /\ g \in Page!Spawned[c.form].flag
      BY <2>2
    <2>4. g \in Page!Flags
      <3>1. Page!Spawned[c.form].flag \in {Page!Spawned[f].flag : f \in DOMAIN Page!Spawned}
        BY <1>1 DEF Requests
      <3> QED
        BY <2>3, <3>1 DEF Page!Flags
    <2> QED
      BY <2>3, <2>4 DEF FlagHeld
  <1> QED
    BY <1>2, <1>3

\* A handler that goes on shows what the server gave, which is newer than what
\* is on display, and hides only what its answer replaces.
LEMMA ResumeSecrets ==
    ASSUME Page!TablesAssumption, PageTyped, FlagHeld, WriteInv, SecretInv, NEW c \in calls,
           NEW e \in Page!Endings(c.form), Page!Resume(c, e), c.served \/ e.gives = {}
    PROVE  /\ SecretInv'
           /\ \A s \in Page!Secrets :
                held'[s] >= held[s] \/ (s = "enrollment" /\ held'["codes"] > 0)
  <1> DEFINE v == c.wrote[Written(c.form)]
  <1>1. c.form \in Requests
    BY DEF PageTyped
  <1>2. /\ panel' = panel /\ db' = db /\ calls' \subseteq calls
        /\ c \notin calls'
        /\ \A s \in Page!Secrets : held'[s] = IF s \in e.gives THEN v
                                              ELSE IF s \in e.takes THEN 0 ELSE held[s]
    BY DEF Page!Resume, Page!SignalsAfter, Page!DisplayedAfter, Written
  <1>3. ASSUME NEW s \in Page!Secrets, s \in e.gives
        PROVE  /\ held[s] =< v /\ 1 =< v /\ v \in Nat /\ v =< db[Written(c.form)]
               /\ Written(c.form) \in Page!Of(panel)
    <2>1. Giving(c.form, s) /\ c.served
      BY <1>1, <1>3, GiversSay
    <2>2. /\ Written(c.form) \in Page!Effects[c.form] /\ Written(c.form) \in Page!Of(panel)
          /\ v \in Int
      BY <1>1, <2>1, GiversSay DEF PageTyped
    <2>3. held[s] =< v /\ 1 =< v
      BY <2>1 DEF SecretInv, Telling
    <2>4. v =< db[Written(c.form)]
      BY <2>1, <2>2 DEF WriteInv, Waiting
    <2> QED
      BY <2>2, <2>3, <2>4
  <1> HIDE DEF v
  <1>4. Requests' = Requests
    BY <1>2 DEF Requests
  <1>5. ASSUME NEW s \in Page!Secrets
        PROVE  /\ held'[s] \in Nat
               /\ held'[s] >= held[s] \/ (s = "enrollment" /\ held'["codes"] > 0)
    <2>1. held[s] \in Nat
      BY DEF SecretInv
    <2>2. CASE s \in e.gives
      BY <1>2, <1>3, <2>1, <2>2
    <2>3. CASE s \notin e.gives /\ s \in e.takes
      <3>1. held'[s] = 0
        BY <1>2, <2>3
      <3>2. CASE held[s] = 0
        BY <3>1, <3>2
      <3>3. CASE s = "enrollment" /\ "codes" \in e.gives
        <4>1. "codes" \in Page!Secrets
          BY DEF Page!Secrets
        <4>2. held'["codes"] = v /\ 1 =< v /\ v \in Nat
          BY <1>2, <1>3, <3>3, <4>1
        <4> QED
          BY <3>1, <3>3, <4>2
      <3> QED
        BY <2>3, <3>2, <3>3 DEF SecretInv, Telling
    <2>4. CASE s \notin e.gives /\ s \notin e.takes
      BY <1>2, <2>1, <2>4
    <2> QED
      BY <2>2, <2>3, <2>4
  <1>6. ASSUME NEW f \in Requests, NEW s \in Page!Secrets, Giving(f, s)
        PROVE  held'[s] =< db'[Written(f)]
    <2>1. /\ held[s] =< db[Written(f)] /\ held[s] \in Nat
          /\ Written(f) \in Page!Of(panel) /\ db[Written(f)] \in Int
      BY <1>6, GiversSay DEF SecretInv, PageTyped
    <2>2. CASE s \in e.gives
      <3>1. f = c.form
        BY <1>1, <1>6, <2>2, GiversSay
      <3> QED
        BY <1>2, <1>3, <2>2, <3>1
    <2>3. CASE s \notin e.gives
      BY <1>2, <2>1, <2>3
    <2> QED
      BY <2>2, <2>3
  <1>7. ASSUME NEW d \in calls, d # c, NEW s \in Page!Secrets
        PROVE  Telling(d, s)'
    <2>1. Telling(d, s) /\ held[s] \in Nat
      BY DEF SecretInv
    <2>2. CASE s \in e.gives
      <3>1. /\ ~Giving(d.form, s)
            /\ \A x \in Page!Endings(d.form) :
                 s \in x.takes => s = "enrollment" /\ "codes" \in x.gives
        BY <1>7, <2>2, GiversApart
      <3> QED
        BY <3>1 DEF Telling, Giving
    <2>3. CASE s \notin e.gives
      <3>1. held'[s] = 0 \/ held'[s] = held[s]
        BY <1>2, <2>3
      <3>2. Giving(d.form, s) /\ d.served => d.wrote[Written(d.form)] \in Int
        <4>1. d.form \in Requests
          BY DEF PageTyped
        <4> QED
          BY <4>1, GiversSay DEF PageTyped
      <3> QED
        BY <2>1, <3>1, <3>2 DEF Telling, Giving
    <2> QED
      BY <2>2, <2>3
  <1> QED
    BY <1>2, <1>4, <1>5, <1>6, <1>7 DEF SecretInv, Giving

\* A request is offered while nothing that it hides is on display.
LEMMA SendSecrets ==
    ASSUME Page!TablesAssumption, PageTyped, SecretInv, NEW f \in Requests, Page!Send(f)
    PROVE  SecretInv' /\ held' = held
  <1>1. PICK c : /\ calls' = calls \cup {c} /\ c \notin calls
                 /\ DOMAIN c = Fields /\ c = [x \in Fields |-> c[x]]
                 /\ c.form = f /\ c.no = clicks' /\ c.served = FALSE
                 /\ c.wrote = [r \in Page!Effects[f] |-> 0]
                 /\ clicks' = clicks + 1
    BY SendEffect
  <1>2. UNCHANGED <<panel, db, held>> /\ Page!View[f].hides \cap Page!OnScreen = {}
    BY DEF Page!Send, Page!Offered
  <1>3. ASSUME NEW s \in Page!Secrets PROVE Telling(c, s)'
    <2>1. ASSUME NEW e \in Page!Endings(f), s \in e.takes
          PROVE  held[s] = 0 \/ (s = "enrollment" /\ "codes" \in e.gives)
      <3>1. \/ s = "enrollment" /\ "codes" \in e.gives
            \/ s \in Page!View[f].hides
        BY <2>1, GiversSay
      <3>2. s \in Page!View[f].hides => ~(held[s] > 0)
        BY <1>2 DEF Page!OnScreen
      <3>3. held[s] \in Nat
        BY DEF SecretInv
      <3> QED
        BY <3>1, <3>2, <3>3
    <2> QED
      BY <1>1, <1>2, <2>1 DEF Telling
  <1>4. \A d \in calls, s \in Page!Secrets : Telling(d, s)'
    BY <1>2 DEF SecretInv, Telling
  <1>5. Requests' = Requests
    BY <1>2 DEF Requests
  <1> QED
    BY <1>1, <1>2, <1>3, <1>4, <1>5 DEF SecretInv

\* What the reader does hides secrets at most.
LEMMA PickSecrets ==
    ASSUME Page!TablesAssumption, PageTyped, SecretInv, NEW f \in DOMAIN Page!Signalled, Page!Pick(f)
    PROVE  /\ SecretInv'
           /\ \A s \in Page!Secrets : s \in Page!Signalled[f].takes \/ held'[s] = held[s]
  <1>1. /\ panel' = panel /\ calls' \subseteq calls
        /\ \A s \in Page!Secrets : held'[s] = IF s \in Page!Signalled[f].takes THEN 0 ELSE held[s]
        /\ \A r \in Page!Of(panel) : db[r] \in Int /\ (db'[r] = db[r] \/ db'[r] = db[r] + 1)
    BY DEF Page!Pick, PageTyped
  <1>2. ASSUME NEW s \in Page!Secrets
        PROVE  held[s] \in Nat /\ (held'[s] = held[s] \/ held'[s] = 0)
    BY <1>1 DEF SecretInv
  <1>3. ASSUME NEW g \in Requests, NEW s \in Page!Secrets, Giving(g, s)
        PROVE  held'[s] =< db'[Written(g)]
    <2>1. held[s] =< db[Written(g)] /\ Written(g) \in Page!Of(panel)
      BY <1>3, GiversSay DEF SecretInv
    <2>2. db[Written(g)] \in Int /\ (db'[Written(g)] = db[Written(g)] \/ db'[Written(g)] = db[Written(g)] + 1)
      BY <1>1, <2>1
    <2> QED
      BY <1>2, <2>1, <2>2
  <1>4. ASSUME NEW d \in calls, NEW s \in Page!Secrets PROVE Telling(d, s)'
    <2>1. Giving(d.form, s) => d.wrote[Written(d.form)] \in Int
      <3>1. d.form \in Requests
        BY DEF PageTyped
      <3> QED
        BY <3>1, GiversSay DEF PageTyped
    <2>2. Telling(d, s)
      BY DEF SecretInv
    <2> QED
      BY <1>2, <2>1, <2>2 DEF Telling, Giving
  <1>5. Requests' = Requests
    BY <1>1 DEF Requests
  <1> QED
    BY <1>1, <1>2, <1>3, <1>4, <1>5 DEF SecretInv, Giving

\* What the server writes is newer than anything on display.
LEMMA ServeSecrets ==
    ASSUME Page!TablesAssumption, PageTyped, WriteInv, SecretInv, NEW c \in calls, Page!Serve(c)
    PROVE  SecretInv' /\ held' = held
  <1>1. PICK d : /\ calls' = (calls \ {c}) \cup {d} /\ d.form = c.form /\ d.served = TRUE
                 /\ d.wrote = [r \in Page!Effects[c.form] |-> db'[r]]
    BY ServeEffect
  <1>2. /\ UNCHANGED <<panel, held>>
        /\ \A r \in Page!Of(panel) :
             db[r] \in Int /\ db'[r] = IF r \in Page!Effects[c.form] THEN db[r] + 1 ELSE db[r]
    <2>1. /\ UNCHANGED <<panel, held>>
          /\ db' = [r \in Page!Of(panel) |-> IF r \in Page!Effects[c.form] THEN db[r] + 1 ELSE db[r]]
      BY DEF Page!Serve
    <2> QED
      BY <2>1 DEF PageTyped
  <1>3. ASSUME NEW f \in Requests, NEW s \in Page!Secrets, Giving(f, s)
        PROVE  held[s] \in Nat /\ held[s] =< db[Written(f)] /\ held[s] =< db'[Written(f)]
    <2>1. held[s] =< db[Written(f)] /\ held[s] \in Nat /\ Written(f) \in Page!Of(panel)
      BY <1>3, GiversSay DEF SecretInv
    <2>2. db[Written(f)] \in Int /\ (db'[Written(f)] = db[Written(f)] \/ db'[Written(f)] = db[Written(f)] + 1)
      BY <1>2, <2>1
    <2> QED
      BY <2>1, <2>2
  <1>4. ASSUME NEW s \in Page!Secrets PROVE Telling(d, s)'
    <2>1. Telling(c, s) /\ c.form \in Requests
      BY DEF SecretInv, PageTyped
    <2>2. ASSUME Giving(c.form, s)
          PROVE  held[s] =< d.wrote[Written(c.form)] /\ 1 =< d.wrote[Written(c.form)]
      <3>1. Written(c.form) \in Page!Effects[c.form] /\ Written(c.form) \in Page!Of(panel)
        BY <2>1, <2>2, GiversSay
      <3>2. held[s] =< db'[Written(c.form)] /\ d.wrote[Written(c.form)] = db'[Written(c.form)]
        BY <1>1, <1>3, <2>1, <2>2, <3>1
      <3>3. 1 =< db[Written(c.form)] /\ db[Written(c.form)] \in Int
            /\ db'[Written(c.form)] = db[Written(c.form)] + 1
        BY <1>2, <3>1 DEF WriteInv, Fetched
      <3> QED
        BY <3>2, <3>3
    <2> QED
      BY <1>1, <1>2, <2>1, <2>2 DEF Telling, Giving
  <1>5. \A b \in calls, s \in Page!Secrets : Telling(b, s)'
    BY <1>2 DEF SecretInv, Telling, Giving
  <1>6. Requests' = Requests
    BY <1>2 DEF Requests
  <1> QED
    BY <1>1, <1>2, <1>3, <1>4, <1>5, <1>6 DEF SecretInv, Giving

Shown(s) ==
    \/ held'[s] >= held[s]
    \/ \E f \in Page!Buttons[panel] \cap DOMAIN Page!Signalled : Page!Pick(f) /\ s \in Page!Signalled[f].takes
    \/ s = "enrollment" /\ held'["codes"] > 0

LEMMA SecretsStep ==
    ASSUME Page!TablesAssumption, PageTyped, FlagHeld, WriteInv, SecretInv, [Page!Next]_(Page!vars)
    PROVE  SecretInv' /\ \A s \in Page!Secrets : Shown(s)
  <1>1. \A s \in Page!Secrets : held[s] \in Nat
    BY DEF SecretInv
  <1>2. ASSUME held' = held PROVE \A s \in Page!Secrets : Shown(s)
    BY <1>1, <1>2 DEF Shown
  <1>3. ASSUME NEW f \in Requests, Page!Send(f) PROVE SecretInv' /\ \A s \in Page!Secrets : Shown(s)
    BY <1>2, <1>3, SendSecrets
  <1>4. ASSUME NEW f \in Page!Buttons[panel] \cap DOMAIN Page!Signalled, Page!Pick(f)
        PROVE  SecretInv' /\ \A s \in Page!Secrets : Shown(s)
    <2>1. SecretInv' /\ \A s \in Page!Secrets : s \in Page!Signalled[f].takes \/ held'[s] = held[s]
      BY <1>4, PickSecrets
    <2> QED
      BY <1>1, <1>4, <2>1 DEF Shown
  <1>5. ASSUME NEW c \in calls, Page!Serve(c) PROVE SecretInv' /\ \A s \in Page!Secrets : Shown(s)
    BY <1>2, <1>5, ServeSecrets
  <1>6. ASSUME NEW c \in calls, NEW e \in Page!Spawned[c.form].ok, c.served, Page!Resume(c, e)
        PROVE  SecretInv' /\ \A s \in Page!Secrets : Shown(s)
    <2>1. e \in Page!Endings(c.form)
      BY DEF Page!Endings
    <2> QED
      BY <1>6, <2>1, ResumeSecrets DEF Shown
  <1>7. ASSUME NEW c \in calls, Page!Resume(c, Page!Spawned[c.form].err)
        PROVE  SecretInv' /\ \A s \in Page!Secrets : Shown(s)
    <2>1. Page!Spawned[c.form].err \in Page!Endings(c.form) /\ Page!Spawned[c.form].err.gives = {}
      BY GiversSay DEF Page!Endings, PageTyped
    <2> QED
      BY <1>7, <2>1, ResumeSecrets DEF Shown
  <1>8. ASSUME UNCHANGED <<panel, db, held, calls>> PROVE SecretInv'
    BY <1>8 DEF SecretInv, Telling, Giving, Requests
  <1>9. ASSUME NEW r, Page!FetchEnds(r) PROVE UNCHANGED <<panel, db, held, calls>>
    BY <1>9 DEF Page!FetchEnds
  <1> QED
    BY <1>2, <1>3, <1>4, <1>5, <1>6, <1>7, <1>8, <1>9, PageSteps DEF Page!vars

\* What the server gives only once stays on display until its reader dismisses
\* it, or the codes replace the enrolment, and no older answer replaces it
\* (tokens, webhook secrets, enrolments and recovery codes in settings.rs and
\* orgs.rs).
THEOREM SecretsStay ==
    ASSUME Page!TablesAssumption
    PROVE  Page!Spec => Page!SecretsKept
  <1> DEFINE Inv == PageTyped /\ FlagHeld /\ WriteInv /\ SecretInv
             Kept == \A s \in Page!Secrets : Shown(s)
  <1>1. Page!Init => Inv
    <2> SUFFICES ASSUME Page!Init PROVE Inv
      OBVIOUS
    <2>1. /\ calls = {} /\ up = {}
          /\ \A s \in Page!Secrets : held[s] = 0
          /\ \A r \in Page!Of(panel) : db[r] = 1
      BY DEF Page!Init
    <2>2. FlagHeld
      BY <2>1 DEF FlagHeld
    <2>3. \A f \in Requests, s \in Page!Secrets : Giving(f, s) => held[s] =< db[Written(f)]
      BY <2>1, PageStart, GiversSay
    <2>4. SecretInv
      BY <2>1, <2>3 DEF SecretInv
    <2> QED
      BY <2>2, <2>4, PageStart, FetchedInit
  <1>2. Inv /\ [Page!Next]_(Page!vars) => Inv' /\ Kept
    BY PageTypesKept, FlagsStep, WritesStep, SecretsStep
  <1>3. Kept <=> \A s \in Page!Secrets :
                  \/ held'[s] >= held[s]
                  \/ \E f \in Page!Buttons[panel] \cap DOMAIN Page!Signalled :
                       Page!Pick(f) /\ s \in Page!Signalled[f].takes
                  \/ s = "enrollment" /\ held'["codes"] > 0
    BY DEF Shown
  <1> HIDE DEF Inv
  <1> QED
    BY <1>1, <1>2, <1>3, PTL DEF Page!Spec, Page!SecretsKept
=============================================================================
