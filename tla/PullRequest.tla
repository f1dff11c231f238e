----------------------------- MODULE PullRequest -----------------------------
(***************************************************************************)
(* One pull request of edda from its opening to its merge: the service     *)
(* calls that read its row and then rewrite it (PullRequestService), the   *)
(* reviews and commit statuses a merge is gated on, the merge itself under *)
(* the repository's lock (edda-git's merge.rs), and the pushes to the      *)
(* source branch whose outbox events dismiss stale approvals.              *)
(*                                                                         *)
(* A call is a request handler: every await of it is a point where other   *)
(* calls, pushes and the dispatcher may run.  Branches are abstracted to   *)
(* what merging asks of them: the source branch is a version number and    *)
(* how much of the target branch it contains; the target branch is the     *)
(* list of what landed on it.  Authorization beyond the review count, the  *)
(* text of reviews, issues closed by keyword and review requests are left  *)
(* out.                                                                    *)
(***************************************************************************)
EXTENDS Integers, FiniteSets, Sequences

CONSTANTS Calls,              \* handlers that may run at the same time
          Reviewers,
          None,
          FromFork,           \* the source branch is in another repository
          RequiredApprovals,  \* the target branch's protection rule
          DismissStale,
          RequireChecks,
          MaxPushes,          \* bound: pushes to the source branch
          MaxOthers,          \* bound: other commits on the target branch
          MaxCalls,           \* bound: calls started
          MaxReviews,         \* bound: reviews submitted
          MaxFaults           \* bound: calls dropped, push events lost

ASSUME PullRequestAssumption ==
    /\ None \notin Calls
    /\ {RequiredApprovals, MaxPushes, MaxOthers, MaxCalls, MaxReviews, MaxFaults} \subseteq Nat
    /\ {FromFork, DismissStale, RequireChecks} \subseteq BOOLEAN
    /\ IsFiniteSet(Reviewers)

VARIABLES
    pr,        \* the pull_requests row: its state and merge commit
    source,    \* source branch: version, and how much of mainline it contains
    mainline,  \* target branch: what landed on it, in order
    reviews,   \* each reviewer's latest review
    green,     \* source versions whose required checks all succeeded
    outbox,    \* versions whose BranchPushed event awaits the dispatcher
    lock,      \* the repository's lock in the LockRegistry
    call,      \* the handlers in flight
    merged,    \* PullRequestMerged events appended
    dismissed, \* history: last push whose event dismissed the approvals
    budget     \* what is left of the bounds above

vars == <<pr, source, mainline, reviews, green, outbox, lock, call, merged, dismissed, budget>>

-----------------------------------------------------------------------------
Strategy == {"merge", "squash", "rebase", "fast_forward"}
PrState == {"none", "open", "draft", "merged", "closed"}
Verdict == {"approved", "changes_requested"}  \* "commented" counts alike
Review == [verdict : Verdict, version : Nat, active : BOOLEAN]
Commit == [how : Strategy \union {"push"}, version : Nat]

\* The rewrites of the row, each with the states it may start from.
Rewrite == {"ready", "draft", "close", "reopen"}
Idle == [op |-> "none", at |-> "idle", strategy |-> "merge", commit |-> 0]
Call == [op : {"none", "merge"} \union Rewrite,
         at : {"idle", "loaded", "approved", "checked", "locked", "landed"},
         strategy : Strategy, commit : Nat]
Budget == [calls : 0..MaxCalls, reviews : 0..MaxReviews, faults : 0..MaxFaults]

TypeOK ==
    /\ pr \in [state : PrState, commit : Nat]
    /\ source \in [version : Nat, base : Nat]
    /\ mainline \in Seq(Commit)
    /\ reviews \in [Reviewers -> Review \union {None}]
    /\ green \in SUBSET Nat
    /\ outbox \in SUBSET Nat
    /\ lock \in Calls \union {None}
    /\ call \in [Calls -> Call]
    /\ merged \in Nat
    /\ dismissed \in Nat
    /\ budget \in Budget

IsOpen == pr.state \in {"open", "draft"}
Tip == Len(mainline)

\* The target branch already has the source branch's tip in its history:
\* a merge commit's parents and a fast-forward keep it, copies do not.
Contained == \E i \in 1..Tip : mainline[i] \in [how : {"merge", "fast_forward"},
                                                version : {source.version}]
\* Both branches are at the same commit.
SameTip == Tip > 0 /\ mainline[Tip] = [how |-> "fast_forward", version |-> source.version]

\* is_active_approval over latest_reviews.
ActiveApproval_Dismissed(a) == reviews[a] # None /\ reviews[a].verdict = "approved"
ActiveApproval(a) == /\ reviews[a] # None
                     /\ reviews[a].verdict = "approved"
                     /\ reviews[a].active
Approvals == {a \in Reviewers : ActiveApproval(a)}

Spend(b) == budget[b] > 0 /\ budget' = [budget EXCEPT ![b] = @ - 1]

Goto(c, place) == call' = [call EXCEPT ![c].at = place]
Return(c) == call' = [call EXCEPT ![c] = Idle]

-----------------------------------------------------------------------------
Init ==
    /\ pr = [state |-> "none", commit |-> 0]
    /\ source = [version |-> 0, base |-> 0]
    /\ mainline = <<>>
    /\ reviews = [a \in Reviewers |-> None]
    /\ green = {}
    /\ outbox = {}
    /\ lock = None
    /\ call = [c \in Calls |-> Idle]
    /\ merged = 0
    /\ dismissed = 0
    /\ budget = [calls |-> MaxCalls, reviews |-> MaxReviews, faults |-> MaxFaults]

-----------------------------------------------------------------------------
(* Around the pull request *)

Open ==
    /\ pr.state = "none"
    /\ \E s \in {"open", "draft"} : pr' = [pr EXCEPT !.state = s]
    /\ UNCHANGED <<source, mainline, reviews, green, outbox, lock, call, merged,
                   dismissed, budget>>

\* A push to the source branch, under its repository's lock, then
\* record_push; a crash between the two, or its error (which is only
\* logged), loses the event.
PushSource ==
    /\ source.version < MaxPushes
    /\ FromFork \/ lock = None
    /\ \E n \in {source.base, Tip} : source' = [version |-> source.version + 1, base |-> n]
    /\ \/ /\ outbox' = outbox \union {source.version + 1}
          /\ UNCHANGED budget
       \/ /\ Spend("faults")
          /\ UNCHANGED outbox
    /\ UNCHANGED <<pr, mainline, reviews, green, lock, call, merged, dismissed>>

\* Another pull request lands, or an administrator pushes.
PushTarget_NoLock ==
    /\ Cardinality({i \in 1..Tip : mainline[i].how = "push"}) < MaxOthers
    /\ mainline' = Append(mainline, [how |-> "push", version |-> 0])
    /\ UNCHANGED <<pr, source, reviews, green, outbox, lock, call, merged, dismissed, budget>>
PushTarget ==
    /\ Cardinality({i \in 1..Tip : mainline[i].how = "push"}) < MaxOthers
    /\ lock = None
    /\ mainline' = Append(mainline, [how |-> "push", version |-> 0])
    /\ UNCHANGED <<pr, source, reviews, green, outbox, lock, call, merged, dismissed, budget>>

\* External CI reports on the head commit.
ReportStatus ==
    /\ RequireChecks
    /\ \/ green' = green \union {source.version}
       \/ green' = green \ {source.version}
    /\ UNCHANGED <<pr, source, mainline, reviews, outbox, lock, call, merged, dismissed, budget>>

\* submit_review does not look at the pull request's state.
SubmitReview(a, v) ==
    /\ pr.state # "none"
    /\ reviews' = [reviews EXCEPT ![a] =
                      [verdict |-> v, version |-> source.version, active |-> TRUE]]
    /\ Spend("reviews")
    /\ UNCHANGED <<pr, source, mainline, green, outbox, lock, call, merged, dismissed>>

\* fan_out_branch_pushed: only pull requests that are open are looked up, and
\* the dismissal precedes the transaction that claims the event, so that a
\* dispatcher that fails in between repeats it.
Dismissed_KeepsApprovals(rev) ==
    [a \in Reviewers |-> IF rev[a] # None /\ rev[a].verdict # "approved"
                         THEN [rev[a] EXCEPT !.active = FALSE] ELSE rev[a]]
Dismissed(rev) ==
    [a \in Reviewers |-> IF rev[a] # None THEN [rev[a] EXCEPT !.active = FALSE] ELSE None]

DispatchPush(v) ==
    /\ v \in outbox
    /\ \/ outbox' = outbox \ {v} /\ UNCHANGED budget
       \/ Spend("faults") /\ UNCHANGED outbox
    /\ \/ /\ IsOpen /\ DismissStale
          /\ reviews' = Dismissed(reviews)
          /\ dismissed' = IF v > dismissed THEN v ELSE dismissed
       \/ /\ ~(IsOpen /\ DismissStale)
          /\ UNCHANGED <<reviews, dismissed>>
    /\ UNCHANGED <<pr, source, mainline, green, lock, call, merged>>

-----------------------------------------------------------------------------
(* Calls that rewrite the row *)

MayRewrite(op) ==
    CASE op = "ready" -> pr.state = "draft"
      [] op = "draft" -> pr.state = "open"
      [] op = "close" -> IsOpen
      [] op = "reopen" -> pr.state = "closed"

Rewritten(op) ==
    CASE op = "ready" -> "open"
      [] op = "draft" -> "draft"
      [] op = "close" -> "closed"
      [] op = "reopen" -> "open"

\* The row is read and its state verified.
StartRewrite(c, op) ==
    /\ call[c].at = "idle"
    /\ MayRewrite(op)
    /\ call' = [call EXCEPT ![c] = [Idle EXCEPT !.op = op, !.at = "loaded"]]
    /\ Spend("calls")
    /\ UNCHANGED <<pr, source, mainline, reviews, green, outbox, lock, merged, dismissed>>

\* update_state: UPDATE ... WHERE id = ?, whatever the state has become.
FinishRewrite(c) ==
    /\ call[c].at = "loaded"
    /\ call[c].op \in Rewrite
    /\ pr' = [state |-> Rewritten(call[c].op), commit |-> 0]
    /\ Return(c)
    /\ UNCHANGED <<source, mainline, reviews, green, outbox, lock, merged, dismissed, budget>>

-----------------------------------------------------------------------------
(* Merge *)

\* The row is read; a draft may be merged, too.
StartMerge(c, s) ==
    /\ call[c].at = "idle"
    /\ IsOpen
    /\ call' = [call EXCEPT ![c] = [Idle EXCEPT !.op = "merge", !.at = "loaded", !.strategy = s]]
    /\ Spend("calls")
    /\ UNCHANGED <<pr, source, mainline, reviews, green, outbox, lock, merged, dismissed>>

\* can_merge_pull_request on the reviews as they are now.
CheckReviews(c) ==
    /\ call[c].at = "loaded"
    /\ call[c].op = "merge"
    /\ \/ Cardinality(Approvals) >= RequiredApprovals /\ Goto(c, "approved")
       \/ Cardinality(Approvals) < RequiredApprovals /\ Return(c)
    /\ UNCHANGED <<pr, source, mainline, reviews, green, outbox, lock, merged, dismissed, budget>>

\* required_checks_satisfied on the head commit as it is now.
CheckStatuses(c) ==
    /\ call[c].at = "approved"
    /\ \/ (RequireChecks => source.version \in green) /\ Goto(c, "checked")
       \/ RequireChecks /\ source.version \notin green /\ Return(c)
    /\ UNCHANGED <<pr, source, mainline, reviews, green, outbox, lock, merged, dismissed, budget>>

AcquireLock(c) ==
    /\ call[c].at = "checked"
    /\ lock = None
    /\ lock' = c
    /\ Goto(c, "locked")
    /\ UNCHANGED <<pr, source, mainline, reviews, green, outbox, merged, dismissed, budget>>

\* What each strategy makes of the two branches.
CanFastForward == source.base = Tip
NothingToMove(s) == \/ s = "fast_forward" /\ SameTip
                    \/ s = "rebase" /\ Contained

GitMerge(c) ==
    /\ call[c].at = "locked"
    /\ call[c].strategy = "fast_forward" => CanFastForward
    /\ mainline' = IF NothingToMove(call[c].strategy) THEN mainline
                   ELSE Append(mainline, [how |-> call[c].strategy,
                                          version |-> source.version])
    /\ source' = IF call[c].strategy = "fast_forward"
                 THEN [source EXCEPT !.base = Len(mainline')] ELSE source
    /\ call' = [call EXCEPT ![c].at = "landed", ![c].commit = Len(mainline')]
    /\ UNCHANGED <<pr, reviews, green, outbox, lock, merged, dismissed, budget>>

\* A conflict, or not a fast-forward: nothing is written to a ref.
Refused_KeepsLock(c) ==
    /\ Return(c)
    /\ UNCHANGED lock
Refused(c) ==
    /\ Return(c)
    /\ lock' = None

GitMergeFails(c) ==
    /\ call[c].at = "locked"
    /\ call[c].strategy = "fast_forward" => ~CanFastForward
    /\ Refused(c)
    /\ UNCHANGED <<pr, source, mainline, reviews, green, outbox, merged, dismissed, budget>>

\* One transaction: the row and its PullRequestMerged event.
RecordMerge_BeforeGit(c) ==
    /\ call[c].at = "locked"
    /\ pr' = [state |-> "merged", commit |-> call[c].commit]
    /\ merged' = merged + 1
    /\ Return(c)
    /\ lock' = None
    /\ UNCHANGED <<source, mainline, reviews, green, outbox, dismissed, budget>>
RecordMerge(c) ==
    /\ call[c].at = "landed"
    /\ pr' = [state |-> "merged", commit |-> call[c].commit]
    /\ merged' = merged + 1
    /\ Return(c)
    /\ lock' = None
    /\ UNCHANGED <<source, mainline, reviews, green, outbox, dismissed, budget>>

\* The process dies, the client goes away and the handler is dropped at an
\* await, or a statement fails: what it has not committed is undone.
Drop(c) ==
    /\ call[c].at # "idle"
    /\ Return(c)
    /\ lock' = IF lock = c THEN None ELSE lock
    /\ Spend("faults")
    /\ UNCHANGED <<pr, source, mainline, reviews, green, outbox, merged, dismissed>>

-----------------------------------------------------------------------------
Step(c) ==
    \/ FinishRewrite(c)
    \/ CheckReviews(c) \/ CheckStatuses(c) \/ AcquireLock(c)
    \/ GitMerge(c) \/ GitMergeFails(c) \/ RecordMerge(c)

Next ==
    \/ Open \/ PushSource \/ PushTarget \/ ReportStatus
    \/ \E a \in Reviewers, v \in Verdict : SubmitReview(a, v)
    \/ \E v \in outbox : DispatchPush(v)
    \/ \E c \in Calls : \/ \E op \in Rewrite : StartRewrite(c, op)
                        \/ \E s \in Strategy : StartMerge(c, s)
                        \/ Step(c) \/ Drop(c)

Spec == Init /\ [][Next]_vars

\* A handler that can go on does; tokio's Mutex serves its waiters in turn.
Fairness == \A c \in Calls : WF_vars(Step(c)) /\ SF_vars(AcquireLock(c))
FairSpec == Spec /\ Fairness

-----------------------------------------------------------------------------
(* Properties *)

\* merge: "hold the repository's lock across the whole git merge + SQL
\* update so no other write interleaves".  What landed is still the tip of
\* the target branch when it is recorded.
LockedMerge ==
    \A c \in Calls :
        /\ call[c].at \in {"locked", "landed"} <=> lock = c
        /\ call[c].at = "landed" => call[c].commit = Tip /\ Tip > 0

\* merge: the event "can't fire for a merge that rolled back, and can't be
\* lost": a merged row names a commit that landed and is on the branch, and
\* its event is in the outbox; the commit it names is that of the merge or
\* has it behind it, and an event means that something landed.
MergeRecorded ==
    /\ pr.state = "merged" => /\ merged > 0
                              /\ pr.commit \in 1..Tip
                              /\ \E i \in 1..pr.commit : mainline[i].how # "push"
    /\ merged > 0 => \E i \in 1..Tip : mainline[i].how # "push"

\* A call passes the review gate only on enough approvals given to what is
\* newer than the last push that dismissed approvals.
FreshApprovals ==
    [][\A c \in Calls :
         call[c].at = "loaded" /\ call'[c].at = "approved" =>
            Cardinality({a \in Reviewers : /\ reviews[a] # None
                                           /\ reviews[a].verdict = "approved"
                                           /\ reviews[a].version >= dismissed})
                >= RequiredApprovals]_vars

\* Every call comes to an end; no merge waits for the lock for ever.
CallsReturn == \A c \in Calls : call[c].at # "idle" ~> call[c].at = "idle"
=============================================================================
