----------------------------- MODULE MCTracker -----------------------------
\* A small instance of Tracker.
EXTENDS Tracker, TLC

CONSTANTS c1, c2, ann, bob

MyScope == [high |-> "priority", low |-> "priority", bug |-> "none"]

Watched(a, b) == (ann :> a) @@ (bob :> b)

\* Numbers from an empty repository; an issue's labels; the release of a tag; who is told.
MyStarts ==
    {[menu |-> {"issue", "pull"}, rows |-> {}, watch |-> Watched("none", "none")],
     [menu |-> {"apply", "unlabel"}, rows |-> {<<1, "issue">>}, watch |-> Watched("none", "none")],
     [menu |-> {"release", "tag", "watch"}, rows |-> {}, watch |-> Watched("none", "watching")],
     [menu |-> {"close", "reopen", "watch"}, rows |-> {<<1, "issue">>}, watch |-> Watched("none", "watching")],
     [menu |-> {"close", "merge"}, rows |-> {<<1, "issue">>}, watch |-> Watched("none", "watching")],
     [menu |-> {"comment", "assign", "unassign", "close"}, rows |-> {<<1, "issue">>}, watch |-> Watched("none", "ignoring")]}

CallSymmetry == Permutations(Calls)
=============================================================================
