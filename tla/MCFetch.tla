------------------------------- MODULE MCFetch -------------------------------
(* Fetch on a graph with a merge, a commit that restores an old file, an      *)
(* annotated tag, a tag of a tag, and a commit no push has brought yet.       *)
EXTENDS Fetch

CONSTANTS f1, f2, f3, t1, t2

MyParents == <<<<>>, <<1>>, <<2>>, <<1>>, <<3, 4>>, <<2>>>>
MyContent == <<{f1}, {f2}, {f1}, {f3}, {f1, f3}, {f3}>>
MyTarget == [t \in {t1, t2} |-> IF t = t1 THEN 3 ELSE t1]
MyDate == <<10, 20, 30, 15, 40, 50>>
MyRefs == {<<1>>, <<2>>, <<3>>, <<5>>, <<t1>>, <<t2>>, <<4, 3>>, <<5, t1>>}
MyDeepens == {Full, [depth |-> 1], [depth |-> 2], [since |-> 20]}
=============================================================================
