------------------------------ MODULE MCAccess ------------------------------
\* A small instance of Access.
EXTENDS Access, TLC

CONSTANTS c1, c2, owner, dev

\* A private repository of the organization's; a public one of its creator's own, with a rule.
MyStarts == {[private |-> TRUE, owner |-> Owners, dev |-> 3, default |-> 3, members |-> {},
              rule |-> {}, allow |-> {}],
             [private |-> FALSE, owner |-> owner, dev |-> 0, default |-> 1, members |-> {dev},
              rule |-> {[id |-> 0, linear |-> TRUE]}, allow |-> {<<0, dev>>}]}

CallSymmetry == Permutations(Calls)
=============================================================================
