------------------------------ MODULE MCLogins ------------------------------
\* A small instance of Logins.
EXTENDS Logins, TLC

CONSTANTS c1, c2, c3, i1

CallSymmetry == Permutations(Calls)

\* One failure short of a lock, with either factor; many failures, with none.
MyStarts == {[count |-> 4, totp |-> TRUE, passkey |-> FALSE],
             [count |-> 4, totp |-> FALSE, passkey |-> TRUE],
             [count |-> 10, totp |-> FALSE, passkey |-> FALSE]}

\* What a finished call submitted or held is never looked at again.
WithoutFinished ==
    <<attempt, factors, budget, era, before, mixed, setup, accepts, loose,
      [c \in Calls |-> IF call[c].at \in Over THEN <<call[c].op, call[c].at, call[c].era>>
                       ELSE call[c]]>>
=============================================================================
