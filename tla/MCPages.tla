------------------------------ MODULE MCPages ------------------------------
EXTENDS Pages

\* the two panels with the most resources get two clicks, the others three
Clicks == [p \in DOMAIN Loads |-> IF p \in {"browse", "admin"} THEN 2 ELSE 3]
============================================================================
