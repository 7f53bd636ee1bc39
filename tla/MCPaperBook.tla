----------------------------- MODULE MCPaperBook -----------------------------
EXTENDS PaperDocs

CONSTANTS p1, long1, short1, c1, c2

\* One position, two lots long of one symbol and one lot short of another.
OnePosition == {p1}
TwoLegs     == [p \in {p1} |-> {long1, short1}]
Sides       == [l \in {long1, short1} |-> IF l = long1 THEN 1 ELSE -1]
Sizes       == [l \in {long1, short1} |-> IF l = long1 THEN 2 ELSE 1]
=============================================================================
