----------------------------- MODULE MCStopLoss ------------------------------
EXTENDS StopLossDocs, TLC

CONSTANTS x1, x2, s1, s2, c1, c2

\* One strategy with one leg, and with two.
OneStrategy == {s1}
OneSymbol   == {x1}
TwoSymbols  == {x1, x2}
OneLeg      == [s \in {s1} |-> {x1}]
TwoLegs     == [s \in {s1} |-> {x1, x2}]

\* Requests one at a time, and two at once; they differ only in what they ask for.
OneCall         == {c1}
TwoCalls        == {c1, c2}
Interchangeable == Permutations(TwoCalls)

\* Every position is entered at 2, so a mark of 1 loses a lot's worth on the long
\* side, and 3 on the short side.
EntryAt2    == [x \in Symbols |-> 2]
Enabled     == [keys |-> TRUE, live |-> TRUE]
LiveOff     == [keys |-> TRUE, live |-> FALSE]
OnlyEnabled == {Enabled}
MayTurnOff  == {Enabled, LiveOff}
MarkAbsent  == {NoMark}
=============================================================================
