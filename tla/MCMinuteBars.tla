---------------------------- MODULE MCMinuteBars -----------------------------
EXTENDS MinuteDocs

CONSTANTS x1

OneSymbol == {x1}
=============================================================================
