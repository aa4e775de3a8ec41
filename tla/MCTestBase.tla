----------------------------- MODULE MCTestBase -----------------------------
EXTENDS TestBase

\* Messages at once and messages that others can overtake.
OneRange == {<<0, 2>>}

\* The two nodes are cut off from each other.
OneCut == {<<{1}, {2}>>}
=============================================================================
