---------------------------- MODULE MCPortfolio ----------------------------
EXTENDS Portfolio, TLC

\* Windows, edits and markets are only compared with one another.
Symmetric == Permutations(Window) \cup Permutations(Edit) \cup Permutations(Market)
=============================================================================
