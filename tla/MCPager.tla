------------------------------- MODULE MCPager -------------------------------
(***************************************************************************)
(* Small instances of Pager for TLC.                                       *)
(***************************************************************************)
EXTENDS PagerProperties, TLC

CONSTANTS f1, f2

\* The names that the contents of pages spell.
NamedByLast(s) == IF s[Len(s)] = Zero THEN f1 ELSE f2

Symmetric == Permutations(Frames) \cup Permutations(SwapBlocks) \cup Permutations(Pids)
=============================================================================
