--------------------------- MODULE MCThreadLibrary ---------------------------
(***************************************************************************)
(* Small instances of ThreadLibrary for TLC.                               *)
(***************************************************************************)
EXTENDS ThreadLibrary, TLC

\* The main thread and the boot CPU are told apart; the others are alike.
Symmetric == Permutations(Threads \ {Main}) \cup Permutations(CPUs \ {BootCPU})
=============================================================================
