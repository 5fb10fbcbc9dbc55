--------------------------- MODULE MCCommandTable ---------------------------
(***************************************************************************)
(* CommandTable on small instances. Symmetry is used for safety only.      *)
(***************************************************************************)
EXTENDS CommandTable, TLC

Symmetry == Permutations(Commands) \cup Permutations(IoThreads \ AckThreads)

=============================================================================
