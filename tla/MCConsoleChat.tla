---------------------------- MODULE MCConsoleChat ----------------------------
(* Instances of ConsoleChat for TLC. *)
EXTENDS ConsoleChat, TLC

\* Ids are interchangeable.
IdSymmetry == Permutations(Ids)

=============================================================================
