--------------------------- MODULE MCNameTreeEntry ---------------------------
(***************************************************************************)
(* Small instances of NameTreeEntry for TLC.                               *)
(***************************************************************************)
EXTENDS NameTreeEntry, TLC

\* Objects are compared for equality only.
Symmetry == Permutations(EntryObj) \cup Permutations(Fib) \cup Permutations(Pit)

=============================================================================
