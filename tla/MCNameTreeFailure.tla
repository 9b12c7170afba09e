-------------------------- MODULE MCNameTreeFailure --------------------------
(***************************************************************************)
(* Small instances of NameTreeFailure for TLC.                             *)
(***************************************************************************)
EXTENDS NameTreeFailure, TLC

CONSTANTS a, b, c

FourNames == {<<>>, <<a>>, <<a, b>>, <<c>>}

\* All names but <<a, b>> share a bucket of two; in four, the root leaves.
HashCollide ==
  [n \in Name |-> CASE n = <<>> -> 0 [] n = <<a>> -> 2 [] n = <<c>> -> 6
                    [] OTHER -> 1]

Symmetry == Permutations(Addr)

=============================================================================
