------------------------- MODULE MCNameTreeLifetime -------------------------
(***************************************************************************)
(* Small instances of NameTreeLifetime for TLC.                            *)
(***************************************************************************)
EXTENDS NameTreeLifetime, TLC

CONSTANTS a, b, c

ThreeNames == {<<>>, <<a>>, <<c>>}

\* The root, <<a>> and <<c>> share the last of two or four buckets; of eight, the
\* root and <<a>> share one, and <<c>> is alone in the last;
\* of six, the root is alone.
HashCollide ==
  [n \in Name |-> CASE n = <<>> -> 3 [] n = <<a>> -> 19 [] OTHER -> 7]

Symmetry == Permutations(Addr)

=============================================================================
