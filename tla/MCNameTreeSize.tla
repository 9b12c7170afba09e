--------------------------- MODULE MCNameTreeSize ---------------------------
(***************************************************************************)
(* A small instance of NameTreeSize for TLC: sizes up to 40 buckets, and   *)
(* an int that counts to 7 and wraps at 16.                                *)
(***************************************************************************)
EXTENDS NameTreeSize

\* The first bucket, the last one that an int numbers and its neighbours, and the
\* last two before an int wraps.
SomeHashes == {0, 1, 5, 7, 8, 14, 15}

\* 0, less and more than half of what an int counts, and one size whose half an
\* int does not hold.
SomeSizes == {0, 1, 2, 16}

\* The same and more; 64 is more than the memory holds.
SomeResizes == {0, 3, 8, 32, 64}

=============================================================================
