----------------------------- MODULE MCNameTree -----------------------------
(***************************************************************************)
(* Small instances of NameTree for TLC.                                    *)
(***************************************************************************)
EXTENDS NameTreeChains, TLC

CONSTANTS a, b, c

\* The root, two names below it and names below one of them.
FourNames == {<<>>, <<a>>, <<a, b>>, <<c>>}
FiveNames == {<<>>, <<a>>, <<a, b>>, <<a, c>>, <<c>>}

NoSizes == {}
SomeSizes == {3}

\* All names in one bucket, whatever the size of the table.
HashConstant == [n \in Name |-> 0]

\* The root and <<a>> collide for ever; the others are alone from 4 buckets on.
HashCollide ==
  [n \in Name |-> IF n = <<>> THEN 0 ELSE IF n = <<a>> THEN 16 ELSE
                  IF n = <<c>> THEN 1 ELSE 2]

\* Heap addresses are interchangeable: the code never orders pointers.
Symmetry == Permutations(Addr)

=============================================================================
