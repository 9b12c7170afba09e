------------------------- MODULE MCNameTreeIterator -------------------------
(***************************************************************************)
(* Small instances of NameTreeIterator for TLC.                            *)
(***************************************************************************)
EXTENDS NameTreeIterator, TLC

CONSTANTS a, b, c

\* The root with three names below it and a name below one of them; of the five
\* names, four are stored at a time.
FiveNames == {<<>>, <<a>>, <<b>>, <<c>>, <<a, b>>}
BranchNames == {<<>>, <<a>>, <<c>>}

NoSizes == {}

\* <<>> and <<c>> collide in 4 and in 8 buckets.  <<>> comes first in 4 buckets and last in 8;
\* when the table grows, <<a>> becomes the first of its bucket after <<c>> has been
\* linked behind <<>>, and gets a wrong m_prev.
HashMoving ==
  [n \in Name |-> CASE n = <<>> -> 5 [] n = <<a>> -> 3 [] OTHER -> 13]

\* All names share the last of 4 buckets; of 8, <<>> is alone in the last, and the
\* chain of the others keeps its order, so that no m_prev is wrong.
HashParting ==
  [n \in Name |-> CASE n = <<>> -> 7 [] n = <<a>> -> 3 [] n = <<b>> -> 11
                    [] n = <<c>> -> 19 [] OTHER -> 27]

\* Everything, or all but one name.
Everything == {Name}
ButOne == {Name \ {<<c>>}}
AllButOne == {Name, Name \ {<<a>>}}
AllButRoot == {Name, Name \ {<<>>}}

Symmetry == Permutations(Addr)

=============================================================================
