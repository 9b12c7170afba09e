---------------------------- MODULE MCPitOnTable ----------------------------
(***************************************************************************)
(* Small instances of PitOnTable for TLC.                                  *)
(***************************************************************************)
EXTENDS PitOnTable, TLC

CONSTANTS a, b, c

PathNames == {<<>>, <<a>>, <<a, b>>, <<c>>}
NoSizes == {}

I(n, s) == [name |-> n, selectors |-> s, guiders |-> 1]

\* Two selectors for one name, and a name below it and beside it.
SomeInterests == {I(<<a>>, "any"), I(<<a>>, "one"), I(<<a, b>>, "any"), I(<<c>>, "any")}

\* "any" accepts all Data below the name, "one" only that of the name itself.
SomeMatches ==
  {m \in Interest \X Name :
     /\ IsPrefix(m[1].name, m[2])
     /\ m[1].selectors = "one" => m[2] = m[1].name}

\* The root and <<a>> collide for ever, the others are alone from 4 buckets on.
HashCollide ==
  [n \in Name |-> IF n = <<>> THEN 0 ELSE IF n = <<a>> THEN 16 ELSE
                  IF n = <<c>> THEN 1 ELSE 2]

Symmetry == Permutations(Addr) \cup Permutations(PitEntry)

=============================================================================
