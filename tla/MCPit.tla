------------------------------- MODULE MCPit -------------------------------
(***************************************************************************)
(* Small instances of Pit for TLC.                                         *)
(***************************************************************************)
EXTENDS Pit, TLC

CONSTANTS a, b, c

\* A path of three names below the root, and a name beside it.
PathNames == {<<>>, <<a>>, <<a, b>>, <<c>>}

I(n, s, g) == [name |-> n, selectors |-> s, guiders |-> g]

\* Two selectors for <<a>>, two guiders for <<a, b>>, and the other names.
SomeInterests ==
  {I(<<a>>, "any", 1), I(<<a>>, "one", 1), I(<<a>>, "one", 2),
   I(<<a, b>>, "any", 1), I(<<c>>, "any", 1), I(<<>>, "one", 1)}

\* "any" accepts all Data below the name, "one" only those with one more
\* component at most.
SomeMatches ==
  {m \in SomeInterests \X Name :
     /\ m[1].name \in Prefixes(m[2])
     /\ m[1].selectors = "one" => Len(m[2]) <= Len(m[1].name) + 1}

\* The code compares PIT entries for equality only.
Symmetry == Permutations(PitEntry)

=============================================================================
