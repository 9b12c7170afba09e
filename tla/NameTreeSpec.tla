---------------------------- MODULE NameTreeSpec ----------------------------
(***************************************************************************)
(* What the Name Tree promises, without hashes, chains and pointers: the   *)
(* names that have an entry, and what these entries carry.                 *)
(*                                                                         *)
(* A name is stored one component after the other, below its parent, and   *)
(* goes only when nothing is stored below it and it carries nothing.       *)
(***************************************************************************)
EXTENDS Integers, Sequences

CONSTANTS
  Name,     \* the names used by the clients, with all their prefixes
  Content   \* FIB, PIT and Measurements entries an entry can carry

VARIABLES
  stored,   \* the names that have an entry
  contents  \* what the entry of each name carries

specVars == <<stored, contents>>

Parent(n) == SubSeq(n, 1, Len(n) - 1)

SpecInit ==
  /\ stored = {}
  /\ contents = [n \in Name |-> {}]

\* One round of the loop of lookup().
Store(n) ==
  /\ n \notin stored
  /\ n # <<>> => Parent(n) \in stored
  /\ stored' = stored \cup {n}
  /\ UNCHANGED contents

\* One round of the recursion of eraseEntryIfEmpty().
Remove(n) ==
  /\ n \in stored
  /\ contents[n] = {}
  /\ \A m \in stored : m # <<>> => Parent(m) # n
  /\ stored' = stored \ {n}
  /\ UNCHANGED contents

\* A FIB, PIT or Measurements entry is set, inserted or deleted.
SetContents(n, S) ==
  /\ n \in stored
  /\ contents' = [contents EXCEPT ![n] = S]
  /\ UNCHANGED stored

SpecNext ==
  \E n \in Name :
    \/ Store(n)
    \/ Remove(n)
    \/ \E S \in SUBSET Content : SetContents(n, S)

NameTreeSpec == SpecInit /\ [][SpecNext]_specVars

=============================================================================
