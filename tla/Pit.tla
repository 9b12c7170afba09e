-------------------------------- MODULE Pit --------------------------------
(***************************************************************************)
(* The Pending Interest Table of pit.cpp, on top of the Name Tree.         *)
(*                                                                         *)
(* The tree is the dictionary of NameTreeSpec, which the hash table        *)
(* implements: the set of the names that have an entry.  pit.cpp calls it  *)
(* by the names of an older interface: seek() is lookup(), lookup() is     *)
(* findExactMatch(), which creates nothing, longestPrefixMatch() is        *)
(* findLongestPrefixMatch() and deleteEntryIfEmpty() eraseEntryIfEmpty().  *)
(*                                                                         *)
(* All is single threaded, each action is one call of the Pit or of the    *)
(* FIB, which shares the tree.  A PIT entry is an object of its own: it    *)
(* lives while the table or a client refers to it, and clients may still   *)
(* refer to one that was removed.                                          *)
(***************************************************************************)
EXTENDS Integers, Sequences, FiniteSets

CONSTANTS
  Component,   \* name components
  Name,        \* the names used by the clients, with all their prefixes
  Interest,    \* records with the fields name, selectors and guiders
  NoInterest,  \* of a PIT entry that does not exist
  MatchesName, \* the pairs of an Interest and the name of Data it accepts
  PitEntry     \* pit::Entry objects (bound on the number that exist)

GetPrefix(n, k) == SubSeq(n, 1, k)

Prefixes(n) == {GetPrefix(n, k) : k \in 0 .. Len(n)}

ASSUME NameAssumption ==
  /\ Name \subseteq Seq(Component)
  /\ \A n \in Name : Prefixes(n) \subseteq Name

ASSUME InterestAssumption ==
  /\ \A x \in Interest : x.name \in Name
  /\ NoInterest \notin Interest

\* Interest::matchesName(): an Interest asks for Data below its own name.
ASSUME MatchesNameAssumption ==
  \A m \in MatchesName : m[1].name \in Prefixes(m[2])

VARIABLES
  stored,      \* names that have an entry in the Name Tree
  pitEntries,  \* the PIT entries of the entry of each name
  fib,         \* names whose entry has a FIB entry
  interest,    \* Interest of each pit::Entry
  held,        \* the PIT entries that clients refer to
  aborted      \* an assertion failed

vars == <<stored, pitEntries, fib, interest, held, aborted>>

Listed(n) == {pitEntries[n][k] : k \in DOMAIN pitEntries[n]}

Pending == UNION {Listed(n) : n \in Name}

Init ==
  /\ stored = {}
  /\ pitEntries = [n \in Name |-> <<>>]
  /\ fib = {}
  /\ interest = [e \in PitEntry |-> NoInterest]
  /\ held = {}
  /\ aborted = FALSE

\* predicate_PitEntry_similar_Interest(): everything but the guiders.
Similar(x, y) == x.name = y.name /\ x.selectors = y.selectors

FoundFirstOnly(x) ==
  {k \in DOMAIN pitEntries[x.name] \cap {1} :
     Similar(interest[pitEntries[x.name][k]], x)}

\* Where the PIT entries of the name of x hold a similar Interest.
Found(x) ==
  {k \in DOMAIN pitEntries[x.name] :
     Similar(interest[pitEntries[x.name][k]], x)}

\* insert() returns the first PIT entry that it finds.
InsertExisting(x) ==
  /\ ~aborted
  /\ \E k \in Found(x) :
       /\ \A j \in Found(x) : k <= j
       /\ held' = held \cup {pitEntries[x.name][k]}
  /\ stored' = stored \cup Prefixes(x.name)
  /\ UNCHANGED <<pitEntries, fib, interest, aborted>>

\* insert() appends a new PIT entry e and returns it.
InsertNew(x, e) ==
  /\ ~aborted
  /\ Found(x) = {}
  /\ stored' = stored \cup Prefixes(x.name)
  /\ pitEntries' = [pitEntries EXCEPT ![x.name] = Append(@, e)]
  /\ interest' = [interest EXCEPT ![e] = x]
  /\ held' = held \cup {e}
  /\ UNCHANGED <<fib, aborted>>

\* The names whose entry carries a PIT or a FIB entry.
InUse == fib \cup {n \in Name : pitEntries[n] # <<>>}

\* The children of the entry of n, by the names of their entries.
Children(n) == {m \in stored : m # <<>> /\ GetPrefix(m, Len(m) - 1) = n}

ErasedThisOnly(n) == IF n \in InUse' \/ Children(n) # {} THEN {} ELSE {n}

\* What eraseEntryIfEmpty() erases when a call has taken something out of the
\* entry of n: n and its ancestors, up to the first that carries something or
\* has another child.
Erased(n) ==
  {GetPrefix(n, k) : k \in {k \in 0 .. Len(n) :
     \A j \in k .. Len(n) : /\ GetPrefix(n, j) \notin InUse'
                            /\ Children(GetPrefix(n, j)) \subseteq Prefixes(n)}}

DeletePopOnly(list, e) ==
  IF \E k \in DOMAIN list : list[k] = e
  THEN SubSeq(list, 1, Len(list) - 1) ELSE list

DeleteLeavesNull(list, e) ==
  [k \in DOMAIN list |-> IF list[k] = e THEN NoInterest ELSE list[k]]

\* deletePitEntry(): the last entry takes the place of e, if e is in the list.
Delete(list, e) ==
  IF \E k \in DOMAIN list : list[k] = e
  THEN [k \in 1 .. Len(list) - 1 |->
          IF list[k] = e THEN list[Len(list)] ELSE list[k]]
  ELSE list

\* A PIT entry that neither the table nor a client refers to is destroyed.
Release ==
  interest' = [e \in PitEntry |->
                 IF e \in Pending' \cup held' THEN interest[e] ELSE NoInterest]

\* remove(), of an entry that a client refers to.
Remove(e) ==
  /\ ~aborted
  /\ interest[e].name \in stored
  /\ pitEntries' = [pitEntries EXCEPT ![interest[e].name] = Delete(@, e)]
  /\ UNCHANGED <<fib, interest, held, aborted>>
  /\ stored' = stored \ Erased(interest[e].name)

\* BOOST_ASSERT(static_cast<bool>(nameTreeEntry)): the name is not stored.
RemoveAborts(e) ==
  /\ ~aborted
  /\ interest[e].name \notin stored
  /\ aborted' = TRUE
  /\ UNCHANGED <<stored, pitEntries, fib, interest, held>>

\* A client forgets a PIT entry.
Drop(e) ==
  /\ ~aborted
  /\ held' = held \ {e}
  /\ UNCHANGED <<stored, pitEntries, fib, aborted>>
  /\ Release

\* The FIB: lookup() and setFibEntry(), deleteFibEntry() and the erasure.
SetFibEntry(n) ==
  /\ ~aborted
  /\ stored' = stored \cup Prefixes(n)
  /\ fib' = fib \cup {n}
  /\ UNCHANGED <<pitEntries, interest, held, aborted>>

DeleteFibEntry(n) ==
  /\ ~aborted
  /\ fib' = fib \ {n}
  /\ UNCHANGED <<pitEntries, interest, held, aborted>>
  /\ stored' = stored \ Erased(n)

Next ==
  \/ \E x \in Interest :
       InsertExisting(x) \/ \E e \in PitEntry \ (Pending \cup held) : InsertNew(x, e)
  \/ \E e \in held : Remove(e) \/ RemoveAborts(e) \/ Drop(e)
  \/ \E n \in Name \ fib : SetFibEntry(n)
  \/ \E n \in fib : DeleteFibEntry(n)

Spec == Init /\ [][Next]_vars

-----------------------------------------------------------------------------
(* findAllDataMatches(data), for the name d of the Data.                   *)

ExactMatchOnly(d) == IF d \in stored THEN Len(d) ELSE -1

\* Length of the longest prefix of d that has an entry, -1 without one.
LongestPrefixMatch(d) ==
  LET lengths == {k \in 0 .. Len(d) : GetPrefix(d, k) \in stored}
  IN IF lengths = {} THEN -1
     ELSE CHOOSE k \in lengths : \A j \in lengths : j <= k

\* The PIT entries in a list whose Interests accept d, in their order.
Accepting(list, d) ==
  LET upTo[k \in 0 .. Len(list)] ==
        IF k = 0 THEN <<>>
        ELSE IF <<interest[list[k]], d>> \in MatchesName
             THEN Append(upTo[k - 1], list[k]) ELSE upTo[k - 1]
  IN upTo[Len(list)]

\* The PIT entries of one name that accept d.
Matching(n, d) == Accepting(pitEntries[n], d)

\* From the entry of the longest match up to the root, parent by parent.
FindAllDataMatches(d) ==
  LET from[k \in -1 .. Len(d)] ==
        IF k = -1 THEN <<>>
        ELSE Matching(GetPrefix(d, k), d) \o from[k - 1]
  IN from[LongestPrefixMatch(d)]

-----------------------------------------------------------------------------
(* Properties.                                                             *)

\* Types of all variables.
TypeOK ==
  /\ stored \subseteq Name
  /\ pitEntries \in [Name -> Seq(PitEntry)]
  /\ fib \subseteq Name
  /\ interest \in [PitEntry -> Interest \cup {NoInterest}]
  /\ held \subseteq PitEntry
  /\ aborted \in BOOLEAN

\* Every pending PIT entry is listed once, under the name of its Interest, and
\* no two of them stand for similar Interests: insert() finds a similar one
\* also after deletePitEntry() has reordered the list.
PendingOnce ==
  \A n \in Name : \A k \in DOMAIN pitEntries[n] :
    LET e == pitEntries[n][k] IN
    /\ interest[e] # NoInterest
    /\ interest[e].name = n
    /\ \A j \in DOMAIN pitEntries[n] \ {k} :
         ~Similar(interest[e], interest[pitEntries[n][j]])

\* The tree holds the names that carry a PIT or a FIB entry and their prefixes,
\* and nothing else: what insert() and the FIB create, the erasures remove, and
\* no erasure removes what the other one needs.
PathsExact == stored = UNION {Prefixes(n) : n \in InUse}

\* findAllDataMatches() returns every pending PIT entry that accepts the Data,
\* each of them once, although it only looks at the path from the longest
\* match upwards.
DataMatchesComplete ==
  \A d \in Name :
    LET result == FindAllDataMatches(d) IN
    /\ {result[k] : k \in DOMAIN result} =
         {e \in Pending : <<interest[e], d>> \in MatchesName}
    /\ \A j, k \in DOMAIN result : result[j] = result[k] => j = k

\* A PIT entry is pending from the insert() that found no similar Interest to
\* the remove() by a client that refers to it: no other call adds, drops or
\* doubles one, and deletePitEntry() takes no other entry out of its list.
Abstract == INSTANCE PitSpec WITH pending <- Pending

ImplementsPitSpec == Abstract!PitSpec

=============================================================================
