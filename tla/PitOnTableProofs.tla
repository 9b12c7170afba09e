-------------------------- MODULE PitOnTableProofs --------------------------
(***************************************************************************)
(* Proofs about the Pit and the FIB on the pointers of the hash table: as  *)
(* long as no node was unlinked through a wrong m_prev, each of their calls *)
(* is one step of Pit, and the walk of findAllDataMatches() along the      *)
(* parents finds what the one over names does, for every set of names and  *)
(* of Interests, every hash function, heap and number of buckets.          *)
(***************************************************************************)
EXTENDS PitOnTable, NameTreeProofs

-----------------------------------------------------------------------------
(* The inductive invariant.                                                *)

PitTypes ==
  /\ pitEntries \in [Addr -> Seq(PitEntry)]
  /\ interest \in [PitEntry -> Interest \cup {NoInterest}]
  /\ held \subseteq PitEntry
  /\ arg \in Interest \cup {NoInterest}

\* Each call of the Pit is where its call of the Name Tree is.
CallRuns ==
  /\ call \in {"ready", "seek", "found", "removed", "erase", "abort", "undefined"}
  /\ call = "seek" =>
       /\ pc \in {"insert", "inserted", "grown", "resize", "undefined", "abort"}
       /\ pc = "resize" => after = "grown"
       /\ IF arg = NoInterest THEN name \notin FibNames ELSE name = arg.name
  /\ call = "erase" => pc \in {"erase", "undefined", "abort"}
  /\ call \notin {"seek", "erase"} => pc = "idle"
  /\ call \notin {"seek", "found"} => arg = NoInterest
  /\ call \in {"found", "removed"} => nameTreeEntry \in live
  /\ call = "found" =>
       IF arg = NoInterest THEN m_prefix[nameTreeEntry] \notin FibNames
       ELSE m_prefix[nameTreeEntry] = arg.name

\* isEmpty() sees the PIT entries that there are.
ListsCarried ==
  \A a \in Addr :
    pitEntries[a] # <<>> <=> a \in live /\ "pit" \in content[a]

\* A pit::Entry has an Interest as long as somebody refers to it.
InterestKept ==
  \A e \in PitEntry : interest[e] # NoInterest <=> e \in Pending \cup held

\* The entry that the running call works on.
Current ==
  IF call \in {"seek", "erase"} THEN entry
  ELSE IF call \in {"found", "removed"} THEN nameTreeEntry ELSE Null

\* Only the entry that a call works on can be empty, with no entry below it.
OneUnused == \A a \in live : IsEmpty(a) => a = Current

PitTableInv ==
  /\ ChainInv
  /\ PitTypes
  /\ CallRuns
  /\ ListsCarried
  /\ InterestKept
  /\ ~damaged => OneUnused /\ call # "undefined"

-----------------------------------------------------------------------------
(* What the Pit sees of the table.                                         *)

Carriers == {a \in live : content[a] # {}}

LEMMA PitTableTypes ==
  ASSUME PitTableInv
  PROVE  /\ TreeInv
         /\ pitEntries \in [Addr -> Seq(PitEntry)]
         /\ interest \in [PitEntry -> Interest \cup {NoInterest}]
         /\ held \subseteq PitEntry
         /\ content \in [Addr -> SUBSET Content]
         /\ live \subseteq Addr /\ m_prefix \in [Addr -> Name]
         /\ \A a \in live : pitEntries[a] # <<>> => a \in Carriers
BY DEF PitTableInv, ChainInv, TreeInv, TypeInv, TypeOK, PitTypes, ListsCarried, Carriers

\* A step that keeps the entries that carry something, with their names, and the
\* lists of PIT entries cannot be observed.
LEMMA ViewKept ==
  ASSUME pitEntries' = pitEntries, Carriers' = Carriers,
         \A a \in Carriers : m_prefix'[a] = m_prefix[a] /\ content'[a] = content[a],
         \A a \in live : pitEntries[a] # <<>> => a \in Carriers,
         \A a \in live' : pitEntries'[a] # <<>> => a \in Carriers'
  PROVE  /\ InUseNames' = InUseNames /\ FibNames' = FibNames
         /\ ListOf' = ListOf /\ Pending' = Pending
<1>1. /\ \A a : a \in live /\ content[a] # {} <=> a \in live' /\ content'[a] # {}
      /\ \A a \in Carriers : a \in live /\ a \in live'
  BY DEF Carriers
<1>2. InUseNames' = InUseNames
  BY <1>1 DEF InUseNames, Carriers
<1>3. FibNames' = FibNames
  <2>1. \A a : a \in live /\ "fib" \in content[a] <=> a \in live' /\ "fib" \in content'[a]
    BY <1>1 DEF Carriers
  <2>2. \A a \in live : "fib" \in content[a] => m_prefix'[a] = m_prefix[a]
    BY DEF Carriers
  <2> QED
    BY <2>1, <2>2 DEF FibNames
<1>4. \A n, a : /\ a \in live' /\ m_prefix'[a] = n /\ pitEntries'[a] # <<>>
                  <=> a \in live /\ m_prefix[a] = n /\ pitEntries[a] # <<>>
  BY <1>1
<1>5. ListOf' = ListOf
  <2>1. ASSUME NEW n
        PROVE  (CHOOSE a \in live' : m_prefix'[a] = n /\ pitEntries'[a] # <<>>)
                 = (CHOOSE a \in live : m_prefix[a] = n /\ pitEntries[a] # <<>>)
    BY <1>4, Zenon
  <2>2. ASSUME NEW n
        PROVE  (\E a \in live' : m_prefix'[a] = n /\ pitEntries'[a] # <<>>)
                 <=> (\E a \in live : m_prefix[a] = n /\ pitEntries[a] # <<>>)
    BY <1>4
  <2> DEFINE has(n) == \E a \in live : m_prefix[a] = n /\ pitEntries[a] # <<>>
             new(n) == \E a \in live' : m_prefix'[a] = n /\ pitEntries'[a] # <<>>
             one(n) == CHOOSE a \in live : m_prefix[a] = n /\ pitEntries[a] # <<>>
             now(n) == CHOOSE a \in live' : m_prefix'[a] = n /\ pitEntries'[a] # <<>>
  <2>3. ListOf = [n \in Name |-> IF has(n) THEN pitEntries[one(n)] ELSE <<>>]
    BY DEF ListOf
  <2>4. ListOf' = [n \in Name |-> IF new(n) THEN pitEntries'[now(n)] ELSE <<>>]
    BY DEF ListOf
  <2>5. \A n \in Name : new(n) = has(n) /\ now(n) = one(n)
    BY <2>1, <2>2, Zenon
  <2> HIDE DEF has, new, one, now
  <2> QED
    BY <2>3, <2>4, <2>5
<1>6. Pending' = Pending
  <2>1. \A a : a \in live /\ pitEntries[a] # <<>> <=> a \in live' /\ pitEntries'[a] # <<>>
    BY <1>1
  <2> QED
    BY <2>1 DEF Pending, Listed
<1> QED
  BY <1>2, <1>3, <1>5, <1>6

-----------------------------------------------------------------------------
(* The paths to what is used.                                              *)

Paths == {n \in Name : \E m \in InUseNames : IsPrefix(n, m)}

\* Every prefix of a stored name is stored.
LEMMA AncestorStored ==
  ASSUME TreeInv, NEW a \in live, NEW n \in Name, IsPrefix(n, m_prefix[a])
  PROVE  n \in StoredNames
<1> DEFINE Above == {c \in live : IsPrefix(n, m_prefix[c])}
           Sizes == {Len(m_prefix[c]) : c \in Above}
<1>1. \A c \in live : m_prefix[c] \in Name /\ Len(m_prefix[c]) \in Nat
  BY FamilyTypes, NameAssumption, LenProperties
<1>2. PICK c \in Above : \A b \in Above : Len(m_prefix[c]) <= Len(m_prefix[b])
  <2>1. Sizes \in SUBSET Nat /\ Sizes # {}
    BY <1>1
  <2>2. PICK k \in Sizes : \A j \in Sizes : k <= j
    BY <2>1, LeastNat
  <2> QED
    BY <2>2
<1>3. CASE m_parent[c] = Null
  BY <1>2, <1>3, PrefixOfRoot DEF StoredNames
<1>4. CASE m_parent[c] # Null /\ n # m_prefix[c]
  <2>1. m_parent[c] \in Above
    BY <1>2, <1>4, ParentName, PrefixOfParent
  <2>2. Len(m_prefix[m_parent[c]]) = Len(m_prefix[c]) - 1
    BY <1>2, <1>4, ParentName
  <2> QED
    BY <1>1, <1>2, <2>1, <2>2
<1> QED
  BY <1>2, <1>3, <1>4 DEF StoredNames

\* If no entry is unused, each has one with a PIT or FIB entry at or below it: the
\* one with the fewest entries below it has no children.
LEMMA UsedBelow ==
  ASSUME TreeInv, \A b \in live : ~IsEmpty(b), NEW a \in live
  PROVE  \E b \in live : content[b] # {} /\ IsPrefix(m_prefix[a], m_prefix[b])
<1> DEFINE Below(x) == {b \in live : IsPrefix(m_prefix[x], m_prefix[b])}
           Sizes == {Cardinality(Below(b)) : b \in Below(a)}
<1>1. IsFiniteSet(live)
  BY ChainTypes, HeapAssumption, FS_Subset
<1>2. \A x \in live : /\ x \in Below(x) /\ m_prefix[x] \in Name
                      /\ IsFiniteSet(Below(x)) /\ Cardinality(Below(x)) \in Nat
  <2> TAKE x \in live
  <2>1. x \in Below(x) /\ m_prefix[x] \in Name
    BY FamilyTypes, PrefixItself
  <2>2. IsFiniteSet(Below(x))
    BY <1>1, FS_Subset
  <2> QED
    BY <2>1, <2>2, FS_CardinalityType
<1>3. PICK b \in Below(a) : \A c \in Below(a) : Cardinality(Below(b)) <= Cardinality(Below(c))
  <2>1. Sizes \in SUBSET Nat /\ Sizes # {}
    BY <1>2
  <2>2. PICK k \in Sizes : \A j \in Sizes : k <= j
    BY <2>1, LeastNat
  <2>3. PICK b \in Below(a) : k = Cardinality(Below(b))
    BY <2>2
  <2>4. \A c \in Below(a) : Cardinality(Below(c)) \in Sizes
    OBVIOUS
  <2> HIDE DEF Below, Sizes
  <2> QED
    BY <2>2, <2>3, <2>4
<1>4. ASSUME NEW c \in live, m_parent[c] = b PROVE FALSE
  <2>1. /\ b \in live /\ m_parent[c] # Null /\ b # Null
        /\ m_prefix[b] \in Name /\ m_prefix[c] \in Name
    BY <1>4, FamilyTypes
  <2>2. /\ IsPrefix(m_prefix[b], m_prefix[c]) /\ ~IsPrefix(m_prefix[c], m_prefix[b])
        /\ IsPrefix(m_prefix[a], m_prefix[c])
    BY <1>2, <1>4, <2>1, ParentName, BelowParent
  <2>3. c \in Below(a) /\ b \notin Below(c)
    BY <2>2
  <2>4. Below(c) \subseteq Below(b)
    BY <1>2, <2>1, <2>2, PrefixTransitive
  <2> HIDE DEF Below
  <2>5. /\ Cardinality(Below(c)) <= Cardinality(Below(b))
        /\ Cardinality(Below(b)) = Cardinality(Below(c)) => Below(b) = Below(c)
    BY <1>2, <2>1, <2>4, FS_Subset
  <2>6. Cardinality(Below(b)) = Cardinality(Below(c))
    BY <1>2, <1>3, <2>1, <2>3, <2>5
  <2> QED
    BY <1>2, <2>1, <2>3, <2>5, <2>6
<1>5. m_children[b] = <<>>
  BY <1>4, FamilyTypes
<1> QED
  BY <1>5 DEF IsEmpty

\* Then the stored names are the paths to what is used.
LEMMA StoredPaths ==
  ASSUME TreeInv, \A b \in live : ~IsEmpty(b)
  PROVE  StoredNames = Paths
<1>1. ASSUME NEW a \in live PROVE m_prefix[a] \in Paths
  <2>1. m_prefix[a] \in Name
    BY FamilyTypes
  <2> QED
    BY <2>1, UsedBelow DEF Paths, InUseNames
<1>2. ASSUME NEW n \in Paths PROVE n \in StoredNames
  BY <1>2, AncestorStored DEF Paths, InUseNames
<1> QED
  BY <1>1, <1>2 DEF StoredNames

LEMMA PathsAreInitials ==
  ASSUME InUseNames \subseteq Name
  PROVE  Paths = UNION {Initials(m) : m \in InUseNames}
<1>1. ASSUME NEW m \in Name PROVE \A n : n \in Initials(m) <=> n \in Name /\ IsPrefix(n, m)
  <2>1. m \in Seq(Component) /\ Len(m) \in Nat /\ \A k \in 0 .. Len(m) : Initial(m, k) \in Name
    BY NameAssumption, LenProperties DEF GetPrefix, Initial
  <2>2. \A n \in Initials(m) : n \in Name /\ IsPrefix(n, m)
    <3> SUFFICES ASSUME NEW k \in 0 .. Len(m)
                 PROVE  Initial(m, k) \in Name /\ IsPrefix(Initial(m, k), m)
      BY DEF Initials
    <3>1. Initial(m, k) \in Name /\ Len(Initial(m, k)) = k /\ k <= Len(m)
      BY <2>1, InitialFacts
    <3> QED
      BY <3>1 DEF IsPrefix, GetPrefix, Initial
  <2>3. ASSUME NEW n \in Name, IsPrefix(n, m) PROVE n \in Initials(m)
    <3>1. Len(n) \in 0 .. Len(m) /\ n = Initial(m, Len(n))
      BY <2>1, <2>3, NameAssumption, LenProperties DEF IsPrefix, GetPrefix, Initial
    <3> QED
      BY <3>1 DEF Initials
  <2> QED
    BY <2>2, <2>3
<1> QED
  BY <1>1 DEF Paths

-----------------------------------------------------------------------------
(* The steps of the table under a call of the Pit.                         *)

LEMMA StepTree ==
  ASSUME TreeInv, Step
  PROVE  \/ UNCHANGED <<live, m_prefix, m_parent, m_children, content>>
         \/ \E a \in Addr \ live : InsertNew(a)
         \/ EraseEmpty
BY DEF Step, tree, InsertWalk, InsertFound, InsertUndefined, Grow, NextPrefix,
       ResizeWalk, ResizeLink, ResizeNextBucket, ResizeEnd, ResizeUndefined,
       EraseNotEmpty, EraseUndefined, BeginResize, Stop

\* The steps of lookup() and eraseEntryIfEmpty() add and remove entries that carry
\* nothing.
LEMMA StepCarriers ==
  ASSUME PitTableInv, Step, pitEntries' = pitEntries
  PROVE  /\ ListsCarried'
         /\ Carriers' = Carriers
         /\ \A a \in Carriers : m_prefix'[a] = m_prefix[a] /\ content'[a] = content[a]
<1>1. /\ TreeInv /\ ListsCarried
      /\ content \in [Addr -> SUBSET Content] /\ m_prefix \in [Addr -> Name]
      /\ live \subseteq Addr
  BY PitTableTypes DEF PitTableInv
<1>2. CASE UNCHANGED <<live, m_prefix, m_parent, m_children, content>>
  BY <1>1, <1>2 DEF ListsCarried, Carriers
<1>3. ASSUME NEW a \in Addr \ live, InsertNew(a)
      PROVE  /\ ListsCarried'
             /\ Carriers' = Carriers
             /\ \A b \in Carriers : m_prefix'[b] = m_prefix[b] /\ content'[b] = content[b]
  <2>1. /\ live' = live \cup {a}
        /\ content' = [content EXCEPT ![a] = {}]
        /\ m_prefix' = [m_prefix EXCEPT ![a] = Prefix]
    BY <1>3 DEF InsertNew
  <2>2. /\ content'[a] = {}
        /\ \A b \in Addr \ {a} : content'[b] = content[b] /\ m_prefix'[b] = m_prefix[b]
    BY <1>1, <2>1
  <2>3. pitEntries[a] = <<>>
    BY <1>1 DEF ListsCarried
  <2> QED
    BY <1>1, <2>1, <2>2, <2>3 DEF ListsCarried, Carriers
<1>4. CASE EraseEmpty
  <2>1. /\ live' = live \ {entry} /\ content' = content
        /\ m_prefix' = [m_prefix EXCEPT ![entry] = <<>>]
        /\ content[entry] = {}
    BY <1>4 DEF EraseEmpty, Discard, IsEmpty
  <2>2. \A b \in Addr \ {entry} : m_prefix'[b] = m_prefix[b]
    BY <1>1, <2>1
  <2> QED
    BY <1>1, <2>1, <2>2 DEF ListsCarried, Carriers
<1> QED
  BY <1>1, <1>2, <1>3, <1>4, StepTree

\* The Pit sees none of them.
LEMMA StepView ==
  ASSUME PitTableInv, Step, pitEntries' = pitEntries
  PROVE  /\ InUseNames' = InUseNames /\ FibNames' = FibNames
         /\ ListOf' = ListOf /\ Pending' = Pending
<1>1. TypeInv'
  BY TypeNext, PitTableTypes DEF Next, TreeInv
<1>2. \A a \in live' : pitEntries'[a] # <<>> => a \in Carriers'
  BY <1>1, StepCarriers DEF ListsCarried, Carriers, TypeInv, TypeOK
<1> QED
  BY <1>2, StepCarriers, ViewKept, PitTableTypes

\* Nor the calls that begin and end, and what clients forget.
LEMMA QuietView ==
  ASSUME PitTableInv, pitEntries' = pitEntries,
         UNCHANGED <<live, m_prefix, content>>
  PROVE  /\ InUseNames' = InUseNames /\ FibNames' = FibNames /\ Paths' = Paths
         /\ ListOf' = ListOf /\ Pending' = Pending /\ StoredNames' = StoredNames
         /\ ListsCarried'
BY DEF InUseNames, FibNames, ListOf, Pending, Listed, StoredNames, ListsCarried,
       PitTableInv, Paths

\* Each step of the Pit is a step of the table or leaves it alone.
LEMMA TableFollows ==
  ASSUME PitTableInv, [PitNext]_<<vars, pitVars>>
  PROVE  [Next]_vars
<1>1. /\ "pit" \in Content /\ "fib" \in Content
      /\ \A x \in Interest : x.name \in Name
  BY ContentAssumption, InterestAssumption
<1>2. call \in {"found", "removed"} => nameTreeEntry \in live
  BY DEF PitTableInv, CallRuns
<1>3. ASSUME NEW x \in Interest, BeginInsertInterest(x) PROVE Next
  BY <1>1, <1>3 DEF BeginInsertInterest, Next, Call
<1>4. ASSUME NEW n \in Name \ FibNames, BeginSetFib(n) PROVE Next
  BY <1>4 DEF BeginSetFib, Next, Call
<1>5. ASSUME NEW n \in Name, DeleteFib(n) PROVE Next
  BY <1>1, <1>5 DEF DeleteFib, Finds, Next, Call
<1>6. ASSUME NEW e \in held, Remove(e) PROVE [Next]_vars
  BY <1>1, <1>6 DEF Remove, UpdateIsEmpty, Finds, Next, Call
<1>7. ASSUME NEW e \in held, RemoveStops(e) \/ Drop(e) PROVE UNCHANGED vars
  BY <1>7 DEF RemoveStops, Drop
<1>8. CASE SeekStep \/ EraseStep
  BY <1>8 DEF SeekStep, EraseStep, Next
<1>9. CASE ReturnExisting
  BY <1>9 DEF ReturnExisting
<1>10. CASE SetFibEntry
  BY <1>1, <1>2, <1>10 DEF SetFibEntry, Next, Call
<1>11. ASSUME NEW e \in PitEntry \ (Pending \cup held), InsertPitEntry(e) PROVE Next
  BY <1>1, <1>2, <1>11 DEF InsertPitEntry, Next, Call
<1>12. CASE BeginErase
  BY <1>2, <1>12 DEF BeginErase, Next, Call
<1>13. CASE UNCHANGED <<vars, pitVars>>
  BY <1>13
<1> QED
  BY <1>3, <1>4, <1>5, <1>6, <1>7, <1>8, <1>9, <1>10, <1>11, <1>12, <1>13
     DEF PitNext, PitStep

\* deletePitEntry() takes no other PIT entry out of the list and puts none into it.
LEMMA DeleteKeeps ==
  ASSUME NEW list \in Seq(PitEntry), NEW e
  PROVE  /\ PitDictionary!Delete(list, e) \in Seq(PitEntry)
         /\ Elements(PitDictionary!Delete(list, e)) \subseteq Elements(list)
         /\ Elements(list) \subseteq Elements(PitDictionary!Delete(list, e)) \cup {e}
         /\ list = <<>> => PitDictionary!Delete(list, e) = <<>>
<1> DEFINE l == PitDictionary!Delete(list, e)
           n == Len(list)
<1>1. n \in Nat /\ DOMAIN list = 1 .. n /\ \A k \in 1 .. n : list[k] \in PitEntry
  BY LenProperties, ElementOfSeq
<1>2. CASE \A k \in DOMAIN list : list[k] # e
  BY <1>2 DEF PitDictionary!Delete
<1>3. ASSUME NEW j \in DOMAIN list, list[j] = e
      PROVE  /\ l \in Seq(PitEntry) /\ Elements(l) \subseteq Elements(list)
             /\ Elements(list) \subseteq Elements(l) \cup {e} /\ list # <<>>
  <2>1. l = [k \in 1 .. n - 1 |-> IF list[k] = e THEN list[n] ELSE list[k]]
    BY <1>3 DEF PitDictionary!Delete
  <2>2. n \in DOMAIN list /\ n - 1 \in Nat /\ list # <<>>
    BY <1>1, <1>3, EmptySeq
  <2> HIDE DEF l, n
  <2>3. /\ DOMAIN l = 1 .. n - 1
        /\ \A k \in 1 .. n - 1 : k \in 1 .. n /\ l[k] = IF list[k] = e THEN list[n] ELSE list[k]
    BY <1>1, <2>1
  <2>4. l \in [1 .. n - 1 -> PitEntry]
    BY <1>1, <2>1, <2>2, <2>3
  <2>5. l \in Seq(PitEntry)
    BY <2>2, <2>4, SeqDef
  <2>6. Elements(l) \subseteq Elements(list)
    BY <1>1, <2>2, <2>3 DEF Elements
  <2>7. ASSUME NEW k \in DOMAIN list, list[k] # e PROVE list[k] \in Elements(l)
    <3>1. CASE k # n
      <4>1. k \in 1 .. n - 1
        BY <1>1, <3>1
      <4> QED
        BY <2>3, <2>7, <4>1 DEF Elements
    <3>2. CASE k = n
      <4>1. j \in 1 .. n - 1
        BY <1>1, <1>3, <2>7, <3>2
      <4>2. l[j] = list[k]
        BY <1>3, <2>3, <3>2, <4>1
      <4> QED
        BY <2>3, <4>1, <4>2 DEF Elements
    <3> QED
      BY <3>1, <3>2
  <2> QED
    BY <2>2, <2>5, <2>6, <2>7 DEF Elements
<1> QED
  BY <1>2, <1>3

LEMMA PendingElements == Pending = UNION {Elements(pitEntries[a]) : a \in live}
BY DEF Pending, Listed, Elements

\* insert() appends the new PIT entry to the list of the entry it found.
LEMMA InsertFacts ==
  ASSUME PitTableInv, NEW e \in PitEntry, InsertPitEntry(e)
  PROVE  /\ nameTreeEntry \in live /\ arg \in Interest /\ m_prefix[nameTreeEntry] = arg.name
         /\ UNCHANGED <<live, m_prefix, m_children, pc>>
         /\ pitEntries' = [pitEntries EXCEPT ![nameTreeEntry] = Append(@, e)]
         /\ pitEntries'[nameTreeEntry] # <<>>
         /\ content' = [content EXCEPT ![nameTreeEntry] = @ \cup {"pit"}]
         /\ Pending' = Pending \cup {e}
         /\ PitTypes' /\ ListsCarried' /\ InterestKept'
<1>1. /\ call = "found" /\ arg # NoInterest
      /\ pitEntries' = [pitEntries EXCEPT ![nameTreeEntry] = Append(@, e)]
      /\ interest' = [interest EXCEPT ![e] = arg]
      /\ held' = held \cup {e} /\ arg' = NoInterest
      /\ content' = [content EXCEPT ![nameTreeEntry] = @ \cup {"pit"}]
      /\ UNCHANGED <<live, m_prefix, m_children, pc>>
  BY DEF InsertPitEntry, AddContent, PitReturn
<1>2. /\ nameTreeEntry \in live /\ arg \in Interest /\ m_prefix[nameTreeEntry] = arg.name
      /\ arg # NoInterest /\ nameTreeEntry \in Addr
  BY <1>1, PitTableTypes DEF PitTableInv, PitTypes, CallRuns
<1> DEFINE list == pitEntries[nameTreeEntry]
<1>3. /\ list \in Seq(PitEntry)
      /\ Append(list, e) \in Seq(PitEntry) /\ Append(list, e) # <<>>
      /\ Elements(Append(list, e)) = Elements(list) \cup {e}
  BY <1>2, PitTableTypes, AppendFacts
<1>4. /\ pitEntries'[nameTreeEntry] = Append(list, e)
      /\ \A a \in Addr : a # nameTreeEntry => pitEntries'[a] = pitEntries[a]
      /\ content'[nameTreeEntry] = content[nameTreeEntry] \cup {"pit"}
      /\ \A a \in Addr : a # nameTreeEntry => content'[a] = content[a]
      /\ interest'[e] = arg
      /\ \A f \in PitEntry : f # e => interest'[f] = interest[f]
  BY <1>1, <1>2, PitTableTypes
<1> HIDE DEF list
<1>5. Pending' = Pending \cup {e}
  <2>1. Pending' = UNION {Elements(pitEntries'[a]) : a \in live}
    BY <1>1 DEF Pending, Listed, Elements
  <2>2. \A a \in live : Elements(pitEntries'[a]) =
          IF a = nameTreeEntry THEN Elements(pitEntries[a]) \cup {e} ELSE Elements(pitEntries[a])
    BY <1>3, <1>4, PitTableTypes DEF list
  <2> QED
    BY <1>2, <2>1, <2>2, PendingElements
<1>6. PitTypes'
  <2>1. pitEntries' \in [Addr -> Seq(PitEntry)]
    BY <1>1, <1>3, PitTableTypes DEF list
  <2>2. interest' \in [PitEntry -> Interest \cup {NoInterest}]
    BY <1>1, <1>2, PitTableTypes
  <2> QED
    BY <1>1, <2>1, <2>2, PitTableTypes DEF PitTypes
<1>7. ListsCarried'
  BY <1>1, <1>2, <1>3, <1>4 DEF ListsCarried, PitTableInv
<1>8. InterestKept'
  BY <1>1, <1>2, <1>4, <1>5, InterestAssumption DEF InterestKept, PitTableInv
<1> QED
  BY <1>1, <1>2, <1>3, <1>4, <1>5, <1>6, <1>7, <1>8

\* remove() takes the PIT entry, if it is there, out of the list of the entry it found.
LEMMA RemoveFacts ==
  ASSUME PitTableInv, NEW e \in held, Remove(e),
         NEW found, found = FindExactMatch(interest[e].name)
  PROVE  /\ found \in live /\ m_prefix[found] = interest[e].name
         /\ UNCHANGED <<live, m_prefix, m_children, pc>>
         /\ pitEntries' = [pitEntries EXCEPT ![found] = PitDictionary!Delete(@, e)]
         /\ \A a \in live : a # found => content'[a] = content[a]
         /\ content'[found] \subseteq content[found]
         /\ "fib" \in content'[found] <=> "fib" \in content[found]
         /\ PitTypes' /\ ListsCarried' /\ InterestKept'
<1> DEFINE list == pitEntries[found]
           l == PitDictionary!Delete(list, e)
<1>1. /\ found \in live /\ m_prefix[found] = interest[e].name
      /\ pitEntries' = [pitEntries EXCEPT ![found] = l]
      /\ UpdateIsEmpty(found, pitEntries'[found])
      /\ UNCHANGED <<interest, held, arg>>
  BY DEF Remove, Finds
<1>2. /\ found \in Addr /\ list \in Seq(PitEntry)
      /\ pitEntries \in [Addr -> Seq(PitEntry)]
  BY <1>1, PitTableTypes
<1>3. /\ l \in Seq(PitEntry) /\ Elements(l) \subseteq Elements(list)
      /\ Elements(list) \subseteq Elements(l) \cup {e}
      /\ list = <<>> => l = <<>>
  BY <1>2, DeleteKeeps
<1> HIDE DEF l, list
<1>4. /\ pitEntries'[found] = l /\ pitEntries' \in [Addr -> Seq(PitEntry)]
      /\ \A a \in Addr : a # found => pitEntries'[a] = pitEntries[a]
  BY <1>1, <1>2, <1>3
<1>5. /\ UNCHANGED <<live, m_prefix, m_children, pc>>
      /\ \A a \in Addr : a # found => content'[a] = content[a]
      /\ content'[found] = IF l = <<>> THEN content[found] \ {"pit"} ELSE content[found]
  <2>1. CASE l = <<>>
    BY <1>1, <1>2, <1>4, <2>1, PitTableTypes DEF UpdateIsEmpty, RemoveContent
  <2>2. CASE l # <<>>
    BY <1>1, <1>4, <2>2, PitTableTypes DEF UpdateIsEmpty, vars, tree
  <2> QED
    BY <2>1, <2>2
<1>6. ListsCarried'
  <2>1. ListsCarried
    BY DEF PitTableInv
  <2>2. l # <<>> => list # <<>>
    BY <1>3
  <2> QED
    BY <1>1, <1>2, <1>4, <1>5, <2>1, <2>2 DEF ListsCarried, list
<1>7. Pending' \cup held = Pending \cup held
  <2>1. Pending' = UNION {Elements(pitEntries'[a]) : a \in live}
    BY <1>5 DEF Pending, Listed, Elements
  <2>2. \A a \in live : /\ Elements(pitEntries'[a]) \subseteq Elements(pitEntries[a])
                        /\ Elements(pitEntries[a]) \subseteq Elements(pitEntries'[a]) \cup {e}
    BY <1>3, <1>4, PitTableTypes DEF list
  <2> QED
    BY <2>1, <2>2, PendingElements
<1>8. InterestKept'
  BY <1>1, <1>7 DEF InterestKept, PitTableInv
<1>9. PitTypes'
  BY <1>1, <1>4 DEF PitTypes, PitTableInv
<1>10. /\ \A a \in live : a # found => content'[a] = content[a]
       /\ content'[found] \subseteq content[found]
       /\ "fib" \in content'[found] <=> "fib" \in content[found]
  BY <1>5, PitTableTypes
<1> QED
  BY <1>1, <1>5, <1>6, <1>8, <1>9, <1>10 DEF l, list

LEMMA SetFibFacts ==
  ASSUME PitTableInv, SetFibEntry
  PROVE  /\ nameTreeEntry \in live /\ m_prefix[nameTreeEntry] \in Name \ FibNames
         /\ UNCHANGED <<live, m_prefix, m_children, pc, pitEntries, interest, held>>
         /\ content' = [content EXCEPT ![nameTreeEntry] = @ \cup {"fib"}]
         /\ PitTypes' /\ ListsCarried' /\ InterestKept'
<1>1. /\ call = "found" /\ arg = NoInterest /\ arg' = NoInterest
      /\ content' = [content EXCEPT ![nameTreeEntry] = @ \cup {"fib"}]
      /\ UNCHANGED <<live, m_prefix, m_children, pc, pitEntries, interest, held>>
  BY DEF SetFibEntry, AddContent, PitReturn
<1>2. nameTreeEntry \in live /\ m_prefix[nameTreeEntry] \in Name \ FibNames
  BY <1>1, PitTableTypes DEF PitTableInv, CallRuns
<1>3. \A a \in Addr : "pit" \in content'[a] <=> "pit" \in content[a]
  BY <1>1, <1>2, PitTableTypes
<1>4. Pending' = Pending
  BY <1>1 DEF Pending, Listed
<1> QED
  BY <1>1, <1>2, <1>3, <1>4 DEF PitTypes, ListsCarried, InterestKept, PitTableInv

LEMMA DeleteFibFacts ==
  ASSUME PitTableInv, NEW n \in Name, DeleteFib(n), NEW found, found = FindExactMatch(n)
  PROVE  /\ found \in live /\ m_prefix[found] = n /\ "fib" \in content[found]
         /\ UNCHANGED <<live, m_prefix, m_children, pc, pitEntries, interest, held>>
         /\ content' = [content EXCEPT ![found] = @ \ {"fib"}]
         /\ PitTypes' /\ ListsCarried' /\ InterestKept'
<1>1. /\ found \in live /\ m_prefix[found] = n /\ "fib" \in content[found]
      /\ content' = [content EXCEPT ![found] = @ \ {"fib"}]
      /\ UNCHANGED <<live, m_prefix, m_children, pc, pitEntries, interest, held, arg>>
  BY DEF DeleteFib, Finds, RemoveContent
<1>2. \A a \in Addr : "pit" \in content'[a] <=> "pit" \in content[a]
  BY <1>1, PitTableTypes
<1>3. Pending' = Pending
  BY <1>1 DEF Pending, Listed
<1> QED
  BY <1>1, <1>2, <1>3 DEF PitTypes, ListsCarried, InterestKept, PitTableInv

\* A step of the Pit that is none of those that change what an entry carries.
LEMMA OtherSteps ==
  ASSUME PitTableInv, [PitNext]_<<vars, pitVars>>,
         ~ \E e \in PitEntry \ (Pending \cup held) : InsertPitEntry(e),
         ~ \E e \in held : Remove(e),
         ~SetFibEntry,
         ~ \E n \in Name : DeleteFib(n)
  PROVE  /\ \/ UNCHANGED <<live, m_prefix, m_children, content>>
            \/ (SeekStep \/ EraseStep) /\ Step
         /\ pitEntries' = pitEntries
         /\ PitTypes' /\ ListsCarried' /\ InterestKept'
<1>1. /\ PitTypes /\ ListsCarried /\ InterestKept
      /\ \A x \in Interest : x # NoInterest
  BY InterestAssumption DEF PitTableInv
<1>2. CASE UNCHANGED <<vars, pitVars>>
  BY <1>1, <1>2, QuietView DEF vars, pitVars, tree, PitTypes, ListsCarried, InterestKept
<1>3. CASE \/ \E x \in Interest : BeginInsertInterest(x)
           \/ \E n \in Name \ FibNames : BeginSetFib(n)
           \/ \E e \in held : RemoveStops(e)
           \/ BeginErase
  <2>1. /\ UNCHANGED <<live, m_prefix, m_children, content, pitEntries, interest, held>>
        /\ arg' \in Interest \cup {arg}
    BY <1>3 DEF BeginInsertInterest, BeginSetFib, RemoveStops, BeginErase, Lookup, Erase,
       vars, tree
  <2> QED
    BY <1>1, <2>1, QuietView DEF PitTypes, InterestKept
<1>4. ASSUME NEW e \in held, Drop(e)
      PROVE  /\ UNCHANGED <<live, m_prefix, m_children, content, pitEntries>>
             /\ PitTypes' /\ ListsCarried' /\ InterestKept'
  <2>1. /\ UNCHANGED <<live, m_prefix, m_children, content, pitEntries, arg>>
        /\ held' = held \ {e}
        /\ interest' = IF e \in Pending THEN interest ELSE [interest EXCEPT ![e] = NoInterest]
    BY <1>4 DEF Drop, vars, tree
  <2>2. Pending' = Pending /\ ListsCarried'
    BY <2>1, QuietView
  <2>3. PitTypes'
    BY <1>1, <2>1 DEF PitTypes
  <2>4. InterestKept'
    BY <1>1, <2>1, <2>2 DEF InterestKept, PitTypes
  <2> QED
    BY <2>1, <2>2, <2>3, <2>4
<1>5. CASE ReturnExisting
  <2>1. /\ UNCHANGED <<live, m_prefix, m_children, content, pitEntries, interest>>
        /\ arg' = NoInterest /\ call = "found"
    BY <1>5 DEF ReturnExisting, PitReturn, vars, tree
  <2>2. PICK k \in DOMAIN pitEntries[nameTreeEntry] :
          held' = held \cup {pitEntries[nameTreeEntry][k]}
    BY <1>5 DEF ReturnExisting, Found
  <2>3. nameTreeEntry \in live
    BY <2>1 DEF PitTableInv, CallRuns
  <2>4. pitEntries[nameTreeEntry][k] \in Pending /\ pitEntries[nameTreeEntry][k] \in PitEntry
    <3>1. pitEntries[nameTreeEntry] \in Seq(PitEntry)
      BY <2>3, PitTableTypes
    <3> QED
      BY <2>2, <2>3, <3>1, LenProperties, ElementOfSeq DEF Pending, Listed
  <2>5. Pending' = Pending /\ ListsCarried'
    BY <2>1, QuietView
  <2> QED
    BY <1>1, <2>1, <2>2, <2>4, <2>5 DEF PitTypes, InterestKept
<1>6. CASE SeekStep \/ EraseStep
  <2>1. Step /\ UNCHANGED <<pitEntries, interest, held>> /\ arg' \in {arg, NoInterest}
    BY <1>6 DEF SeekStep, EraseStep, PitReturn
  <2>2. Pending' = Pending /\ ListsCarried'
    BY <2>1, StepView, StepCarriers
  <2> QED
    BY <1>1, <1>6, <2>1, <2>2 DEF PitTypes, InterestKept
<1> QED
  BY <1>2, <1>3, <1>4, <1>5, <1>6 DEF PitNext, PitStep

-----------------------------------------------------------------------------
(* Where the running call is.                                              *)

\* A step of the lookup() of a call ends it with the entry of the name, or stays
\* in it.
LEMMA SeekRuns ==
  ASSUME PitTableInv, call = "seek", Step
  PROVE  \/ /\ pc' = "idle" /\ NextPrefix
            /\ entry \in live /\ m_prefix[entry] = name
         \/ /\ pc' \in {"insert", "inserted", "grown", "resize", "undefined", "abort"}
            /\ pc' = "resize" => after' = "grown"
            /\ name' = name
<1>1. /\ TreeInv
      /\ pc \in {"insert", "inserted", "grown", "resize", "undefined", "abort"}
      /\ pc = "resize" => after = "grown"
  BY PitTableTypes DEF PitTableInv, CallRuns
<1>2. CASE \/ InsertWalk \/ InsertFound \/ InsertUndefined
           \/ \E a \in Addr \ live : InsertNew(a)
  BY <1>1, <1>2 DEF InsertWalk, InsertFound, InsertUndefined, InsertNew, Stop, locals
<1>3. CASE Grow
  BY <1>3 DEF Grow, BeginResize, locals
<1>4. CASE ResizeWalk \/ ResizeLink \/ ResizeNextBucket \/ ResizeEnd \/ ResizeUndefined
  BY <1>1, <1>4 DEF ResizeWalk, ResizeLink, ResizeNextBucket, ResizeEnd, ResizeUndefined,
     Stop, locals
<1>5. CASE EraseNotEmpty \/ EraseUndefined \/ EraseEmpty
  BY <1>1, <1>5 DEF EraseNotEmpty, EraseUndefined, EraseEmpty
<1>6. CASE NextPrefix
  <2>1. CASE i < Len(name)
    BY <1>6, <2>1 DEF NextPrefix, BeginInsert
  <2>2. CASE ~(i < Len(name))
    <3>1. pc' = "idle" /\ pc \in {"inserted", "grown"}
      BY <1>6, <2>2 DEF NextPrefix, Return
    <3>2. entry \in live /\ m_prefix[entry] = GetPrefix(name, i)
      BY <1>1, <3>1 DEF TreeInv, CallPosition, Prefix
    <3>3. name \in Seq(Component) /\ Len(name) \in Nat /\ i \in 0 .. Len(name)
      BY <1>1, ChainTypes, NameAssumption, LenProperties
    <3>4. i = Len(name)
      BY <2>2, <3>3
    <3>5. GetPrefix(name, Len(name)) = name
      BY <3>3, InitialFacts DEF GetPrefix, Initial
    <3> QED
      BY <1>6, <3>1, <3>2, <3>4, <3>5
  <2> QED
    BY <2>1, <2>2
<1> QED
  BY <1>2, <1>3, <1>4, <1>5, <1>6 DEF Step

LEMMA EraseRuns ==
  ASSUME PitTableInv, call = "erase", Step
  PROVE  /\ pc' \in {"idle", "erase", "undefined"}
         /\ EraseNotEmpty \/ EraseUndefined \/ EraseEmpty
<1>1. pc \in {"erase", "undefined", "abort"}
  BY DEF PitTableInv, CallRuns
<1> QED
  BY <1>1 DEF Step, InsertWalk, InsertFound, InsertUndefined, InsertNew, Grow, NextPrefix,
     ResizeWalk, ResizeLink, ResizeNextBucket, ResizeEnd, ResizeUndefined,
     EraseNotEmpty, EraseUndefined, EraseEmpty, EraseParent, Return

LEMMA CallRunsNext ==
  ASSUME PitTableInv, [PitNext]_<<vars, pitVars>>
  PROVE  CallRuns'
<1>1. TreeInv /\ CallRuns /\ \A x \in Interest : x # NoInterest
  BY PitTableTypes, InterestAssumption DEF PitTableInv
<1>2. ASSUME UNCHANGED <<vars, pitVars>> PROVE CallRuns'
  BY <1>1, <1>2 DEF CallRuns, vars, pitVars, tree, locals, rehash, FibNames
<1>3. ASSUME NEW x \in Interest, BeginInsertInterest(x) PROVE CallRuns'
  BY <1>1, <1>3 DEF BeginInsertInterest, Lookup, BeginInsert, CallRuns
<1>4. ASSUME NEW n \in Name \ FibNames, BeginSetFib(n) PROVE CallRuns'
  <2>1. /\ pc' = "insert" /\ name' = n /\ call' = "seek"
        /\ UNCHANGED <<live, m_prefix, content, pitEntries, arg>>
    BY <1>4 DEF BeginSetFib, Lookup, BeginInsert, tree
  <2>2. FibNames' = FibNames
    BY <2>1 DEF FibNames
  <2>3. call = "ready"
    BY <1>4 DEF BeginSetFib
  <2> QED
    BY <1>1, <1>4, <2>1, <2>2, <2>3 DEF CallRuns
<1>5. CASE SeekStep
  <2>1. /\ call = "seek" /\ Step /\ UNCHANGED <<pitEntries, arg>>
        /\ IF pc' = "idle" THEN call' = "found" /\ nameTreeEntry' = entry
           ELSE UNCHANGED <<call, nameTreeEntry>>
        /\ IF arg = NoInterest THEN name \notin FibNames ELSE name = arg.name
    BY <1>1, <1>5 DEF SeekStep, CallRuns
  <2>2. FibNames' = FibNames
    BY <2>1, StepView
  <2>3. CASE pc' = "idle"
    <3>1. NextPrefix /\ entry \in live /\ m_prefix[entry] = name
      BY <2>1, <2>3, SeekRuns
    <3>2. live' = live /\ m_prefix' = m_prefix
      BY <3>1 DEF NextPrefix, tree
    <3> QED
      BY <2>1, <2>2, <2>3, <3>1, <3>2 DEF CallRuns
  <2>4. CASE pc' # "idle"
    BY <2>1, <2>2, <2>4, SeekRuns DEF CallRuns
  <2> QED
    BY <2>3, <2>4
<1>6. CASE EraseStep
  <2>1. /\ call = "erase" /\ Step /\ arg = NoInterest
        /\ IF pc' = "idle" THEN call' = "ready" /\ arg' = NoInterest
           ELSE UNCHANGED <<call, arg>>
    BY <1>1, <1>6 DEF EraseStep, PitReturn, CallRuns
  <2>2. pc' \in {"idle", "erase", "undefined"}
    BY <2>1, EraseRuns
  <2> QED
    BY <2>1, <2>2 DEF CallRuns
<1>7. CASE ReturnExisting \/ SetFibEntry
           \/ \E e \in PitEntry \ (Pending \cup held) : InsertPitEntry(e)
  <2>1. call = "found" /\ call' = "ready" /\ arg' = NoInterest /\ pc' = pc
    BY <1>7 DEF ReturnExisting, SetFibEntry, InsertPitEntry, PitReturn, AddContent, vars
  <2> QED
    BY <1>1, <2>1 DEF CallRuns
<1>8. ASSUME \/ \E e \in held : Remove(e)
             \/ \E n \in Name : DeleteFib(n)
      PROVE  CallRuns'
  <2>1. PICK found : /\ found \in live /\ nameTreeEntry' = found
                     /\ call = "ready" /\ call' = "removed" /\ UNCHANGED <<arg, pc, live>>
    BY <1>8 DEF Remove, DeleteFib, Finds, UpdateIsEmpty, RemoveContent, vars, tree
  <2> QED
    BY <1>1, <2>1 DEF CallRuns
<1>9. ASSUME NEW e \in held, RemoveStops(e) \/ Drop(e) PROVE CallRuns'
  <2>1. /\ call = "ready" /\ call' \in {"ready", "abort", "undefined"} /\ UNCHANGED <<arg, pc>>
    BY <1>9 DEF RemoveStops, Drop, vars
  <2> QED
    BY <1>1, <2>1 DEF CallRuns
<1>10. CASE BeginErase
  <2>1. call = "removed" /\ call' = "erase" /\ pc' = "erase" /\ arg' = arg
    BY <1>10 DEF BeginErase, Erase
  <2> QED
    BY <1>1, <2>1 DEF CallRuns
<1> QED
  BY <1>2, <1>3, <1>4, <1>5, <1>6, <1>7, <1>8, <1>9, <1>10 DEF PitNext, PitStep

-----------------------------------------------------------------------------
(* Nothing unused is left behind.                                          *)

\* The entry of the next prefix is found below the one of the last prefix, which
\* therefore is in use.
LEMMA FoundBelow ==
  ASSUME TreeInv, ChainsSound, InsertFound, entry # Null
  PROVE  m_children[entry] # <<>>
<1>1. /\ pc = "insert" /\ node \in live /\ m_prefix[node] = GetPrefix(name, i)
  BY DEF InsertFound, Prefix
<1>2. /\ i # 0 /\ entry \in live /\ m_prefix[entry] = GetPrefix(name, i - 1)
  BY <1>1 DEF TreeInv, CallPosition
<1>3. /\ GetPrefix(name, i) # <<>>
      /\ GetPrefix(GetPrefix(name, i), i - 1) = GetPrefix(name, i - 1)
      /\ Len(GetPrefix(name, i)) = i
  BY <1>2, ChainTypes, PrefixFacts
<1>4. m_parent[node] # Null
  BY <1>1, <1>3 DEF TreeInv, TreeConsistent, HasParent
<1>5. m_parent[node] \in live /\ m_prefix[m_parent[node]] = GetPrefix(name, i - 1)
  BY <1>1, <1>3, <1>4, ParentName
<1>6. m_parent[node] = entry
  BY <1>2, <1>5 DEF ChainsSound
<1> QED
  BY <1>1, <1>4, <1>6, ChildOf, EmptySeq

\* A step of lookup() or eraseEntryIfEmpty() in a table that is not damaged.
LEMMA SeekUnused ==
  ASSUME PitTableInv, ~damaged, ChainsSound, call = "seek", Step,
         NEW a \in live', IsEmpty(a)'
  PROVE  IF pc' = "idle" THEN a = entry ELSE a = entry'
<1>1. /\ TreeInv /\ content \in [Addr -> SUBSET Content] /\ m_children \in [Addr -> Seq(Addr)]
      /\ live \subseteq Addr /\ Null \notin Addr
      /\ \A b \in live : IsEmpty(b) => b = entry
  BY PitTableTypes, HeapAssumption
     DEF PitTableInv, OneUnused, Current, TreeInv, TypeInv, TypeOK
<1>2. pc \in {"insert", "inserted", "grown", "resize", "undefined", "abort"}
  BY DEF PitTableInv, CallRuns
<1>3. ASSUME NEW b \in Addr \ live, InsertNew(b) PROVE a = entry' /\ pc' # "idle"
  <2>1. /\ live' = live \cup {b} /\ entry' = b /\ pc' = "inserted"
        /\ content' = [content EXCEPT ![b] = {}]
        /\ m_children' = IF entry = Null
                         THEN [m_children EXCEPT ![b] = <<>>]
                         ELSE [m_children EXCEPT ![b] = <<>>, ![entry] = Append(@, b)]
        /\ pc = "insert"
    BY <1>3 DEF InsertNew
  <2>2. entry # Null => entry \in live
    BY <1>1, <2>1 DEF TreeInv, CallPosition
  <2>3. ASSUME a \in live PROVE FALSE
    <3>1. content'[a] = content[a] /\ content[a] = {}
      BY <1>1, <2>1, <2>3 DEF IsEmpty
    <3>2. CASE a = entry
      <4>1. m_children'[entry] = Append(m_children[entry], b)
        BY <1>1, <2>1, <2>2, <2>3, <3>2
      <4>2. Append(m_children[entry], b) # <<>>
        BY <1>1, <2>3, <3>2, AppendFacts
      <4> QED
        BY <3>2, <4>1, <4>2 DEF IsEmpty
    <3>3. CASE a # entry
      <4>1. m_children'[a] = m_children[a]
        BY <1>1, <2>1, <2>2, <2>3, <3>3
      <4> QED
        BY <1>1, <2>3, <3>1, <3>3, <4>1 DEF IsEmpty
    <3> QED
      BY <3>2, <3>3
  <2> QED
    BY <2>1, <2>3
<1>4. CASE InsertFound
  <2>1. /\ UNCHANGED <<live, m_children, content>> /\ pc' = "inserted" /\ pc = "insert"
        /\ node \in live
    BY <1>4 DEF InsertFound, tree
  <2>2. a = entry /\ m_children[a] = <<>>
    BY <1>1, <2>1 DEF IsEmpty
  <2>3. entry # Null
    BY <1>1, <2>1, <2>2
  <2> QED
    BY <1>1, <1>4, <2>2, <2>3, FoundBelow
<1>5. CASE ~InsertFound /\ ~ \E b \in Addr \ live : InsertNew(b)
  <2>1. /\ UNCHANGED <<live, m_children, content>>
        /\ entry' = entry \/ pc' = "idle" \/ (NextPrefix /\ i < Len(name))
    BY <1>2, <1>5 DEF Step, tree, locals, InsertWalk, InsertUndefined, Grow, NextPrefix,
       ResizeWalk, ResizeLink, ResizeNextBucket, ResizeEnd, ResizeUndefined,
       EraseNotEmpty, EraseUndefined, EraseEmpty, BeginResize, Stop, Return
  <2>2. NextPrefix /\ i < Len(name) => entry' = entry
    BY DEF NextPrefix
  <2>3. a = entry
    BY <1>1, <2>1 DEF IsEmpty
  <2> QED
    BY <2>1, <2>2, <2>3
<1> QED
  BY <1>3, <1>4, <1>5

LEMMA EraseUnused ==
  ASSUME PitTableInv, ~damaged, call = "erase", Step, pc' # "undefined",
         NEW a \in live', IsEmpty(a)'
  PROVE  pc' # "idle" /\ a = entry'
<1>1. /\ TreeInv /\ content \in [Addr -> SUBSET Content] /\ m_children \in [Addr -> Seq(Addr)]
      /\ live \subseteq Addr /\ Null \notin Addr
      /\ \A b \in live : IsEmpty(b) => b = entry
  BY PitTableTypes, HeapAssumption
     DEF PitTableInv, OneUnused, Current, TreeInv, TypeInv, TypeOK
<1>2. EraseNotEmpty \/ EraseEmpty
  BY EraseRuns DEF EraseUndefined
<1>3. CASE EraseNotEmpty
  BY <1>1, <1>3 DEF EraseNotEmpty, tree, IsEmpty
<1>4. CASE EraseEmpty
  <2>1. /\ pc = "erase" /\ live' = live \ {entry} /\ content' = content /\ Unparent
        /\ EraseParent
    BY <1>4 DEF EraseEmpty, Discard
  <2>2. a \in live /\ a # entry /\ content[a] = {}
    BY <2>1 DEF IsEmpty
  <2>3. CASE m_parent[entry] = Null
    BY <1>1, <2>1, <2>2, <2>3 DEF Unparent, IsEmpty
  <2>4. CASE m_parent[entry] # Null
    <3>1. PICK v : m_children' = [m_children EXCEPT ![m_parent[entry]] = v]
      BY <2>1, <2>4 DEF Unparent
    <3>2. a = m_parent[entry]
      BY <1>1, <2>2, <3>1 DEF IsEmpty
    <3> QED
      BY <2>1, <2>4, <3>2 DEF EraseParent
  <2> QED
    BY <2>3, <2>4
<1> QED
  BY <1>2, <1>3, <1>4

\* Between calls of the Pit no entry is unused, and eraseEntryIfEmpty() is called
\* for the one that a call has emptied.
LEMMA OneUnusedNext ==
  ASSUME PitTableInv, [PitNext]_<<vars, pitVars>>, ~damaged'
  PROVE  OneUnused' /\ call' # "undefined"
<1>1. [Next]_vars
  BY TableFollows
<1>2. ~damaged
  BY <1>1, DamageStays
<1>3. /\ TreeInv /\ ChainsSound /\ CallRuns /\ ListsCarried /\ InterestKept
      /\ OneUnused /\ call # "undefined"
  BY <1>2, PitTableTypes DEF PitTableInv, ChainInv, ChainsCorrect
<1>4. pc' # "undefined"
  BY <1>1, ChainNext DEF PitTableInv, ChainInv, ChainsCorrect
<1>5. Null \notin live /\ live \subseteq Addr
  BY PitTableTypes, HeapAssumption
<1>6. ASSUME UNCHANGED <<live, m_children, content>>, Current' = Current \/ Current = Null
      PROVE  OneUnused'
  BY <1>3, <1>5, <1>6 DEF OneUnused, IsEmpty
<1>7. call = "ready" => Current = Null
  BY DEF Current
<1>8. CASE UNCHANGED <<vars, pitVars>>
  <2>1. Current' = Current
    BY <1>8 DEF vars, locals, pitVars, Current
  <2> QED
    BY <1>3, <1>6, <1>8, <2>1 DEF vars, tree, pitVars
<1>9. CASE \/ \E x \in Interest : BeginInsertInterest(x)
           \/ \E n \in Name \ FibNames : BeginSetFib(n)
  <2>1. call = "ready" /\ call' = "seek" /\ UNCHANGED <<live, m_children, content>>
    BY <1>9 DEF BeginInsertInterest, BeginSetFib, Lookup, tree
  <2> QED
    BY <1>6, <1>7, <2>1
<1>10. CASE SeekStep
  <2>1. /\ call = "seek" /\ Step
        /\ IF pc' = "idle" THEN call' = "found" /\ nameTreeEntry' = entry ELSE call' = "seek"
    BY <1>10 DEF SeekStep
  <2>2. Current' = IF pc' = "idle" THEN entry ELSE entry'
    BY <2>1 DEF Current
  <2> QED
    BY <1>2, <1>3, <2>1, <2>2, SeekUnused DEF OneUnused
<1>11. CASE ReturnExisting
  <2>1. /\ call = "found" /\ call' = "ready" /\ UNCHANGED <<live, m_children, content>>
        /\ Current = nameTreeEntry /\ nameTreeEntry \in live
    BY <1>3, <1>11 DEF ReturnExisting, PitReturn, vars, tree, CallRuns, Current
  <2>2. PICK k \in DOMAIN pitEntries[nameTreeEntry] : TRUE
    BY <1>11 DEF ReturnExisting, Found
  <2>3. pitEntries[nameTreeEntry] # <<>>
    BY <2>2
  <2>4. content[nameTreeEntry] # {}
    BY <1>3, <1>5, <2>1, <2>3 DEF ListsCarried
  <2> QED
    BY <1>3, <2>1, <2>4 DEF OneUnused, IsEmpty
<1>12. ASSUME NEW c, content' = [content EXCEPT ![nameTreeEntry] = @ \cup {c}],
              UNCHANGED <<live, m_children>>, call = "found", call' = "ready"
       PROVE  OneUnused' /\ call' # "undefined"
  <2>1. Current = nameTreeEntry /\ nameTreeEntry \in live
    BY <1>3, <1>12 DEF CallRuns, Current
  <2>2. /\ \A a \in live : a # nameTreeEntry => content'[a] = content[a]
        /\ content'[nameTreeEntry] # {}
    BY <1>5, <1>12, <2>1, PitTableTypes
  <2> QED
    BY <1>3, <1>12, <2>1, <2>2 DEF OneUnused, IsEmpty
<1>13. CASE \E e \in PitEntry \ (Pending \cup held) : InsertPitEntry(e)
  BY <1>12, <1>13 DEF InsertPitEntry, AddContent, PitReturn
<1>14. CASE SetFibEntry
  BY <1>12, <1>14 DEF SetFibEntry, AddContent, PitReturn
<1>15. ASSUME NEW found, UNCHANGED <<live, m_children>>,
              \A a \in live : a # found => content'[a] = content[a],
              call = "ready", call' = "removed", nameTreeEntry' = found
       PROVE  OneUnused' /\ call' # "undefined"
  <2>1. Current' = found
    BY <1>15 DEF Current
  <2> QED
    BY <1>3, <1>5, <1>7, <1>15, <2>1 DEF OneUnused, IsEmpty
<1>16. ASSUME NEW e \in held, Remove(e) PROVE OneUnused' /\ call' # "undefined"
  <2> DEFINE found == FindExactMatch(interest[e].name)
  <2>1. call = "ready" /\ call' = "removed" /\ nameTreeEntry' = found
    BY <1>16 DEF Remove
  <2> HIDE DEF found
  <2>2. UNCHANGED <<live, m_children>> /\ \A a \in live : a # found => content'[a] = content[a]
    BY <1>16, RemoveFacts DEF found
  <2> QED
    BY <1>15, <2>1, <2>2
<1>17. ASSUME NEW n \in Name, DeleteFib(n) PROVE OneUnused' /\ call' # "undefined"
  <2> DEFINE found == FindExactMatch(n)
  <2>1. call = "ready" /\ call' = "removed" /\ nameTreeEntry' = found
    BY <1>17 DEF DeleteFib
  <2> HIDE DEF found
  <2>2. /\ UNCHANGED <<live, m_children>> /\ found \in live
        /\ content' = [content EXCEPT ![found] = @ \ {"fib"}]
    BY <1>17, DeleteFibFacts DEF found
  <2>3. \A a \in live : a # found => content'[a] = content[a]
    BY <1>5, <2>2, PitTableTypes
  <2> QED
    BY <1>15, <2>1, <2>2, <2>3
<1>18. ASSUME NEW e \in held, RemoveStops(e) PROVE OneUnused' /\ call' # "undefined"
  <2> DEFINE found == FindExactMatch(interest[e].name)
  <2>1. /\ call = "ready" /\ ~Finds(interest[e].name, found)
        /\ call' = IF found = Null THEN "abort" ELSE "undefined"
        /\ UNCHANGED <<live, m_children, content>>
    BY <1>18 DEF RemoveStops, vars, tree
  <2> HIDE DEF found
  <2>2. interest[e].name \in Name
    BY <1>3, PitTableTypes, InterestAssumption DEF InterestKept
  <2>3. found = Null
    BY <1>3, <2>1, <2>2, ExactMatchFound DEF found, Finds, CallRuns
  <2> QED
    BY <1>6, <1>7, <2>1, <2>3
<1>19. ASSUME NEW e \in held, Drop(e) PROVE OneUnused' /\ call' # "undefined"
  <2>1. call = "ready" /\ call' = "ready" /\ UNCHANGED <<live, m_children, content>>
    BY <1>19 DEF Drop, vars, tree
  <2> QED
    BY <1>6, <1>7, <2>1
<1>20. CASE BeginErase
  <2>1. /\ call = "removed" /\ call' = "erase" /\ entry' = nameTreeEntry
        /\ UNCHANGED <<live, m_children, content>>
    BY <1>20 DEF BeginErase, Erase, tree
  <2>2. Current' = Current
    BY <2>1 DEF Current
  <2> QED
    BY <1>6, <2>1, <2>2
<1>21. CASE EraseStep
  <2>1. /\ call = "erase" /\ Step
        /\ IF pc' = "idle" THEN call' = "ready" ELSE call' = "erase"
    BY <1>21 DEF EraseStep, PitReturn
  <2>2. pc' # "idle" => Current' = entry'
    BY <2>1 DEF Current
  <2> QED
    BY <1>2, <1>4, <2>1, <2>2, EraseUnused DEF OneUnused
<1> QED
  BY <1>8, <1>9, <1>10, <1>11, <1>13, <1>14, <1>16, <1>17, <1>18, <1>19, <1>20, <1>21
     DEF PitNext, PitStep

LEMMA PitTableInit == PitInit => PitTableInv
<1> SUFFICES ASSUME PitInit PROVE PitTableInv
  OBVIOUS
<1>1. /\ Init /\ pitEntries = [a \in Addr |-> <<>>] /\ held = {}
      /\ interest = [e \in PitEntry |-> NoInterest]
      /\ call = "ready" /\ arg = NoInterest
  BY DEF PitInit
<1>2. ChainInv /\ live = {} /\ pc = "idle"
  BY <1>1, ChainInit DEF Init
<1>3. PitTypes
  BY <1>1, EmptySeq DEF PitTypes
<1>4. CallRuns
  BY <1>1, <1>2 DEF CallRuns
<1>5. ListsCarried /\ OneUnused
  BY <1>1, <1>2 DEF ListsCarried, OneUnused
<1>6. InterestKept
  BY <1>1, <1>2 DEF InterestKept, Pending
<1> QED
  BY <1>1, <1>2, <1>3, <1>4, <1>5, <1>6 DEF PitTableInv

LEMMA PitTableNext ==
  ASSUME PitTableInv, [PitNext]_<<vars, pitVars>>
  PROVE  PitTableInv'
<1>1. ChainInv'
  BY ChainNext, TableFollows DEF PitTableInv
<1>2. PitTypes' /\ ListsCarried' /\ InterestKept'
  <2>1. CASE \E e \in PitEntry \ (Pending \cup held) : InsertPitEntry(e)
    BY <2>1, InsertFacts
  <2>2. ASSUME NEW e \in held, Remove(e) PROVE PitTypes' /\ ListsCarried' /\ InterestKept'
    BY <2>2, RemoveFacts
  <2>3. CASE SetFibEntry
    BY <2>3, SetFibFacts
  <2>4. ASSUME NEW n \in Name, DeleteFib(n) PROVE PitTypes' /\ ListsCarried' /\ InterestKept'
    BY <2>4, DeleteFibFacts
  <2> QED
    BY <2>1, <2>2, <2>3, <2>4, OtherSteps
<1> QED
  BY <1>1, <1>2, CallRunsNext, OneUnusedNext DEF PitTableInv

-----------------------------------------------------------------------------
(* The dictionary in a table that is not damaged.                          *)

\* The names and the lists are those of the entries, and the dictionary is the
\* paths to what is used, between calls and during them.
Seen ==
  /\ TreeInv
  /\ \A a, b \in live : m_prefix[a] = m_prefix[b] => a = b
  /\ InUseNames \in SUBSET Name /\ FibNames \in SUBSET Name
  /\ ListOf \in [Name -> Seq(PitEntry)]
  /\ \A a \in live : m_prefix[a] \in Name /\ ListOf[m_prefix[a]] = pitEntries[a]
  /\ \A n \in Name : (\A a \in live : m_prefix[a] # n) => ListOf[n] = <<>>
  /\ InUseNames = FibNames \cup {n \in Name : ListOf[n] # <<>>}
  /\ Pending = UNION {Elements(ListOf[n]) : n \in Name}
  /\ Dictionary = UNION {Initials(m) : m \in InUseNames}

LEMMA SeenHolds == PitTableInv /\ ~damaged => Seen
<1> SUFFICES ASSUME PitTableInv, ~damaged PROVE Seen
  OBVIOUS
<1>1. /\ TreeInv /\ CallRuns /\ ListsCarried /\ OneUnused
      /\ \A a, b \in live : m_prefix[a] = m_prefix[b] => a = b
      /\ live \subseteq Addr /\ Null \notin live
      /\ pitEntries \in [Addr -> Seq(PitEntry)]
      /\ \A a \in live : content[a] \subseteq {"fib", "pit"} /\ m_prefix[a] \in Name
      /\ call # "undefined"
  BY PitTableTypes, HeapAssumption, ContentAssumption
     DEF PitTableInv, ChainInv, ChainsCorrect, ChainsSound
<1>2. InUseNames \in SUBSET Name /\ FibNames \in SUBSET Name
  BY <1>1 DEF InUseNames, FibNames
<1> DEFINE has(n) == \E a \in live : m_prefix[a] = n /\ pitEntries[a] # <<>>
           one(n) == CHOOSE a \in live : m_prefix[a] = n /\ pitEntries[a] # <<>>
<1>3. ListOf = [n \in Name |-> IF has(n) THEN pitEntries[one(n)] ELSE <<>>]
  BY DEF ListOf
<1>4. \A n : has(n) => one(n) \in live /\ m_prefix[one(n)] = n
  OBVIOUS
<1>5. \A a \in live : ~has(m_prefix[a]) => pitEntries[a] = <<>>
  OBVIOUS
<1>6. \A n : (\A a \in live : m_prefix[a] # n) => ~has(n)
  OBVIOUS
<1> HIDE DEF has, one
<1>7. ListOf \in [Name -> Seq(PitEntry)]
  BY <1>1, <1>3, <1>4, EmptySeq
<1>8. \A a \in live : ListOf[m_prefix[a]] = pitEntries[a]
  BY <1>1, <1>3, <1>4, <1>5
<1>9. \A n \in Name : (\A a \in live : m_prefix[a] # n) => ListOf[n] = <<>>
  BY <1>3, <1>6
<1>10. InUseNames = FibNames \cup {n \in Name : ListOf[n] # <<>>}
  <2>1. ASSUME NEW a \in live, content[a] # {}
        PROVE  m_prefix[a] \in FibNames \/ ListOf[m_prefix[a]] # <<>>
    <3>1. "fib" \in content[a] \/ "pit" \in content[a]
      BY <1>1, <2>1
    <3> QED
      BY <1>1, <1>8, <3>1 DEF FibNames, ListsCarried
  <2>2. FibNames \subseteq InUseNames
    BY DEF FibNames, InUseNames
  <2>3. ASSUME NEW n \in Name, ListOf[n] # <<>> PROVE n \in InUseNames
    <3>1. PICK a \in live : m_prefix[a] = n
      BY <1>9, <2>3
    <3>2. "pit" \in content[a]
      BY <1>1, <1>8, <2>3, <3>1 DEF ListsCarried
    <3> QED
      BY <3>1, <3>2 DEF InUseNames
  <2> QED
    BY <1>1, <2>1, <2>2, <2>3 DEF InUseNames
<1>11. Pending = UNION {Elements(ListOf[n]) : n \in Name}
  <2>1. Pending = UNION {Elements(pitEntries[a]) : a \in live}
    BY PendingElements
  <2>2. \A n \in Name : \/ ListOf[n] = <<>>
                        \/ \E a \in live : m_prefix[a] = n /\ ListOf[n] = pitEntries[a]
    BY <1>8, <1>9
  <2>3. Elements(<<>>) = {}
    BY EmptySeq DEF Elements
  <2> QED
    BY <1>1, <1>8, <2>1, <2>2, <2>3
<1>12. Dictionary = Paths
  <2>1. CASE call \in {"ready", "abort"}
    <3>1. \A a \in live : ~IsEmpty(a)
      BY <1>1, <2>1 DEF OneUnused, Current
    <3> QED
      BY <1>1, <2>1, <3>1, StoredPaths DEF Dictionary
  <2>2. CASE call \notin {"ready", "abort"}
    BY <2>2 DEF Dictionary, Paths
  <2> QED
    BY <2>1, <2>2
<1> QED
  BY <1>1, <1>2, <1>7, <1>8, <1>9, <1>10, <1>11, <1>12, PathsAreInitials DEF Seen

\* The list of one entry changes.
LEMMA ListChanges ==
  ASSUME Seen, Seen', UNCHANGED <<live, m_prefix>>, NEW a \in live, NEW l,
         pitEntries \in [Addr -> Seq(PitEntry)], a \in Addr,
         pitEntries' = [pitEntries EXCEPT ![a] = l]
  PROVE  ListOf' = [ListOf EXCEPT ![m_prefix[a]] = l]
<1>1. /\ ListOf \in [Name -> Seq(PitEntry)] /\ ListOf' \in [Name -> Seq(PitEntry)]
      /\ \A b \in live : ListOf[m_prefix[b]] = pitEntries[b] /\ ListOf'[m_prefix[b]] = pitEntries'[b]
      /\ \A n \in Name : (\A b \in live : m_prefix[b] # n) => ListOf[n] = <<>> /\ ListOf'[n] = <<>>
      /\ m_prefix[a] \in Name /\ live \subseteq Addr
  BY ChainTypes DEF Seen
<1>2. ListOf'[m_prefix[a]] = l
  BY <1>1
<1>3. ASSUME NEW n \in Name, n # m_prefix[a] PROVE ListOf'[n] = ListOf[n]
  <2>1. CASE \E b \in live : m_prefix[b] = n
    <3>1. PICK b \in live : m_prefix[b] = n /\ b # a
      BY <1>3, <2>1
    <3>2. pitEntries'[b] = pitEntries[b]
      BY <1>1, <3>1
    <3> QED
      BY <1>1, <3>1, <3>2
  <2>2. CASE \A b \in live : m_prefix[b] # n
    BY <1>1, <2>2
  <2> QED
    BY <2>1, <2>2
<1> DEFINE new == [ListOf EXCEPT ![m_prefix[a]] = l]
<1>4. /\ DOMAIN new = Name /\ new = [n \in Name |-> new[n]]
      /\ new[m_prefix[a]] = l /\ \A n \in Name : n # m_prefix[a] => new[n] = ListOf[n]
  BY <1>1
<1> HIDE DEF new
<1>5. \A n \in Name : ListOf'[n] = new[n]
  BY <1>2, <1>3, <1>4
<1>6. ListOf' = [n \in Name |-> ListOf'[n]]
  BY <1>1
<1> QED
  BY <1>4, <1>5, <1>6 DEF new

-----------------------------------------------------------------------------
(* Each call of the Pit or the FIB is one step of the dictionary.          *)

LEMMA DictionaryFacts ==
  ASSUME Seen
  PROVE  /\ \A n : PitDictionary!Prefixes(n) = Initials(n)
         /\ PitDictionary!Pending = Pending
         /\ PitDictionary!InUse = InUseNames
<1>1. \A n : PitDictionary!Prefixes(n) = Initials(n)
  BY DEF PitDictionary!Prefixes, PitDictionary!GetPrefix, Initials, Initial
<1>2. PitDictionary!Pending = Pending
  BY DEF Seen, PitDictionary!Pending, PitDictionary!Listed, Elements
<1>3. PitDictionary!InUse = InUseNames
  BY DEF Seen, PitDictionary!InUse
<1> QED
  BY <1>1, <1>2, <1>3

\* What the Pit cannot see.
LEMMA Unseen ==
  ASSUME Seen, Seen', InUseNames' = InUseNames, FibNames' = FibNames, ListOf' = ListOf,
         UNCHANGED <<interest, held>>, call' = "abort" <=> call = "abort"
  PROVE  UNCHANGED PitDictionary!vars
<1>1. Dictionary' = Dictionary
  BY DEF Seen
<1>2. (call' = "abort") = (call = "abort")
  OBVIOUS
<1> QED
  BY <1>1, <1>2 DEF PitDictionary!vars

\* A call that puts a name to use makes the path to it.
LEMMA PathMade ==
  ASSUME Seen, Seen', NEW n, InUseNames' = InUseNames \cup {n}
  PROVE  Dictionary' = Dictionary \cup PitDictionary!Prefixes(n)
<1>1. /\ Dictionary = UNION {Initials(m) : m \in InUseNames}
      /\ Dictionary' = UNION {Initials(m) : m \in InUseNames'}
  BY DEF Seen
<1>2. PitDictionary!Prefixes(n) = Initials(n)
  BY DictionaryFacts
<1> QED
  BY ONLY <1>1, <1>2, InUseNames' = InUseNames \cup {n}

\* One that may end the use of a name erases what Erased says.
LEMMA PathErased ==
  ASSUME Seen, Seen', NEW n \in Name,
         InUseNames' \subseteq InUseNames, InUseNames \ {n} \subseteq InUseNames'
  PROVE  Dictionary' = Dictionary \ PitDictionary!Erased(n)
<1>1. PitDictionary!InUse' = InUseNames'
  BY DEF Seen, PitDictionary!InUse
<1>2. PitDictionary!Erased(n) = Unused(Dictionary, InUseNames', n)
  BY <1>1 DEF PitDictionary!Erased, PitDictionary!Children, PitDictionary!Prefixes,
     PitDictionary!GetPrefix, Unused, Initials, Initial
<1>3. /\ n \in Seq(Component)
      /\ InUseNames \in SUBSET Seq(Component) /\ InUseNames' \in SUBSET InUseNames
      /\ Dictionary = UNION {Initials(m) : m \in InUseNames}
      /\ Dictionary' = UNION {Initials(m) : m \in InUseNames'}
  BY NameAssumption DEF Seen
<1> QED
  BY <1>2, <1>3, ErasureExact

LEMMA ImplementsInsertNew ==
  ASSUME PitTableInv, Seen, Seen', NEW e \in PitEntry \ (Pending \cup held), InsertPitEntry(e)
  PROVE  PitDictionary!Next
<1>1. /\ call = "found" /\ Found = {} /\ call' = "ready"
      /\ interest' = [interest EXCEPT ![e] = arg] /\ held' = held \cup {e}
  BY DEF InsertPitEntry, PitReturn
<1>2. /\ nameTreeEntry \in live /\ arg \in Interest /\ m_prefix[nameTreeEntry] = arg.name
      /\ UNCHANGED <<live, m_prefix>>
      /\ pitEntries' = [pitEntries EXCEPT ![nameTreeEntry] = Append(@, e)]
      /\ pitEntries'[nameTreeEntry] # <<>>
      /\ content' = [content EXCEPT ![nameTreeEntry] = @ \cup {"pit"}]
  BY InsertFacts
<1> DEFINE n == arg.name
           l == Append(ListOf[n], e)
<1>3. n \in Name /\ ListOf[n] = pitEntries[nameTreeEntry] /\ ListOf'[n] # <<>>
  <2>1. m_prefix'[nameTreeEntry] = n /\ nameTreeEntry \in live'
    BY <1>2
  <2>2. ListOf'[m_prefix'[nameTreeEntry]] = pitEntries'[nameTreeEntry]
    BY <2>1 DEF Seen
  <2> QED
    BY <1>2, <2>1, <2>2 DEF Seen
<1>4. ListOf' = [ListOf EXCEPT ![n] = Append(@, e)]
  <2>1. pitEntries' = [pitEntries EXCEPT ![nameTreeEntry] = l]
    BY <1>2, <1>3
  <2>2. nameTreeEntry \in Addr
    BY <1>2, PitTableTypes
  <2> HIDE DEF l
  <2>3. ListOf' = [ListOf EXCEPT ![m_prefix[nameTreeEntry]] = l]
    BY <1>2, <2>1, <2>2, ListChanges, PitTableTypes
  <2> QED
    BY <1>2, <2>3 DEF l
<1>5. FibNames' = FibNames
  <2>1. \A a \in live : "fib" \in content'[a] <=> "fib" \in content[a]
    BY <1>2, PitTableTypes
  <2> QED
    BY <1>2, <2>1 DEF FibNames
<1>6. PitDictionary!Found(arg) = {}
  BY <1>1, <1>3 DEF Found, PitDictionary!Found
<1>7. InUseNames' = InUseNames \cup {n}
  <2>1. \A m \in Name : m # n => ListOf'[m] = ListOf[m]
    BY <1>3, <1>4 DEF Seen
  <2> QED
    BY <1>3, <1>5, <2>1 DEF Seen
<1>8. Dictionary' = Dictionary \cup PitDictionary!Prefixes(n)
  BY <1>7, PathMade
<1>9. (call' = "abort") = (call = "abort")
  BY <1>1
<1>10. PitDictionary!InsertNew(arg, e)
  BY <1>1, <1>4, <1>5, <1>6, <1>8, <1>9 DEF PitDictionary!InsertNew
<1> QED
  BY <1>2, <1>10, DictionaryFacts DEF PitDictionary!Next

LEMMA ImplementsInsertExisting ==
  ASSUME PitTableInv, Seen, Seen', ReturnExisting
  PROVE  PitDictionary!Next
<1>1. /\ call = "found" /\ call' = "ready" /\ arg # NoInterest
      /\ UNCHANGED <<live, m_prefix, content, pitEntries, interest>>
  BY DEF ReturnExisting, PitReturn, vars, tree
<1>2. nameTreeEntry \in live /\ arg \in Interest /\ m_prefix[nameTreeEntry] = arg.name
  BY <1>1 DEF PitTableInv, PitTypes, CallRuns
<1> DEFINE n == arg.name
<1>3. n \in Name /\ ListOf[n] = pitEntries[nameTreeEntry]
  BY <1>2 DEF Seen
<1>4. ListOf' = ListOf /\ FibNames' = FibNames /\ InUseNames' = InUseNames
  BY <1>1, QuietView
<1>5. PitDictionary!Found(arg) = Found
  BY <1>3 DEF Found, PitDictionary!Found
<1>6. PICK k \in Found : /\ \A j \in Found : k <= j
                         /\ held' = held \cup {pitEntries[nameTreeEntry][k]}
  BY DEF ReturnExisting
<1>7. n \in InUseNames
  <2>1. ListOf[n] # <<>>
    BY <1>3, <1>6 DEF Found
  <2> QED
    BY <1>3, <2>1 DEF Seen
<1>8. Dictionary' = Dictionary \cup PitDictionary!Prefixes(n)
  BY <1>4, <1>7, PathMade
<1>9. (call' = "abort") = (call = "abort")
  BY <1>1
<1>10. PitDictionary!InsertExisting(arg)
  BY <1>1, <1>3, <1>4, <1>5, <1>6, <1>8, <1>9 DEF PitDictionary!InsertExisting
<1> QED
  BY <1>2, <1>10 DEF PitDictionary!Next

LEMMA ImplementsSetFib ==
  ASSUME PitTableInv, Seen, Seen', SetFibEntry
  PROVE  PitDictionary!Next
<1>1. call = "found" /\ call' = "ready"
  BY DEF SetFibEntry, PitReturn
<1> DEFINE n == m_prefix[nameTreeEntry]
<1>2. /\ nameTreeEntry \in live /\ n \in Name \ FibNames
      /\ UNCHANGED <<live, m_prefix, pitEntries, interest, held>>
      /\ content' = [content EXCEPT ![nameTreeEntry] = @ \cup {"fib"}]
  BY SetFibFacts
<1>3. ListOf' = ListOf
  BY <1>2 DEF ListOf
<1>4. FibNames' = FibNames \cup {n}
  <2>1. \A a \in live : "fib" \in content'[a] <=> "fib" \in content[a] \/ a = nameTreeEntry
    BY <1>2, PitTableTypes
  <2> QED
    BY <1>2, <2>1 DEF FibNames
<1>5. InUseNames' = InUseNames \cup {n}
  BY <1>3, <1>4 DEF Seen
<1>6. Dictionary' = Dictionary \cup PitDictionary!Prefixes(n)
  BY <1>5, PathMade
<1>7. (call' = "abort") = (call = "abort")
  BY <1>1
<1> HIDE DEF n
<1>8. PitDictionary!SetFibEntry(n)
  BY <1>1, <1>2, <1>3, <1>4, <1>6, <1>7 DEF PitDictionary!SetFibEntry
<1> QED
  BY <1>2, <1>8 DEF PitDictionary!Next

LEMMA ImplementsRemove ==
  ASSUME PitTableInv, Seen, Seen', NEW e \in held, Remove(e)
  PROVE  PitDictionary!Next
<1> DEFINE n == interest[e].name
           found == FindExactMatch(n)
           l == PitDictionary!Delete(pitEntries[found], e)
<1>1. call = "ready" /\ call' = "removed" /\ UNCHANGED <<interest, held>>
  BY DEF Remove
<1>2. /\ found \in live /\ m_prefix[found] = n /\ UNCHANGED <<live, m_prefix>>
      /\ pitEntries' = [pitEntries EXCEPT ![found] = l]
      /\ \A a \in live : "fib" \in content'[a] <=> "fib" \in content[a]
  <2> HIDE DEF found
  <2>1. /\ found \in live /\ m_prefix[found] = n /\ UNCHANGED <<live, m_prefix>>
        /\ pitEntries' = [pitEntries EXCEPT ![found] = PitDictionary!Delete(@, e)]
        /\ \A a \in live : a # found => content'[a] = content[a]
        /\ "fib" \in content'[found] <=> "fib" \in content[found]
    BY RemoveFacts DEF found
  <2>2. pitEntries' = [pitEntries EXCEPT ![found] = l]
    BY <2>1
  <2> QED
    BY <2>1, <2>2
<1> HIDE DEF found, l
<1>3. n \in Name /\ ListOf[n] = pitEntries[found] /\ found \in Addr
  BY <1>2, PitTableTypes DEF Seen
<1>4. ListOf' = [ListOf EXCEPT ![n] = l]
  BY <1>2, <1>3, ListChanges, PitTableTypes
<1>5. ListOf' = [ListOf EXCEPT ![n] = PitDictionary!Delete(@, e)]
  BY <1>3, <1>4 DEF l
<1>6. FibNames' = FibNames
  BY <1>2 DEF FibNames
<1>7. InUseNames' \subseteq InUseNames /\ InUseNames \ {n} \subseteq InUseNames'
  <2>1. ListOf[n] = <<>> => l = <<>>
    BY <1>3, DeleteKeeps, PitTableTypes DEF l
  <2>2. ListOf'[n] = l /\ \A m \in Name : m # n => ListOf'[m] = ListOf[m]
    BY <1>3, <1>4 DEF Seen
  <2> QED
    BY <1>6, <2>1, <2>2 DEF Seen
<1>8. Dictionary' = Dictionary \ PitDictionary!Erased(n)
  BY <1>3, <1>7, PathErased
<1>9. n \in Dictionary
  BY <1>1, <1>2 DEF Dictionary, StoredNames
<1>10. (call' = "abort") = (call = "abort")
  BY <1>1
<1>11. PitDictionary!Remove(e)
  BY <1>1, <1>5, <1>6, <1>8, <1>9, <1>10 DEF PitDictionary!Remove
<1> QED
  BY <1>11 DEF PitDictionary!Next

LEMMA ImplementsDeleteFib ==
  ASSUME PitTableInv, Seen, Seen', NEW n \in Name, DeleteFib(n)
  PROVE  PitDictionary!Next
<1> DEFINE found == FindExactMatch(n)
<1>1. call = "ready" /\ call' = "removed"
  BY DEF DeleteFib
<1>2. /\ found \in live /\ m_prefix[found] = n /\ "fib" \in content[found]
      /\ UNCHANGED <<live, m_prefix, pitEntries, interest, held>>
      /\ content' = [content EXCEPT ![found] = @ \ {"fib"}]
  <2> HIDE DEF found
  <2> QED
    BY DeleteFibFacts DEF found
<1> HIDE DEF found
<1>3. ListOf' = ListOf
  BY <1>2 DEF ListOf
<1>4. FibNames' = FibNames \ {n} /\ n \in FibNames
  <2>1. \A a \in live : "fib" \in content'[a] <=> "fib" \in content[a] /\ a # found
    BY <1>2, PitTableTypes
  <2>2. \A a \in live : m_prefix[a] = n => a = found
    BY <1>2 DEF Seen
  <2> QED
    BY <1>2, <2>1, <2>2 DEF FibNames
<1>5. InUseNames' \subseteq InUseNames /\ InUseNames \ {n} \subseteq InUseNames'
  BY <1>3, <1>4 DEF Seen
<1>6. Dictionary' = Dictionary \ PitDictionary!Erased(n)
  BY <1>5, PathErased
<1>7. (call' = "abort") = (call = "abort")
  BY <1>1
<1>8. PitDictionary!DeleteFibEntry(n)
  BY <1>1, <1>2, <1>3, <1>4, <1>6, <1>7 DEF PitDictionary!DeleteFibEntry
<1> QED
  BY <1>4, <1>8 DEF PitDictionary!Next

LEMMA ImplementsRemoveStops ==
  ASSUME PitTableInv, ~damaged, Seen, Seen', call' # "undefined", NEW e \in held, RemoveStops(e)
  PROVE  PitDictionary!Next
<1> DEFINE n == interest[e].name
           found == FindExactMatch(n)
<1>1. /\ call = "ready" /\ ~Finds(n, found)
      /\ call' = IF found = Null THEN "abort" ELSE "undefined"
      /\ UNCHANGED <<live, m_prefix, content, pitEntries, interest, held>>
  BY DEF RemoveStops, vars, tree
<1>2. TreeInv /\ ChainsSound /\ pc = "idle" /\ n \in Name
  <2>1. interest[e] \in Interest
    BY PitTableTypes DEF PitTableInv, InterestKept
  <2> QED
    BY <1>1, <2>1, PitTableTypes, InterestAssumption
       DEF PitTableInv, CallRuns, ChainInv, ChainsCorrect
<1> HIDE DEF found
<1>3. found = Null /\ call' = "abort"
  BY <1>1
<1>4. \A a \in live : m_prefix[a] # n
  <2>1. IF \E a \in live : m_prefix[a] = n THEN Finds(n, found) ELSE found = Null
    BY <1>2, ExactMatchFound DEF found, Finds
  <2> QED
    BY <1>1, <2>1
<1>5. n \notin Dictionary
  BY <1>1, <1>4 DEF Dictionary, StoredNames
<1>6. ListOf' = ListOf /\ FibNames' = FibNames /\ InUseNames' = InUseNames
  BY <1>1, QuietView
<1>7. Dictionary' = Dictionary
  BY <1>6 DEF Seen
<1>8. PitDictionary!RemoveAborts(e)
  BY <1>1, <1>3, <1>5, <1>6, <1>7 DEF PitDictionary!RemoveAborts
<1> QED
  BY <1>8 DEF PitDictionary!Next

LEMMA ImplementsDrop ==
  ASSUME PitTableInv, Seen, Seen', NEW e \in held, Drop(e)
  PROVE  PitDictionary!Next
<1>1. /\ call = "ready" /\ call' = call /\ held' = held \ {e}
      /\ interest' = IF e \in Pending THEN interest ELSE [interest EXCEPT ![e] = NoInterest]
      /\ UNCHANGED <<live, m_prefix, content, pitEntries>>
  BY DEF Drop, vars, tree
<1>2. /\ ListOf' = ListOf /\ FibNames' = FibNames /\ InUseNames' = InUseNames
      /\ Pending' = Pending
  BY <1>1, QuietView
<1>3. Dictionary' = Dictionary
  BY <1>2 DEF Seen
<1>4. PitDictionary!Pending' = Pending
  <2>1. PitDictionary!Pending' = Pending'
    BY DEF Seen, PitDictionary!Pending, PitDictionary!Listed, Elements
  <2> QED
    BY <1>2, <2>1
<1>5. PitDictionary!Release
  <2>1. /\ interest \in [PitEntry -> Interest \cup {NoInterest}]
        /\ \A f \in PitEntry : f \notin Pending \cup held => interest[f] = NoInterest
    BY PitTableTypes DEF PitTableInv, InterestKept
  <2>2. interest' = [f \in PitEntry |-> IF f \in Pending \cup held' THEN interest[f] ELSE NoInterest]
    BY <1>1, <2>1
  <2> QED
    BY <1>4, <2>2 DEF PitDictionary!Release
<1>6. (call' = "abort") = (call = "abort")
  BY <1>1
<1>7. PitDictionary!Drop(e)
  BY <1>1, <1>2, <1>3, <1>5, <1>6 DEF PitDictionary!Drop
<1> QED
  BY <1>7 DEF PitDictionary!Next

LEMMA PitTableImplements ==
  ASSUME PitTableInv, PitTableInv', [PitNext]_<<vars, pitVars>>, ~damaged, Seen, Seen',
         call' # "undefined"
  PROVE  [PitDictionary!Next]_(PitDictionary!vars)
<1>1. CASE UNCHANGED <<vars, pitVars>>
  <2>1. /\ InUseNames' = InUseNames /\ FibNames' = FibNames /\ ListOf' = ListOf
        /\ UNCHANGED <<interest, held, call>>
    BY <1>1, QuietView DEF vars, tree, pitVars
  <2> QED
    BY <2>1, Unseen
<1>2. CASE \/ \E x \in Interest : BeginInsertInterest(x)
           \/ \E n \in Name \ FibNames : BeginSetFib(n)
           \/ BeginErase
  <2>1. /\ UNCHANGED <<live, m_prefix, content, pitEntries, interest, held>>
        /\ call # "abort" /\ call' # "abort"
    BY <1>2 DEF BeginInsertInterest, BeginSetFib, BeginErase, Lookup, Erase, tree
  <2>2. InUseNames' = InUseNames /\ FibNames' = FibNames /\ ListOf' = ListOf
    BY <2>1, QuietView
  <2> QED
    BY <2>1, <2>2, Unseen
<1>3. CASE SeekStep \/ EraseStep
  <2>1. Step /\ UNCHANGED <<pitEntries, interest, held>> /\ call # "abort" /\ call' # "abort"
    BY <1>3 DEF SeekStep, EraseStep, PitReturn
  <2>2. InUseNames' = InUseNames /\ FibNames' = FibNames /\ ListOf' = ListOf
    BY <2>1, StepView
  <2> QED
    BY <2>1, <2>2, Unseen
<1>4. CASE ReturnExisting
  BY <1>4, ImplementsInsertExisting
<1>5. ASSUME NEW e \in PitEntry \ (Pending \cup held), InsertPitEntry(e) PROVE PitDictionary!Next
  BY <1>5, ImplementsInsertNew
<1>6. CASE SetFibEntry
  BY <1>6, ImplementsSetFib
<1>7. ASSUME NEW e \in held, Remove(e) PROVE PitDictionary!Next
  BY <1>7, ImplementsRemove
<1>8. ASSUME NEW n \in Name, DeleteFib(n) PROVE PitDictionary!Next
  BY <1>8, ImplementsDeleteFib
<1>9. ASSUME NEW e \in held, RemoveStops(e) PROVE PitDictionary!Next
  BY <1>9, ImplementsRemoveStops
<1>10. ASSUME NEW e \in held, Drop(e) PROVE PitDictionary!Next
  BY <1>10, ImplementsDrop
<1> QED
  BY <1>1, <1>2, <1>3, <1>4, <1>5, <1>6, <1>7, <1>8, <1>9, <1>10 DEF PitNext, PitStep

LEMMA PitTableBegins == PitInit => PitDictionary!Init
<1> SUFFICES ASSUME PitInit PROVE PitDictionary!Init
  OBVIOUS
<1>1. /\ live = {} /\ call = "ready" /\ held = {}
      /\ interest = [e \in PitEntry |-> NoInterest]
  BY DEF PitInit, Init
<1>2. Dictionary = {} /\ FibNames = {}
  BY <1>1 DEF Dictionary, StoredNames, FibNames
<1>3. ListOf = [n \in Name |-> <<>>]
  BY <1>1 DEF ListOf
<1> QED
  BY <1>1, <1>2, <1>3 DEF PitDictionary!Init

\* On the pointers of the hash table each call of the Pit or the FIB is one step of
\* the dictionary, as long as no node was unlinked through a wrong m_prev: an
\* observer of the Pit sees neither the chains nor the growth of the table in the
\* middle of the lookup() of insert(), and the erasures leave no path behind.
THEOREM PitRunsOnTable == PitOnTableSpec => ImplementsPit
<1>1. PitInit => PitTableInv /\ PitDictionary!Init
  BY PitTableInit, PitTableBegins
<1>2. PitTableInv /\ [PitNext]_<<vars, pitVars>> => PitTableInv'
  BY PitTableNext
<1>3. PitTableInv /\ ~damaged => Seen
  BY SeenHolds
<1>4. PitTableInv' /\ ~damaged' => Seen'
  BY <1>3, PTL
<1>5. PitTableInv /\ PitTableInv' /\ [PitNext]_<<vars, pitVars>>
        => [damaged' \/ PitDictionary!Next]_(PitDictionary!vars)
  <2> SUFFICES ASSUME PitTableInv, PitTableInv', [PitNext]_<<vars, pitVars>>, ~damaged'
               PROVE  [PitDictionary!Next]_(PitDictionary!vars)
    BY Zenon
  <2>1. ~damaged
    BY TableFollows, DamageStays
  <2>2. Seen /\ Seen'
    BY <1>3, <1>4, <2>1
  <2>3. call' # "undefined"
    BY OneUnusedNext
  <2> QED
    BY <2>1, <2>2, <2>3, PitTableImplements
<1> QED
  BY <1>1, <1>2, <1>5, PTL DEF PitOnTableSpec, ImplementsPit

-----------------------------------------------------------------------------
(* findAllDataMatches(): the walk along the parents collects what the      *)
(* walk over the prefixes of the name does.                                *)

\* What findAllDataMatches() of Pit collects for the prefix of k components.
AcceptingAt(d, k) == PitDictionary!Accepting(ListOf[GetPrefix(d, k)], d)

LongestStored(d) == PitDictionary!LongestPrefixMatch(d)

StoredAt(d, k) == CHOOSE a \in live : m_prefix[a] = GetPrefix(d, k)

\* The prefixes of d up to the longest stored one have entries, each with the one
\* before it as its parent, and findLongestPrefixMatch() returns the last of them.
LEMMA EntriesAbove ==
  ASSUME PitTableInv, ~damaged, Seen, call = "ready", NEW d \in Name
  PROVE  /\ LongestStored(d) \in -1 .. Len(d)
         /\ \A k \in 0 .. LongestStored(d) :
              /\ StoredAt(d, k) \in live /\ m_prefix[StoredAt(d, k)] = GetPrefix(d, k)
              /\ m_parent[StoredAt(d, k)] = IF k = 0 THEN Null ELSE StoredAt(d, k - 1)
         /\ FindLongestPrefixMatch(d, Name) =
              IF LongestStored(d) = -1 THEN Null ELSE StoredAt(d, LongestStored(d))
<1> DEFINE L == LongestStored(d)
           lengths == {k \in 0 .. Len(d) : GetPrefix(d, k) \in StoredNames}
           best == FindLongestPrefixMatch(d, Name)
<1>1. /\ TreeInv /\ ChainsSound /\ pc = "idle" /\ Null \notin live
      /\ \A a, b \in live : m_prefix[a] = m_prefix[b] => a = b
      /\ \A a \in live : m_prefix[a] \in Name
  BY HeapAssumption, PitTableTypes
     DEF PitTableInv, ChainInv, ChainsCorrect, CallRuns, Seen
<1>2. /\ Len(d) \in Nat
      /\ \A k \in 0 .. Len(d) : GetPrefix(d, k) \in Name /\ Len(GetPrefix(d, k)) = k
  BY NameAssumption, LenProperties, PrefixFacts
<1>3. L = IF lengths = {} THEN -1 ELSE CHOOSE k \in lengths : \A j \in lengths : j <= k
  BY DEF LongestStored, PitDictionary!LongestPrefixMatch, Dictionary, PitDictionary!GetPrefix,
         GetPrefix
<1>4. lengths \in SUBSET (0 .. Len(d))
  OBVIOUS
<1>5. \A a \in live : IsPrefix(m_prefix[a], d) =>
        Len(m_prefix[a]) \in lengths /\ m_prefix[a] = GetPrefix(d, Len(m_prefix[a]))
  <2> SUFFICES ASSUME NEW a \in live, IsPrefix(m_prefix[a], d)
               PROVE  Len(m_prefix[a]) \in lengths /\ m_prefix[a] = GetPrefix(d, Len(m_prefix[a]))
    OBVIOUS
  <2>1. Len(m_prefix[a]) \in 0 .. Len(d) /\ m_prefix[a] = GetPrefix(d, Len(m_prefix[a]))
    BY <1>1, <1>2, NameAssumption, LenProperties DEF IsPrefix
  <2> QED
    BY <2>1 DEF StoredNames
<1>6. \A k \in lengths : GetPrefix(d, k) \in StoredNames
  OBVIOUS
<1> HIDE DEF L, lengths, best
<1>7. CASE lengths = {}
  <2>1. L = -1 /\ Matches(d, Name) = {}
    BY <1>3, <1>5, <1>7 DEF Matches
  <2>2. best = Null
    BY <1>1, <2>1, LongestMatchFound DEF best
  <2> QED
    BY <1>2, <2>1, <2>2 DEF L, best
<1>8. CASE lengths # {}
  <2>1. L \in lengths /\ L \in 0 .. Len(d) /\ \A j \in lengths : j <= L
    BY <1>2, <1>3, <1>4, <1>8, GreatestNat
  <2>2. PICK c \in live : m_prefix[c] = GetPrefix(d, L)
    BY <1>6, <2>1 DEF StoredNames
  <2>3. ASSUME NEW k \in 0 .. L
        PROVE  StoredAt(d, k) \in live /\ m_prefix[StoredAt(d, k)] = GetPrefix(d, k)
    <3>1. GetPrefix(d, k) \in Name /\ IsPrefix(GetPrefix(d, k), m_prefix[c])
      BY <1>2, <2>1, <2>2, PrefixOfPrefix
    <3>2. GetPrefix(d, k) \in StoredNames
      BY <1>1, <3>1, AncestorStored
    <3> QED
      BY <3>2 DEF StoredNames, StoredAt
  <2>4. ASSUME NEW k \in 0 .. L
        PROVE  m_parent[StoredAt(d, k)] = IF k = 0 THEN Null ELSE StoredAt(d, k - 1)
    <3> DEFINE a == StoredAt(d, k)
    <3>1. /\ a \in live /\ m_prefix[a] = GetPrefix(d, k) /\ k \in 0 .. Len(d)
          /\ Len(m_prefix[a]) = k
      BY <1>2, <2>1, <2>3
    <3> HIDE DEF a
    <3>2. CASE k = 0
      BY <1>1, <3>1, <3>2, ParentName DEF a
    <3>3. CASE k # 0
      <4>1. m_prefix[a] # <<>>
        BY <3>1, <3>3, PrefixFacts
      <4>2. m_parent[a] # Null
        BY <1>1, <3>1, <4>1 DEF TreeInv, TreeConsistent, HasParent
      <4>3. m_parent[a] \in live /\ m_prefix[m_parent[a]] = GetPrefix(m_prefix[a], k - 1)
        BY <1>1, <3>1, <4>2, ParentName
      <4>4. GetPrefix(m_prefix[a], k - 1) = GetPrefix(d, k - 1)
        BY <3>1, <3>3, PrefixFacts
      <4>5. k - 1 \in 0 .. L
        BY <2>1, <3>3
      <4>6. StoredAt(d, k - 1) \in live /\ m_prefix[StoredAt(d, k - 1)] = GetPrefix(d, k - 1)
        BY <2>3, <4>5
      <4> QED
        BY <1>1, <3>3, <4>3, <4>4, <4>6 DEF a
    <3> QED
      BY <3>2, <3>3
  <2>5. best = StoredAt(d, L)
    <3> DEFINE top == StoredAt(d, L)
    <3>1. top \in live /\ m_prefix[top] = GetPrefix(d, L)
      BY <2>1, <2>3
    <3> HIDE DEF top
    <3>2. top \in Matches(d, Name)
      BY <1>1, <1>2, <2>1, <3>1 DEF Matches, IsPrefix
    <3>3. /\ best \in Matches(d, Name)
          /\ IsPrefix(m_prefix[top], m_prefix[best])
      BY <1>1, <3>2, LongestMatchFound DEF best
    <3>4. /\ best \in live /\ Len(m_prefix[best]) \in lengths
          /\ m_prefix[best] = GetPrefix(d, Len(m_prefix[best]))
      BY <1>5, <3>3 DEF Matches
    <3>5. Len(m_prefix[best]) = L
      BY <1>2, <1>4, <2>1, <3>1, <3>3, <3>4 DEF IsPrefix
    <3> QED
      BY <1>1, <3>1, <3>4, <3>5 DEF top
  <2> QED
    BY <1>2, <2>1, <2>3, <2>4, <2>5 DEF L, best
<1> QED
  BY <1>7, <1>8

\* The entries that the walk along the parents visits.
LEMMA WalkPath ==
  ASSUME PitTableInv, ~damaged, Seen, call = "ready", NEW d \in Name
  PROVE  \A k \in 0 .. Len(d) :
           DataPath(d)[k] = IF k <= LongestStored(d) THEN StoredAt(d, LongestStored(d) - k) ELSE Null
<1> DEFINE L == LongestStored(d)
           N == Len(d)
           top == FindLongestPrefixMatch(d, Name)
           P(f) == [k \in 0 .. N |-> IF k = 0 THEN top
                                     ELSE IF f[k - 1] = Null THEN Null ELSE Climb(f[k - 1])]
           way == [k \in 0 .. N |-> IF k <= L THEN StoredAt(d, L - k) ELSE Null]
           path == CHOOSE f : f = P(f)
<1>1. /\ N \in Nat /\ L \in Int /\ -1 <= L /\ L <= N
      /\ \A k \in 0 .. L : /\ StoredAt(d, k) \in live
                           /\ m_parent[StoredAt(d, k)] = IF k = 0 THEN Null ELSE StoredAt(d, k - 1)
      /\ top = IF L = -1 THEN Null ELSE StoredAt(d, L)
      /\ Null \notin live
  <2>1. N \in Nat
    BY NameAssumption, LenProperties
  <2>2. L \in -1 .. N
    BY EntriesAbove
  <2>3. L \in Int /\ -1 <= L /\ L <= N
    BY ONLY <2>1, <2>2
  <2>4. Null \notin live
    BY HeapAssumption, PitTableTypes
  <2> QED
    BY <2>1, <2>3, <2>4, EntriesAbove
<1>2. DataPath(d) = path
  BY DEF DataPath
<1> HIDE DEF L, N, top
<1>3. \A k \in 0 .. N : way[k] = P(way)[k]
  <2> TAKE k \in 0 .. N
  <2>1. CASE k = 0
    <3>1. k <= L <=> L # -1
      BY <1>1, <2>1
    <3>2. L - k = L
      BY <1>1, <2>1
    <3> QED
      BY <1>1, <2>1, <3>1, <3>2
  <2>2. CASE k # 0
    <3>1. k - 1 \in 0 .. N /\ P(way)[k] = IF way[k - 1] = Null THEN Null ELSE Climb(way[k - 1])
      BY <1>1, <2>2
    <3>2. CASE k - 1 <= L
      <4> DEFINE j == L - (k - 1)
      <4>1. j \in 0 .. L /\ j - 1 = L - k /\ (k <= L <=> j # 0)
        BY <1>1, <2>2, <3>2
      <4>2. way[k - 1] = StoredAt(d, j)
        BY <3>1, <3>2
      <4> HIDE DEF j
      <4>3. P(way)[k] = IF j = 0 THEN Null ELSE StoredAt(d, j - 1)
        BY <1>1, <3>1, <4>1, <4>2 DEF Climb
      <4>4. way[k] = IF j = 0 THEN Null ELSE StoredAt(d, j - 1)
        BY <4>1
      <4> HIDE DEF way, P
      <4> QED
        BY <4>3, <4>4
    <3>3. CASE ~ (k - 1 <= L)
      <4>1. way[k - 1] = Null /\ way[k] = Null
        BY <1>1, <3>1, <3>3
      <4> QED
        BY <3>1, <4>1
    <3> QED
      BY <3>2, <3>3
  <2> QED
    BY <2>1, <2>2
<1>4. way = P(way)
  <2>1. way = [k \in 0 .. N |-> way[k]] /\ P(way) = [k \in 0 .. N |-> P(way)[k]]
    OBVIOUS
  <2> HIDE DEF way, P
  <2> QED
    BY <1>3, <2>1
<1>5. \A k \in 0 .. N : way[k] = IF k <= L THEN StoredAt(d, L - k) ELSE Null
  OBVIOUS
<1> HIDE DEF way, path
<1>6. path = P(path)
  <2> HIDE DEF P
  <2> QED
    BY ONLY <1>4, Zenon DEF path
<1>7. path[0] = way[0] /\ \A k \in 0 + 1 .. N : path[k - 1] = way[k - 1] => path[k] = way[k]
  <2>1. 0 \in 0 .. N /\ \A k \in 0 + 1 .. N : k \in 0 .. N /\ k # 0
    BY <1>1
  <2>2. \A f : /\ P(f)[0] = top
               /\ \A k \in 0 + 1 .. N :
                    P(f)[k] = IF f[k - 1] = Null THEN Null ELSE Climb(f[k - 1])
    BY ONLY <2>1
  <2> HIDE DEF P
  <2>3. /\ path[0] = top /\ way[0] = top
        /\ \A k \in 0 + 1 .. N :
             /\ path[k] = IF path[k - 1] = Null THEN Null ELSE Climb(path[k - 1])
             /\ way[k] = IF way[k - 1] = Null THEN Null ELSE Climb(way[k - 1])
    BY ONLY <1>4, <1>6, <2>2, Zenon
  <2> QED
    BY ONLY <2>3, Zenon
<1>8. \A k \in 0 .. N : path[k] = way[k]
  <2> DEFINE A == {k \in 0 .. N : path[k] = way[k]}
  <2>1. 0 \in A /\ \A k \in 0 + 1 .. N : k - 1 \in A => k \in A
    BY <1>1, <1>7
  <2> HIDE DEF A
  <2>2. 0 .. N \subseteq A
    BY ONLY <1>1, <2>1, FromTheLeast
  <2> QED
    BY <2>2 DEF A
<1> QED
  BY <1>2, <1>5, <1>8 DEF L, N

\* The inner loop collects a list of PIT entries.
LEMMA AcceptingType ==
  ASSUME NEW list \in Seq(PitEntry), NEW d
  PROVE  PitDictionary!Accepting(list, d) \in Seq(PitEntry)
<1> DEFINE N == Len(list)
           accepted(k) == <<interest[list[k]], d>> \in MatchesName
           how == [k \in 1 .. N |-> IF accepted(k) THEN "push" ELSE "skip"]
           W(w) == [k \in 0 .. N |->
                      IF k = 0 THEN <<>>
                      ELSE IF accepted(k) THEN Append(w[k - 1], list[k]) ELSE w[k - 1]]
           V(w) == [k \in 0 .. N |->
                      IF k = 0 THEN <<>> ELSE Round(how[k], w[k - 1], list[k])]
           all == Collected(0, N, how, list)
           upTo == CHOOSE w : w = W(w)
<1>1. N \in Nat /\ \A k \in 1 .. N : list[k] \in PitEntry
  BY LenProperties, ElementOfSeq
<1>2. PitDictionary!Accepting(list, d) = upTo[N]
  BY DEF PitDictionary!Accepting
<1> HIDE DEF N, accepted
<1>3. \A k \in 1 .. N : \A x :
        Round(how[k], x, list[k]) = IF accepted(k) THEN Append(x, list[k]) ELSE x
  BY DEF Round
<1> HIDE DEF how
<1>4. \A w : W(w) = V(w)
  <2> TAKE w
  <2>1. \A k \in 0 .. N : W(w)[k] = V(w)[k]
    BY <1>1, <1>3
  <2>2. W(w) = [k \in 0 .. N |-> W(w)[k]] /\ V(w) = [k \in 0 .. N |-> V(w)[k]]
    OBVIOUS
  <2> HIDE DEF W, V
  <2> QED
    BY <2>1, <2>2
<1>5. upTo = all
  <2>1. all = CHOOSE w : w = V(w)
    BY DEF Collected
  <2> HIDE DEF W, V, all
  <2> QED
    BY <1>4, <2>1, Zenon
<1> HIDE DEF W, upTo
<1>6. Yield(0, N, how, list, PitEntry)
  <2>1. \A k \in 1 .. N : \A x \in Seq(PitEntry) :
          (IF accepted(k) THEN Append(x, list[k]) ELSE x) \in Seq(PitEntry)
    BY <1>1, AppendProperties
  <2>2. \A k \in 0 + 1 .. N : k \in 1 .. N
    BY <1>1
  <2>3. \A k \in 0 + 1 .. N : \A x \in Seq(PitEntry) : Round(how[k], x, list[k]) \in Seq(PitEntry)
    BY <1>3, <2>1, <2>2
  <2> QED
    BY <1>1, <2>3 DEF Yield
<1> HIDE DEF all
<1>7. all \in [0 .. N -> Seq(PitEntry)]
  BY ONLY <1>6, RoundsCollect DEF all
<1> QED
  BY <1>1, <1>2, <1>5, <1>7

\* What the walk over the prefixes of the name has collected after each of them.
LEMMA DictionaryWalk ==
  ASSUME Seen, NEW d \in Name
  PROVE  \E w :
           /\ w[-1] = <<>> /\ \A k \in -1 .. Len(d) : w[k] \in Seq(PitEntry)
           /\ \A k \in 0 .. Len(d) : w[k] = AcceptingAt(d, k) \o w[k - 1]
           /\ PitDictionary!FindAllDataMatches(d) = w[LongestStored(d)]
<1> DEFINE N == Len(d)
           found == [k \in 0 .. N |-> AcceptingAt(d, k)]
           how == [k \in 0 .. N |-> "before"]
           W(w) == [k \in -1 .. N |->
                      IF k = -1 THEN <<>> ELSE AcceptingAt(d, k) \o w[k - 1]]
           V(w) == [k \in -1 .. N |->
                      IF k = -1 THEN <<>> ELSE Round(how[k], w[k - 1], found[k])]
           from == CHOOSE w : w = W(w)
           all == Collected(-1, N, how, found)
<1>1. N \in Nat /\ \A k \in 0 .. N : GetPrefix(d, k) \in Name
  BY NameAssumption, LenProperties, PrefixFacts
<1>2. \A k \in 0 .. N : found[k] = AcceptingAt(d, k) /\ found[k] \in Seq(PitEntry)
  <2> TAKE k \in 0 .. N
  <2>1. ListOf[GetPrefix(d, k)] \in Seq(PitEntry)
    BY <1>1 DEF Seen
  <2> QED
    BY <2>1, AcceptingType DEF AcceptingAt
<1>3. PitDictionary!FindAllDataMatches(d) = from[LongestStored(d)]
  BY DEF PitDictionary!FindAllDataMatches, PitDictionary!Matching, PitDictionary!GetPrefix,
         GetPrefix, LongestStored, AcceptingAt
<1> HIDE DEF N, found
<1>4. \A k \in 0 .. N : \A x : Round(how[k], x, found[k]) = found[k] \o x
  BY DEF Round
<1> HIDE DEF how
<1>5. \A w : W(w) = V(w)
  <2> TAKE w
  <2>1. ASSUME NEW k \in -1 .. N PROVE W(w)[k] = V(w)[k]
    <3>1. CASE k = -1
      BY <3>1
    <3>2. CASE k # -1
      <4>1. k \in 0 .. N
        BY <1>1, <3>2
      <4>2. Round(how[k], w[k - 1], found[k]) = AcceptingAt(d, k) \o w[k - 1]
        BY <1>2, <1>4, <4>1
      <4> QED
        BY <3>2, <4>2
    <3> QED
      BY <3>1, <3>2
  <2>2. W(w) = [k \in -1 .. N |-> W(w)[k]] /\ V(w) = [k \in -1 .. N |-> V(w)[k]]
    OBVIOUS
  <2> HIDE DEF W, V
  <2> QED
    BY <2>1, <2>2
<1>6. from = all
  <2>1. all = CHOOSE w : w = V(w)
    BY DEF Collected
  <2> HIDE DEF W, V, all
  <2> QED
    BY <1>5, <2>1, Zenon
<1> HIDE DEF W, from
<1>7. Yield(-1, N, how, found, PitEntry)
  <2>1. \A k \in 0 .. N : \A x \in Seq(PitEntry) : found[k] \o x \in Seq(PitEntry)
    BY <1>2, ConcatProperties
  <2>2. \A k \in -1 + 1 .. N : k \in 0 .. N
    BY <1>1
  <2>3. \A k \in -1 + 1 .. N : \A x \in Seq(PitEntry) : Round(how[k], x, found[k]) \in Seq(PitEntry)
    BY <1>4, <2>1, <2>2
  <2> QED
    BY <1>1, <2>3 DEF Yield
<1> HIDE DEF all
<1>8. /\ all \in [-1 .. N -> Seq(PitEntry)] /\ all[-1] = <<>>
      /\ \A k \in -1 + 1 .. N : all[k] = Round(how[k], all[k - 1], found[k])
  BY ONLY <1>7, RoundsCollect DEF all
<1>9. ASSUME NEW k \in 0 .. N PROVE all[k] = AcceptingAt(d, k) \o all[k - 1]
  <2>1. k \in -1 + 1 .. N
    BY <1>1
  <2> QED
    BY <1>2, <1>4, <1>8, <2>1
<1>10. \A k \in -1 .. N : all[k] \in Seq(PitEntry)
  BY <1>8
<1> QED
  BY <1>3, <1>6, <1>8, <1>9, <1>10 DEF N

\* What the walk along the parents has collected after each round: it comes to the
\* prefixes from the longest stored one to the first, then it is over.
LEMMA ParentWalk ==
  ASSUME PitTableInv, ~damaged, Seen, call = "ready", NEW d \in Name
  PROVE  \E u :
           /\ u[-1] = <<>> /\ \A k \in -1 .. Len(d) : u[k] \in Seq(PitEntry)
           /\ \A k \in 0 .. Len(d) :
                u[k] = IF k <= LongestStored(d)
                       THEN u[k - 1] \o AcceptingAt(d, LongestStored(d) - k) ELSE u[k - 1]
           /\ FindAllDataMatches(d) = u[Len(d)]
<1> DEFINE N == Len(d)
           L == LongestStored(d)
           path == DataPath(d)
           piece(k) == IF path[k] = Null THEN <<>> ELSE Matching(path[k], d)
           found == [k \in 0 .. N |-> piece(k)]
           how == [k \in 0 .. N |-> "behind"]
           W(w) == [k \in -1 .. N |-> IF k = -1 THEN <<>> ELSE w[k - 1] \o piece(k)]
           V(w) == [k \in -1 .. N |->
                      IF k = -1 THEN <<>> ELSE Round(how[k], w[k - 1], found[k])]
           upTo == CHOOSE w : w = W(w)
           all == Collected(-1, N, how, found)
<1>1. N \in Nat /\ L \in Int /\ L <= N /\ Null \notin live
  <2>1. N \in Nat /\ Null \notin live
    BY NameAssumption, LenProperties, HeapAssumption, PitTableTypes
  <2>2. L \in -1 .. N
    BY EntriesAbove
  <2> QED
    BY ONLY <2>1, <2>2
<1>2. FindAllDataMatches(d) = upTo[N]
  BY DEF FindAllDataMatches
<1>3. \A k \in 0 .. N :
        piece(k) = IF k <= L THEN AcceptingAt(d, L - k) ELSE <<>>
  <2> TAKE k \in 0 .. N
  <2>1. path[k] = IF k <= L THEN StoredAt(d, L - k) ELSE Null
    BY WalkPath
  <2> HIDE DEF N, L, path
  <2>2. CASE k <= L
    <3> DEFINE j == L - k
    <3>1. j \in 0 .. L /\ path[k] = StoredAt(d, j)
      BY <1>1, <2>1, <2>2
    <3> HIDE DEF j
    <3>2. StoredAt(d, j) \in live /\ m_prefix[StoredAt(d, j)] = GetPrefix(d, j)
      BY <3>1, EntriesAbove DEF L
    <3>3. pitEntries[StoredAt(d, j)] = ListOf[GetPrefix(d, j)]
      BY <3>2 DEF Seen
    <3>4. path[k] # Null
      BY <1>1, <3>1, <3>2
    <3>5. piece(k) = AcceptingAt(d, j)
      BY <3>1, <3>3, <3>4 DEF Matching, AcceptingAt
    <3> HIDE DEF piece
    <3> QED
      BY <2>2, <3>5 DEF j
  <2>3. CASE ~ (k <= L)
    BY <2>1, <2>3
  <2> QED
    BY <2>2, <2>3
<1> HIDE DEF N, L, path, piece
<1>4. \A k \in 0 .. N : piece(k) \in Seq(PitEntry)
  <2> TAKE k \in 0 .. N
  <2>1. CASE k <= L
    <3> DEFINE j == L - k
    <3>1. j \in 0 .. N /\ piece(k) = AcceptingAt(d, j)
      BY <1>1, <1>3, <2>1
    <3> HIDE DEF j
    <3>2. ListOf[GetPrefix(d, j)] \in Seq(PitEntry)
      BY <3>1, PrefixFacts DEF Seen, N
    <3> QED
      BY <3>1, <3>2, AcceptingType DEF AcceptingAt
  <2>2. CASE ~ (k <= L)
    BY <1>3, <2>2, EmptySeq
  <2> QED
    BY <2>1, <2>2
<1>5. \A k \in 0 .. N : found[k] = piece(k) /\ \A x : Round(how[k], x, found[k]) = x \o piece(k)
  BY DEF Round
<1> HIDE DEF found, how
<1>6. \A w : W(w) = V(w)
  <2> TAKE w
  <2>1. ASSUME NEW k \in -1 .. N PROVE W(w)[k] = V(w)[k]
    <3>1. CASE k = -1
      BY <3>1
    <3>2. CASE k # -1
      <4>1. k \in 0 .. N
        BY <1>1, <3>2
      <4>2. Round(how[k], w[k - 1], found[k]) = w[k - 1] \o piece(k)
        BY <1>5, <4>1
      <4> QED
        BY <3>2, <4>2
    <3> QED
      BY <3>1, <3>2
  <2>2. W(w) = [k \in -1 .. N |-> W(w)[k]] /\ V(w) = [k \in -1 .. N |-> V(w)[k]]
    OBVIOUS
  <2> HIDE DEF W, V
  <2> QED
    BY <2>1, <2>2
<1>7. upTo = all
  <2>1. all = CHOOSE w : w = V(w)
    BY DEF Collected
  <2> HIDE DEF W, V, all
  <2> QED
    BY <1>6, <2>1, Zenon
<1> HIDE DEF W, upTo
<1>8. Yield(-1, N, how, found, PitEntry)
  <2>1. \A k \in 0 .. N : \A x \in Seq(PitEntry) : x \o piece(k) \in Seq(PitEntry)
    BY <1>4, ConcatProperties
  <2>2. \A k \in -1 + 1 .. N : k \in 0 .. N
    BY <1>1
  <2>3. \A k \in -1 + 1 .. N : \A x \in Seq(PitEntry) : Round(how[k], x, found[k]) \in Seq(PitEntry)
    BY <1>5, <2>1, <2>2
  <2> QED
    BY <1>1, <2>3 DEF Yield
<1> HIDE DEF all
<1>9. /\ all \in [-1 .. N -> Seq(PitEntry)] /\ all[-1] = <<>>
      /\ \A k \in -1 + 1 .. N : all[k] = Round(how[k], all[k - 1], found[k])
  BY ONLY <1>8, RoundsCollect DEF all
<1>10. \A k \in -1 .. N : all[k] \in Seq(PitEntry)
  BY <1>9
<1>11. ASSUME NEW k \in 0 .. N
       PROVE  all[k] = IF k <= L THEN all[k - 1] \o AcceptingAt(d, L - k) ELSE all[k - 1]
  <2>1. k \in -1 + 1 .. N /\ k - 1 \in -1 .. N
    BY <1>1
  <2>2. all[k] = all[k - 1] \o piece(k) /\ all[k - 1] \in Seq(PitEntry)
    BY <1>5, <1>9, <1>10, <2>1
  <2>3. all[k - 1] \o <<>> = all[k - 1]
    BY ONLY <2>2, ConcatEmptySeq
  <2> QED
    BY ONLY <1>3, <2>2, <2>3, k \in 0 .. N
<1> QED
  BY <1>2, <1>7, <1>9, <1>10, <1>11 DEF N, L

\* Both walks collect the same PIT entries in the same order, in every table of
\* every size that is not damaged: the one along the parents of the entries cannot
\* pass by a prefix of the name or leave the path to the root.
THEOREM DataMatchesAreTheSame == PitOnTableSpec => []DataMatchesAgree
<1>1. PitInit => PitTableInv
  BY PitTableInit
<1>2. PitTableInv /\ [PitNext]_<<vars, pitVars>> => PitTableInv'
  BY PitTableNext
<1>3. PitTableInv => DataMatchesAgree
  <2> SUFFICES ASSUME PitTableInv, call = "ready", ~damaged, NEW d \in Name
               PROVE  FindAllDataMatches(d) = PitDictionary!FindAllDataMatches(d)
    BY DEF DataMatchesAgree
  <2> DEFINE N == Len(d)
             L == LongestStored(d)
             m == [k \in 0 .. N |-> AcceptingAt(d, k)]
  <2>1. Seen
    BY SeenHolds
  <2>2. PICK w : /\ w[-1] = <<>> /\ \A k \in -1 .. N : w[k] \in Seq(PitEntry)
                 /\ \A k \in 0 .. N : w[k] = AcceptingAt(d, k) \o w[k - 1]
                 /\ PitDictionary!FindAllDataMatches(d) = w[L]
    BY <2>1, DictionaryWalk
  <2>3. PICK u : /\ u[-1] = <<>> /\ \A k \in -1 .. N : u[k] \in Seq(PitEntry)
                 /\ \A k \in 0 .. N :
                      u[k] = IF k <= L THEN u[k - 1] \o AcceptingAt(d, L - k) ELSE u[k - 1]
                 /\ FindAllDataMatches(d) = u[N]
    BY <2>1, ParentWalk
  <2>4. N \in Nat /\ L \in -1 .. N
    BY <2>1, EntriesAbove, NameAssumption, LenProperties
  <2>5. \A k \in 0 .. N : m[k] = AcceptingAt(d, k) /\ m[k] \in Seq(PitEntry)
    <3> TAKE k \in 0 .. N
    <3>1. ListOf[GetPrefix(d, k)] \in Seq(PitEntry)
      BY <2>1, PrefixFacts DEF Seen
    <3> QED
      BY <3>1, AcceptingType DEF AcceptingAt
  <2> HIDE DEF N, L, m
  <2>6. \A k \in 0 .. N : w[k] = m[k] \o w[k - 1]
    BY <2>2, <2>5
  <2>7. \A k \in 0 .. N : u[k] = IF k <= L THEN u[k - 1] \o m[L - k] ELSE u[k - 1]
    <3> TAKE k \in 0 .. N
    <3>1. k <= L => L - k \in 0 .. N
      BY <2>4
    <3> QED
      BY <2>3, <2>5, <3>1
  <2>8. Joins(N, L, PitEntry, m, w, u)
    BY ONLY <2>2, <2>3, <2>4, <2>5, <2>6, <2>7 DEF Joins
  <2>9. u[N] = w[L]
    BY ONLY <2>8, JoinsAgree
  <2> QED
    BY <2>2, <2>3, <2>9
<1> QED
  BY <1>1, <1>2, <1>3, PTL DEF PitOnTableSpec

=============================================================================
