----------------------- MODULE NameTreeIteratorProofs -----------------------
(***************************************************************************)
(* Proofs about a const_iterator next to a table that changes under it: for *)
(* every set of names, every hash function, every heap, every kind of       *)
(* enumeration and every selector.                                          *)
(*                                                                         *)
(* The first part is about the state of an increment.  The second one       *)
(* proves that an enumeration comes to all that it should, once, although   *)
(* the table changes between its increments: each kind of enumeration has   *)
(* an invariant that says where the entries are that it has passed,         *)
(* FullSweep, TreeSweep and UpSweep.                                        *)
(***************************************************************************)
EXTENDS NameTreeIterator, NameTreeProofs

-----------------------------------------------------------------------------
(* The inductive invariant.                                                *)

\* The iterator has an entry, and the increment is running.
Standing == itPc \in {"rest", "chain", "tree", "up"}
Moving == itPc \in {"chain", "buckets", "tree", "up"}

\* Types, and where the increment of each kind of enumeration can be.
ItShape ==
  /\ ItTypeOK
  /\ Standing => itEntry # Null
  /\ itPc = "none" => itEntry = Null
  /\ Moving => pc = "idle"
  /\ itPc \notin {"buckets", "undefined", "abort"} => newLocation = 0
  /\ itPc \in {"none", "end", "buckets"} => ghosts = <<>>
  /\ itPc \in {"chain", "buckets"} => itType = "full"
  /\ itPc = "tree" => itType = "partial"
  /\ itPc = "up" => itType = "all"

\* The erased entries that the iterator keeps in memory lead from the one it
\* stands on, parent by parent, to the first ancestor that is stored.
ItPath ==
  /\ \A k \in DOMAIN ghosts : ghosts[k].addr \notin live
  /\ \A k \in DOMAIN ghosts :
       k < Len(ghosts) => ghosts[k].parent = ghosts[k + 1].addr
  /\ Standing =>
       /\ IF ghosts = <<>> THEN itEntry \in live ELSE itEntry = ghosts[1].addr
       /\ Kept \in live \cup {Null}

\* n is in the part of the tree that partialEnumerate() was asked for.
Inside(n) ==
  /\ IsPrefix(itPrefix, n)
  /\ \A k \in Len(itPrefix) .. Len(n) - 1 : GetPrefix(n, k) \in visits

\* Where a partial enumeration stands as long as its entry is stored.
InSubTree ==
  /\ itRoot \in live /\ m_prefix[itRoot] = itPrefix
  /\ Inside(m_prefix[itEntry])
  /\ visitChildren => m_prefix[itEntry] \in visits

\* What the iterator was asked for, disturbed or not.
ItAsked ==
  ~damaged =>
    /\ itPc = "buckets" => itNode \in live \cup {Null}
    /\ itPc = "rest" /\ ghosts = <<>> => m_prefix[itEntry] \in accepts
    /\ Standing /\ itType = "all" /\ Kept # Null => IsPrefix(m_prefix[Kept], itPrefix)
    /\ Standing /\ itType = "partial" /\ ghosts = <<>> => InSubTree

\* What the increments rely on, unless the iterator was disturbed.
ItCalm ==
  ~damaged /\ ~disturbed =>
    /\ itPc \notin {"undefined", "abort"}
    /\ Standing /\ itType # "all" => ghosts = <<>>
    /\ Standing /\ itType = "partial" /\ visitChildren => m_children[itEntry] # <<>>
    /\ itPc = "rest" /\ ghosts = <<>> => itEntry \in passed

ItInv == ChainInv /\ ItShape /\ ItPath /\ ItAsked /\ ItCalm

-----------------------------------------------------------------------------
(* Steps.                                                                  *)

\* The steps of the iterator leave the table alone.
LEMMA ItLeavesTable ==
  ASSUME ItNext, ~TableStep
  PROVE  UNCHANGED vars
<1>1. ASSUME NEW S \in Selector, FullEnumerate(S) PROVE UNCHANGED vars
  BY <1>1 DEF FullEnumerate, Begin
<1>2. ASSUME NEW n \in Name, NEW S \in Selector, NEW V \in SubSelector,
             PartialEnumerate(n, S, V)
      PROVE  UNCHANGED vars
  BY <1>2 DEF PartialEnumerate, Begin
<1>3. ASSUME NEW n \in Name, NEW S \in Selector, FindAllMatches(n, S)
      PROVE  UNCHANGED vars
  BY <1>3 DEF FindAllMatches, Begin
<1>4. CASE Increment \/ Drop
  BY <1>4 DEF Increment, Drop
<1>5. CASE ItStep
  BY <1>5 DEF ItStep, ChainStep, ChainUndefined, BucketStep, BucketNext,
     BucketUndefined, TreeDown, TreeUndefined, TreeSibling, TreeAborts, TreeEnd,
     UpStep, ItStop
<1> QED
  BY <1>1, <1>2, <1>3, <1>4, <1>5 DEF ItNext

LEMMA ItTableNext == ItNext => [Next]_vars
<1>1. TableStep => Next
  BY DEF TableStep
<1> QED
  BY <1>1, ItLeavesTable

\* The table in the next state, when it is the same.
LEMMA TableSame ==
  ASSUME UNCHANGED vars
  PROVE  /\ m_nBuckets' = m_nBuckets /\ m_buckets' = m_buckets
         /\ live' = live /\ m_next' = m_next /\ m_prefix' = m_prefix
         /\ m_parent' = m_parent /\ m_children' = m_children
         /\ pc' = pc /\ damaged' = damaged
BY DEF vars, table, links, tree

LEMMA ItTypes ==
  ASSUME ItShape
  PROVE  /\ itEntry \in Pointer /\ itRoot \in Pointer /\ itNode \in Pointer
         /\ itPrefix \in Name /\ accepts \subseteq Name /\ visits \subseteq Name
         /\ visitChildren \in BOOLEAN /\ twice \in BOOLEAN /\ disturbed \in BOOLEAN
         /\ ghosts \in Seq([addr : Addr, prefix : Name, parent : Pointer])
         /\ \A k \in DOMAIN ghosts : /\ ghosts[k].addr \in Addr
                                     /\ ghosts[k].prefix \in Name
                                     /\ ghosts[k].parent \in Pointer
         /\ Len(ghosts) \in Nat /\ DOMAIN ghosts = 1 .. Len(ghosts)
         /\ ghosts # <<>> => Len(ghosts) >= 1
         /\ passed \subseteq live /\ stayed \subseteq live
<1>1. ghosts \in Seq([addr : Addr, prefix : Name, parent : Pointer])
  BY DEF ItShape, ItTypeOK
<1>2. /\ Len(ghosts) \in Nat /\ DOMAIN ghosts = 1 .. Len(ghosts)
      /\ ghosts # <<>> => Len(ghosts) >= 1
  BY <1>1, LenProperties, EmptySeq
<1>3. \A k \in DOMAIN ghosts :
        ghosts[k] \in [addr : Addr, prefix : Name, parent : Pointer]
  BY <1>1, <1>2, ElementOfSeq
<1>4. visitChildren \in BOOLEAN /\ twice \in BOOLEAN /\ disturbed \in BOOLEAN
  BY Zenon DEF ItShape, ItTypeOK
<1>5. /\ itEntry \in Pointer /\ itRoot \in Pointer /\ itNode \in Pointer
      /\ itPrefix \in Name /\ accepts \subseteq Name /\ visits \subseteq Name
      /\ passed \subseteq live /\ stayed \subseteq live
  BY DEF ItShape, ItTypeOK
<1>6. \A k \in DOMAIN ghosts : /\ ghosts[k].addr \in Addr
                              /\ ghosts[k].prefix \in Name
                              /\ ghosts[k].parent \in Pointer
  BY <1>3
<1> QED
  BY <1>1, <1>2, <1>4, <1>5, <1>6

\* The iterator arrives at an entry.
LEMMA Arrives ==
  ASSUME ItShape, live' = live, NEW a, NEW prefix,
         NEW loop, loop # "rest", ArriveAt(a, prefix, loop)
  PROVE  /\ itEntry' = a
         /\ itPc' \in {"rest", loop}
         /\ itPc' = "rest" => prefix \in accepts
         /\ passed' \subseteq live' /\ (a \in live => a \in passed')
         /\ twice' \in BOOLEAN
<1>1. twice' \in BOOLEAN
  BY Zenon DEF ArriveAt
<1>2. passed' \subseteq live' /\ (a \in live => a \in passed')
  BY ItTypes DEF ArriveAt
<1>3. /\ itEntry' = a
      /\ itPc' \in {"rest", loop} /\ (itPc' = "rest" => prefix \in accepts)
  BY DEF ArriveAt
<1> QED
  BY <1>1, <1>2, <1>3

\* The parent of the entry, whether the entry is stored or not.
LEMMA EntryParentType ==
  ASSUME TreeInv, ItShape, ItPath, Standing
  PROVE  /\ EntryParent \in Pointer
         /\ ghosts = <<>> => EntryParent \in live \cup {Null}
<1>1. CASE ghosts = <<>>
  BY <1>1, FamilyTypes, ChainTypes DEF EntryParent, ItPath, Pointer
<1>2. CASE ghosts # <<>>
  BY <1>2, ItTypes DEF EntryParent
<1> QED
  BY <1>1, <1>2

\* Only a stored entry is a child of a stored one.
LEMMA PositionsStored ==
  ASSUME TreeInv, ItShape, ItPath, Standing, NEW k \in Positions
  PROVE  /\ ghosts = <<>> /\ itEntry \in live /\ EntryParent = m_parent[itEntry]
         /\ EntryParent \in live
         /\ k \in DOMAIN m_children[EntryParent]
         /\ m_children[EntryParent][k] = itEntry
<1>1. /\ EntryParent \in live /\ k \in DOMAIN m_children[EntryParent]
      /\ m_children[EntryParent][k] = itEntry
  BY DEF Positions
<1>2. itEntry \in live
  BY <1>1, FamilyTypes
<1>3. ghosts = <<>>
  BY <1>2, ItTypes DEF ItPath
<1> QED
  BY <1>1, <1>2, <1>3 DEF EntryParent

\* The shape in the next state, when the table is the same.
LEMMA ShapeFromParts ==
  ASSUME ItShape, UNCHANGED vars, UNCHANGED <<itArgs, stayed, disturbed>>,
         itEntry' \in Pointer, visitChildren' \in BOOLEAN,
         newLocation' \in 0 .. m_nBuckets, itNode' \in Pointer,
         ghosts' \in Seq([addr : Addr, prefix : Name, parent : Pointer]),
         passed' \subseteq live', twice' \in BOOLEAN,
         itPc' \in {"rest", "end", "chain", "buckets", "tree", "up", "undefined", "abort"},
         Standing' => itEntry' # Null, Moving' => pc = "idle",
         itPc' \notin {"buckets", "undefined", "abort"} => newLocation' = 0,
         itPc' \in {"end", "buckets"} => ghosts' = <<>>,
         itPc' \in {"chain", "buckets"} => itType = "full",
         itPc' = "tree" => itType = "partial",
         itPc' = "up" => itType = "all"
  PROVE  ItShape'
<1>1. itType' = itType /\ UNCHANGED <<itRoot, accepts, visits, itPrefix, stayed, disturbed>>
  BY DEF itArgs
<1>2. m_nBuckets' = m_nBuckets /\ live' = live /\ pc' = pc
  BY TableSame
<1>3. ItTypeOK'
  BY <1>1, <1>2 DEF ItShape, ItTypeOK
<1> QED
  BY <1>1, <1>2, <1>3 DEF ItShape

\* A disturbed iterator promises nothing here.
LEMMA CalmOtherwise ==
  ASSUME damaged \/ disturbed, damaged' = damaged, disturbed' = disturbed
  PROVE  ItCalm'
<1>1. damaged' \/ disturbed'
  BY Zenon
<1> QED
  BY <1>1, Zenon DEF ItCalm

\* The rest of the invariant, when nothing that the iterator is at is erased.
LEMMA RestFromParts ==
  ASSUME UNCHANGED vars, UNCHANGED <<itArgs, stayed, disturbed>>, ghosts' = <<>>,
         Standing' => itEntry' \in live,
         itPc' \notin {"undefined", "abort"},
         itPc' = "rest" => m_prefix[itEntry'] \in accepts /\ itEntry' \in passed',
         ~damaged =>
           /\ itPc' = "buckets" => itNode' \in live \cup {Null}
           /\ Standing' /\ itType = "all" => IsPrefix(m_prefix[itEntry'], itPrefix)
           /\ Standing' /\ itType = "partial" =>
                /\ itRoot \in live /\ m_prefix[itRoot] = itPrefix
                /\ Inside(m_prefix[itEntry'])
                /\ visitChildren' => m_prefix[itEntry'] \in visits,
         ~damaged /\ ~disturbed =>
           (Standing' /\ itType = "partial" /\ visitChildren' => m_children[itEntry'] # <<>>)
  PROVE  ItPath' /\ ItAsked' /\ ItCalm'
<1>1. /\ itType' = itType /\ disturbed' = disturbed
      /\ UNCHANGED <<itRoot, accepts, visits, itPrefix>>
  BY DEF itArgs
<1>2. /\ live' = live /\ m_prefix' = m_prefix /\ m_children' = m_children
      /\ damaged' = damaged
  BY TableSame
<1>3. Kept' = itEntry' /\ DOMAIN ghosts' = {}
  BY EmptySeq DEF Kept
<1>4. ItPath'
  BY <1>2, <1>3 DEF ItPath
<1>5. ASSUME NEW n, Inside(n) PROVE Inside(n)'
  BY <1>1, <1>5 DEF Inside
<1>6. ItAsked'
  <2>1. CASE damaged
    BY <1>2, <2>1, Zenon DEF ItAsked
  <2>2. CASE ~damaged
    <3>1. itPc' = "buckets" => itNode' \in live' \cup {Null}
      BY <1>2, <2>2
    <3>2. itPc' = "rest" => m_prefix'[itEntry'] \in accepts'
      BY <1>1, <1>2
    <3>3. Standing' /\ itType' = "all" => IsPrefix(m_prefix'[Kept'], itPrefix')
      BY <1>1, <1>2, <1>3, <2>2
    <3>4. Standing' /\ itType' = "partial" => InSubTree'
      <4> SUFFICES ASSUME Standing', itType = "partial" PROVE InSubTree'
        BY <1>1
      <4>1. itRoot' \in live' /\ m_prefix'[itRoot'] = itPrefix'
        BY <1>1, <1>2, <2>2
      <4>2. Inside(m_prefix[itEntry])'
        BY <1>1, <1>2, <2>2 DEF Inside
      <4>3. visitChildren' => m_prefix'[itEntry'] \in visits'
        BY <1>1, <1>2, <2>2
      <4> QED
        BY <4>1, <4>2, <4>3 DEF InSubTree
    <3> QED
      BY <3>1, <3>2, <3>3, <3>4 DEF ItAsked
  <2> QED
    BY <2>1, <2>2
<1>7. ItCalm'
  <2>1. CASE damaged \/ disturbed
    <3>1. damaged' = damaged /\ disturbed' = disturbed
      BY <1>1, <1>2
    <3> QED
      BY <2>1, <3>1, CalmOtherwise, Zenon
  <2>2. CASE ~damaged /\ ~disturbed
    BY <1>1, <1>2, <2>2 DEF ItCalm
  <2> QED
    BY <2>1, <2>2, Zenon
<1> QED
  BY <1>4, <1>6, <1>7

\* The next state after an increment that is undefined or asserts.
LEMMA ItStopKeeps ==
  ASSUME ItInv, NEW how \in {"undefined", "abort"}, ItStop(how), damaged \/ disturbed
  PROVE  ItShape' /\ ItPath' /\ ItAsked' /\ ItCalm'
<1>1. /\ itPc' = how /\ UNCHANGED vars
      /\ UNCHANGED <<itArgs, itEntry, visitChildren, itLoop, ghosts, passed, stayed,
                     twice, disturbed>>
  BY DEF ItStop
<1>2. /\ live' = live /\ damaged' = damaged /\ m_nBuckets' = m_nBuckets
      /\ disturbed' = disturbed /\ ~Standing' /\ ~Moving'
  BY <1>1, TableSame DEF Standing, Moving
<1>3. ItShape'
  <2>1. newLocation' \in 0 .. m_nBuckets /\ itNode' \in Pointer
    BY <1>1 DEF ItInv, ItShape, ItTypeOK, itLoop
  <2> QED
    BY <1>1, <1>2, <2>1, ShapeFromParts, ItTypes DEF ItInv
<1>4. ItPath'
  BY <1>1, <1>2 DEF ItInv, ItPath
<1>5. ItAsked'
  BY <1>1, <1>2 DEF ItAsked
<1>6. ItCalm'
  <2>1. damaged' = damaged /\ disturbed' = disturbed
    BY <1>2
  <2> QED
    BY <2>1, CalmOtherwise, Zenon
<1> QED
  BY <1>3, <1>4, <1>5, <1>6

\* Between calls the chains lead from entry to entry.
LEMMA IdleChains ==
  ASSUME ChainInv, pc = "idle", ~damaged
  PROVE  /\ \A b \in 0 .. m_nBuckets - 1 : m_buckets[b] \in live \cup {Null}
         /\ \A a \in live : m_next[a] \in live \cup {Null}
<1>1. TreeInv /\ ChainsSound
  BY DEF ChainInv, ChainsCorrect
<1> QED
  BY <1>1, SoundChain, ChainTypes DEF Chained, HeadsIn, NextIn

LEMMA FirstNodeType ==
  ASSUME ChainInv, pc = "idle", NEW b \in 0 .. m_nBuckets
  PROVE  /\ FirstNode(b) \in Pointer
         /\ ~damaged => FirstNode(b) \in live \cup {Null}
<1>1. /\ m_nBuckets \in Nat \ {0} /\ m_buckets \in [0 .. m_nBuckets - 1 -> Pointer]
      /\ Null \in Pointer
  BY ChainTypes DEF ChainInv, Pointer
<1> QED
  BY <1>1, IdleChains DEF FirstNode

\* fullEnumerate(): along the chain of the entry it stands on.
LEMMA ChainStepKeeps ==
  ASSUME ItInv, ChainStep
  PROVE  ItShape' /\ ItPath' /\ ItAsked' /\ ItCalm'
<1>1. /\ itPc = "chain" /\ itEntry \in live /\ m_next[itEntry] \in live \cup {Null}
      /\ UNCHANGED vars
      /\ UNCHANGED <<itArgs, visitChildren, ghosts, stayed, disturbed>>
  BY DEF ChainStep
<1>2. /\ itType = "full" /\ pc = "idle" /\ newLocation = 0 /\ Standing
      /\ itEntry \in Addr /\ live \subseteq Addr /\ TreeInv /\ ChainInv
      /\ m_nBuckets \in Nat \ {0} /\ live' = live
  BY <1>1, ChainTypes, TableSame DEF ItInv, ItShape, Moving, Standing, ChainInv
<1>3. ghosts = <<>>
  BY <1>1, <1>2, ItTypes DEF ItInv, ItPath
<1>4. CASE m_next[itEntry] # Null
  <2>1. /\ ArriveAt(m_next[itEntry], m_prefix[m_next[itEntry]], "chain")
        /\ UNCHANGED itLoop /\ m_next[itEntry] \in live
    BY <1>1, <1>4 DEF ChainStep
  <2>2. /\ itEntry' \in live /\ itPc' \in {"rest", "chain"}
        /\ itPc' = "rest" => m_prefix[itEntry'] \in accepts
        /\ passed' \subseteq live' /\ itEntry' \in passed' /\ twice' \in BOOLEAN
    BY <1>2, <2>1, Arrives DEF ItInv
  <2>3. newLocation' = 0 /\ itNode' \in Pointer
    BY <1>2, <2>1, ItTypes DEF itLoop, ItInv
  <2>4. itEntry' \in Pointer /\ itEntry' # Null
    BY <1>2, <2>2, ChainTypes DEF Pointer
  <2>5. ItShape'
    BY <1>1, <1>2, <1>3, <2>2, <2>3, <2>4, ShapeFromParts, ItTypes DEF ItInv
  <2> QED
    BY <1>1, <1>2, <1>3, <2>2, <2>5, RestFromParts
<1>5. CASE m_next[itEntry] = Null
  <2>1. /\ itPc' = "buckets" /\ newLocation' = NextBucket
        /\ itNode' = FirstNode(NextBucket)
        /\ UNCHANGED <<itEntry, passed, twice>>
    BY <1>1, <1>5, ChainTypes, <1>2 DEF ChainStep
  <2>2. NextBucket \in 0 .. m_nBuckets
    <3>1. Location(m_prefix[itEntry], m_nBuckets) \in 0 .. m_nBuckets - 1
      BY <1>1, <1>2, FamilyTypes, LocationInTable
    <3> QED
      BY <1>2, <3>1 DEF NextBucket
  <2>3. itNode' \in Pointer /\ (~damaged => itNode' \in live \cup {Null})
    BY <1>2, <2>1, <2>2, FirstNodeType
  <2>4. ~Standing'
    BY <2>1 DEF Standing
  <2>5. ItShape'
    BY <1>1, <1>2, <1>3, <2>1, <2>2, <2>3, <2>4, ShapeFromParts, ItTypes DEF ItInv
  <2> QED
    BY <1>1, <1>2, <1>3, <2>1, <2>3, <2>4, <2>5, RestFromParts
<1> QED
  BY <1>4, <1>5

\* fullEnumerate(): along the chains of the buckets behind.
LEMMA BucketStepsKeep ==
  ASSUME ItInv, BucketStep \/ BucketNext
  PROVE  ItShape' /\ ItPath' /\ ItAsked' /\ ItCalm'
<1>1. /\ itPc = "buckets" /\ UNCHANGED vars
      /\ UNCHANGED <<itArgs, visitChildren, ghosts, stayed, disturbed>>
  BY DEF BucketStep, BucketNext
<1>2. /\ itType = "full" /\ pc = "idle" /\ ghosts = <<>> /\ TreeInv /\ ChainInv
      /\ live \subseteq Addr /\ m_nBuckets \in Nat \ {0} /\ live' = live
      /\ newLocation \in 0 .. m_nBuckets
  BY <1>1, ChainTypes, TableSame DEF ItInv, ItShape, ItTypeOK, Moving, ChainInv
<1>3. CASE BucketStep
  <2>1. /\ itNode \in live /\ ArriveAt(itNode, m_prefix[itNode], "buckets")
        /\ itNode' = IF itPc' = "rest" THEN Null ELSE m_next[itNode]
        /\ newLocation' = IF itPc' = "rest" THEN 0 ELSE newLocation
    BY <1>3 DEF BucketStep
  <2>2. /\ itEntry' \in live /\ itPc' \in {"rest", "buckets"}
        /\ itPc' = "rest" => m_prefix[itEntry'] \in accepts
        /\ passed' \subseteq live' /\ itEntry' \in passed' /\ twice' \in BOOLEAN
    BY <1>2, <2>1, Arrives DEF ItInv
  <2>3. /\ newLocation' \in 0 .. m_nBuckets /\ itNode' \in Pointer
        /\ itPc' # "buckets" => newLocation' = 0
        /\ ~damaged => itNode' \in live \cup {Null}
    BY <1>2, <2>1, <2>2, IdleChains, ChainTypes DEF Pointer
  <2>4. itEntry' \in Pointer /\ itEntry' # Null
    BY <1>2, <2>2, ChainTypes DEF Pointer
  <2>5. ItShape'
    BY <1>1, <1>2, <2>2, <2>3, <2>4, ShapeFromParts, ItTypes DEF ItInv
  <2> QED
    BY <1>1, <1>2, <2>2, <2>3, <2>5, RestFromParts
<1>4. CASE BucketNext
  <2>1. CASE NoBucketLeft
    <3>1. /\ itPc' = "end" /\ itEntry' = Null /\ UNCHANGED <<passed, twice>>
          /\ newLocation' = 0 /\ itNode' = Null
      BY <1>4, <2>1 DEF BucketNext, ArriveAtEnd
    <3>2. ~Standing' /\ ~Moving' /\ Null \in Pointer
      BY <3>1 DEF Standing, Moving, Pointer
    <3>3. ItShape'
      BY <1>1, <1>2, <3>1, <3>2, ShapeFromParts, ItTypes DEF ItInv
    <3> QED
      BY <1>1, <1>2, <3>1, <3>2, <3>3, RestFromParts
  <2>2. CASE ~NoBucketLeft
    <3>1. /\ newLocation' = newLocation + 1 /\ itNode' = FirstNode(newLocation + 1)
          /\ UNCHANGED <<itPc, itEntry, passed, twice>>
      BY <1>4, <2>2 DEF BucketNext
    <3>2. newLocation + 1 \in 0 .. m_nBuckets
      BY <1>2, <2>2 DEF NoBucketLeft
    <3>3. itNode' \in Pointer /\ (~damaged => itNode' \in live \cup {Null})
      BY <1>2, <3>1, <3>2, FirstNodeType
    <3>4. itPc' = "buckets" /\ ~Standing'
      BY <1>1, <3>1 DEF Standing
    <3>5. ItShape'
      BY <1>1, <1>2, <3>1, <3>2, <3>3, <3>4, ShapeFromParts, ItTypes DEF ItInv
    <3> QED
      BY <1>1, <1>2, <3>3, <3>4, <3>5, RestFromParts
  <2> QED
    BY <2>1, <2>2
<1> QED
  BY <1>3, <1>4

\* fullEnumerate() reads deleted nodes only where it was disturbed.
LEMMA FullUndefinedKeeps ==
  ASSUME ItInv, ChainUndefined \/ BucketUndefined
  PROVE  ItShape' /\ ItPath' /\ ItAsked' /\ ItCalm'
<1>1. damaged \/ disturbed
  <2> SUFFICES ASSUME ~damaged, ~disturbed PROVE FALSE
    BY Zenon
  <2>1. CASE ChainUndefined
    <3>1. itPc = "chain" /\ (itEntry \in live => m_next[itEntry] \notin live \cup {Null})
      BY <2>1 DEF ChainUndefined
    <3>2. itType = "full" /\ pc = "idle" /\ Standing
      BY <3>1 DEF ItInv, ItShape, Moving, Standing
    <3>3. itEntry \in live
      BY <3>2 DEF ItInv, ItPath, ItCalm
    <3> QED
      BY <3>1, <3>2, <3>3, IdleChains DEF ItInv
  <2>2. CASE BucketUndefined
    BY <2>2 DEF BucketUndefined, ItInv, ItAsked
  <2> QED
    BY <2>1, <2>2
<1> QED
  BY <1>1, ItStopKeeps DEF ChainUndefined, BucketUndefined

\* The shape and the path when the iterator becomes equal to end().
LEMMA ItEndKeeps ==
  ASSUME ItInv, ArriveAtEnd, Moving, newLocation = 0, ghosts' = <<>>, UNCHANGED vars,
         UNCHANGED <<itArgs, itLoop, visitChildren, stayed, disturbed>>
  PROVE  ItShape' /\ ItPath' /\ ItAsked' /\ ItCalm'
<1>1. itPc' = "end" /\ itEntry' = Null /\ UNCHANGED <<passed, twice>>
  BY DEF ArriveAtEnd
<1>2. ~Standing' /\ ~Moving' /\ Null \in Pointer /\ live' = live
  BY <1>1, TableSame DEF Standing, Moving, Pointer
<1>3. newLocation' \in 0 .. m_nBuckets /\ newLocation' = 0 /\ itNode' \in Pointer
  BY ItTypes DEF itLoop, ItInv, ItShape, ItTypeOK
<1>4. <<>> \in Seq([addr : Addr, prefix : Name, parent : Pointer])
  BY EmptySeq
<1>5. ItShape'
  BY <1>1, <1>2, <1>3, <1>4, ShapeFromParts, ItTypes DEF ItInv
<1> QED
  BY <1>1, <1>2, <1>5, RestFromParts

\* findAllMatches(): to the parent, which can be an erased entry as well.
LEMMA UpStepKeeps ==
  ASSUME ItInv, UpStep
  PROVE  ItShape' /\ ItPath' /\ ItAsked' /\ ItCalm'
<1> DEFINE up == EntryParent
           R == [addr : Addr, prefix : Name, parent : Pointer]
<1>1. /\ itPc = "up" /\ UNCHANGED vars
      /\ UNCHANGED <<itArgs, itLoop, visitChildren, stayed, disturbed>>
  BY DEF UpStep
<1>2. /\ itType = "all" /\ pc = "idle" /\ Standing /\ Moving /\ TreeInv /\ ChainInv
      /\ newLocation = 0 /\ live \subseteq Addr /\ live' = live
      /\ newLocation' = 0 /\ newLocation' \in 0 .. m_nBuckets /\ itNode' \in Pointer
      /\ Null \in Pointer /\ Null \notin Addr
  BY <1>1, ChainTypes, TableSame, ItTypes
     DEF ItInv, ItShape, ItTypeOK, Moving, Standing, ChainInv, itLoop, Pointer
<1>3. /\ DOMAIN ghosts = 1 .. Len(ghosts) /\ Len(ghosts) \in Nat
      /\ ghosts \in Seq(R) /\ (ghosts # <<>> => Len(ghosts) >= 1)
      /\ \A k \in DOMAIN ghosts : ghosts[k].addr \in Addr
  BY ItTypes DEF ItInv
<1>4. CASE up = Null
  <2>1. ArriveAtEnd /\ ghosts' = <<>>
    BY <1>1, <1>4 DEF UpStep
  <2> QED
    BY <1>1, <1>2, <2>1, ItEndKeeps
<1>5. ASSUME up \in live, ghosts' = <<>>,
             ~damaged => IsPrefix(m_prefix[up], itPrefix)
      PROVE  ItShape' /\ ItPath' /\ ItAsked' /\ ItCalm'
  <2>1. ArriveAt(up, m_prefix[up], "up")
    BY <1>2, <1>5 DEF UpStep
  <2>2. /\ itEntry' = up /\ itPc' \in {"rest", "up"}
        /\ itPc' = "rest" => m_prefix[itEntry'] \in accepts
        /\ passed' \subseteq live' /\ itEntry' \in passed' /\ twice' \in BOOLEAN
    BY <1>2, <1>5, <2>1, Arrives DEF ItInv
  <2>3. itEntry' \in Pointer /\ itEntry' # Null /\ <<>> \in Seq(R)
    BY <1>2, <1>5, <2>2, EmptySeq DEF Pointer
  <2>4. ItShape'
    BY <1>1, <1>2, <1>5, <2>2, <2>3, ShapeFromParts, ItTypes DEF ItInv
  <2> QED
    BY <1>1, <1>2, <1>5, <2>2, <2>4, RestFromParts
<1>6. CASE up # Null /\ ghosts = <<>>
  <2>1. itEntry \in live /\ Kept = itEntry /\ up = m_parent[itEntry] /\ ghosts' = <<>>
    BY <1>2, <1>6 DEF ItInv, ItPath, Kept, EntryParent, UpStep
  <2>2. up \in live /\ IsPrefix(m_prefix[up], m_prefix[itEntry])
    BY <1>2, <1>6, <2>1, ParentName
  <2>3. ASSUME ~damaged PROVE IsPrefix(m_prefix[up], itPrefix)
    <3>1. IsPrefix(m_prefix[itEntry], itPrefix)
      BY <1>2, <2>1, <2>3 DEF ItInv, ItAsked, ItShape
    <3>2. m_prefix[itEntry] \in Name /\ m_prefix[up] \in Name /\ itPrefix \in Name
      BY <1>2, <2>1, <2>2, FamilyTypes, ItTypes DEF ItInv
    <3> HIDE DEF up
    <3> QED
      BY <2>2, <3>1, <3>2, PrefixTransitive
  <2> QED
    BY <1>5, <2>1, <2>2, <2>3
<1>7. CASE up # Null /\ ghosts # <<>> /\ Len(ghosts) = 1
  <2>1. up = ghosts[1].parent /\ Kept = up /\ ghosts' = Tail(ghosts)
    BY <1>7 DEF EntryParent, Kept, UpStep
  <2>2. up \in live
    BY <1>2, <1>7, <2>1 DEF ItInv, ItPath
  <2>3. Len(ghosts') = 0 /\ ghosts' \in Seq(R)
    BY <1>3, <1>7, <2>1, HeadTailProperties
  <2>4. ghosts' = <<>>
    BY <2>3, EmptySeq
  <2>5. ~damaged => IsPrefix(m_prefix[up], itPrefix)
    BY <1>2, <1>7, <2>1 DEF ItInv, ItAsked
  <2> QED
    BY <1>5, <2>2, <2>4, <2>5
<1>8. CASE up # Null /\ ghosts # <<>> /\ Len(ghosts) > 1
  <2>1. up = ghosts[1].parent /\ ghosts' = Tail(ghosts)
    BY <1>8 DEF EntryParent, UpStep
  <2>2. up = ghosts[2].addr /\ up \in Addr /\ up \notin live
    BY <1>3, <1>8, <2>1 DEF ItInv, ItPath
  <2>3. ArriveAt(up, ghosts[2].prefix, "up")
    BY <1>8, <2>2 DEF UpStep
  <2>4. /\ itEntry' = up /\ itPc' \in {"rest", "up"}
        /\ passed' \subseteq live' /\ twice' \in BOOLEAN
    BY <1>2, <2>3, Arrives DEF ItInv
  <2>5. /\ ghosts' \in Seq(R) /\ Len(ghosts') = Len(ghosts) - 1
        /\ \A k \in 1 .. Len(ghosts) - 1 : ghosts'[k] = ghosts[k + 1]
    BY <1>3, <1>8, <2>1, HeadTailProperties
  <2>6. /\ DOMAIN ghosts' = 1 .. Len(ghosts) - 1 /\ ghosts' # <<>>
    BY <1>3, <1>8, <2>5, LenProperties, EmptySeq
  <2>7. itEntry' \in Pointer /\ itEntry' # Null /\ Standing' /\ itPc' # "undefined"
    BY <1>2, <2>2, <2>4 DEF Pointer, Standing
  <2>8. ItShape'
    BY <1>1, <1>2, <2>4, <2>5, <2>7, ShapeFromParts, ItTypes DEF ItInv
  <2>9. Kept' = Kept /\ Kept \in live \cup {Null}
    BY <1>2, <1>3, <1>8, <2>5, <2>6 DEF Kept, ItInv, ItPath
  <2>10. ItPath'
    <3>1. itEntry' = ghosts'[1].addr
      BY <1>3, <1>8, <2>2, <2>4, <2>5
    <3>2. \A k \in DOMAIN ghosts' : ghosts'[k].addr \notin live'
      BY <1>2, <1>3, <2>5, <2>6 DEF ItInv, ItPath
    <3>3. \A k \in DOMAIN ghosts' :
            k < Len(ghosts') => ghosts'[k].parent = ghosts'[k + 1].addr
      BY <1>3, <2>5, <2>6 DEF ItInv, ItPath
    <3> QED
      BY <1>2, <2>6, <2>9, <3>1, <3>2, <3>3 DEF ItPath
  <2>11. ItAsked'
    <3>1. /\ itType' = "all" /\ itPrefix' = itPrefix /\ m_prefix' = m_prefix
          /\ damaged' = damaged
      BY <1>1, <1>2, TableSame DEF itArgs
    <3> QED
      BY <1>2, <2>4, <2>6, <2>9, <3>1 DEF ItAsked, ItInv
  <2>12. ItCalm'
    <3>1. itType' = "all"
      BY <1>1, <1>2 DEF itArgs
    <3> QED
      BY <2>4, <2>6, <3>1 DEF ItCalm
  <2> QED
    BY <2>8, <2>10, <2>11, <2>12
<1> QED
  BY <1>3, <1>4, <1>6, <1>7, <1>8

-----------------------------------------------------------------------------
(* partialEnumerate() in the tree of the entries.                          *)

\* A child of an entry whose children are visited is inside with it.
LEMMA InsideChild ==
  ASSUME TreeInv, ItShape, NEW a \in live, m_parent[a] # Null,
         Inside(m_prefix[m_parent[a]]), m_prefix[m_parent[a]] \in visits
  PROVE  Inside(m_prefix[a])
<1> DEFINE n == m_prefix[a]
           u == m_prefix[m_parent[a]]
<1>1. /\ n \in Name /\ u \in Name /\ itPrefix \in Name
      /\ IsPrefix(u, n) /\ IsPrefix(itPrefix, u)
      /\ Len(n) \in Nat \ {0} /\ Len(u) = Len(n) - 1 /\ u = GetPrefix(n, Len(n) - 1)
      /\ Len(itPrefix) \in Nat
  BY ParentName, FamilyTypes, ItTypes, NameAssumption, LenProperties DEF Inside
<1>2. \A k \in Len(itPrefix) .. Len(u) - 1 : GetPrefix(u, k) \in visits
  BY DEF Inside
<1>3. u \in visits
  OBVIOUS
<1> HIDE DEF n, u
<1>4. IsPrefix(itPrefix, n)
  BY <1>1, PrefixTransitive
<1>5. ASSUME NEW k \in Len(itPrefix) .. Len(n) - 1 PROVE GetPrefix(n, k) \in visits
  <2>1. CASE k = Len(n) - 1
    BY <1>1, <1>3, <2>1
  <2>2. CASE k # Len(n) - 1
    <3>1. k \in Len(itPrefix) .. Len(u) - 1 /\ k \in 0 .. Len(u)
      BY <1>1, <2>2
    <3>2. GetPrefix(u, k) = GetPrefix(n, k)
      BY <1>1, <3>1, PrefixSame
    <3> QED
      BY <1>2, <3>1, <3>2
  <2> QED
    BY <2>1, <2>2
<1> QED
  BY <1>4, <1>5 DEF Inside, n

\* The parent of an entry inside is inside, if the entry is not the first one.
LEMMA InsideParent ==
  ASSUME TreeInv, ItShape, NEW a \in live, m_parent[a] # Null,
         Inside(m_prefix[a]), m_prefix[a] # itPrefix
  PROVE  Inside(m_prefix[m_parent[a]]) /\ m_prefix[m_parent[a]] \in visits
<1> DEFINE n == m_prefix[a]
           u == m_prefix[m_parent[a]]
<1>1. /\ n \in Name /\ u \in Name /\ itPrefix \in Name
      /\ IsPrefix(u, n) /\ IsPrefix(itPrefix, n) /\ n # itPrefix
      /\ Len(n) \in Nat \ {0} /\ Len(u) = Len(n) - 1 /\ u = GetPrefix(n, Len(n) - 1)
      /\ Len(itPrefix) \in Nat
  BY ParentName, FamilyTypes, ItTypes, NameAssumption, LenProperties DEF Inside
<1>2. \A k \in Len(itPrefix) .. Len(n) - 1 : GetPrefix(n, k) \in visits
  BY DEF Inside
<1> HIDE DEF n, u
<1>3. Len(itPrefix) <= Len(u)
  <2>1. n \in Seq(Component)
    BY <1>1, NameAssumption
  <2>2. GetPrefix(n, Len(n)) = n
    BY <2>1, <1>1 DEF GetPrefix
  <2>3. Len(itPrefix) <= Len(n) /\ itPrefix = GetPrefix(n, Len(itPrefix))
    BY <1>1 DEF IsPrefix
  <2> QED
    BY <1>1, <2>2, <2>3
<1>4. \A k \in 0 .. Len(u) : GetPrefix(u, k) = GetPrefix(n, k)
  BY <1>1, PrefixSame
<1>5. IsPrefix(itPrefix, u)
  BY <1>1, <1>3, <1>4 DEF IsPrefix
<1>6. \A k \in Len(itPrefix) .. Len(u) - 1 : GetPrefix(u, k) \in visits
  BY <1>1, <1>2, <1>3, <1>4
<1>7. u \in visits
  BY <1>1, <1>2, <1>3
<1> QED
  BY <1>5, <1>6, <1>7 DEF Inside, u

\* Where a partial enumeration is between two entries.
LEMMA TreePosition ==
  ASSUME ItInv, itPc = "tree"
  PROVE  /\ itType = "partial" /\ pc = "idle" /\ newLocation = 0
         /\ Standing /\ Moving /\ TreeInv /\ ChainInv /\ ItShape /\ ItPath
         /\ ghosts = <<>> => itEntry \in live /\ (~damaged => InSubTree)
BY DEF ItInv, ItShape, ItPath, ItAsked, Standing, Moving, ChainInv

\* It arrives at an entry inside.
LEMMA TreeArrives ==
  ASSUME ItInv, itPc = "tree", ghosts = <<>>, UNCHANGED vars,
         UNCHANGED <<itArgs, itLoop, ghosts, stayed, disturbed>>,
         NEW a \in live, ArriveAt(a, m_prefix[a], "tree"), visitChildren' = Visit(a, visits),
         ~damaged => Inside(m_prefix[a])
  PROVE  ItShape' /\ ItPath' /\ ItAsked' /\ ItCalm'
<1>1. /\ itType = "partial" /\ pc = "idle" /\ newLocation = 0 /\ live' = live
      /\ TreeInv /\ (~damaged => itRoot \in live /\ m_prefix[itRoot] = itPrefix)
      /\ newLocation' = 0 /\ newLocation' \in 0 .. m_nBuckets /\ itNode' \in Pointer
  BY TreePosition, TableSame, ItTypes DEF InSubTree, ItInv, ItShape, ItTypeOK, itLoop
<1>2. /\ itEntry' = a /\ itPc' \in {"rest", "tree"}
      /\ itPc' = "rest" => m_prefix[itEntry'] \in accepts
      /\ passed' \subseteq live' /\ itEntry' \in passed' /\ twice' \in BOOLEAN
  BY <1>1, Arrives DEF ItInv
<1>3. /\ visitChildren' \in BOOLEAN
      /\ visitChildren' => m_prefix[a] \in visits /\ m_children[a] # <<>>
  BY Zenon DEF Visit
<1>4. itEntry' \in Pointer /\ itEntry' # Null
  BY <1>1, <1>2, FamilyTypes DEF Pointer
<1>5. ItShape'
  BY <1>1, <1>2, <1>3, <1>4, ShapeFromParts, ItTypes DEF ItInv
<1> QED
  BY <1>1, <1>2, <1>3, <1>5, RestFromParts

LEMMA TreeDownKeeps ==
  ASSUME ItInv, TreeDown
  PROVE  ItShape' /\ ItPath' /\ ItAsked' /\ ItCalm'
<1> DEFINE child == m_children[itEntry][1]
<1>1. /\ itPc = "tree" /\ visitChildren /\ ghosts = <<>> /\ m_children[itEntry] # <<>>
      /\ ArriveAt(child, m_prefix[child], "tree")
      /\ visitChildren' = Visit(child, visits)
      /\ UNCHANGED vars /\ UNCHANGED <<itArgs, itLoop, ghosts, stayed, disturbed>>
  BY DEF TreeDown
<1>2. itEntry \in live /\ TreeInv /\ ItShape /\ (~damaged => InSubTree)
  BY <1>1, TreePosition
<1>3. child \in live /\ m_parent[child] = itEntry /\ itEntry # Null
  BY <1>1, <1>2, FamilyTypes
<1>4. ASSUME ~damaged PROVE Inside(m_prefix[child])
  <2>1. Inside(m_prefix[itEntry]) /\ m_prefix[itEntry] \in visits
    BY <1>1, <1>2, <1>4 DEF InSubTree
  <2> HIDE DEF child
  <2> QED
    BY <1>2, <1>3, <2>1, InsideChild
<1> HIDE DEF child
<1> QED
  BY <1>1, <1>3, <1>4, TreeArrives

LEMMA TreeSiblingKeeps ==
  ASSUME ItInv, TreeSibling
  PROVE  ItShape' /\ ItPath' /\ ItAsked' /\ ItCalm'
<1> DEFINE up == EntryParent
<1>1. /\ itPc = "tree" /\ ~visitChildren /\ itEntry # itRoot
      /\ UNCHANGED vars /\ UNCHANGED <<itArgs, itLoop, ghosts, stayed, disturbed>>
  BY DEF TreeSibling
<1>2. PICK k \in Positions :
        IF k < Len(m_children[up])
        THEN /\ ArriveAt(NextSibling(k), m_prefix[NextSibling(k)], "tree")
             /\ visitChildren' = Visit(NextSibling(k), visits)
        ELSE /\ itEntry' = up
             /\ UNCHANGED <<itPc, visitChildren, passed, twice>>
  BY DEF TreeSibling
<1>3. /\ itType = "partial" /\ pc = "idle" /\ newLocation = 0 /\ Standing /\ live' = live
      /\ TreeInv /\ ChainInv /\ ItShape /\ ItPath /\ (ghosts = <<>> => (~damaged => InSubTree))
  BY <1>1, TreePosition, TableSame
<1>4. /\ ghosts = <<>> /\ itEntry \in live /\ up = m_parent[itEntry] /\ up \in live
      /\ k \in DOMAIN m_children[up] /\ up # Null
  BY <1>3, PositionsStored, FamilyTypes
<1>5. ASSUME ~damaged PROVE Inside(m_prefix[up]) /\ m_prefix[up] \in visits
  <2>1. itRoot \in live /\ m_prefix[itRoot] = itPrefix /\ Inside(m_prefix[itEntry])
    BY <1>3, <1>4, <1>5 DEF InSubTree
  <2>2. m_prefix[itEntry] # itPrefix
    BY <1>1, <1>3, <1>4, <1>5, <2>1 DEF ChainInv, ChainsCorrect, ChainsSound
  <2> HIDE DEF up
  <2> QED
    BY <1>3, <1>4, <2>1, <2>2, InsideParent
<1>6. CASE k < Len(m_children[up])
  <2>1. /\ ArriveAt(NextSibling(k), m_prefix[NextSibling(k)], "tree")
        /\ visitChildren' = Visit(NextSibling(k), visits)
    BY <1>2, <1>6
  <2>2. NextSibling(k) \in live /\ m_parent[NextSibling(k)] = up
    BY <1>3, <1>4, <1>6, FamilyTypes DEF NextSibling
  <2>3. ASSUME ~damaged PROVE Inside(m_prefix[NextSibling(k)])
    <3> HIDE DEF up
    <3> QED
      BY <1>3, <1>4, <1>5, <2>2, <2>3, InsideChild
  <2> QED
    BY <1>1, <1>4, <2>1, <2>2, <2>3, TreeArrives
<1>7. CASE ~(k < Len(m_children[up]))
  <2>1. itEntry' = up /\ UNCHANGED <<itPc, visitChildren, passed, twice>>
    BY <1>2, <1>7
  <2>2. /\ itEntry' \in live /\ itPc' = "tree" /\ itEntry' \in Pointer /\ itEntry' # Null
        /\ newLocation' = 0 /\ newLocation' \in 0 .. m_nBuckets /\ itNode' \in Pointer
    BY <1>1, <1>3, <1>4, <2>1, FamilyTypes, ItTypes
       DEF Pointer, itLoop, ItShape, ItTypeOK
  <2>3. ~visitChildren' /\ visitChildren' \in BOOLEAN
    BY <1>1, <1>3, <2>1, ItTypes, Zenon
  <2>4. ItShape'
    BY <1>1, <1>3, <1>4, <2>1, <2>2, <2>3, ShapeFromParts, ItTypes DEF ItInv
  <2>5. ~damaged => /\ itRoot \in live /\ m_prefix[itRoot] = itPrefix
                    /\ Inside(m_prefix[itEntry'])
    BY <1>3, <1>4, <1>5, <2>1 DEF InSubTree
  <2> QED
    BY <1>1, <1>3, <1>4, <2>2, <2>3, <2>4, <2>5, RestFromParts
<1> QED
  BY <1>6, <1>7

\* partialEnumerate() fails only where it was disturbed: it has children to go
\* down to, and finds itself among the children of its parent.
LEMMA TreeStopsKeep ==
  ASSUME ItInv, TreeUndefined \/ TreeAborts
  PROVE  ItShape' /\ ItPath' /\ ItAsked' /\ ItCalm'
<1>1. damaged \/ disturbed
  <2> SUFFICES ASSUME ~damaged, ~disturbed PROVE FALSE
    BY Zenon
  <2>1. itPc = "tree"
    BY DEF TreeUndefined, TreeAborts
  <2>2. /\ itType = "partial" /\ Standing /\ TreeInv /\ ChainInv
        /\ (ghosts = <<>> => itEntry \in live /\ InSubTree)
    BY <2>1, TreePosition
  <2>3. ghosts = <<>> /\ (visitChildren => m_children[itEntry] # <<>>)
    BY <2>2 DEF ItInv, ItCalm
  <2>4. CASE TreeUndefined
    BY <2>3, <2>4 DEF TreeUndefined
  <2>5. CASE TreeAborts
    <3>1. itEntry # itRoot /\ Positions = {}
      BY <2>5 DEF TreeAborts
    <3>2. itEntry \in live /\ EntryParent = m_parent[itEntry]
      BY <2>2, <2>3 DEF EntryParent
    <3>3. m_parent[itEntry] # Null
      <4>1. SUFFICES ASSUME m_parent[itEntry] = Null PROVE FALSE
        OBVIOUS
      <4>2. m_prefix[itEntry] = <<>>
        BY <2>2, <3>2, <4>1 DEF TreeInv, TreeConsistent, HasParent
      <4>3. itRoot \in live /\ m_prefix[itRoot] = itPrefix /\ IsPrefix(itPrefix, <<>>)
        BY <2>2, <2>3, <4>2 DEF InSubTree, Inside
      <4>4. itPrefix = <<>>
        <5>1. itPrefix \in Seq(Component) /\ Len(itPrefix) \in Nat /\ Len(<<>>) = 0
          BY ItTypes, NameAssumption, LenProperties, EmptySeq DEF ItInv
        <5>2. Len(itPrefix) = 0
          BY <4>3, <5>1 DEF IsPrefix
        <5> QED
          BY <5>1, <5>2, EmptySeq
      <4> QED
        BY <2>2, <3>1, <3>2, <4>2, <4>3, <4>4 DEF ChainInv, ChainsCorrect, ChainsSound
    <3>4. m_parent[itEntry] \in live /\ \E k \in DOMAIN m_children[m_parent[itEntry]] :
            m_children[m_parent[itEntry]][k] = itEntry
      BY <2>2, <3>2, <3>3 DEF TreeInv, TreeConsistent, HasParent
    <3> QED
      BY <3>1, <3>2, <3>4 DEF Positions
  <2> QED
    BY <2>4, <2>5
<1> QED
  BY <1>1, ItStopKeeps DEF TreeUndefined, TreeAborts

LEMMA TreeEndKeeps ==
  ASSUME ItInv, TreeEnd
  PROVE  ItShape' /\ ItPath' /\ ItAsked' /\ ItCalm'
<1>1. /\ itPc = "tree" /\ ArriveAtEnd /\ ghosts' = <<>> /\ UNCHANGED vars
      /\ UNCHANGED <<itArgs, itLoop, visitChildren, stayed, disturbed>>
  BY DEF TreeEnd
<1> QED
  BY <1>1, TreePosition, ItEndKeeps

-----------------------------------------------------------------------------
(* The enumeration begins, goes on and is dropped.                         *)

LEMMA SelectorTypes ==
  /\ \A S \in Selector : S \subseteq Name
  /\ \A V \in SubSelector : V \subseteq Name
BY SelectorAssumption

\* Types after the beginning of an enumeration.
LEMMA BeginTypes ==
  ASSUME ItInv, NEW type \in {"full", "partial", "all"}, NEW prefix \in Name,
         NEW S \in SUBSET Name, NEW V \in SUBSET Name, Begin(type, prefix, S, V),
         itEntry' \in Pointer, itRoot' \in Pointer, itNode' \in Pointer, newLocation' = 0,
         visitChildren' \in BOOLEAN, twice' \in BOOLEAN, passed' \subseteq live,
         itPc' \in {"rest", "end", "buckets", "tree"}
  PROVE  /\ ItTypeOK' /\ pc' = "idle" /\ ghosts' = <<>>
         /\ UNCHANGED <<live, m_prefix, m_children, damaged>>
         /\ itType' = type /\ itPrefix' = prefix /\ accepts' = S /\ visits' = V
<1>1. /\ pc = "idle" /\ itPc = "none"
      /\ itType' = type /\ itPrefix' = prefix /\ accepts' = S /\ visits' = V
      /\ stayed' = live /\ UNCHANGED <<vars, ghosts, disturbed>>
  BY DEF Begin
<1>2. UNCHANGED <<live, m_prefix, m_children, damaged, m_nBuckets, pc>>
  BY <1>1, TableSame
<1>3. ghosts = <<>>
  BY <1>1 DEF ItInv, ItShape
<1>4. /\ ghosts' \in Seq([addr : Addr, prefix : Name, parent : Pointer])
      /\ disturbed' \in BOOLEAN
  BY <1>1, ItTypes DEF ItInv
<1>5. newLocation' \in 0 .. m_nBuckets'
  BY <1>2, ChainTypes DEF ItInv, ChainInv
<1> QED
  BY <1>1, <1>2, <1>3, <1>4, <1>5 DEF ItTypeOK

LEMMA FullEnumerateKeeps ==
  ASSUME ItInv, NEW S \in Selector, FullEnumerate(S)
  PROVE  ItShape' /\ ItPath' /\ ItAsked' /\ ItCalm'
<1>1. /\ Begin("full", <<>>, S, {}) /\ itPc' = "buckets" /\ newLocation' = 0
      /\ itNode' = FirstNode(0) /\ pc = "idle" /\ ChainInv /\ TreeInv
      /\ UNCHANGED <<itEntry, itRoot, visitChildren, passed, twice>>
  BY DEF FullEnumerate, Begin, ItInv, ChainInv
<1>2. itNode' \in Pointer /\ (~damaged => itNode' \in live \cup {Null})
  BY <1>1, FirstNodeType, ChainTypes, 0 \in 0 .. m_nBuckets
<1>3. /\ ItTypeOK' /\ pc' = "idle" /\ ghosts' = <<>>
      /\ UNCHANGED <<live, m_prefix, m_children, damaged>> /\ itType' = "full"
  <2>1. S \in SUBSET Name /\ {} \in SUBSET Name /\ <<>> \in Name
    BY SelectorTypes, NameAssumption
  <2> QED
    BY <1>1, <1>2, <2>1, BeginTypes, ItTypes DEF ItInv
<1>4. ~Standing' /\ DOMAIN ghosts' = {}
  BY <1>1, <1>3, EmptySeq DEF Standing
<1>5. ItShape'
  BY <1>1, <1>3, <1>4 DEF ItShape
<1>6. ItPath'
  BY <1>4 DEF ItPath
<1>7. ItAsked'
  BY <1>1, <1>2, <1>3, <1>4 DEF ItAsked
<1>8. ItCalm'
  BY <1>1, <1>3, <1>4 DEF ItCalm
<1> QED
  BY <1>5, <1>6, <1>7, <1>8

\* The enumeration has nothing to enumerate.
LEMMA BeginAtEnd ==
  ASSUME ItInv, NEW type \in {"full", "partial", "all"}, NEW prefix \in Name,
         NEW S \in SUBSET Name, NEW V \in SUBSET Name, Begin(type, prefix, S, V),
         ArriveAtEnd, UNCHANGED <<itRoot, visitChildren, itLoop>>
  PROVE  ItShape' /\ ItPath' /\ ItAsked' /\ ItCalm'
<1>1. /\ itPc = "none" /\ itPc' = "end" /\ itEntry' = Null
      /\ UNCHANGED <<passed, twice, itRoot, visitChildren, itLoop>>
  BY DEF ArriveAtEnd, Begin
<1>2. itNode' \in Pointer /\ newLocation' = 0 /\ Null \in Pointer
  BY <1>1, ItTypes DEF ItInv, ItShape, itLoop, Pointer
<1>3. ItTypeOK' /\ pc' = "idle" /\ ghosts' = <<>>
  BY <1>1, <1>2, BeginTypes, ItTypes DEF ItInv
<1>4. ~Standing' /\ DOMAIN ghosts' = {}
  BY <1>1, <1>3, EmptySeq DEF Standing
<1>5. ItShape'
  BY <1>1, <1>2, <1>3, <1>4 DEF ItShape
<1>6. ItPath'
  BY <1>4 DEF ItPath
<1>7. ItAsked'
  BY <1>1, <1>4 DEF ItAsked
<1>8. ItCalm'
  BY <1>1, <1>4 DEF ItCalm
<1> QED
  BY <1>5, <1>6, <1>7, <1>8

LEMMA PartialEnumerateKeeps ==
  ASSUME ItInv, NEW n \in Name, NEW S \in Selector, NEW V \in SubSelector,
         PartialEnumerate(n, S, V)
  PROVE  ItShape' /\ ItPath' /\ ItAsked' /\ ItCalm'
<1> DEFINE root == FindExactMatch(n)
<1>1. Begin("partial", n, S, V) /\ UNCHANGED itLoop /\ S \in SUBSET Name /\ V \in SUBSET Name
  BY SelectorTypes DEF PartialEnumerate
<1>2. CASE root = Null /\ ArriveAtEnd /\ UNCHANGED <<itRoot, visitChildren>>
  BY <1>1, <1>2, BeginAtEnd
<1>3. CASE /\ root \in live /\ m_prefix[root] = n
           /\ itEntry' = root /\ itRoot' = root
           /\ visitChildren' = Visit(root, V)
           /\ itPc' = IF n \in S THEN "rest" ELSE "tree"
           /\ passed' = {root} /\ twice' = FALSE
  <2>1. itPc = "none" /\ TreeInv
    BY <1>1 DEF Begin, ItInv, ChainInv
  <2>2. root \in Pointer /\ root # Null
    BY <1>3, <2>1, FamilyTypes DEF Pointer
  <2> HIDE DEF root
  <2>3. itNode' \in Pointer /\ newLocation' = 0
    BY <1>1, <2>1, ItTypes DEF ItInv, ItShape, itLoop
  <2>4. /\ visitChildren' \in BOOLEAN
        /\ visitChildren' => m_prefix[root] \in V /\ m_children[root] # <<>>
    BY <1>3, Zenon DEF Visit
  <2>5. twice' \in BOOLEAN
    BY <1>3, Zenon
  <2>6. itPc' \in {"rest", "tree"} /\ passed' \subseteq live
    BY <1>3
  <2>7. /\ ItTypeOK' /\ pc' = "idle" /\ ghosts' = <<>>
        /\ UNCHANGED <<live, m_prefix, m_children, damaged>>
        /\ itType' = "partial" /\ itPrefix' = n /\ accepts' = S /\ visits' = V
    BY <1>1, <1>3, <2>2, <2>3, <2>4, <2>5, <2>6, BeginTypes
  <2>8. Kept' = root /\ DOMAIN ghosts' = {}
    BY <1>3, <2>7, EmptySeq DEF Kept
  <2>9. ItShape'
    BY <1>3, <2>2, <2>3, <2>6, <2>7 DEF ItShape
  <2>10. ItPath'
    BY <1>3, <2>7, <2>8 DEF ItPath
  <2>11. InSubTree'
    <3>1. n \in Seq(Component) /\ Len(n) \in Nat
      BY NameAssumption, LenProperties
    <3>2. GetPrefix(n, Len(n)) = n
      BY <3>1 DEF GetPrefix
    <3>3. m_prefix'[itEntry'] = n /\ itPrefix' = n
      BY <1>3, <2>7
    <3>4. Inside(m_prefix[itEntry])'
      BY <3>1, <3>2, <3>3 DEF Inside, IsPrefix
    <3> QED
      BY <1>3, <2>4, <2>7, <3>4 DEF InSubTree
  <2>12. ItAsked'
    BY <1>3, <2>6, <2>7, <2>11 DEF ItAsked
  <2>13. ItCalm'
    BY <1>3, <2>4, <2>6, <2>7 DEF ItCalm
  <2> QED
    BY <2>9, <2>10, <2>12, <2>13
<1> QED
  BY <1>2, <1>3 DEF PartialEnumerate

LEMMA FindAllMatchesKeeps ==
  ASSUME ItInv, NEW n \in Name, NEW S \in Selector, FindAllMatches(n, S)
  PROVE  ItShape' /\ ItPath' /\ ItAsked' /\ ItCalm'
<1> DEFINE match == FindLongestPrefixMatch(n, S)
<1>1. /\ Begin("all", n, S, {}) /\ UNCHANGED <<itRoot, visitChildren, itLoop>>
      /\ S \in SUBSET Name /\ {} \in SUBSET Name
  BY SelectorTypes DEF FindAllMatches
<1>2. CASE match = Null
  BY <1>1, <1>2, BeginAtEnd DEF FindAllMatches
<1>3. CASE match # Null
  <2>1. /\ match \in live /\ itEntry' = match /\ itPc' = "rest"
        /\ passed' = {match} /\ twice' = FALSE
    BY <1>3 DEF FindAllMatches
  <2>2. itPc = "none" /\ pc = "idle" /\ TreeInv /\ match \in Pointer
    BY <1>1, <2>1, ChainTypes DEF Begin, ItInv, ChainInv, Pointer
  <2>3. ASSUME ~damaged
        PROVE  m_prefix[match] \in S /\ IsPrefix(m_prefix[match], n)
    <3>1. ChainsSound
      BY <2>3 DEF ItInv, ChainInv, ChainsCorrect
    <3>2. match \in Matches(n, S)
      BY <1>3, <2>2, <3>1, LongestMatchFound
    <3> QED
      BY <3>2 DEF Matches
  <2> HIDE DEF match
  <2>4. itNode' \in Pointer /\ newLocation' = 0
    BY <1>1, <2>2, ItTypes DEF ItInv, ItShape, itLoop
  <2>5. twice' \in BOOLEAN
    BY <2>1, Zenon
  <2>6. visitChildren' \in BOOLEAN /\ itRoot' \in Pointer
    BY <1>1, ItTypes DEF ItInv
  <2>7. /\ ItTypeOK' /\ pc' = "idle" /\ ghosts' = <<>>
        /\ UNCHANGED <<live, m_prefix, m_children, damaged>>
        /\ itType' = "all" /\ itPrefix' = n /\ accepts' = S
    BY <1>1, <2>1, <2>2, <2>4, <2>5, <2>6, BeginTypes
  <2>8. Kept' = match /\ DOMAIN ghosts' = {}
    BY <2>1, <2>7, EmptySeq DEF Kept
  <2>9. ItShape'
    BY <1>3, <2>1, <2>4, <2>7 DEF ItShape
  <2>10. ItPath'
    BY <2>1, <2>7, <2>8 DEF ItPath
  <2>11. ItAsked'
    BY <2>1, <2>3, <2>7, <2>8 DEF ItAsked
  <2>12. ItCalm'
    BY <2>1, <2>7 DEF ItCalm
  <2> QED
    BY <2>9, <2>10, <2>11, <2>12
<1> QED
  BY <1>2, <1>3

LEMMA IncrementKeeps ==
  ASSUME ItInv, Increment
  PROVE  ItShape' /\ ItPath' /\ ItAsked' /\ ItCalm'
<1>1. /\ pc = "idle" /\ itPc = "rest" /\ UNCHANGED vars
      /\ itType = "full" => itPc' = "chain"
      /\ itType = "partial" => itPc' = "tree"
      /\ itType = "all" => itPc' = "up"
      /\ UNCHANGED <<itArgs, itEntry, visitChildren, itLoop, ghosts, passed, stayed,
                     twice, disturbed>>
  BY DEF Increment
<1>2. /\ itPc' \in {"chain", "tree", "up"}
      /\ itPc' = "chain" => itType = "full"
      /\ itPc' = "tree" => itType = "partial"
      /\ itPc' = "up" => itType = "all"
      /\ Standing /\ Standing' /\ newLocation = 0 /\ newLocation \in 0 .. m_nBuckets
      /\ itEntry # Null
  BY <1>1 DEF ItInv, ItShape, ItTypeOK, Standing
<1>3. /\ live' = live /\ m_prefix' = m_prefix /\ m_children' = m_children
      /\ damaged' = damaged /\ Kept' = Kept /\ newLocation' = newLocation
      /\ UNCHANGED <<itType, itRoot, accepts, visits, itPrefix, itNode>>
  BY <1>1, TableSame DEF Kept, itArgs, itLoop
<1>4. ItShape'
  BY <1>1, <1>2, <1>3, ShapeFromParts, ItTypes DEF ItInv
<1>5. ItPath'
  BY <1>1, <1>2, <1>3 DEF ItInv, ItPath
<1>6. InSubTree => InSubTree'
  BY <1>1, <1>3 DEF InSubTree, Inside
<1>7. ItAsked'
  BY <1>1, <1>2, <1>3, <1>6 DEF ItInv, ItAsked
<1>8. ItCalm'
  BY <1>1, <1>2, <1>3 DEF ItInv, ItCalm
<1> QED
  BY <1>4, <1>5, <1>7, <1>8

LEMMA ItDropKeeps ==
  ASSUME ItInv, Drop
  PROVE  ItShape' /\ ItPath' /\ ItAsked' /\ ItCalm'
<1>1. /\ pc = "idle" /\ itPc \in {"rest", "end"} /\ UNCHANGED vars /\ UNCHANGED itLoop
      /\ itType' = "full" /\ itEntry' = Null /\ itRoot' = Null
      /\ accepts' = {} /\ visits' = {} /\ itPc' = "none" /\ itPrefix' = <<>>
      /\ ghosts' = <<>> /\ passed' = {} /\ stayed' = {}
  BY DEF Drop
<1>2. visitChildren' \in BOOLEAN /\ twice' \in BOOLEAN /\ disturbed' \in BOOLEAN
  BY Zenon DEF Drop
<1>3. /\ newLocation' = 0 /\ newLocation' \in 0 .. m_nBuckets' /\ itNode' \in Pointer
      /\ pc' = "idle" /\ Null \in Pointer /\ <<>> \in Name /\ DOMAIN ghosts' = {}
  BY <1>1, TableSame, ItTypes, NameAssumption, EmptySeq
     DEF ItInv, ItShape, ItTypeOK, itLoop, Pointer
<1>4. <<>> \in Seq([addr : Addr, prefix : Name, parent : Pointer])
  BY EmptySeq
<1>5. ItShape'
  BY <1>1, <1>2, <1>3, <1>4 DEF ItShape, ItTypeOK, Standing, Moving
<1>6. ItPath'
  BY <1>1, <1>3 DEF ItPath, Standing
<1>7. ItAsked'
  BY <1>1 DEF ItAsked, Standing
<1>8. ItCalm'
  BY <1>1 DEF ItCalm, Standing
<1> QED
  BY <1>5, <1>6, <1>7, <1>8

-----------------------------------------------------------------------------
(* The table changes while the iterator rests.                             *)

\* Entries keep their names, and only eraseEntryIfEmpty() removes any: one that
\* has no children, and before its parent.
LEMMA LiveNext ==
  ASSUME TreeInv, [Next]_vars
  PROVE  /\ \A x \in live \cap live' : m_prefix'[x] = m_prefix[x]
         /\ \A x \in Gone : /\ x = entry /\ m_children[x] = <<>>
                            /\ m_parent[x] \in (live \cap live') \cup {Null}
<1>1. CASE UNCHANGED <<live, m_prefix, m_parent, m_children>>
  BY <1>1 DEF Gone
<1>2. ASSUME NEW a \in Addr \ live, InsertNew(a)
      PROVE  /\ \A x \in live \cap live' : m_prefix'[x] = m_prefix[x]
             /\ Gone = {}
  <2>1. m_prefix' = [m_prefix EXCEPT ![a] = Prefix] /\ live' = live \cup {a}
    BY <1>2 DEF InsertNew
  <2> QED
    BY <1>2, <2>1, ChainTypes DEF Gone
<1>3. CASE EraseEmpty
  <2>1. /\ m_prefix' = [m_prefix EXCEPT ![entry] = <<>>] /\ m_children[entry] = <<>>
        /\ live' = live \ {entry} /\ entry \in live
        /\ m_parent[entry] \in (live \ {entry}) \cup {Null}
    BY <1>3, EraseFacts DEF EraseEmpty, Discard, IsEmpty
  <2> QED
    BY <2>1, ChainTypes DEF Gone
<1> QED
  BY <1>1, <1>2, <1>3, TreeSteps

\* What the table does to the entry of a resting iterator.
LEMMA TableStepFacts ==
  ASSUME ItInv, TableStep
  PROVE  /\ ChainInv /\ TreeInv /\ ChainInv' /\ TreeInv' /\ [Next]_vars
         /\ itPc \in {"none", "rest"} /\ newLocation = 0
         /\ UNCHANGED <<itArgs, itEntry, visitChildren, itPc, itLoop, twice>>
         /\ \A k \in DOMAIN ghosts : ghosts[k].addr \notin live'
         /\ passed' = passed \cap live' /\ stayed' = stayed \cap live'
         /\ ghosts' = IF Kept \in Gone
                      THEN Append(ghosts, [addr |-> Kept, prefix |-> m_prefix[Kept],
                                           parent |-> m_parent[Kept]])
                      ELSE ghosts
         /\ ~Moving /\ ~Moving' /\ Standing' = Standing /\ Standing = (itPc = "rest")
         /\ ~Standing => itEntry = Null /\ ghosts = <<>>
<1>1. /\ itPc \in {"none", "rest"} /\ Next
      /\ UNCHANGED <<itArgs, itEntry, visitChildren, itPc, itLoop, twice>>
      /\ \A k \in DOMAIN ghosts : ghosts[k].addr \notin live'
      /\ passed' = passed \cap live' /\ stayed' = stayed \cap live'
      /\ ghosts' = IF Kept \in Gone
                   THEN Append(ghosts, [addr |-> Kept, prefix |-> m_prefix[Kept],
                                        parent |-> m_parent[Kept]])
                   ELSE ghosts
  BY DEF TableStep
<1>2. ChainInv /\ ChainInv' /\ TreeInv /\ TreeInv'
  BY <1>1, ChainNext DEF ItInv, ChainInv
<1>3. ~Moving /\ ~Moving' /\ Standing' = Standing /\ Standing = (itPc = "rest")
  BY <1>1 DEF Moving, Standing
<1>4. newLocation = 0 /\ (~Standing => itEntry = Null /\ ghosts = <<>>)
  BY <1>1, <1>3 DEF ItInv, ItShape
<1> QED
  BY <1>1, <1>2, <1>3, <1>4

\* The entry and the path of a resting iterator after a change of the table.
LEMMA TableStepPath ==
  ASSUME ItInv, TableStep
  PROVE  /\ ItPath'
         /\ ghosts' \in Seq([addr : Addr, prefix : Name, parent : Pointer])
         /\ ghosts' = <<>> => ghosts = <<>> /\ Kept \notin Gone
         /\ Kept' = IF Kept \in Gone THEN m_parent[Kept] ELSE Kept
<1> DEFINE g == [addr |-> Kept, prefix |-> m_prefix[Kept], parent |-> m_parent[Kept]]
           R == [addr : Addr, prefix : Name, parent : Pointer]
<1>1. /\ TreeInv /\ [Next]_vars /\ itEntry' = itEntry /\ live \subseteq Addr
      /\ Null \notin Addr /\ Null \in Pointer
      /\ Standing => Kept \in live \cup {Null}
      /\ Standing' = Standing
      /\ ~Standing => Kept = Null /\ ghosts = <<>>
  BY TableStepFacts, ChainTypes DEF ItInv, ItPath, Kept, Pointer
<1>2. /\ ghosts \in Seq(R) /\ DOMAIN ghosts = 1 .. Len(ghosts) /\ Len(ghosts) \in Nat
      /\ ghosts # <<>> => Len(ghosts) >= 1
  BY ItTypes DEF ItInv
<1>3. CASE Kept \in Gone
  <2>1. Kept \in live /\ Kept \notin live' /\ Standing
    BY <1>1, <1>3 DEF Gone
  <2>2. m_parent[Kept] \in (live \cap live') \cup {Null}
    BY <1>1, <1>3, LiveNext
  <2>3. g \in R
    BY <1>1, <2>1, <2>2, FamilyTypes DEF Pointer
  <2>4. ghosts' = Append(ghosts, g)
    BY <1>3, TableStepFacts
  <2>5. /\ ghosts' \in Seq(R) /\ Len(ghosts') = Len(ghosts) + 1
        /\ \A k \in 1 .. Len(ghosts) : ghosts'[k] = ghosts[k]
        /\ ghosts'[Len(ghosts) + 1] = g
    BY <1>2, <2>3, <2>4, AppendProperties
  <2>6. DOMAIN ghosts' = 1 .. Len(ghosts) + 1 /\ ghosts' # <<>>
    BY <1>2, <2>5, LenProperties, EmptySeq
  <2>7. Kept' = m_parent[Kept]
    BY <2>5, <2>6 DEF Kept
  <2>8. \A k \in DOMAIN ghosts' : ghosts'[k].addr \notin live'
    BY <1>2, <2>1, <2>5, <2>6, TableStepFacts
  <2>9. \A k \in DOMAIN ghosts' :
          k < Len(ghosts') => ghosts'[k].parent = ghosts'[k + 1].addr
    <3> SUFFICES ASSUME NEW k \in 1 .. Len(ghosts)
                 PROVE  ghosts'[k].parent = ghosts'[k + 1].addr
      BY <1>2, <2>5, <2>6
    <3>1. CASE k < Len(ghosts)
      BY <1>2, <2>5, <3>1 DEF ItInv, ItPath
    <3>2. CASE k = Len(ghosts)
      <4>1. Kept = ghosts[Len(ghosts)].parent
        BY <1>2, <3>2, EmptySeq DEF Kept
      <4> QED
        BY <1>2, <2>5, <3>2, <4>1
    <3> QED
      BY <1>2, <3>1, <3>2
  <2>10. itEntry' = ghosts'[1].addr
    <3>1. CASE ghosts = <<>>
      BY <1>1, <2>5, <3>1, EmptySeq DEF Kept
    <3>2. CASE ghosts # <<>>
      BY <1>1, <1>2, <2>1, <2>5, <3>2 DEF ItInv, ItPath
    <3> QED
      BY <3>1, <3>2
  <2>11. ItPath'
    BY <2>2, <2>6, <2>7, <2>8, <2>9, <2>10 DEF ItPath
  <2> QED
    BY <1>3, <2>5, <2>6, <2>7, <2>11
<1>4. CASE Kept \notin Gone
  <2>1. ghosts' = ghosts
    BY <1>4, TableStepFacts
  <2>2. Kept' = Kept
    BY <1>1, <2>1 DEF Kept
  <2>3. Standing => Kept \in live' \cup {Null}
    BY <1>1, <1>4 DEF Gone
  <2>4. Standing => IF ghosts = <<>> THEN itEntry \in live' ELSE itEntry = ghosts[1].addr
    BY <1>1, <1>4, <2>3 DEF ItInv, ItPath, Kept
  <2>5. ItPath'
    BY <1>1, <2>1, <2>2, <2>3, <2>4, TableStepFacts DEF ItInv, ItPath
  <2> QED
    BY <1>2, <1>4, <2>1, <2>2, <2>5
<1> QED
  BY <1>3, <1>4

LEMMA TableStepKeeps ==
  ASSUME ItInv, TableStep
  PROVE  ItShape' /\ ItPath' /\ ItAsked' /\ ItCalm'
<1>1. /\ TreeInv /\ ChainInv /\ [Next]_vars /\ itPc \in {"none", "rest"}
      /\ itPc' = itPc /\ itEntry' = itEntry /\ itNode' = itNode /\ itRoot' = itRoot
      /\ itType' = itType /\ accepts' = accepts /\ visits' = visits
      /\ itPrefix' = itPrefix /\ visitChildren' = visitChildren /\ twice' = twice
      /\ newLocation = 0 /\ newLocation' = 0
      /\ passed' = passed \cap live' /\ stayed' = stayed \cap live'
      /\ Standing' = Standing /\ Standing = (itPc = "rest") /\ ~Moving'
      /\ ~Standing => itEntry = Null
  BY TableStepFacts DEF itArgs, itLoop
<1>2. disturbed' = (disturbed \/ (itPc = "rest" /\ Disturbs)) /\ disturbed' \in BOOLEAN
  BY Zenon DEF TableStep
<1>3. ItPath'
  BY TableStepPath
<1>4. ItShape'
  <2>1. m_nBuckets' \in Nat
    BY ChainTypes, TableStepFacts DEF ChainInv, TreeInv, TypeInv, TypeOK
  <2>2. ghosts' \in Seq([addr : Addr, prefix : Name, parent : Pointer])
    BY TableStepPath
  <2>3. twice' \in BOOLEAN /\ visitChildren' \in BOOLEAN
    <3>1. twice \in BOOLEAN /\ visitChildren \in BOOLEAN
      BY ItTypes DEF ItInv
    <3> QED
      BY <1>1, <3>1
  <2>4. ItTypeOK'
    BY <1>1, <1>2, <2>1, <2>2, <2>3 DEF ItInv, ItShape, ItTypeOK
  <2>5. ~Standing => ghosts' = <<>>
    BY <1>1, TableStepFacts, ChainTypes DEF Kept, Gone
  <2> QED
    BY <1>1, <2>4, <2>5 DEF ItInv, ItShape
<1>5. ItAsked'
  <2> SUFFICES ASSUME ~damaged'
               PROVE  /\ itPc = "rest" /\ ghosts' = <<>> => m_prefix'[itEntry] \in accepts
                      /\ Standing /\ itType = "all" /\ Kept' # Null =>
                           IsPrefix(m_prefix'[Kept'], itPrefix)
                      /\ Standing /\ itType = "partial" /\ ghosts' = <<>> => InSubTree'
    BY <1>1 DEF ItAsked
  <2>1. ~damaged /\ ChainsSound
    BY <1>1, DamageStays DEF ChainInv, ChainsCorrect
  <2>2. ASSUME Standing, ghosts' = <<>>
        PROVE  /\ ghosts = <<>> /\ itEntry \in live /\ itEntry \in live'
               /\ m_prefix'[itEntry] = m_prefix[itEntry]
    BY <1>1, <2>2, TableStepPath, LiveNext DEF ItInv, ItPath, Kept, Gone
  <2>3. itPc = "rest" /\ ghosts' = <<>> => m_prefix'[itEntry] \in accepts
    BY <1>1, <2>1, <2>2 DEF ItInv, ItAsked
  <2>4. ASSUME Standing, itType = "all", Kept' # Null
        PROVE  IsPrefix(m_prefix'[Kept'], itPrefix)
    <3>1. Kept \in live \cup {Null}
      BY <2>4 DEF ItInv, ItPath
    <3>2. CASE Kept \in Gone
      <4>1. Kept' = m_parent[Kept] /\ Kept \in live
        BY <3>2, TableStepPath DEF Gone
      <4>2. m_parent[Kept] \in live \cap live'
        BY <1>1, <2>4, <3>2, <4>1, LiveNext
      <4>3. Kept # Null
        BY <1>1, <4>1, FamilyTypes
      <4>4. IsPrefix(m_prefix[Kept], itPrefix)
        BY <2>1, <2>4, <4>3 DEF ItInv, ItAsked
      <4>5. /\ IsPrefix(m_prefix[m_parent[Kept]], m_prefix[Kept])
            /\ m_prefix[Kept] \in Name /\ m_prefix[m_parent[Kept]] \in Name
            /\ itPrefix \in Name
        BY <1>1, <2>4, <4>1, <4>2, ParentName, FamilyTypes, ItTypes DEF ItInv
      <4>6. IsPrefix(m_prefix[m_parent[Kept]], itPrefix)
        BY <4>4, <4>5, PrefixTransitive
      <4>7. m_prefix'[m_parent[Kept]] = m_prefix[m_parent[Kept]]
        BY <1>1, <4>2, LiveNext
      <4> QED
        BY <4>1, <4>6, <4>7
    <3>3. CASE Kept \notin Gone
      <4>1. Kept' = Kept /\ Kept \in live \cap live'
        BY <2>4, <3>1, <3>3, TableStepPath DEF Gone
      <4>2. m_prefix'[Kept] = m_prefix[Kept]
        BY <1>1, <4>1, LiveNext
      <4>3. IsPrefix(m_prefix[Kept], itPrefix)
        BY <2>1, <2>4, <4>1 DEF ItInv, ItAsked
      <4> QED
        BY <4>1, <4>2, <4>3
    <3> QED
      BY <3>2, <3>3
  <2>5. ASSUME Standing, itType = "partial", ghosts' = <<>>
        PROVE  InSubTree'
    <3>1. /\ ghosts = <<>> /\ itEntry \in live /\ itEntry \in live'
          /\ m_prefix'[itEntry] = m_prefix[itEntry]
      BY <2>2, <2>5
    <3>2. /\ itRoot \in live /\ m_prefix[itRoot] = itPrefix
          /\ Inside(m_prefix[itEntry])
          /\ visitChildren => m_prefix[itEntry] \in visits
      BY <2>1, <2>5, <3>1 DEF ItInv, ItAsked, InSubTree
    <3>3. itRoot \in live'
      <4>1. CASE itRoot = itEntry
        BY <3>1, <4>1
      <4>2. CASE itRoot # itEntry
        <5>1. m_children[itRoot] # <<>>
          BY <1>1, <2>1, <3>1, <3>2, <4>2, AncestorHasChildren DEF Inside
        <5> QED
          BY <1>1, <3>2, <5>1, LiveNext DEF Gone
      <4> QED
        BY <4>1, <4>2
    <3>4. m_prefix'[itRoot] = itPrefix
      BY <1>1, <3>2, <3>3, LiveNext
    <3>5. Inside(m_prefix[itEntry])'
      BY <1>1, <3>1, <3>2 DEF Inside
    <3>6. visitChildren' => m_prefix'[itEntry'] \in visits'
      BY <1>1, <3>1, <3>2
    <3> QED
      BY <1>1, <3>3, <3>4, <3>5, <3>6 DEF InSubTree
  <2> QED
    BY <2>3, <2>4, <2>5
<1>6. ItCalm'
  <2> SUFFICES ASSUME ~damaged', ~disturbed'
               PROVE  /\ itPc \notin {"undefined", "abort"}
                      /\ Standing /\ itType # "all" => ghosts' = <<>>
                      /\ Standing /\ itType = "partial" /\ visitChildren =>
                           m_children'[itEntry] # <<>>
                      /\ itPc = "rest" /\ ghosts' = <<>> => itEntry \in passed'
    BY <1>1 DEF ItCalm
  <2>1. ~damaged
    BY <1>1, DamageStays
  <2>2. ~disturbed /\ (itPc = "rest" => ~Disturbs)
    BY <1>2, Zenon
  <2>3. /\ Standing /\ itType # "all" => ghosts = <<>>
        /\ itPc = "rest" /\ ghosts = <<>> => itEntry \in passed
    BY <2>1, <2>2 DEF ItInv, ItCalm
  <2>4. ASSUME Standing, itType # "all" PROVE ghosts' = <<>>
    <3>1. itType \in {"full", "partial"} /\ ghosts = <<>> /\ Kept = itEntry /\ itPc = "rest"
      BY <1>1, <2>3, <2>4 DEF ItInv, ItShape, ItTypeOK, Kept
    <3>2. itEntry \notin Gone
      BY <2>2, <2>3, <3>1 DEF Disturbs
    <3> QED
      BY <3>1, <3>2, TableStepFacts
  <2>5. ASSUME Standing, itType = "partial", visitChildren
        PROVE  m_children'[itEntry] # <<>>
    BY <1>1, <2>2, <2>5 DEF Disturbs
  <2>6. ASSUME itPc = "rest", ghosts' = <<>> PROVE itEntry \in passed'
    <3>1. ghosts = <<>> /\ Kept = itEntry /\ itEntry \notin Gone /\ itEntry \in live
      BY <1>1, <2>6, TableStepPath DEF Kept, ItInv, ItPath
    <3> QED
      BY <1>1, <2>3, <2>6, <3>1 DEF Gone
  <2> QED
    BY <1>1, <2>4, <2>5, <2>6
<1> QED
  BY <1>3, <1>4, <1>5, <1>6

-----------------------------------------------------------------------------
(* The theorems.                                                           *)

LEMMA ItStart == ItInit => ItInv
<1> SUFFICES ASSUME ItInit PROVE ItInv
  OBVIOUS
<1>1. ChainInv
  BY ChainInit DEF ItInit
<1>2. /\ itType = "full" /\ itEntry = Null /\ itRoot = Null
      /\ accepts = {} /\ visits = {} /\ itPc = "none" /\ newLocation = 0
      /\ itNode = Null /\ itPrefix = <<>> /\ ghosts = <<>> /\ passed = {} /\ stayed = {}
  BY DEF ItInit, NoIterator
<1>3. visitChildren \in BOOLEAN /\ twice \in BOOLEAN /\ disturbed \in BOOLEAN
  BY Zenon DEF ItInit, NoIterator
<1>4. /\ Null \in Pointer /\ <<>> \in Name /\ m_nBuckets \in Nat
      /\ <<>> \in Seq([addr : Addr, prefix : Name, parent : Pointer])
      /\ DOMAIN ghosts = {}
  BY <1>1, <1>2, ChainTypes, NameAssumption, EmptySeq DEF ChainInv, Pointer
<1>5. ~Standing /\ ~Moving
  BY <1>2 DEF Standing, Moving
<1>6. ItShape
  BY <1>2, <1>3, <1>4, <1>5 DEF ItShape, ItTypeOK
<1>7. ItPath
  BY <1>4, <1>5 DEF ItPath
<1>8. ItAsked
  BY <1>2, <1>5 DEF ItAsked
<1>9. ItCalm
  BY <1>2, <1>5 DEF ItCalm
<1> QED
  BY <1>1, <1>6, <1>7, <1>8, <1>9 DEF ItInv

LEMMA ItStutter ==
  ASSUME ItInv, UNCHANGED <<vars, itVars>>
  PROVE  ItShape' /\ ItPath' /\ ItAsked' /\ ItCalm'
<1>1. /\ m_nBuckets' = m_nBuckets /\ live' = live /\ m_prefix' = m_prefix
      /\ m_children' = m_children /\ pc' = pc /\ damaged' = damaged
  BY TableSame
<1>2. /\ itType' = itType /\ itRoot' = itRoot /\ accepts' = accepts
      /\ visits' = visits /\ itPrefix' = itPrefix /\ itEntry' = itEntry
      /\ visitChildren' = visitChildren /\ itPc' = itPc
      /\ newLocation' = newLocation /\ itNode' = itNode /\ ghosts' = ghosts
      /\ passed' = passed /\ stayed' = stayed /\ twice' = twice
      /\ disturbed' = disturbed
  BY DEF itVars, itArgs, itLoop
<1>3. Standing' = Standing /\ Moving' = Moving /\ Kept' = Kept
  BY <1>2 DEF Standing, Moving, Kept
<1>4. ItShape'
  BY <1>1, <1>2, <1>3 DEF ItInv, ItShape, ItTypeOK
<1>5. ItPath'
  BY <1>1, <1>2, <1>3 DEF ItInv, ItPath
<1>6. InSubTree => InSubTree'
  BY <1>1, <1>2 DEF InSubTree, Inside
<1>7. ItAsked'
  BY <1>1, <1>2, <1>3, <1>6 DEF ItInv, ItAsked
<1>8. ItCalm'
  BY <1>1, <1>2, <1>3 DEF ItInv, ItCalm
<1> QED
  BY <1>4, <1>5, <1>7, <1>8

LEMMA ItInvNext == ItInv /\ [ItNext]_<<vars, itVars>> => ItInv'
<1> SUFFICES ASSUME ItInv, [ItNext]_<<vars, itVars>> PROVE ItInv'
  OBVIOUS
<1>1. [Next]_vars
  BY ItTableNext
<1>2. ChainInv'
  BY <1>1, ChainNext DEF ItInv
<1>3. ItShape' /\ ItPath' /\ ItAsked' /\ ItCalm'
  <2>1. CASE TableStep
    BY <2>1, TableStepKeeps
  <2>2. ASSUME NEW S \in Selector,
               FullEnumerate(S) \/ \E n \in Name : FindAllMatches(n, S)
        PROVE  ItShape' /\ ItPath' /\ ItAsked' /\ ItCalm'
    BY <2>2, FullEnumerateKeeps, FindAllMatchesKeeps
  <2>3. ASSUME NEW S \in Selector, NEW n \in Name, NEW V \in SubSelector,
               PartialEnumerate(n, S, V)
        PROVE  ItShape' /\ ItPath' /\ ItAsked' /\ ItCalm'
    BY <2>3, PartialEnumerateKeeps
  <2>4. CASE Increment \/ Drop
    BY <2>4, IncrementKeeps, ItDropKeeps
  <2>5. CASE ItStep
    BY <2>5, ChainStepKeeps, FullUndefinedKeeps, BucketStepsKeep, TreeDownKeeps,
       TreeStopsKeep, TreeSiblingKeeps, TreeEndKeeps, UpStepKeeps DEF ItStep
  <2>6. CASE UNCHANGED <<vars, itVars>>
    BY <2>6, ItStutter
  <2> QED
    BY <2>1, <2>2, <2>3, <2>4, <2>5, <2>6 DEF ItNext
<1> QED
  BY <1>2, <1>3 DEF ItInv

LEMMA ItCorrect == ItSpec => []ItInv
<1>1. ItInit => ItInv
  BY ItStart
<1>2. ItInv /\ [ItNext]_<<vars, itVars>> => ItInv'
  BY ItInvNext
<1> QED
  BY <1>1, <1>2, PTL DEF ItSpec

\* The variables of the iterator have their types.  It takes the path of erased
\* entries that it keeps in memory: where findAllMatches() goes up, there is an
\* entry, stored or erased, and never an address that was given to a new one.
THEOREM IteratorTypes == ItSpec => []ItTypeOK
<1>1. ItInv => ItTypeOK
  BY DEF ItInv, ItShape
<1> QED
  BY <1>1, ItCorrect, PTL

\* What an iterator stands on was asked for, whatever happened to the table since
\* it got there, except that a node was unlinked through a wrong m_prev: the selector has accepted the name, findAllMatches() is at
\* a prefix of its argument, and partialEnumerate() is below its argument with
\* the children of all entries above it visited.
THEOREM OnlyWantedEnumerated == ItSpec => []EnumeratesWanted
<1>1. ItInv => EnumeratesWanted
  <2> SUFFICES ASSUME ItInv, itPc = "rest", itEntry \in live, ~damaged
               PROVE  Wanted(m_prefix[itEntry])
    BY DEF EnumeratesWanted
  <2>1. ghosts = <<>> /\ Standing /\ Kept = itEntry /\ itEntry # Null
    BY ItTypes DEF ItInv, ItShape, ItPath, Standing, Kept
  <2>2. m_prefix[itEntry] \in accepts
    BY <2>1 DEF ItInv, ItAsked
  <2>3. itType = "all" => IsPrefix(m_prefix[itEntry], itPrefix)
    BY <2>1 DEF ItInv, ItAsked
  <2>4. itType = "partial" => Inside(m_prefix[itEntry])
    BY <2>1 DEF ItInv, ItAsked, InSubTree
  <2> QED
    BY <2>2, <2>3, <2>4 DEF Wanted, Inside
<1> QED
  BY <1>1, ItCorrect, PTL

\* An increment reads a deleted node, asks for a child that is not there or fails
\* BOOST_ASSERT(isFound == true) only where the table was changed in one of the
\* ways that the iterator does not tolerate, of which findAllMatches() has none, or
\* where a node was unlinked through a wrong m_prev.
THEOREM IncrementsAreDefined == ItSpec => []IncrementDefined
<1>1. ItInv => IncrementDefined
  <2> SUFFICES ASSUME ItInv, itPc \in {"undefined", "abort"}
               PROVE  damaged \/ disturbed
    BY Zenon DEF IncrementDefined
  <2> SUFFICES ASSUME ~damaged, ~disturbed PROVE FALSE
    BY Zenon
  <2> QED
    BY DEF ItInv, ItCalm
<1> QED
  BY <1>1, ItCorrect, PTL

-----------------------------------------------------------------------------
(* Walks along the chains of a table that changes.                         *)

\* Chain, with the links as a parameter.
Walk(next, head) ==
  {a \in Addr :
     \A S \in SUBSET Addr :
       /\ head \in S \cup {Null}
       /\ \A x \in S : next[x] \in S \cup {Null}
       => a \in S}

LEMMA WalkWithin ==
  ASSUME NEW next, NEW S \in SUBSET Addr, NEW head \in S \cup {Null},
         \A x \in S : next[x] \in S \cup {Null}
  PROVE  Walk(next, head) \subseteq S
BY DEF Walk

LEMMA WalkCloses ==
  ASSUME NEW next \in [Addr -> Pointer], NEW head \in Pointer
  PROVE  /\ head \in Walk(next, head) \cup {Null}
         /\ \A x \in Walk(next, head) : next[x] \in Walk(next, head) \cup {Null}
<1>1. head # Null => head \in Walk(next, head)
  BY DEF Walk, Pointer
<1>2. ASSUME NEW x \in Walk(next, head), next[x] # Null
      PROVE  next[x] \in Walk(next, head)
  <2>1. next[x] \in Addr /\ x \in Addr
    BY <1>2 DEF Walk, Pointer
  <2>2. ASSUME NEW S \in SUBSET Addr, head \in S \cup {Null},
               \A y \in S : next[y] \in S \cup {Null}
        PROVE  next[x] \in S
    <3>1. x \in S
      BY <2>2 DEF Walk
    <3> QED
      BY <1>2, <2>2, <3>1
  <2> QED
    BY <2>1, <2>2 DEF Walk
<1> QED
  BY <1>1, <1>2

\* The links f become g when a free node a is appended to some chain.
LinksAppend(f, g, a) ==
  /\ f[a] = Null /\ g[a] = Null
  /\ \A x \in Addr : g[x] = f[x] \/ (f[x] = Null /\ g[x] = a)

\* What follows h gets at most a in addition.
LEMMA WalkAppend ==
  ASSUME NEW f \in [Addr -> Pointer], NEW g \in [Addr -> Pointer], NEW a \in Addr,
         LinksAppend(f, g, a), NEW h \in Addr
  PROVE  /\ Walk(f, f[h]) \subseteq Walk(g, g[h])
         /\ Walk(g, g[h]) \subseteq Walk(f, f[h]) \cup {a}
<1> DEFINE F == Walk(f, f[h])
           G == Walk(g, g[h])
<1>1. F \in SUBSET Addr /\ G \in SUBSET Addr /\ f[h] \in Pointer /\ g[h] \in Pointer
  BY DEF Walk
<1>2. f[h] \in F \cup {Null} /\ \A x \in F : f[x] \in F \cup {Null}
  BY <1>1, WalkCloses
<1>3. g[h] \in G \cup {Null} /\ \A x \in G : g[x] \in G \cup {Null}
  BY <1>1, WalkCloses
<1> HIDE DEF F, G
<1>4. f[h] \in G \cup {Null} /\ \A x \in G : f[x] \in G \cup {Null}
  BY <1>1, <1>3 DEF LinksAppend
<1>5. g[h] \in (F \cup {a}) \cup {Null} /\ \A x \in F \cup {a} : g[x] \in (F \cup {a}) \cup {Null}
  <2>1. \A x \in Addr : g[x] = f[x] \/ g[x] = a
    BY DEF LinksAppend
  <2>2. g[a] = Null
    BY DEF LinksAppend
  <2>3. g[h] \in (F \cup {a}) \cup {Null}
    BY <1>2, <2>1
  <2>4. ASSUME NEW x \in F \cup {a} PROVE g[x] \in (F \cup {a}) \cup {Null}
    <3>1. CASE x = a
      BY <2>2, <3>1
    <3>2. CASE x \in F
      BY <1>1, <1>2, <2>1, <3>2
    <3> QED
      BY <3>1, <3>2
  <2> QED
    BY <2>3, <2>4
<1>6. Walk(f, f[h]) \subseteq G
  BY <1>1, <1>4, WalkWithin
<1>7. Walk(g, g[h]) \subseteq F \cup {a}
  <2> DEFINE S == F \cup {a}
  <2>1. S \in SUBSET Addr /\ g[h] \in S \cup {Null} /\ \A x \in S : g[x] \in S \cup {Null}
    BY <1>1, <1>5
  <2> HIDE DEF S
  <2>2. Walk(g, g[h]) \subseteq S
    BY <2>1, WalkWithin
  <2> QED
    BY <2>2 DEF S
<1> QED
  BY <1>6, <1>7 DEF F, G

\* The links f become g when e is taken out behind q, or from the head of a chain.
LinksRemove(f, g, e, q) ==
  /\ f[e] # e /\ g[e] = Null
  /\ \A x \in Addr \ {e} :
       IF x = q THEN f[x] = e /\ g[x] = f[e] ELSE f[x] # e /\ g[x] = f[x]

\* What follows h loses e, and nothing else.
LEMMA WalkRemove ==
  ASSUME NEW f \in [Addr -> Pointer], NEW g \in [Addr -> Pointer], NEW e \in Addr,
         NEW q, LinksRemove(f, g, e, q), Null \notin Addr, NEW h \in Addr, h # e
  PROVE  Walk(g, g[h]) = Walk(f, f[h]) \ {e}
<1> DEFINE F == Walk(f, f[h])
           G == Walk(g, g[h])
<1>1. F \in SUBSET Addr /\ G \in SUBSET Addr /\ f[h] \in Pointer /\ g[h] \in Pointer
  BY DEF Walk
<1>2. f[h] \in F \cup {Null} /\ \A x \in F : f[x] \in F \cup {Null}
  BY <1>1, WalkCloses
<1>3. g[h] \in G \cup {Null} /\ \A x \in G : g[x] \in G \cup {Null}
  BY <1>1, WalkCloses
<1> HIDE DEF F, G
<1>4. G \subseteq F \ {e}
  <2> DEFINE S == F \ {e}
  <2>1. g[h] \in S \cup {Null}
    BY <1>1, <1>2 DEF LinksRemove
  <2>2. \A x \in S : g[x] \in S \cup {Null}
    BY <1>1, <1>2 DEF LinksRemove
  <2> QED
    BY <1>1, <2>1, <2>2, WalkWithin DEF G
<1>5. F \ {e} \subseteq G
  <2>1. CASE q = h \/ q \in G
    <3> DEFINE T == G \cup {e}
    <3>1. f[h] \in T \cup {Null}
      <4>1. f[h] = e \/ g[h] = f[h]
        BY DEF LinksRemove
      <4> QED
        BY <1>3, <4>1
    <3>2. f[e] \in T \cup {Null}
      <4>1. CASE q = h
        <5>1. g[h] = f[e]
          BY <4>1 DEF LinksRemove
        <5> QED
          BY <1>3, <5>1
      <4>2. CASE q \in G
        <5>1. q \in Addr \ {e}
          BY <1>1, <1>4, <4>2
        <5>2. g[q] = f[e]
          BY <5>1 DEF LinksRemove
        <5> QED
          BY <1>3, <4>2, <5>2
      <4> QED
        BY <2>1, <4>1, <4>2
    <3>3. \A x \in T : f[x] \in T \cup {Null}
      <4> SUFFICES ASSUME NEW x \in T PROVE f[x] \in T \cup {Null}
        OBVIOUS
      <4>1. CASE x = e
        BY <3>2, <4>1
      <4>2. CASE x # e
        <5>1. x \in G /\ x \in Addr \ {e}
          BY <1>1, <4>2
        <5>2. f[x] = e \/ g[x] = f[x]
          BY <5>1 DEF LinksRemove
        <5> QED
          BY <1>3, <5>1, <5>2
      <4> QED
        BY <4>1, <4>2
    <3>4. F \subseteq T
      <4>1. T \in SUBSET Addr
        BY <1>1
      <4> HIDE DEF T
      <4> QED
        BY <3>1, <3>3, <4>1, WalkWithin DEF F
    <3> QED
      BY <3>4
  <2>2. CASE q # h /\ q \notin G
    <3>1. f[h] \in G \cup {Null}
      BY <1>3, <2>2 DEF LinksRemove
    <3>2. ASSUME NEW x \in G PROVE f[x] \in G \cup {Null}
      <4>1. x \in Addr \ {e} /\ x # q
        BY <1>1, <1>4, <2>2
      <4>2. g[x] = f[x]
        BY <4>1 DEF LinksRemove
      <4> QED
        BY <1>3, <4>2
    <3>3. F \subseteq G
      BY <1>1, <3>1, <3>2, WalkWithin DEF F
    <3> QED
      BY <3>3
  <2> QED
    BY <2>1, <2>2
<1> QED
  BY <1>4, <1>5 DEF F, G

\* The steps that write to a link append the new node or take the erased one out,
\* outside of resize().
LEMMA LinkSteps ==
  ASSUME TreeInv, ChainsSound, [Next]_vars, pc # "resize",
         EraseEmpty => ~WrongPrev(entry)
  PROVE  /\ m_nBuckets' = m_nBuckets
         /\ \/ m_next' = m_next /\ live' = live
            \/ \E a \in Addr \ live : LinksAppend(m_next, m_next', a) /\ live' = live \cup {a}
            \/ /\ entry \in live /\ live' = live \ {entry}
               /\ \E q : LinksRemove(m_next, m_next', entry, q)
<1>1. ASSUME NEW a \in Addr \ live, InsertNew(a)
      PROVE  LinksAppend(m_next, m_next', a) /\ live' = live \cup {a} /\ m_nBuckets' = m_nBuckets
  <2>1. /\ pc = "insert" /\ node = Null /\ live' = live \cup {a} /\ m_nBuckets' = m_nBuckets
        /\ m_next' = IF nodePrev = Null THEN [m_next EXCEPT ![a] = Null]
                     ELSE [m_next EXCEPT ![a] = Null, ![nodePrev] = a]
    BY <1>1 DEF InsertNew
  <2>2. InsertPosition /\ m_next[a] = Null
    BY <1>1, <2>1 DEF ChainsSound, FreeUnlinked
  <2>3. nodePrev # Null => nodePrev \in live /\ m_next[nodePrev] = Null
    BY <2>1, <2>2 DEF InsertPosition
  <2> QED
    BY <1>1, <2>1, <2>2, <2>3, ChainTypes DEF LinksAppend
<1>2. CASE EraseEmpty
  <2> DEFINE prv == m_prev[entry]
             nxt == m_next[entry]
             b == Location(m_prefix[entry], m_nBuckets)
  <2>1. /\ pc = "erase" /\ entry \in live /\ entry \in Addr /\ Null \notin Addr
        /\ prv \in live \cup {Null} /\ live \subseteq Addr
        /\ m_next' = IF prv # Null THEN [m_next EXCEPT ![prv] = nxt, ![entry] = Null]
                     ELSE [m_next EXCEPT ![entry] = Null]
        /\ live' = live \ {entry} /\ m_nBuckets' = m_nBuckets
    BY <1>2, ChainTypes DEF EraseEmpty, Unlink, Discard, TreeInv, CallPosition
  <2>2. IF prv = Null THEN m_buckets[b] = entry ELSE m_next[prv] = entry
    BY <1>2 DEF WrongPrev, Bucket
  <2>3. Chained(live, m_buckets, m_next, m_prev, BucketIn(m_nBuckets))
    BY <2>1, SoundChain
  <2>4. BucketIn(m_nBuckets)[entry] = b
    BY <2>1, ChainTypes, BucketInTable
  <2>5. nxt # entry
    <3>1. entry \notin Chain(m_next[entry])
      BY <2>1, <2>3, ChainTypes, ChainNoCycle
    <3>2. m_next[entry] # Null => m_next[entry] \in Chain(m_next[entry])
      BY <2>1, ChainTypes, ChainCloses
    <3> QED
      BY <2>1, <3>1, <3>2
  <2>6. \A x \in live : m_next[x] = entry => x = prv
    <3> SUFFICES ASSUME NEW x \in live, m_next[x] = entry PROVE x = prv
      OBVIOUS
    <3>1. /\ m_prev[entry] = x
          /\ m_buckets[BucketIn(m_nBuckets)[x]] # entry
          /\ BucketIn(m_nBuckets)[entry] = BucketIn(m_nBuckets)[x]
      BY <2>1, <2>3 DEF Chained, NextIn
    <3> QED
      BY <3>1
  <2>7. \A x \in Addr \ live : m_next[x] # entry
    BY <2>1 DEF ChainsSound, FreeUnlinked
  <2> HIDE DEF b
  <2>8. LinksRemove(m_next, m_next', entry, prv)
    <3>1. CASE prv = Null
      <4>1. \A x \in live : m_next[x] # entry
        BY <2>1, <2>6, <3>1
      <4> QED
        BY <2>1, <2>5, <2>7, <3>1, <4>1, ChainTypes DEF LinksRemove
    <3>2. CASE prv # Null
      BY <2>1, <2>2, <2>5, <2>6, <2>7, <3>2, ChainTypes DEF LinksRemove
    <3> QED
      BY <3>1, <3>2
  <2> QED
    BY <2>1, <2>8
<1>3. CASE ~EraseEmpty /\ ~ \E a \in Addr \ live : InsertNew(a)
  BY <1>3 DEF Next, Call, Step, vars, table, links, tree, Lookup, Erase, Resize,
     AddContent, RemoveContent, InsertWalk, InsertFound, InsertUndefined, Grow,
     NextPrefix, ResizeWalk, ResizeLink, ResizeNextBucket, ResizeEnd,
     ResizeUndefined, EraseNotEmpty, EraseUndefined, BeginResize, Stop
<1> QED
  BY <1>1, <1>2, <1>3

-----------------------------------------------------------------------------
(* What an enumeration has passed, and what is still ahead of it.          *)

\* An enumeration that nothing has disturbed.
Calm == ~damaged /\ ~disturbed

Loc(x) == Location(m_prefix[x], m_nBuckets)

\* What a full enumeration comes to if it goes on at head and then at the buckets
\* behind b.
AheadOf(head, b) == Chain(head) \cup {x \in live : Loc(x) > b}

Ahead ==
  IF itPc = "buckets" THEN AheadOf(itNode, newLocation)
  ELSE AheadOf(m_next[itEntry], Loc(itEntry))

\* A full enumeration has passed nothing that is ahead of it, and everything
\* stored since it began that is not.
FullSweep ==
  itType = "full" /\ itPc \in {"rest", "chain", "buckets"} /\ Calm =>
    /\ passed \cap Ahead = {}
    /\ stayed \ passed \subseteq Ahead
    /\ itPc = "buckets" /\ itNode # Null => Loc(itNode) = newLocation

\* findAllMatches() has passed what is above the longest match, up to where it is.
UpSweep ==
  itType = "all" /\ Standing /\ ~damaged =>
    /\ \A x \in passed : ghosts = <<>> /\ IsPrefix(m_prefix[itEntry], m_prefix[x])
    /\ ghosts = <<>> => itEntry \in passed
    /\ \A a \in stayed \ passed :
         Wanted(m_prefix[a]) => Kept # Null /\ IsPrefix(m_prefix[a], m_prefix[Kept])

\* y is the entry e or one above it, below the root of the enumeration.
OnPath(y, e) ==
  IsPrefix(itPrefix, m_prefix[y]) /\ IsPrefix(m_prefix[y], m_prefix[e])

\* Of the children that y is one of, those up to y are in P, and no others.
PassedUpTo(y, P) ==
  \E j \in DOMAIN m_children[m_parent[y]] :
    /\ m_children[m_parent[y]][j] = y
    /\ \A k \in DOMAIN m_children[m_parent[y]] :
         m_children[m_parent[y]][k] \in P <=> k <= j

\* The children of x that were to be visited are in P.
Swept(x, P) ==
  m_prefix[x] \in visits => \A c \in stayed : m_parent[c] = x => c \in P

\* A partial enumeration stands on e and has passed P; open is the set of e if it
\* is going to visit the children of e next.
SweptTree(e, open, P) ==
  /\ \A y \in live :
       OnPath(y, e) => y \in P /\ (y # itRoot => PassedUpTo(y, P))
  /\ \A x \in P : (OnPath(x, e) /\ x # e) \/ x \in open \/ Swept(x, P)
  /\ \A x \in P : IsPrefix(itPrefix, m_prefix[x]) /\ (x = itRoot \/ m_parent[x] \in P)
  /\ \A x \in P : m_parent[x] \notin open

Open(a, visit) == IF visit THEN {a} ELSE {}

TreeSweep ==
  itType = "partial" /\ Standing /\ Calm =>
    SweptTree(itEntry, Open(itEntry, visitChildren), passed)

\* With an entry, those above it have been stored all the time.
StayedTree == \A a \in stayed : m_parent[a] \in stayed \cup {Null}

\* Nothing was arrived at twice, and nothing at all before the beginning.
Once == (Calm => ~twice) /\ (itPc = "none" => ~twice /\ passed = {})

SweepInv ==
  /\ FullSweep /\ UpSweep /\ TreeSweep
  /\ StayedTree /\ Once /\ EnumerationComplete

-----------------------------------------------------------------------------
(* A partial enumeration in a tree that does not change.                   *)

\* e is in the tree below the root of the enumeration.
InTree(e) ==
  /\ e \in live /\ itRoot \in live /\ m_prefix[itRoot] = itPrefix
  /\ IsPrefix(itPrefix, m_prefix[e])

\* The root is above the parents of all others.
LEMMA InTreeParent ==
  ASSUME TreeInv, ChainsSound, ItShape, NEW e, InTree(e), e # itRoot
  PROVE  m_parent[e] # Null /\ InTree(m_parent[e])
<1>1. m_parent[e] # Null
  <2> SUFFICES ASSUME m_parent[e] = Null PROVE FALSE
    OBVIOUS
  <2>1. itPrefix = m_prefix[e]
    BY ItTypes, PrefixOfRoot DEF InTree
  <2> QED
    BY <2>1 DEF InTree, ChainsSound
<1>2. m_parent[e] \in live
  BY <1>1, ChildOf DEF InTree
<1>3. IsPrefix(itPrefix, m_prefix[m_parent[e]])
  BY <1>1, AboveParent DEF InTree
<1> QED
  BY <1>1, <1>2, <1>3 DEF InTree

\* What is passed stays so when c is added, unless c is one of the children.
LEMMA PassedMore ==
  ASSUME NEW y, NEW P, NEW c, PassedUpTo(y, P),
         \A k \in DOMAIN m_children[m_parent[y]] : m_children[m_parent[y]][k] # c
  PROVE  PassedUpTo(y, P \cup {c})
<1>1. PICK j \in DOMAIN m_children[m_parent[y]] :
        /\ m_children[m_parent[y]][j] = y
        /\ \A k \in DOMAIN m_children[m_parent[y]] :
             m_children[m_parent[y]][k] \in P <=> k <= j
  BY DEF PassedUpTo
<1>2. \A k \in DOMAIN m_children[m_parent[y]] :
        m_children[m_parent[y]][k] \in P \cup {c} <=> m_children[m_parent[y]][k] \in P
  OBVIOUS
<1>3. \A k \in DOMAIN m_children[m_parent[y]] :
        m_children[m_parent[y]][k] \in P \cup {c} <=> k <= j
  BY <1>1, <1>2
<1> QED
  BY <1>1, <1>3 DEF PassedUpTo

\* The enumeration arrives at c, the next child of an entry that it has passed.
Arriving(c, open, P) ==
  /\ c \in live \ P /\ m_parent[c] \in P
  /\ \A y \in live : OnPath(y, m_parent[c]) => y \in P /\ (y # itRoot => PassedUpTo(y, P))
  /\ PassedUpTo(c, P \cup {c})
  /\ \A x \in P : OnPath(x, m_parent[c]) \/ Swept(x, P)
  /\ \A x \in P : IsPrefix(itPrefix, m_prefix[x]) /\ (x = itRoot \/ m_parent[x] \in P)
  /\ open \subseteq {c}
  /\ c \in open \/ m_prefix[c] \notin visits \/ \A x \in live : m_parent[x] # c

LEMMA SweepArrives ==
  ASSUME TreeInv, ChainsSound, ItShape, NEW P \in SUBSET live, NEW c, NEW open,
         Arriving(c, open, P), InTree(m_parent[c])
  PROVE  SweptTree(c, open, P \cup {c})
<1> DEFINE up == m_parent[c]
<1>1. /\ c \in live /\ c \notin P /\ up \in P /\ up \in live /\ up # Null
      /\ m_prefix[c] \in Name /\ m_prefix[up] \in Name
      /\ itPrefix \in Name /\ stayed \subseteq live
      /\ IsPrefix(itPrefix, m_prefix[up]) /\ m_prefix[itRoot] = itPrefix
  BY FamilyTypes, ItTypes DEF Arriving, InTree
<1>2. \A y \in live : OnPath(y, c) => y = c \/ OnPath(y, up)
  BY <1>1, AboveParent DEF OnPath
<1>3. \A y \in live : OnPath(y, up) => OnPath(y, c) /\ y # c
  BY <1>1, BelowParent, FamilyTypes DEF OnPath
<1>4. /\ ~IsPrefix(m_prefix[c], m_prefix[up])
      /\ IsPrefix(itPrefix, m_prefix[c])
  BY <1>1, BelowParent
<1>5. \A y \in live : OnPath(y, c) =>
        y \in P \cup {c} /\ (y # itRoot => PassedUpTo(y, P \cup {c}))
  <2> SUFFICES ASSUME NEW y \in live, OnPath(y, c)
               PROVE  y \in P \cup {c} /\ (y # itRoot => PassedUpTo(y, P \cup {c}))
    OBVIOUS
  <2>1. CASE y = c
    BY <2>1 DEF Arriving
  <2>2. CASE y # c
    <3>1. OnPath(y, up)
      BY <1>2, <2>2
    <3>2. y \in P /\ (y # itRoot => PassedUpTo(y, P))
      BY <3>1 DEF Arriving
    <3>3. ASSUME y # itRoot PROVE PassedUpTo(y, P \cup {c})
      <4>1. m_parent[y] # Null /\ InTree(y)
        BY <1>1, <3>1, <3>3, InTreeParent DEF OnPath, InTree
      <4>2. m_parent[y] # up
        BY <3>1, <4>1, BelowParent DEF OnPath
      <4>3. \A k \in DOMAIN m_children[m_parent[y]] : m_children[m_parent[y]][k] # c
        BY <4>1, <4>2, ChildOf, FamilyTypes
      <4> QED
        BY <3>2, <3>3, <4>3, PassedMore
    <3> QED
      BY <3>2, <3>3
  <2> QED
    BY <2>1, <2>2
<1>6. \A x \in P \cup {c} : (OnPath(x, c) /\ x # c) \/ x \in open \/ Swept(x, P \cup {c})
  <2>1. ASSUME NEW x \in P PROVE (OnPath(x, c) /\ x # c) \/ Swept(x, P \cup {c})
    <3>1. OnPath(x, up) \/ Swept(x, P)
      BY DEF Arriving
    <3>2. Swept(x, P) => Swept(x, P \cup {c})
      BY DEF Swept
    <3> QED
      BY <1>3, <3>1, <3>2
  <2>2. c \in open \/ Swept(c, P \cup {c})
    BY <1>1 DEF Arriving, Swept
  <2> QED
    BY <2>1, <2>2
<1>7. \A x \in P \cup {c} :
        IsPrefix(itPrefix, m_prefix[x]) /\ (x = itRoot \/ m_parent[x] \in P \cup {c})
  BY <1>1, <1>4 DEF Arriving
<1>8. \A x \in P \cup {c} : m_parent[x] \notin open
  <2> SUFFICES ASSUME NEW x \in P \cup {c}, m_parent[x] = c PROVE FALSE
    BY DEF Arriving
  <2>1. x # c
    BY <1>1, NotItsParent
  <2>2. x \in P /\ (x = itRoot \/ m_parent[x] \in P)
    BY <2>1 DEF Arriving
  <2>3. x = itRoot
    BY <1>1, <2>2
  <2>4. IsPrefix(m_prefix[c], m_prefix[itRoot])
    <3>1. c # Null /\ itRoot \in live /\ m_parent[itRoot] = c
      BY <1>1, <2>2, <2>3, FamilyTypes
    <3> QED
      BY <3>1, ParentName
  <2>5. IsPrefix(m_prefix[itRoot], m_prefix[up]) /\ m_prefix[itRoot] \in Name
    BY <1>1
  <2> QED
    BY <1>1, <1>4, <2>4, <2>5, PrefixTransitive
<1> QED
  BY <1>5, <1>6, <1>7, <1>8 DEF SweptTree

\* Down to the first child of e.
LEMMA SweepGoesDown ==
  ASSUME TreeInv, ChainsSound, ItShape, NEW P \in SUBSET live, NEW e, InTree(e),
         SweptTree(e, {e}, P), m_children[e] # <<>>, NEW c, c = m_children[e][1],
         NEW open, open \subseteq {c},
         c \in open \/ m_prefix[c] \notin visits \/ \A x \in live : m_parent[x] # c
  PROVE  c \in live \ P /\ SweptTree(c, open, P \cup {c})
<1>1. /\ e \in live /\ 1 \in DOMAIN m_children[e] /\ c \in live /\ m_parent[c] = e
      /\ m_prefix[e] \in Name /\ DOMAIN m_children[e] = 1 .. Len(m_children[e])
      /\ Len(m_children[e]) \in Nat
      /\ \A k \in DOMAIN m_children[e] : m_children[e][k] \in live /\ m_parent[m_children[e][k]] = e
  BY FamilyTypes DEF InTree
<1>2. \A x \in P : m_parent[x] # e
  BY DEF SweptTree
<1>3. OnPath(e, e)
  BY <1>1, PrefixItself DEF OnPath, InTree
<1>4. PassedUpTo(c, P \cup {c})
  <2>1. \A k \in DOMAIN m_children[e] : m_children[e][k] \in P \cup {c} <=> k <= 1
    <3> SUFFICES ASSUME NEW k \in DOMAIN m_children[e]
                 PROVE  m_children[e][k] \in P \cup {c} <=> k <= 1
      OBVIOUS
    <3>1. m_children[e][k] \notin P
      BY <1>1, <1>2
    <3>2. m_children[e][k] = c <=> k = 1
      BY <1>1, ChildrenDistinct
    <3>3. k <= 1 <=> k = 1
      BY <1>1
    <3> QED
      BY <3>1, <3>2, <3>3
  <2> QED
    BY <1>1, <2>1 DEF PassedUpTo
<1>5. Arriving(c, open, P)
  <2>1. c \notin P /\ m_parent[c] \in P
    BY <1>1, <1>2, <1>3 DEF SweptTree
  <2>2. \A y \in live : OnPath(y, e) => y \in P /\ (y # itRoot => PassedUpTo(y, P))
    BY DEF SweptTree
  <2>3. \A x \in P : OnPath(x, e) \/ Swept(x, P)
    BY <1>3 DEF SweptTree
  <2>4. \A x \in P : IsPrefix(itPrefix, m_prefix[x]) /\ (x = itRoot \/ m_parent[x] \in P)
    BY DEF SweptTree
  <2> QED
    BY <1>1, <1>4, <2>1, <2>2, <2>3, <2>4 DEF Arriving
<1> QED
  BY <1>1, <1>5, SweepArrives DEF Arriving

\* e is at position k among its siblings; its own children are done.
LEMMA SweepSiblings ==
  ASSUME TreeInv, ChainsSound, ItShape, NEW P \in SUBSET live, NEW e, InTree(e), e # itRoot,
         SweptTree(e, {}, P), NEW k \in DOMAIN m_children[m_parent[e]],
         m_children[m_parent[e]][k] = e
  PROVE  /\ InTree(m_parent[e]) /\ m_parent[e] \in live /\ m_parent[e] # Null
         /\ \A j \in DOMAIN m_children[m_parent[e]] :
              m_children[m_parent[e]][j] \in P <=> j <= k
         /\ \A y \in live : OnPath(y, m_parent[e]) =>
              y \in P /\ (y # itRoot => PassedUpTo(y, P))
         /\ \A x \in P : OnPath(x, m_parent[e]) \/ Swept(x, P)
         /\ m_parent[e] \in P
<1>1. InTree(m_parent[e]) /\ m_parent[e] \in live /\ m_parent[e] # Null
  BY InTreeParent, FamilyTypes DEF InTree
<1>2. e \in live /\ m_prefix[e] \in Name /\ m_prefix[m_parent[e]] \in Name
  BY <1>1, FamilyTypes DEF InTree
<1>3. \A y \in live : OnPath(y, m_parent[e]) => OnPath(y, e)
  BY <1>1, <1>2, BelowParent, FamilyTypes DEF OnPath
<1>4. \A y \in live : OnPath(y, e) /\ y # e => OnPath(y, m_parent[e])
  BY <1>1, <1>2, AboveParent DEF OnPath
<1>5. OnPath(e, e) /\ OnPath(m_parent[e], m_parent[e])
  BY <1>1, <1>2, PrefixItself DEF OnPath, InTree
<1>6. PassedUpTo(e, P)
  BY <1>2, <1>5 DEF SweptTree
<1>7. PICK j \in DOMAIN m_children[m_parent[e]] :
        /\ m_children[m_parent[e]][j] = e
        /\ \A l \in DOMAIN m_children[m_parent[e]] :
             m_children[m_parent[e]][l] \in P <=> l <= j
  BY <1>6 DEF PassedUpTo
<1>8. j = k
  BY <1>1, <1>7, ChildrenDistinct
<1>9. \A y \in live : OnPath(y, m_parent[e]) => y \in P /\ (y # itRoot => PassedUpTo(y, P))
  BY <1>3 DEF SweptTree
<1>10. \A x \in P : OnPath(x, m_parent[e]) \/ Swept(x, P)
  BY <1>4 DEF SweptTree
<1> QED
  BY <1>1, <1>5, <1>7, <1>8, <1>9, <1>10

LEMMA SweepGoesAcross ==
  ASSUME TreeInv, ChainsSound, ItShape, NEW P \in SUBSET live, NEW e, InTree(e), e # itRoot,
         SweptTree(e, {}, P), NEW k \in DOMAIN m_children[m_parent[e]],
         m_children[m_parent[e]][k] = e, k < Len(m_children[m_parent[e]]),
         NEW c, c = m_children[m_parent[e]][k + 1], NEW open, open \subseteq {c},
         c \in open \/ m_prefix[c] \notin visits \/ \A x \in live : m_parent[x] # c
  PROVE  c \in live \ P /\ SweptTree(c, open, P \cup {c})
<1> DEFINE up == m_parent[e]
<1>1. /\ InTree(up) /\ up \in live /\ up \in P
      /\ \A j \in DOMAIN m_children[up] : m_children[up][j] \in P <=> j <= k
      /\ \A y \in live : OnPath(y, up) => y \in P /\ (y # itRoot => PassedUpTo(y, P))
      /\ \A x \in P : OnPath(x, up) \/ Swept(x, P)
  BY SweepSiblings
<1>2. /\ DOMAIN m_children[up] = 1 .. Len(m_children[up]) /\ Len(m_children[up]) \in Nat
      /\ \A j \in DOMAIN m_children[up] : m_children[up][j] \in live /\ m_parent[m_children[up][j]] = up
  BY <1>1, FamilyTypes
<1>3. k \in Nat /\ k + 1 \in DOMAIN m_children[up] /\ ~(k + 1 <= k)
  BY <1>2
<1>4. c \in live /\ m_parent[c] = up /\ c \notin P
  BY <1>1, <1>2, <1>3
<1>5. PassedUpTo(c, P \cup {c})
  <2>1. \A j \in DOMAIN m_children[up] : m_children[up][j] \in P \cup {c} <=> j <= k + 1
    <3> SUFFICES ASSUME NEW j \in DOMAIN m_children[up]
                 PROVE  m_children[up][j] \in P \cup {c} <=> j <= k + 1
      OBVIOUS
    <3>1. m_children[up][j] \in P <=> j <= k
      BY <1>1
    <3>2. m_children[up][j] = c <=> j = k + 1
      BY <1>1, <1>3, ChildrenDistinct
    <3>3. j <= k + 1 <=> j <= k \/ j = k + 1
      BY <1>2, <1>3
    <3> QED
      BY <3>1, <3>2, <3>3
  <2> QED
    BY <1>3, <1>4, <2>1 DEF PassedUpTo
<1>6. Arriving(c, open, P)
  <2>1. \A x \in P : IsPrefix(itPrefix, m_prefix[x]) /\ (x = itRoot \/ m_parent[x] \in P)
    BY DEF SweptTree
  <2> QED
    BY <1>1, <1>4, <1>5, <2>1 DEF Arriving
<1> QED
  BY <1>1, <1>4, <1>6, SweepArrives

LEMMA SweepGoesUp ==
  ASSUME TreeInv, ChainsSound, ItShape, NEW P \in SUBSET live, NEW e, InTree(e), e # itRoot,
         SweptTree(e, {}, P), NEW k \in DOMAIN m_children[m_parent[e]],
         m_children[m_parent[e]][k] = e, ~(k < Len(m_children[m_parent[e]]))
  PROVE  SweptTree(m_parent[e], {}, P)
<1> DEFINE up == m_parent[e]
<1>1. /\ InTree(up) /\ up \in live /\ up # Null
      /\ \A j \in DOMAIN m_children[up] : m_children[up][j] \in P <=> j <= k
      /\ \A y \in live : OnPath(y, up) => y \in P /\ (y # itRoot => PassedUpTo(y, P))
      /\ \A x \in P : OnPath(x, up) \/ Swept(x, P)
  BY SweepSiblings
<1>2. DOMAIN m_children[up] = 1 .. Len(m_children[up]) /\ Len(m_children[up]) \in Nat
  BY <1>1, FamilyTypes
<1>3. \A j \in DOMAIN m_children[up] : m_children[up][j] \in P
  BY <1>1, <1>2
<1>4. Swept(up, P)
  <2> SUFFICES ASSUME NEW c \in stayed, m_parent[c] = up PROVE c \in P
    BY DEF Swept
  <2>1. c \in live
    BY ItTypes
  <2> QED
    BY <1>1, <1>3, <2>1, ChildOf
<1>5. \A x \in P : IsPrefix(itPrefix, m_prefix[x]) /\ (x = itRoot \/ m_parent[x] \in P)
  BY DEF SweptTree
<1> QED
  BY <1>1, <1>4, <1>5 DEF SweptTree

\* It ends at the root: everything that it was asked for has been passed.
LEMMA SweepEnds ==
  ASSUME TreeInv, ChainsSound, ItShape, StayedTree, NEW P \in SUBSET live,
         InTree(itRoot), SweptTree(itRoot, {}, P),
         NEW a \in stayed, Inside(m_prefix[a])
  PROVE  a \in P
<1> DEFINE Missed == {x \in stayed \ P : Inside(m_prefix[x])}
           Lengths == {k \in Nat : \E x \in Missed : Len(m_prefix[x]) = k}
<1> SUFFICES ASSUME a \notin P PROVE FALSE
  OBVIOUS
<1>1. /\ stayed \subseteq live /\ itRoot \in live /\ m_prefix[itRoot] = itPrefix
      /\ \A x \in live : m_prefix[x] \in Name /\ Len(m_prefix[x]) \in Nat
  BY ItTypes, FamilyTypes, NameAssumption, LenProperties DEF InTree
<1>2. Len(m_prefix[a]) \in Lengths
  BY <1>1
<1>3. PICK k \in Lengths : \A j \in Lengths : k <= j
  <2> HIDE DEF Lengths
  <2>1. Lengths \subseteq Nat
    BY DEF Lengths
  <2> QED
    BY <1>2, <2>1, LeastNat
<1>4. PICK x \in stayed \ P : Inside(m_prefix[x]) /\ Len(m_prefix[x]) = k
  BY <1>3
<1>5. OnPath(itRoot, itRoot) /\ \A y \in live : OnPath(y, itRoot) => y = itRoot
  BY <1>1, PrefixItself, PrefixBoth DEF OnPath, ChainsSound
<1>6. x # itRoot /\ InTree(x)
  BY <1>1, <1>4, <1>5 DEF SweptTree, InTree, Inside
<1>7. m_parent[x] # Null /\ InTree(m_parent[x])
  BY <1>6, InTreeParent
<1>8. m_prefix[x] # itPrefix
  BY <1>1, <1>4, <1>6 DEF ChainsSound
<1>9. Inside(m_prefix[m_parent[x]]) /\ m_prefix[m_parent[x]] \in visits
  BY <1>1, <1>4, <1>7, <1>8, InsideParent
<1>10. m_parent[x] \in stayed /\ Len(m_prefix[m_parent[x]]) = k - 1 /\ k \in Nat
  BY <1>1, <1>4, <1>7, ParentName DEF StayedTree
<1>11. m_parent[x] \in P
  <2> SUFFICES ASSUME m_parent[x] \notin P PROVE FALSE
    OBVIOUS
  <2>1. k - 1 \in Lengths
    BY <1>1, <1>9, <1>10
  <2> QED
    BY <1>3, <1>10, <2>1
<1>12. Swept(m_parent[x], P)
  BY <1>5, <1>11, <1>10, <1>1 DEF SweptTree
<1> QED
  BY <1>4, <1>9, <1>12 DEF Swept

\* Every prefix of the name of an entry is the name of an entry.
LEMMA PrefixStored ==
  ASSUME TreeInv, NEW n \in Name, NEW a \in live, IsPrefix(n, m_prefix[a])
  PROVE  \E r \in live : m_prefix[r] = n
<1> DEFINE Lengths == {k \in Nat : \E x \in live : IsPrefix(n, m_prefix[x]) /\ Len(m_prefix[x]) = k}
<1>1. \A x \in live : m_prefix[x] \in Name /\ Len(m_prefix[x]) \in Nat
  BY FamilyTypes, NameAssumption, LenProperties
<1>2. Len(m_prefix[a]) \in Lengths
  BY <1>1
<1>3. PICK k \in Lengths : \A j \in Lengths : k <= j
  <2> HIDE DEF Lengths
  <2>1. Lengths \subseteq Nat
    BY DEF Lengths
  <2> QED
    BY <1>2, <2>1, LeastNat
<1>4. PICK x \in live : IsPrefix(n, m_prefix[x]) /\ Len(m_prefix[x]) = k
  BY <1>3
<1> SUFFICES ASSUME m_prefix[x] # n PROVE FALSE
  OBVIOUS
<1>5. m_parent[x] # Null
  BY <1>4, PrefixOfRoot
<1>6. IsPrefix(n, m_prefix[m_parent[x]]) /\ m_parent[x] \in live
  BY <1>4, <1>5, PrefixOfParent, ChildOf
<1>7. Len(m_prefix[m_parent[x]]) = k - 1 /\ k \in Nat \ {0}
  BY <1>4, <1>5, ParentName
<1>8. k - 1 \in Lengths
  BY <1>6, <1>7
<1> QED
  BY <1>3, <1>7, <1>8

-----------------------------------------------------------------------------
(* A partial enumeration in a tree that changes.                           *)

\* Entries keep their parents.
LEMMA ParentNext ==
  ASSUME TreeInv, [Next]_vars, NEW x \in live \cap live'
  PROVE  m_parent'[x] = m_parent[x]
<1>1. ASSUME NEW a \in Addr \ live, InsertNew(a) PROVE m_parent'[x] = m_parent[x]
  <2>1. m_parent' = [m_parent EXCEPT ![a] = entry] /\ m_parent \in [Addr -> Pointer]
    BY <1>1 DEF InsertNew, TreeInv, TypeInv, TypeOK
  <2> QED
    BY <2>1, ChainTypes
<1>2. CASE EraseEmpty
  <2>1. /\ m_parent' = [m_parent EXCEPT ![entry] = Null] /\ m_parent \in [Addr -> Pointer]
        /\ x # entry
    BY <1>2, EraseFacts DEF EraseEmpty, Discard, TreeInv, TypeInv, TypeOK
  <2> QED
    BY <2>1, ChainTypes
<1> QED
  BY <1>1, <1>2, TreeSteps

\* A new child comes last, and where one is erased that was not passed, only the
\* places behind those that were are filled again.
LEMMA PassedNext ==
  ASSUME TreeInv, [Next]_vars, passed' = passed, passed \subseteq live \cap live',
         NEW y \in live \cap live', m_parent[y] \in live, PassedUpTo(y, passed)
  PROVE  PassedUpTo(y, passed)'
<1> DEFINE up == m_parent[y]
           s == m_children[up]
           t == m_children'[up]
<1>1. m_parent'[y] = up
  BY ParentNext
<1>2. /\ s \in Seq(Addr) /\ Len(s) \in Nat /\ DOMAIN s = 1 .. Len(s) /\ live \subseteq Addr
      /\ m_children \in [Addr -> Seq(Addr)]
  BY FamilyTypes, ChainTypes DEF TreeInv, TypeInv, TypeOK
<1>3. PICK j \in DOMAIN s : s[j] = y /\ \A k \in DOMAIN s : s[k] \in passed <=> k <= j
  BY DEF PassedUpTo
<1> SUFFICES ASSUME PassedUpTo(y, passed), t # s
             PROVE  /\ j \in DOMAIN t /\ t[j] = y
                    /\ \A k \in DOMAIN t : t[k] \in passed <=> k <= j
  BY <1>1, <1>3 DEF PassedUpTo
<1>4. ASSUME NEW a \in Addr \ live, InsertNew(a)
      PROVE  /\ j \in DOMAIN t /\ t[j] = y
             /\ \A k \in DOMAIN t : t[k] \in passed <=> k <= j
  <2>1. /\ m_children' = IF entry = Null
                         THEN [m_children EXCEPT ![a] = <<>>]
                         ELSE [m_children EXCEPT ![a] = <<>>, ![entry] = Append(@, a)]
        /\ pc = "insert"
    BY <1>4 DEF InsertNew
  <2>2. entry # Null => entry \in live
    BY <2>1 DEF TreeInv, CallPosition
  <2>3. t = Append(s, a)
    BY <1>2, <1>4, <2>1, <2>2
  <2>4. /\ t \in Seq(Addr) /\ Len(t) = Len(s) + 1 /\ t[Len(s) + 1] = a
        /\ \A k \in 1 .. Len(s) : t[k] = s[k]
    BY <1>2, <2>3, AppendProperties
  <2>5. DOMAIN t = 1 .. Len(s) + 1
    BY <2>4, LenProperties
  <2>6. a \notin passed
    BY <1>4
  <2> HIDE DEF s, t, up
  <2>7. j \in DOMAIN t /\ t[j] = y
    BY <1>2, <1>3, <2>4, <2>5
  <2>8. ASSUME NEW k \in DOMAIN t PROVE t[k] \in passed <=> k <= j
    <3>1. CASE k = Len(s) + 1
      <4>1. t[k] \notin passed /\ ~(k <= j)
        BY <1>2, <2>4, <2>6, <3>1
      <4> QED
        BY <4>1
    <3>2. CASE k # Len(s) + 1
      <4>1. k \in DOMAIN s /\ t[k] = s[k]
        BY <1>2, <2>4, <2>5, <3>2
      <4> QED
        BY <1>3, <4>1
    <3> QED
      BY <3>1, <3>2
  <2> QED
    BY <2>7, <2>8
<1>5. CASE EraseEmpty
  <2>1. pc = "erase" /\ Unparent /\ TypeInv
    BY <1>5 DEF EraseEmpty, TreeInv
  <2>2. PICK k \in DOMAIN m_children[m_parent[entry]] :
          /\ m_children[m_parent[entry]][k] = entry
          /\ m_children' = [m_children EXCEPT ![m_parent[entry]] = RemoveChild(@, k)]
    BY <2>1, UnparentCases
  <2>3. m_parent[entry] = up /\ t = RemoveChild(s, k) /\ k \in DOMAIN s /\ s[k] = entry
    BY <1>2, <2>2
  <2>4. /\ DOMAIN t = 1 .. Len(s) - 1
        /\ \A l \in 1 .. Len(s) - 1 : t[l] = s[IF l = k THEN Len(s) ELSE l]
    <3> HIDE DEF s, t, up
    <3> QED
      BY <1>2, <2>3, RemoveChildFacts
  <2>5. entry \notin passed
    BY <1>5, EraseFacts
  <2> HIDE DEF s, t, up
  <2>6. j < k /\ k <= Len(s) /\ j \in Nat /\ k \in Nat
    BY <1>2, <1>3, <2>3, <2>5
  <2>7. j \in 1 .. Len(s) - 1 /\ t[j] = y
    BY <1>2, <1>3, <2>4, <2>6
  <2>8. ASSUME NEW l \in 1 .. Len(s) - 1 PROVE t[l] \in passed <=> l <= j
    <3>1. CASE l = k
      <4>1. t[l] = s[Len(s)] /\ Len(s) \in DOMAIN s /\ ~(Len(s) <= j) /\ ~(l <= j)
        BY <1>2, <2>4, <2>6, <3>1
      <4> QED
        BY <1>3, <4>1
    <3>2. CASE l # k
      <4>1. l \in DOMAIN s /\ t[l] = s[l]
        BY <1>2, <2>4, <3>2
      <4> QED
        BY <1>3, <4>1
    <3> QED
      BY <3>1, <3>2
  <2> QED
    BY <2>4, <2>7, <2>8
<1> QED
  BY <1>4, <1>5, TreeSteps

\* Nothing had disturbed the enumeration before either.
LEMMA CalmBefore ==
  ASSUME ItInv, TableStep, Calm'
  PROVE  Calm /\ (itPc = "rest" => ~Disturbs)
<1>1. ~damaged
  BY TableStepFacts, DamageStays DEF Calm
<1>2. disturbed' = (disturbed \/ (itPc = "rest" /\ Disturbs))
  BY DEF TableStep
<1>3. ~disturbed /\ (itPc = "rest" => ~Disturbs)
  BY <1>2, Zenon DEF Calm
<1> QED
  BY <1>1, <1>3 DEF Calm

\* Names are unique, now and in the next state, as long as nothing is damaged.
LEMMA SoundNext ==
  ASSUME ItInv, TableStep, ~damaged'
  PROVE  ~damaged /\ ChainsSound /\ ChainsSound'
<1>1. ~damaged
  BY TableStepFacts, DamageStays
<1> QED
  BY <1>1, TableStepFacts DEF ChainInv, ChainsCorrect

\* What is above an entry that stays was there before and stays as well.
LEMMA AboveStays ==
  ASSUME TreeInv, TreeInv', ChainsSound, ChainsSound', [Next]_vars,
         NEW e \in live \cap live', NEW y \in live',
         IsPrefix(m_prefix'[y], m_prefix[e])
  PROVE  y \in live /\ m_prefix'[y] = m_prefix[y]
<1>1. m_prefix'[y] \in Name
  BY DEF TreeInv, TypeInv, TypeOK
<1>2. PICK r \in live : m_prefix[r] = m_prefix'[y]
  BY <1>1, PrefixStored
<1>3. r \in live'
  <2>1. CASE r = e
    BY <2>1
  <2>2. CASE r # e
    <3>1. m_children[r] # <<>>
      BY <1>2, <2>2, AncestorHasChildren
    <3> QED
      BY <3>1, LiveNext DEF Gone
  <2> QED
    BY <2>1, <2>2
<1>4. m_prefix'[r] = m_prefix[r]
  BY <1>3, LiveNext
<1>5. r = y
  BY <1>2, <1>3, <1>4 DEF ChainsSound
<1> QED
  BY <1>2, <1>5

LEMMA TableKeepsTreeSweep ==
  ASSUME ItInv, TreeSweep, TableStep
  PROVE  TreeSweep'
<1>1. /\ TreeInv /\ TreeInv' /\ [Next]_vars /\ Standing' = Standing
      /\ itEntry' = itEntry /\ itRoot' = itRoot /\ itType' = itType /\ visits' = visits
      /\ itPrefix' = itPrefix /\ visitChildren' = visitChildren
      /\ passed' = passed \cap live' /\ stayed' = stayed \cap live'
      /\ Standing => itPc = "rest"
  BY TableStepFacts DEF itArgs
<1> SUFFICES ASSUME itType = "partial", Standing, Calm'
             PROVE  SweptTree(itEntry, Open(itEntry, visitChildren), passed)'
  BY <1>1 DEF TreeSweep
<1>2. Calm /\ ~Disturbs
  BY <1>1, CalmBefore
<1>3. ChainsSound /\ ChainsSound' /\ ~damaged
  BY SoundNext DEF Calm
<1>4. passed' = passed /\ passed \subseteq live \cap live' /\ stayed \subseteq live
  BY <1>1, <1>2, ItTypes DEF Disturbs, Gone, ItInv
<1> DEFINE open == Open(itEntry, visitChildren)
<1>5. SweptTree(itEntry, open, passed)
  BY <1>2 DEF TreeSweep
<1>6. ghosts = <<>> /\ InTree(itEntry)
  <2>1. ghosts = <<>>
    BY <1>2 DEF ItInv, ItCalm, Calm
  <2>2. itEntry \in live /\ InSubTree
    BY <1>3, <2>1 DEF ItInv, ItPath, ItAsked
  <2> QED
    BY <2>1, <2>2 DEF InTree, InSubTree, Inside
<1>7. OnPath(itEntry, itEntry)
  BY <1>1, <1>6, FamilyTypes, PrefixItself DEF OnPath, InTree
<1>8. itEntry \in live \cap live'
  BY <1>4, <1>5, <1>6, <1>7 DEF SweptTree, InTree
<1>9. /\ m_prefix'[itEntry] = m_prefix[itEntry]
      /\ \A x \in live \cap live' : m_prefix'[x] = m_prefix[x] /\ m_parent'[x] = m_parent[x]
  BY <1>1, <1>8, LiveNext, ParentNext
<1>10. open' = open
  BY <1>1 DEF Open
<1>11. \A x \in live \cap live' : OnPath(x, itEntry)' = OnPath(x, itEntry)
  BY <1>1, <1>9 DEF OnPath
<1>12. ASSUME NEW y \in live', OnPath(y, itEntry)'
       PROVE  y \in passed' /\ (y # itRoot' => PassedUpTo(y, passed)')
  <2>1. y \in live
    BY <1>1, <1>3, <1>8, <1>9, <1>12, AboveStays DEF OnPath
  <2>2. OnPath(y, itEntry)
    BY <1>11, <1>12, <2>1
  <2>3. y \in passed /\ (y # itRoot => PassedUpTo(y, passed))
    BY <1>5, <2>1, <2>2 DEF SweptTree
  <2>4. ASSUME y # itRoot PROVE PassedUpTo(y, passed)'
    <3>1. InTree(y)
      BY <1>6, <2>1, <2>2 DEF InTree, OnPath
    <3>2. m_parent[y] \in live
      BY <1>1, <1>3, <2>4, <3>1, InTreeParent DEF InTree, ItInv
    <3> QED
      BY <1>1, <1>4, <1>12, <2>1, <2>3, <2>4, <3>2, PassedNext
  <2> QED
    BY <1>1, <1>4, <2>3, <2>4
<1>13. ASSUME NEW x \in passed
       PROVE  (OnPath(x, itEntry) /\ x # itEntry)' \/ x \in open' \/ Swept(x, passed)'
  <2>1. (OnPath(x, itEntry) /\ x # itEntry) \/ x \in open \/ Swept(x, passed)
    BY <1>5 DEF SweptTree
  <2>2. Swept(x, passed) => Swept(x, passed)'
    BY <1>1, <1>4, <1>9 DEF Swept
  <2> QED
    BY <1>1, <1>4, <1>10, <1>11, <2>1, <2>2
<1>14. ASSUME NEW x \in passed
       PROVE  /\ IsPrefix(itPrefix', m_prefix'[x])
              /\ x = itRoot' \/ m_parent'[x] \in passed'
              /\ m_parent'[x] \notin open'
  BY <1>1, <1>4, <1>5, <1>9, <1>10 DEF SweptTree
<1> QED
  BY <1>4, <1>12, <1>13, <1>14 DEF SweptTree

-----------------------------------------------------------------------------
(* findAllMatches(), from the longest match up.                            *)

\* One step up, or to the end.
LEMMA UpStepKeepsUpSweep ==
  ASSUME ItInv, UpSweep, UpStep, ~damaged
  PROVE  /\ UpSweep'
         /\ twice' = twice
         /\ itPc' = "end" =>
              \A a \in stayed : Wanted(m_prefix[a]) => a \in passed'
<1> DEFINE up == EntryParent
<1>1. /\ itPc = "up" /\ UNCHANGED vars
      /\ UNCHANGED <<itArgs, itLoop, visitChildren, stayed, disturbed>>
  BY DEF UpStep
<1>2. /\ itType = "all" /\ Standing /\ TreeInv /\ ItShape /\ ItPath /\ ChainsSound
      /\ stayed \subseteq live /\ itPrefix \in Name
  BY <1>1, ItTypes DEF ItInv, ItShape, Standing, ChainInv, ChainsCorrect
<1>3. /\ \A x \in passed : ghosts = <<>> /\ IsPrefix(m_prefix[itEntry], m_prefix[x])
      /\ ghosts = <<>> => itEntry \in passed
      /\ \A a \in stayed \ passed :
           Wanted(m_prefix[a]) => Kept # Null /\ IsPrefix(m_prefix[a], m_prefix[Kept])
  BY <1>2 DEF UpSweep
<1>4. /\ itType' = itType /\ accepts' = accepts /\ itPrefix' = itPrefix
      /\ live' = live /\ m_prefix' = m_prefix /\ damaged' = damaged /\ stayed' = stayed
      /\ visits' = visits
  BY <1>1, TableSame DEF itArgs
<1>5. \A n : Wanted(n)' = Wanted(n)
  BY <1>4 DEF Wanted
<1>6. CASE ghosts = <<>> /\ up = Null
  <2>1. itPc' = "end" /\ passed' = passed /\ twice' = twice
    BY <1>6 DEF UpStep, ArriveAtEnd
  <2>2. itEntry \in live /\ m_parent[itEntry] = Null /\ Kept = itEntry
    BY <1>2, <1>6 DEF ItPath, EntryParent, Kept
  <2>3. ASSUME NEW a \in stayed, Wanted(m_prefix[a]), a \notin passed PROVE FALSE
    <3>1. IsPrefix(m_prefix[a], m_prefix[itEntry]) /\ a \in live /\ m_prefix[a] \in Name
      BY <1>2, <1>3, <2>2, <2>3, FamilyTypes
    <3>2. m_prefix[a] = m_prefix[itEntry]
      BY <1>2, <2>2, <3>1, PrefixOfRoot
    <3> QED
      BY <1>2, <1>3, <1>6, <2>2, <2>3, <3>1, <3>2 DEF ChainsSound
  <2> QED
    BY <2>1, <2>3 DEF UpSweep, Standing
<1>7. CASE ghosts = <<>> /\ up # Null
  <2>1. /\ itEntry \in live /\ up = m_parent[itEntry] /\ up \in live
        /\ itEntry # up /\ m_prefix[up] \in Name
    BY <1>2, <1>7, FamilyTypes, NotItsParent DEF ItPath, EntryParent
  <2>2. /\ itEntry' = up /\ ghosts' = <<>> /\ passed' = passed \cup {up}
        /\ twice' = (twice \/ up \in passed) /\ itPc' \in {"rest", "up"}
    BY <1>7, <2>1 DEF UpStep, ArriveAt
  <2>3. /\ ~IsPrefix(m_prefix[itEntry], m_prefix[up])
        /\ IsPrefix(m_prefix[up], m_prefix[itEntry])
    BY <1>2, <1>7, <2>1, BelowParent, ParentName
  <2>4. up \notin passed
    BY <1>3, <2>3
  <2>5. twice' = twice
    BY <2>2, <2>4, ItTypes, Zenon DEF ItInv
  <2>6. \A x \in passed' : IsPrefix(m_prefix[up], m_prefix[x])
    <3>1. ASSUME NEW x \in passed PROVE IsPrefix(m_prefix[up], m_prefix[x])
      <4>1. x \in live /\ m_prefix[x] \in Name /\ m_prefix[itEntry] \in Name
        BY <1>2, <2>1, ItTypes, FamilyTypes
      <4> QED
        BY <1>3, <2>1, <2>3, <4>1, PrefixTransitive
    <3> QED
      BY <2>1, <2>2, <3>1, PrefixItself
  <2>7. ASSUME NEW a \in stayed \ passed', Wanted(m_prefix[a])
        PROVE  IsPrefix(m_prefix[a], m_prefix[up])
    <3>1. a \in live /\ a \in stayed \ passed /\ a # itEntry
      BY <1>2, <1>3, <1>7, <2>2
    <3>2. IsPrefix(m_prefix[a], m_prefix[itEntry])
      BY <1>3, <1>7, <2>7, <3>1 DEF Kept
    <3> QED
      BY <1>2, <1>7, <2>1, <3>1, <3>2, AboveParent
  <2>8. Kept' = up /\ up # Null
    BY <1>7, <2>2 DEF Kept
  <2>9. UpSweep'
    BY <1>4, <1>5, <2>2, <2>6, <2>7, <2>8 DEF UpSweep
  <2> QED
    BY <2>2, <2>5, <2>9
<1>8. CASE ghosts # <<>>
  <2>1. passed = {} /\ Len(ghosts) \in Nat /\ Len(ghosts) >= 1 /\ DOMAIN ghosts = 1 .. Len(ghosts)
        /\ ghosts \in Seq([addr : Addr, prefix : Name, parent : Pointer])
    BY <1>2, <1>3, <1>8, ItTypes
  <2>2. up = ghosts[1].parent /\ Kept = ghosts[Len(ghosts)].parent
    BY <1>8 DEF EntryParent, Kept
  <2>3. CASE Len(ghosts) = 1
    <3>1. up = Kept /\ Kept \in live \cup {Null}
      BY <1>2, <2>2, <2>3 DEF ItPath
    <3>2. CASE up = Null
      <4>1. itPc' = "end" /\ passed' = passed /\ twice' = twice
        BY <3>2 DEF UpStep, ArriveAtEnd
      <4> QED
        BY <1>3, <3>1, <3>2, <4>1 DEF UpSweep, Standing
    <3>3. CASE up # Null
      <4>1. up \in live /\ m_prefix[up] \in Name
        BY <1>2, <3>1, <3>3, FamilyTypes
      <4>2. Tail(ghosts) = <<>>
        <5>1. Tail(ghosts) \in Seq([addr : Addr, prefix : Name, parent : Pointer])
              /\ Len(Tail(ghosts)) = 0
          BY <1>8, <2>1, <2>3, HeadTailProperties
        <5> QED
          BY <5>1, EmptySeq
      <4>3. /\ itEntry' = up /\ ghosts' = <<>> /\ passed' = {up}
            /\ twice' = (twice \/ up \in passed) /\ itPc' \in {"rest", "up"}
        BY <1>8, <2>1, <3>3, <4>1, <4>2 DEF UpStep, ArriveAt
      <4>4. twice' = twice
        BY <2>1, <4>3, ItTypes, Zenon DEF ItInv
      <4>5. Kept' = up
        BY <4>3 DEF Kept
      <4>6. UpSweep'
        BY <1>3, <1>4, <1>5, <2>1, <3>1, <3>3, <4>1, <4>3, <4>5, PrefixItself DEF UpSweep
      <4> QED
        BY <4>3, <4>4, <4>6
    <3> QED
      BY <3>2, <3>3
  <2>4. CASE Len(ghosts) # 1
    <3>1. 1 \in DOMAIN ghosts /\ 2 \in DOMAIN ghosts /\ 1 < Len(ghosts)
      BY <2>1, <2>4
    <3>2. up = ghosts[2].addr /\ up \notin live /\ up # Null
      BY <1>2, <2>2, <3>1, ItTypes, ChainTypes DEF ItPath
    <3>3. /\ itEntry' = up /\ ghosts' = Tail(ghosts) /\ passed' = {}
          /\ twice' = (twice \/ up \in passed) /\ itPc' \in {"rest", "up"}
      BY <1>8, <2>1, <3>2 DEF UpStep, ArriveAt
    <3>4. twice' = twice
      BY <2>1, <3>3, ItTypes, Zenon DEF ItInv
    <3>5. Kept' = Kept /\ ghosts' # <<>>
      <4>1. /\ Len(ghosts') = Len(ghosts) - 1
            /\ \A k \in 1 .. Len(ghosts) - 1 : ghosts'[k] = ghosts[k + 1]
        BY <1>8, <2>1, <3>3, HeadTailProperties
      <4>2. ghosts' # <<>> /\ ghosts'[Len(ghosts')] = ghosts[Len(ghosts)]
        BY <2>1, <3>1, <4>1, EmptySeq
      <4> QED
        BY <2>2, <4>2 DEF Kept
    <3>6. UpSweep'
      BY <1>3, <1>4, <1>5, <2>1, <3>3, <3>5 DEF UpSweep
    <3> QED
      BY <3>3, <3>4, <3>6
  <2> QED
    BY <2>3, <2>4
<1> QED
  BY <1>6, <1>7, <1>8

\* It begins at the longest match, or there is no match.
LEMMA FindAllBegins ==
  ASSUME ItInv, Once, NEW n \in Name, NEW S \in Selector, FindAllMatches(n, S), ~damaged
  PROVE  /\ UpSweep' /\ ~twice'
         /\ itPc' = "end" => \A a \in stayed' : ~Wanted(m_prefix[a])'
<1> DEFINE match == FindLongestPrefixMatch(n, S)
<1>1. /\ pc = "idle" /\ itPc = "none" /\ itType' = "all" /\ itPrefix' = n /\ accepts' = S
      /\ stayed' = live /\ UNCHANGED <<vars, ghosts, disturbed>>
  BY DEF FindAllMatches, Begin
<1>2. /\ live' = live /\ m_prefix' = m_prefix /\ TreeInv /\ ChainsSound
      /\ ghosts' = <<>> /\ ~twice /\ passed = {}
  BY <1>1, TableSame DEF ItInv, ItShape, ChainInv, ChainsCorrect, Once
<1>3. \A a \in live : Wanted(m_prefix[a])' => a \in Matches(n, S)
  BY <1>1, <1>2 DEF Wanted, Matches
<1>4. CASE match = Null
  <2>1. itPc' = "end" /\ twice' = twice
    BY <1>4 DEF FindAllMatches, ArriveAtEnd
  <2>2. \A a \in live : ~Wanted(m_prefix[a])'
    BY <1>1, <1>2, <1>3, <1>4, LongestMatchFound, ChainTypes DEF Matches
  <2> QED
    BY <1>1, <1>2, <2>1, <2>2 DEF UpSweep, Standing
<1>5. CASE match # Null
  <2>1. match \in live /\ itEntry' = match /\ itPc' = "rest" /\ passed' = {match} /\ ~twice'
    BY <1>5 DEF FindAllMatches
  <2>2. \A a \in Matches(n, S) : IsPrefix(m_prefix[a], m_prefix[match])
    BY <1>1, <1>2, <1>5, LongestMatchFound
  <2>3. Kept' = match /\ match # Null /\ IsPrefix(m_prefix[match], m_prefix[match])
    BY <1>2, <2>1, ChainTypes, PrefixItself DEF Kept
  <2> HIDE DEF match
  <2>4. UpSweep'
    BY <1>1, <1>2, <1>3, <2>1, <2>2, <2>3 DEF UpSweep
  <2> QED
    BY <2>1, <2>4
<1> QED
  BY <1>4, <1>5

\* Where the entry it stands on is erased, it had no others below it, so that
\* nothing passed is left, and what is still to come is above its parent.
LEMMA TableKeepsUpSweep ==
  ASSUME ItInv, UpSweep, TableStep
  PROVE  UpSweep'
<1>1. /\ TreeInv /\ TreeInv' /\ [Next]_vars /\ Standing' = Standing
      /\ itEntry' = itEntry /\ itType' = itType /\ accepts' = accepts /\ visits' = visits
      /\ itPrefix' = itPrefix
      /\ passed' = passed \cap live' /\ stayed' = stayed \cap live'
      /\ passed \subseteq live /\ stayed \subseteq live /\ itPrefix \in Name
  BY TableStepFacts, ItTypes DEF itArgs, ItInv
<1> SUFFICES ASSUME itType = "all", Standing, ~damaged'
             PROVE  /\ \A x \in passed' : /\ ghosts' = <<>>
                                          /\ IsPrefix(m_prefix'[itEntry], m_prefix'[x])
                    /\ ghosts' = <<>> => itEntry \in passed'
                    /\ \A a \in stayed' \ passed' :
                         Wanted(m_prefix[a])' =>
                           Kept' # Null /\ IsPrefix(m_prefix'[a], m_prefix'[Kept'])
  BY <1>1 DEF UpSweep
<1>2. ~damaged /\ ChainsSound
  BY SoundNext
<1>3. /\ \A x \in passed : ghosts = <<>> /\ IsPrefix(m_prefix[itEntry], m_prefix[x])
      /\ ghosts = <<>> => itEntry \in passed
      /\ \A a \in stayed \ passed :
           Wanted(m_prefix[a]) => Kept # Null /\ IsPrefix(m_prefix[a], m_prefix[Kept])
  BY <1>2 DEF UpSweep
<1>4. \A x \in live \cap live' : m_prefix'[x] = m_prefix[x]
  BY <1>1, LiveNext
<1>5. \A a \in stayed' \ passed' :
        /\ a \in stayed \ passed /\ a \in live \cap live'
        /\ Wanted(m_prefix[a])' => Wanted(m_prefix[a])
  BY <1>1, <1>4 DEF Wanted
<1>6. Kept \in live \cup {Null}
  BY DEF ItInv, ItPath
<1>7. CASE Kept \notin Gone
  <2>1. Kept' = Kept /\ ghosts' = ghosts
    BY <1>7, TableStepPath, TableStepFacts
  <2>2. ghosts = <<>> => itEntry \in live \cap live'
    BY <1>6, <1>7 DEF Kept, Gone, ItInv, ItPath
  <2>3. Kept # Null => Kept \in live \cap live'
    BY <1>6, <1>7 DEF Gone
  <2> QED
    BY <1>1, <1>3, <1>4, <1>5, <2>1, <2>2, <2>3
<1>8. CASE Kept \in Gone
  <2>1. /\ Kept' = m_parent[Kept] /\ ghosts' # <<>> /\ Kept \in live /\ Kept \notin live'
        /\ m_children[Kept] = <<>> /\ m_parent[Kept] \in (live \cap live') \cup {Null}
    BY <1>1, <1>8, TableStepPath, LiveNext DEF Gone
  <2>2. passed' = {}
    <3> SUFFICES ASSUME NEW x \in passed, x \in live' PROVE FALSE
      BY <1>1
    <3>1. Kept = itEntry /\ IsPrefix(m_prefix[Kept], m_prefix[x]) /\ x \in live
      BY <1>1, <1>3 DEF Kept
    <3> QED
      BY <1>1, <1>2, <2>1, <3>1, AncestorHasChildren
  <2>3. ASSUME NEW a \in stayed' \ passed', Wanted(m_prefix[a])'
        PROVE  Kept' # Null /\ IsPrefix(m_prefix'[a], m_prefix'[Kept'])
    <3>1. /\ a \in live /\ a \in live' /\ a # Kept
          /\ IsPrefix(m_prefix[a], m_prefix[Kept]) /\ m_prefix[a] \in Name
      BY <1>1, <1>3, <1>5, <2>1, <2>3, FamilyTypes
    <3>2. m_parent[Kept] # Null
      <4> SUFFICES ASSUME m_parent[Kept] = Null PROVE FALSE
        OBVIOUS
      <4>1. m_prefix[a] = m_prefix[Kept]
        BY <1>1, <2>1, <3>1, PrefixOfRoot
      <4> QED
        BY <1>2, <2>1, <3>1, <4>1 DEF ChainsSound
    <3>3. IsPrefix(m_prefix[a], m_prefix[m_parent[Kept]])
      BY <1>1, <1>2, <2>1, <3>1, <3>2, AboveParent
    <3> QED
      BY <1>4, <2>1, <3>1, <3>2, <3>3
  <2> QED
    BY <2>1, <2>2, <2>3
<1> QED
  BY <1>7, <1>8

-----------------------------------------------------------------------------
(* A full enumeration in a table that does not change.                     *)

LEMMA LocType ==
  ASSUME TreeInv, NEW x \in live
  PROVE  Loc(x) \in 0 .. m_nBuckets - 1 /\ m_nBuckets \in Nat \ {0} /\ x \in Addr /\ x # Null
BY FamilyTypes, ChainTypes, LocationInTable DEF Loc

\* Where the loop over the buckets goes on at bucket b, that and those behind are
\* ahead.
LEMMA AheadFrom ==
  ASSUME TreeInv, ChainsSound, pc = "idle", NEW b \in 0 .. m_nBuckets
  PROVE  /\ AheadOf(FirstNode(b), b) = {x \in live : Loc(x) >= b}
         /\ FirstNode(b) # Null => Loc(FirstNode(b)) = b
<1>1. m_nBuckets \in Nat \ {0} /\ \A x \in live : Loc(x) \in 0 .. m_nBuckets - 1
  BY ChainTypes, LocType
<1>2. Chain(FirstNode(b)) = {x \in live : Loc(x) = b}
  <2>1. CASE b = m_nBuckets
    BY <1>1, <2>1, ChainOfNull DEF FirstNode
  <2>2. CASE b # m_nBuckets
    <3>1. b \in 0 .. m_nBuckets - 1 /\ FirstNode(b) = m_buckets[b]
      BY <1>1, <2>2 DEF FirstNode
    <3> QED
      BY <3>1, SoundChain DEF Loc
  <2> QED
    BY <2>1, <2>2
<1>3. AheadOf(FirstNode(b), b) = {x \in live : Loc(x) >= b}
  BY <1>1, <1>2 DEF AheadOf
<1>4. ASSUME FirstNode(b) # Null PROVE Loc(FirstNode(b)) = b
  <2>1. b < m_nBuckets /\ FirstNode(b) \in Pointer
    BY <1>1, <1>4, ChainTypes DEF FirstNode
  <2>2. FirstNode(b) \in Chain(FirstNode(b))
    BY <1>4, <2>1, ChainTypes, ChainCloses
  <2> QED
    BY <1>2, <2>2
<1> QED
  BY <1>3, <1>4

\* Behind an entry, the rest of its chain is ahead and then the same buckets.
LEMMA AheadBehind ==
  ASSUME TreeInv, ChainsSound, pc = "idle", NEW a \in live
  PROVE  /\ a \in AheadOf(a, Loc(a)) /\ a \notin AheadOf(m_next[a], Loc(a))
         /\ AheadOf(a, Loc(a)) \ {a} = AheadOf(m_next[a], Loc(a))
         /\ m_next[a] # Null => m_next[a] \in live /\ Loc(m_next[a]) = Loc(a)
<1>1. /\ a \in Addr /\ a # Null /\ m_next \in [Addr -> Pointer] /\ Null \notin Addr
      /\ Loc(a) \in Nat /\ live \subseteq Addr
  BY ChainTypes, LocType
<1>2. Chained(live, m_buckets, m_next, m_prev, BucketIn(m_nBuckets))
  BY SoundChain
<1>3. a \in Chain(a) /\ a \notin Chain(m_next[a])
  BY <1>1, <1>2, ChainCloses, ChainNoCycle DEF Pointer
<1>4. Chain(a) \subseteq {a} \cup Chain(m_next[a])
  BY <1>1, ChainGoesOn
<1>5. Chain(m_next[a]) \subseteq Chain(a)
  <2>1. m_next[a] \in Chain(a) \cup {Null} /\ \A x \in Chain(a) : m_next[x] \in Chain(a) \cup {Null}
    BY <1>1, <1>3, ChainCloses DEF Pointer
  <2>2. Chain(a) \in SUBSET Addr
    BY DEF Chain
  <2> QED
    BY <2>1, <2>2, ChainWithin
<1>6. m_next[a] # Null => m_next[a] \in live /\ Loc(m_next[a]) = Loc(a)
  <2>1. m_nBuckets \in Nat \ {0}
    BY ChainTypes
  <2> QED
    BY <1>1, <1>2, <2>1, BucketInTable DEF Chained, NextIn, Loc
<1>7. ~(Loc(a) > Loc(a))
  BY <1>1
<1> QED
  BY <1>3, <1>4, <1>5, <1>6, <1>7 DEF AheadOf

\* The next state, when the table is the same.
LEMMA FullSweepAfter ==
  ASSUME UNCHANGED vars, UNCHANGED <<itArgs, stayed, disturbed>>, NEW head, NEW b,
         itPc' = "buckets" =>
           head = itNode' /\ b = newLocation' /\ (itNode' # Null => Loc(itNode') = b),
         itPc' \in {"rest", "chain"} => head = m_next[itEntry'] /\ b = Loc(itEntry'),
         passed' \cap AheadOf(head, b) = {}, stayed \ passed' \subseteq AheadOf(head, b)
  PROVE  FullSweep'
<1>1. /\ live' = live /\ m_next' = m_next /\ m_prefix' = m_prefix /\ m_nBuckets' = m_nBuckets
      /\ stayed' = stayed
  BY TableSame
<1>2. ASSUME itPc' \in {"rest", "chain", "buckets"} PROVE Ahead' = AheadOf(head, b)
  BY <1>1, <1>2 DEF Ahead, AheadOf, Chain, Loc
<1>3. itPc' = "buckets" /\ itNode' # Null => Loc(itNode)' = newLocation'
  BY <1>1 DEF Loc
<1> QED
  BY <1>1, <1>2, <1>3 DEF FullSweep

\* Arriving at an entry that is ahead, and was not passed.
LEMMA ArrivesOnce ==
  ASSUME ItInv, NEW a, NEW prefix, NEW loop, ArriveAt(a, prefix, loop), a \notin passed
  PROVE  twice' = twice
<1>1. twice' = (twice \/ a \in passed) /\ twice \in BOOLEAN
  BY ItTypes DEF ArriveAt, ItInv
<1> QED
  BY <1>1, Zenon

LEMMA ChainStepSweeps ==
  ASSUME ItInv, FullSweep, ChainStep, Calm
  PROVE  FullSweep' /\ twice' = twice /\ itPc' # "end"
<1>1. /\ itPc = "chain" /\ itEntry \in live /\ UNCHANGED vars
      /\ UNCHANGED <<itArgs, stayed, disturbed>>
  BY DEF ChainStep
<1>2. /\ itType = "full" /\ pc = "idle" /\ TreeInv /\ ChainsSound /\ passed \subseteq live
  BY <1>1, ItTypes DEF ItInv, ItShape, Moving, ChainInv, ChainsCorrect, Calm
<1> DEFINE n == m_next[itEntry]
           b == Loc(itEntry)
<1>3. passed \cap AheadOf(n, b) = {} /\ stayed \ passed \subseteq AheadOf(n, b)
  BY <1>1, <1>2 DEF FullSweep, Ahead
<1>4. n # Null => n \in live /\ Loc(n) = b
  BY <1>1, <1>2, AheadBehind
<1>5. CASE n # Null
  <2>1. /\ ArriveAt(n, m_prefix[n], "chain") /\ itEntry' = n /\ passed' = passed \cup {n}
        /\ itPc' \in {"rest", "chain"}
    BY <1>4, <1>5 DEF ChainStep, ArriveAt
  <2>2. /\ n \in AheadOf(n, b) /\ n \notin AheadOf(m_next[n], b)
        /\ AheadOf(n, b) \ {n} = AheadOf(m_next[n], b)
    BY <1>2, <1>4, <1>5, AheadBehind
  <2>3. twice' = twice
    BY <1>3, <2>1, <2>2, ArrivesOnce
  <2>4. /\ passed' \cap AheadOf(m_next[n], b) = {}
        /\ stayed \ passed' \subseteq AheadOf(m_next[n], b)
    BY <1>3, <2>1, <2>2
  <2>5. m_next[itEntry'] = m_next[n] /\ Loc(itEntry') = b
    BY <1>4, <1>5, <2>1
  <2> HIDE DEF n, b
  <2>6. FullSweep'
    BY <1>1, <2>1, <2>4, <2>5, FullSweepAfter
  <2> QED
    BY <2>1, <2>3, <2>6
<1>6. CASE n = Null
  <2>1. /\ itPc' = "buckets" /\ newLocation' = NextBucket
        /\ itNode' = FirstNode(NextBucket) /\ passed' = passed /\ twice' = twice
    BY <1>6 DEF ChainStep
  <2>2. b \in 0 .. m_nBuckets - 1 /\ m_nBuckets \in Nat /\ NextBucket = b + 1
    BY <1>1, <1>2, LocType DEF Loc, NextBucket
  <2>3. AheadOf(n, b) = {x \in live : Loc(x) > b}
    BY <1>6, ChainOfNull DEF AheadOf
  <2>4. /\ AheadOf(FirstNode(b + 1), b + 1) = {x \in live : Loc(x) >= b + 1}
        /\ FirstNode(b + 1) # Null => Loc(FirstNode(b + 1)) = b + 1
    BY <1>2, <2>2, AheadFrom
  <2>5. \A x \in live : Loc(x) \in Int
    BY <1>2, LocType
  <2>6. {x \in live : Loc(x) >= b + 1} = {x \in live : Loc(x) > b}
    BY <2>2, <2>5
  <2>7. FullSweep'
    <3>1. /\ passed' \cap AheadOf(FirstNode(b + 1), b + 1) = {}
          /\ stayed \ passed' \subseteq AheadOf(FirstNode(b + 1), b + 1)
      BY <1>3, <2>1, <2>3, <2>4, <2>6
    <3>2. itNode' = FirstNode(b + 1) /\ newLocation' = b + 1
      BY <2>1, <2>2
    <3>3. itNode' # Null => Loc(itNode') = b + 1
      BY <2>4, <3>2
    <3> HIDE DEF b
    <3> QED
      BY <1>1, <2>1, <3>1, <3>2, <3>3, FullSweepAfter
  <2> QED
    BY <2>1, <2>7
<1> QED
  BY <1>5, <1>6

LEMMA BucketStepSweeps ==
  ASSUME ItInv, FullSweep, BucketStep, Calm
  PROVE  FullSweep' /\ twice' = twice /\ itPc' # "end"
<1>1. /\ itPc = "buckets" /\ itNode \in live /\ UNCHANGED vars
      /\ UNCHANGED <<itArgs, stayed, disturbed>>
      /\ ArriveAt(itNode, m_prefix[itNode], "buckets")
      /\ itNode' = IF itPc' = "rest" THEN Null ELSE m_next[itNode]
      /\ newLocation' = IF itPc' = "rest" THEN 0 ELSE newLocation
  BY DEF BucketStep
<1>2. /\ itType = "full" /\ pc = "idle" /\ TreeInv /\ ChainsSound /\ passed \subseteq live
  BY <1>1, ItTypes DEF ItInv, ItShape, Moving, ChainInv, ChainsCorrect, Calm
<1>3. /\ itEntry' = itNode /\ passed' = passed \cup {itNode} /\ itPc' \in {"rest", "buckets"}
  BY <1>1 DEF ArriveAt
<1>4. /\ newLocation = Loc(itNode)
      /\ passed \cap AheadOf(itNode, newLocation) = {}
      /\ stayed \ passed \subseteq AheadOf(itNode, newLocation)
  BY <1>1, <1>2, ChainTypes DEF FullSweep, Ahead
<1>5. /\ itNode \in AheadOf(itNode, newLocation)
      /\ itNode \notin AheadOf(m_next[itNode], newLocation)
      /\ AheadOf(itNode, newLocation) \ {itNode} = AheadOf(m_next[itNode], newLocation)
      /\ m_next[itNode] # Null => Loc(m_next[itNode]) = newLocation
  BY <1>1, <1>2, <1>4, AheadBehind
<1>6. twice' = twice
  BY <1>1, <1>4, <1>5, ArrivesOnce
<1>7. FullSweep'
  <2>1. /\ passed' \cap AheadOf(m_next[itNode], newLocation) = {}
        /\ stayed \ passed' \subseteq AheadOf(m_next[itNode], newLocation)
    BY <1>3, <1>4, <1>5
  <2>2. itPc' = "buckets" =>
          /\ m_next[itNode] = itNode' /\ newLocation = newLocation'
          /\ itNode' # Null => Loc(itNode') = newLocation
    BY <1>1, <1>5
  <2>3. itPc' \in {"rest", "chain"} =>
          m_next[itNode] = m_next[itEntry'] /\ newLocation = Loc(itEntry')
    BY <1>3, <1>4
  <2> QED
    BY <1>1, <2>1, <2>2, <2>3, FullSweepAfter
<1> QED
  BY <1>3, <1>6, <1>7

LEMMA BucketNextSweeps ==
  ASSUME ItInv, FullSweep, BucketNext, Calm
  PROVE  /\ FullSweep' /\ twice' = twice
         /\ itPc' = "end" => stayed \subseteq passed'
<1>1. /\ itPc = "buckets" /\ itNode = Null /\ UNCHANGED vars
      /\ UNCHANGED <<itArgs, stayed, disturbed>>
  BY DEF BucketNext
<1>2. /\ itType = "full" /\ pc = "idle" /\ TreeInv /\ ChainsSound /\ passed \subseteq live
      /\ newLocation \in 0 .. m_nBuckets /\ m_nBuckets \in Nat \ {0}
      /\ \A x \in live : Loc(x) \in 0 .. m_nBuckets - 1
  BY <1>1, ItTypes, ChainTypes, LocType
     DEF ItInv, ItShape, ItTypeOK, Moving, ChainInv, ChainsCorrect, Calm
<1>3. /\ passed \cap AheadOf(itNode, newLocation) = {}
      /\ stayed \ passed \subseteq AheadOf(itNode, newLocation)
  BY <1>1, <1>2 DEF FullSweep, Ahead
<1>4. AheadOf(itNode, newLocation) = {x \in live : Loc(x) > newLocation}
  BY <1>1, ChainOfNull DEF AheadOf
<1>5. CASE NoBucketLeft
  <2>1. itPc' = "end" /\ passed' = passed /\ twice' = twice
    BY <1>1, <1>5 DEF BucketNext, ArriveAtEnd
  <2>2. AheadOf(itNode, newLocation) = {}
    BY <1>2, <1>4, <1>5 DEF NoBucketLeft
  <2> QED
    BY <1>3, <2>1, <2>2 DEF FullSweep
<1>6. CASE ~NoBucketLeft
  <2>1. /\ itPc' = "buckets" /\ newLocation' = newLocation + 1
        /\ itNode' = FirstNode(newLocation + 1) /\ passed' = passed /\ twice' = twice
    BY <1>1, <1>6 DEF BucketNext
  <2>2. newLocation + 1 \in 0 .. m_nBuckets
    BY <1>2, <1>6 DEF NoBucketLeft
  <2>3. /\ AheadOf(FirstNode(newLocation + 1), newLocation + 1)
             = {x \in live : Loc(x) >= newLocation + 1}
        /\ FirstNode(newLocation + 1) # Null => Loc(FirstNode(newLocation + 1)) = newLocation + 1
    BY <1>2, <2>2, AheadFrom
  <2>4. {x \in live : Loc(x) >= newLocation + 1} = {x \in live : Loc(x) > newLocation}
    BY <1>2
  <2>5. /\ passed' \cap AheadOf(itNode', newLocation') = {}
        /\ stayed \ passed' \subseteq AheadOf(itNode', newLocation')
    BY <1>3, <1>4, <2>1, <2>3, <2>4
  <2>6. itNode' # Null => Loc(itNode') = newLocation'
    BY <2>1, <2>3
  <2>7. FullSweep'
    BY <1>1, <2>1, <2>5, <2>6, FullSweepAfter
  <2> QED
    BY <2>1, <2>7
<1> QED
  BY <1>5, <1>6

LEMMA FullBegins ==
  ASSUME ItInv, Once, NEW S, FullEnumerate(S), ~damaged
  PROVE  FullSweep' /\ ~twice' /\ itPc' # "end"
<1>1. /\ pc = "idle" /\ itPc = "none" /\ itPc' = "buckets" /\ newLocation' = 0
      /\ itNode' = FirstNode(0) /\ passed' = passed /\ twice' = twice /\ stayed' = live
      /\ UNCHANGED vars
  BY DEF FullEnumerate, Begin
<1>2. /\ TreeInv /\ ChainsSound /\ m_nBuckets \in Nat /\ passed = {} /\ ~twice
      /\ \A x \in live : Loc(x) \in Nat
  BY <1>1, LocType, ChainTypes DEF ItInv, ChainInv, ChainsCorrect, Once
<1>3. /\ AheadOf(FirstNode(0), 0) = {x \in live : Loc(x) >= 0}
      /\ FirstNode(0) # Null => Loc(FirstNode(0)) = 0
  BY <1>1, <1>2, AheadFrom
<1>4. /\ live' = live /\ m_next' = m_next /\ m_prefix' = m_prefix /\ m_nBuckets' = m_nBuckets
  BY <1>1, TableSame
<1>5. Ahead' = AheadOf(FirstNode(0), 0)
  <2>1. Ahead' = AheadOf(itNode', newLocation')
    BY <1>1, <1>4 DEF Ahead, AheadOf, Chain, Loc
  <2> QED
    BY <1>1, <2>1
<1>6. itNode' # Null => Loc(itNode)' = newLocation'
  <2>1. Loc(itNode)' = Loc(itNode')
    BY <1>4 DEF Loc
  <2> QED
    BY <1>1, <1>3, <2>1
<1>7. live = {x \in live : Loc(x) >= 0}
  BY <1>2
<1>8. FullSweep'
  BY <1>1, <1>2, <1>3, <1>5, <1>6, <1>7 DEF FullSweep
<1> QED
  BY <1>1, <1>2, <1>8

-----------------------------------------------------------------------------
(* A full enumeration in a table that changes.                             *)

\* New entries come to the ends of chains and erased ones are taken out, so that
\* among the entries that stay the same ones are ahead.
LEMMA AheadNext ==
  ASSUME TreeInv, ChainsSound, [Next]_vars, pc # "resize",
         EraseEmpty => ~WrongPrev(entry), NEW h \in live \cap live'
  PROVE  LET A == AheadOf(m_next[h], Loc(h))
             B == Walk(m_next', m_next'[h]) \cup {x \in live' : Loc(x)' > Loc(h)'}
         IN  B \cap live \subseteq A /\ A \cap live' \subseteq B
<1> DEFINE V == Walk(m_next, m_next[h])
           W == Walk(m_next', m_next'[h])
           A == AheadOf(m_next[h], Loc(h))
           B == W \cup {x \in live' : Loc(x)' > Loc(h)'}
<1>1. m_nBuckets' = m_nBuckets
  BY LinkSteps
<1>2. \A x \in live \cap live' : Loc(x)' = Loc(x)
  BY <1>1, LiveNext DEF Loc
<1>3. A = V \cup {x \in live : Loc(x) > Loc(h)}
  BY DEF AheadOf, Chain, Walk
<1>4. /\ m_next \in [Addr -> Pointer] /\ m_next' \in [Addr -> Pointer] /\ h \in Addr
      /\ Null \notin Addr
  <2>1. TypeInv'
    BY TypeNext DEF TreeInv
  <2> QED
    BY <2>1, ChainTypes DEF TypeInv, TypeOK
<1>5. W \cap live \subseteq V /\ V \cap live' \subseteq W
  <2>1. CASE m_next' = m_next /\ live' = live
    BY <2>1
  <2>2. ASSUME NEW a \in Addr \ live, LinksAppend(m_next, m_next', a)
        PROVE  W \cap live \subseteq V /\ V \cap live' \subseteq W
    <3>1. V \subseteq W /\ W \subseteq V \cup {a}
      BY <1>4, <2>2, WalkAppend
    <3> HIDE DEF V, W
    <3> QED
      BY <3>1
  <2>3. ASSUME entry \in live, live' = live \ {entry}, NEW q, LinksRemove(m_next, m_next', entry, q)
        PROVE  W \cap live \subseteq V /\ V \cap live' \subseteq W
    <3>1. W = V \ {entry}
      <4>1. entry \in Addr /\ h # entry
        BY <2>3, ChainTypes
      <4> QED
        BY <1>4, <2>3, <4>1, WalkRemove
    <3> HIDE DEF V, W
    <3> QED
      BY <2>3, <3>1
  <2> HIDE DEF V, W
  <2> QED
    BY <2>1, <2>2, <2>3, LinkSteps
<1> HIDE DEF V, W, A
<1>6. B \cap live \subseteq A
  BY <1>2, <1>3, <1>5
<1>7. A \cap live' \subseteq B
  BY <1>2, <1>3, <1>5
<1> QED
  BY <1>6, <1>7 DEF A, W

LEMMA TableKeepsFullSweep ==
  ASSUME ItInv, FullSweep, TableStep
  PROVE  FullSweep'
<1>1. /\ TreeInv /\ [Next]_vars /\ itPc' = itPc /\ itEntry' = itEntry /\ itType' = itType
      /\ itPc \in {"none", "rest"}
      /\ passed' = passed \cap live' /\ stayed' = stayed \cap live'
      /\ passed \subseteq live /\ stayed \subseteq live
  BY TableStepFacts, ItTypes DEF itArgs, ItInv
<1> SUFFICES ASSUME itType = "full", itPc = "rest", Calm'
             PROVE  passed' \cap Ahead' = {} /\ stayed' \ passed' \subseteq Ahead'
  BY <1>1 DEF FullSweep
<1>2. Calm /\ ~Disturbs /\ ChainsSound
  BY <1>1, CalmBefore, SoundNext DEF Calm
<1>3. pc # "resize" /\ itEntry \notin Gone
  BY <1>2 DEF Disturbs
<1>4. EraseEmpty => ~WrongPrev(entry)
  BY <1>1, DamageStays DEF Calm
<1>5. itEntry \in live \cap live'
  <2>1. ghosts = <<>> /\ itEntry \in live
    BY <1>2 DEF ItInv, ItPath, ItCalm, Calm, Standing
  <2> QED
    BY <1>3, <2>1 DEF Gone
<1>6. passed \cap Ahead = {} /\ stayed \ passed \subseteq Ahead
  BY <1>2 DEF FullSweep
<1>7. Ahead = AheadOf(m_next[itEntry], Loc(itEntry))
  BY DEF Ahead
<1>8. Ahead' = Walk(m_next', m_next'[itEntry])
                 \cup {x \in live' : Loc(x)' > Loc(itEntry)'}
  BY <1>1 DEF Ahead, AheadOf, Chain, Walk, Loc
<1>9. Ahead' \cap live \subseteq Ahead /\ Ahead \cap live' \subseteq Ahead'
  BY <1>1, <1>2, <1>3, <1>4, <1>5, <1>7, <1>8, AheadNext
<1> QED
  BY <1>1, <1>6, <1>9

-----------------------------------------------------------------------------
(* The steps of a partial enumeration.                                     *)

\* The next state, when the table is the same.
LEMMA TreeSweepAfter ==
  ASSUME UNCHANGED vars, UNCHANGED <<itArgs, stayed, disturbed>>,
         SweptTree(itEntry', Open(itEntry', visitChildren'), passed')
  PROVE  TreeSweep'
<1>1. /\ live' = live /\ m_prefix' = m_prefix /\ m_parent' = m_parent
      /\ m_children' = m_children /\ itRoot' = itRoot /\ itPrefix' = itPrefix
      /\ visits' = visits /\ stayed' = stayed
  BY TableSame DEF itArgs
<1>2. PICK e, open, P : e = itEntry' /\ open = Open(itEntry', visitChildren') /\ P = passed'
  OBVIOUS
<1>3. Open(itEntry, visitChildren)' = open
  BY <1>2 DEF Open
<1>4. /\ \A y : OnPath(y, itEntry)' = OnPath(y, e)
      /\ \A y : PassedUpTo(y, passed)' = PassedUpTo(y, P)
      /\ \A x : Swept(x, passed)' = Swept(x, P)
  BY <1>1, <1>2 DEF OnPath, PassedUpTo, Swept
<1>5. SweptTree(e, open, P)
  BY <1>2
<1>6. SweptTree(itEntry, Open(itEntry, visitChildren), passed)'
  BY <1>1, <1>2, <1>3, <1>4, <1>5 DEF SweptTree
<1> QED
  BY <1>6 DEF TreeSweep

LEMMA NoChildren ==
  ASSUME TreeInv, NEW a \in live, m_children[a] = <<>>, NEW x \in live
  PROVE  m_parent[x] # a
<1> SUFFICES ASSUME m_parent[x] = a PROVE FALSE
  OBVIOUS
<1>1. a # Null
  BY FamilyTypes
<1>2. PICK j \in DOMAIN m_children[a] : m_children[a][j] = x
  BY <1>1, ChildOf
<1> QED
  BY <1>2, EmptySeq

\* What visitChildren says of an entry that the enumeration arrives at.
LEMMA OpenFacts ==
  ASSUME TreeInv, NEW c \in live
  PROVE  LET open == Open(c, Visit(c, visits)) IN
         /\ open \subseteq {c}
         /\ c \in open \/ m_prefix[c] \notin visits \/ \A x \in live : m_parent[x] # c
BY NoChildren DEF Open, Visit

LEMMA TreeStands ==
  ASSUME ItInv, TreeSweep, itPc = "tree", Calm
  PROVE  /\ TreeInv /\ ChainsSound /\ ItShape /\ ItPath /\ Standing /\ ghosts = <<>>
         /\ itType = "partial" /\ InTree(itEntry) /\ passed \in SUBSET live
         /\ SweptTree(itEntry, Open(itEntry, visitChildren), passed)
<1>1. /\ itType = "partial" /\ Standing /\ TreeInv /\ ItShape /\ ItPath /\ ChainsSound
      /\ ghosts = <<>> => itEntry \in live /\ InSubTree
  BY TreePosition DEF Calm, ChainInv, ChainsCorrect
<1>2. ghosts = <<>>
  BY <1>1 DEF ItInv, ItCalm, Calm
<1>3. InTree(itEntry)
  BY <1>1, <1>2 DEF InTree, InSubTree, Inside
<1> QED
  BY <1>1, <1>2, <1>3, ItTypes DEF TreeSweep

LEMMA TreeDownSweeps ==
  ASSUME ItInv, TreeSweep, TreeDown, Calm
  PROVE  TreeSweep' /\ twice' = twice /\ itPc' # "end"
<1> DEFINE c == m_children[itEntry][1]
<1>1. /\ itPc = "tree" /\ visitChildren /\ m_children[itEntry] # <<>>
      /\ ArriveAt(c, m_prefix[c], "tree") /\ visitChildren' = Visit(c, visits)
      /\ UNCHANGED vars /\ UNCHANGED <<itArgs, stayed, disturbed>>
  BY DEF TreeDown
<1>2. /\ TreeInv /\ ChainsSound /\ ItShape /\ InTree(itEntry) /\ passed \in SUBSET live
      /\ SweptTree(itEntry, {itEntry}, passed)
  BY <1>1, TreeStands DEF Open
<1>3. c \in live
  BY <1>1, <1>2, FamilyTypes DEF InTree
<1>4. c \notin passed /\ SweptTree(c, Open(c, Visit(c, visits)), passed \cup {c})
  <2>1. PICK open : open = Open(c, Visit(c, visits))
    OBVIOUS
  <2>2. /\ open \subseteq {c}
        /\ c \in open \/ m_prefix[c] \notin visits \/ \A x \in live : m_parent[x] # c
    BY <1>2, <1>3, <2>1, OpenFacts
  <2>3. PICK d : d = c
    OBVIOUS
  <2>4. /\ TreeInv /\ ChainsSound /\ ItShape /\ passed \in SUBSET live /\ InTree(itEntry)
        /\ SweptTree(itEntry, {itEntry}, passed) /\ m_children[itEntry] # <<>>
        /\ d = m_children[itEntry][1] /\ open \subseteq {d}
        /\ d \in open \/ m_prefix[d] \notin visits \/ \A x \in live : m_parent[x] # d
    BY <1>1, <1>2, <2>2, <2>3
  <2>5. d \in live \ passed /\ SweptTree(d, open, passed \cup {d})
    <3>1. PICK e, P : e = itEntry /\ P = passed
      OBVIOUS
    <3>2. /\ P \in SUBSET live /\ InTree(e) /\ SweptTree(e, {e}, P) /\ m_children[e] # <<>>
          /\ d = m_children[e][1]
      BY <2>4, <3>1
    <3>3. d \in live \ P /\ SweptTree(d, open, P \cup {d})
      BY ONLY <2>4, <3>2, SweepGoesDown
    <3> QED
      BY <3>1, <3>3
  <2> QED
    BY <2>1, <2>3, <2>5
<1>5. itEntry' = c /\ passed' = passed \cup {c} /\ itPc' # "end"
  BY <1>1, <1>3 DEF ArriveAt
<1>6. twice' = twice
  BY <1>1, <1>4, ArrivesOnce
<1>7. TreeSweep'
  BY <1>1, <1>4, <1>5, TreeSweepAfter
<1> QED
  BY <1>5, <1>6, <1>7

LEMMA TreeSiblingSweeps ==
  ASSUME ItInv, TreeSweep, TreeSibling, Calm
  PROVE  TreeSweep' /\ twice' = twice /\ itPc' # "end"
<1>1. /\ itPc = "tree" /\ ~visitChildren /\ itEntry # itRoot
      /\ UNCHANGED vars /\ UNCHANGED <<itArgs, stayed, disturbed>>
  BY DEF TreeSibling
<1>2. PICK k \in Positions :
        IF k < Len(m_children[EntryParent])
        THEN /\ ArriveAt(NextSibling(k), m_prefix[NextSibling(k)], "tree")
             /\ visitChildren' = Visit(NextSibling(k), visits)
        ELSE /\ itEntry' = EntryParent
             /\ UNCHANGED <<itPc, visitChildren, passed, twice>>
  BY DEF TreeSibling
<1>3. /\ TreeInv /\ ChainsSound /\ ItShape /\ ItPath /\ Standing /\ InTree(itEntry)
      /\ passed \in SUBSET live /\ SweptTree(itEntry, {}, passed)
  BY <1>1, TreeStands DEF Open
<1> DEFINE up == m_parent[itEntry]
           c == m_children[up][k + 1]
<1>4. /\ EntryParent = up /\ up \in live /\ k \in DOMAIN m_children[up]
      /\ m_children[up][k] = itEntry /\ NextSibling(k) = c
  BY <1>3, PositionsStored DEF NextSibling
<1>5. CASE k < Len(m_children[up])
  <2>1. ArriveAt(c, m_prefix[c], "tree") /\ visitChildren' = Visit(c, visits)
    BY <1>2, <1>4, <1>5
  <2>2. c \in live
    <3>1. k + 1 \in DOMAIN m_children[up]
      BY <1>3, <1>4, <1>5, FamilyTypes
    <3> QED
      BY <1>3, <1>4, <3>1, FamilyTypes
  <2>3. c \notin passed /\ SweptTree(c, Open(c, Visit(c, visits)), passed \cup {c})
    <3>1. PICK open : open = Open(c, Visit(c, visits))
      OBVIOUS
    <3>2. /\ open \subseteq {c}
          /\ c \in open \/ m_prefix[c] \notin visits \/ \A x \in live : m_parent[x] # c
      BY <1>3, <2>2, <3>1, OpenFacts
    <3>3. PICK d : d = c
      OBVIOUS
    <3>4. /\ TreeInv /\ ChainsSound /\ ItShape /\ passed \in SUBSET live /\ InTree(itEntry)
          /\ itEntry # itRoot /\ SweptTree(itEntry, {}, passed)
          /\ k \in DOMAIN m_children[m_parent[itEntry]]
          /\ m_children[m_parent[itEntry]][k] = itEntry /\ k < Len(m_children[m_parent[itEntry]])
          /\ d = m_children[m_parent[itEntry]][k + 1] /\ open \subseteq {d}
          /\ d \in open \/ m_prefix[d] \notin visits \/ \A x \in live : m_parent[x] # d
      BY <1>1, <1>3, <1>4, <1>5, <3>2, <3>3
    <3>5. d \in live \ passed /\ SweptTree(d, open, passed \cup {d})
      <4>1. PICK e, P : e = itEntry /\ P = passed
        OBVIOUS
      <4>2. /\ P \in SUBSET live /\ InTree(e) /\ e # itRoot /\ SweptTree(e, {}, P)
            /\ k \in DOMAIN m_children[m_parent[e]] /\ m_children[m_parent[e]][k] = e
            /\ k < Len(m_children[m_parent[e]]) /\ d = m_children[m_parent[e]][k + 1]
        BY <3>4, <4>1
      <4>3. d \in live \ P /\ SweptTree(d, open, P \cup {d})
        BY ONLY <3>4, <4>2, SweepGoesAcross
      <4> QED
        BY <4>1, <4>3
    <3> QED
      BY <3>1, <3>3, <3>5
  <2>4. itEntry' = c /\ passed' = passed \cup {c} /\ itPc' # "end"
    BY <2>1, <2>2 DEF ArriveAt
  <2>5. twice' = twice
    BY <2>1, <2>3, ArrivesOnce
  <2>6. TreeSweep'
    BY <1>1, <2>1, <2>3, <2>4, TreeSweepAfter
  <2> QED
    BY <2>4, <2>5, <2>6
<1>6. CASE ~(k < Len(m_children[up]))
  <2>1. itEntry' = up /\ UNCHANGED <<itPc, visitChildren, passed, twice>>
    BY <1>2, <1>4, <1>6
  <2>2. SweptTree(up, {}, passed)
    BY <1>1, <1>3, <1>4, <1>6, SweepGoesUp
  <2>3. Open(itEntry', visitChildren') = {}
    BY <1>1, <2>1 DEF Open
  <2>4. TreeSweep'
    BY <1>1, <2>1, <2>2, <2>3, TreeSweepAfter
  <2> QED
    BY <1>1, <2>1, <2>4
<1> QED
  BY <1>5, <1>6

LEMMA TreeEndSweeps ==
  ASSUME ItInv, TreeSweep, StayedTree, TreeEnd, Calm
  PROVE  /\ TreeSweep' /\ twice' = twice
         /\ \A a \in stayed : Inside(m_prefix[a]) => a \in passed'
<1>1. /\ itPc = "tree" /\ ~visitChildren /\ itEntry = itRoot /\ itPc' = "end"
      /\ passed' = passed /\ twice' = twice
  BY DEF TreeEnd, ArriveAtEnd
<1>2. /\ TreeInv /\ ChainsSound /\ ItShape /\ InTree(itRoot)
      /\ passed \in SUBSET live /\ SweptTree(itRoot, {}, passed)
  BY <1>1, TreeStands DEF Open
<1>3. \A a \in stayed : Inside(m_prefix[a]) => a \in passed
  BY <1>2, SweepEnds
<1> QED
  BY <1>1, <1>3 DEF TreeSweep, Standing

LEMMA PartialBegins ==
  ASSUME ItInv, Once, NEW n \in Name, NEW S \in Selector, NEW V \in SubSelector,
         PartialEnumerate(n, S, V), ~damaged
  PROVE  /\ TreeSweep' /\ ~twice'
         /\ itPc' = "end" => \A a \in stayed' : ~Wanted(m_prefix[a])'
<1> DEFINE root == FindExactMatch(n)
<1>1. /\ pc = "idle" /\ itPc = "none" /\ itType' = "partial" /\ itPrefix' = n
      /\ visits' = V /\ stayed' = live /\ UNCHANGED <<vars, ghosts, disturbed>>
  BY DEF PartialEnumerate, Begin
<1>2. /\ live' = live /\ m_prefix' = m_prefix /\ m_parent' = m_parent
      /\ m_children' = m_children /\ TreeInv /\ ChainsSound /\ ~twice
  BY <1>1, TableSame DEF ItInv, ChainInv, ChainsCorrect, Once
<1>3. CASE root = Null
  <2>1. itPc' = "end" /\ twice' = twice
    BY <1>2, <1>3, ChainTypes DEF PartialEnumerate, ArriveAtEnd
  <2>2. ASSUME NEW a \in live, Wanted(m_prefix[a])' PROVE FALSE
    <3>1. IsPrefix(n, m_prefix[a])
      BY <1>1, <1>2, <2>2 DEF Wanted
    <3>2. \E r \in live : m_prefix[r] = n
      BY <1>2, <3>1, PrefixStored
    <3>3. root \in live
      BY <1>1, <1>2, <3>2, ExactMatchFound
    <3> QED
      BY <1>2, <1>3, <3>3, ChainTypes
  <2> QED
    BY <1>1, <1>2, <2>1, <2>2 DEF TreeSweep, Standing
<1>4. CASE root # Null
  <2>1. PICK r : r = root
    OBVIOUS
  <2>2. /\ r \in live /\ m_prefix[r] = n /\ itEntry' = r /\ itRoot' = r
        /\ visitChildren' = Visit(r, V) /\ itPc' # "end" /\ passed' = {r} /\ ~twice'
    BY <1>4, <2>1 DEF PartialEnumerate
  <2>3. PICK open : open = Open(itEntry, visitChildren)'
    OBVIOUS
  <2>4. open \subseteq {r} /\ (Visit(r, V) => r \in open)
    BY <2>2, <2>3 DEF Open
  <2>5. r \in open \/ Swept(r, passed)'
    <3>1. CASE Visit(r, V)
      BY <2>4, <3>1
    <3>2. CASE m_prefix[r] \notin V
      BY <1>1, <1>2, <3>2 DEF Swept
    <3>3. CASE m_children[r] = <<>>
      <4>1. \A x \in live : m_parent[x] # r
        BY <1>2, <2>2, <3>3, NoChildren
      <4> QED
        BY <1>1, <1>2, <4>1 DEF Swept
    <3> QED
      BY <3>1, <3>2, <3>3 DEF Visit
  <2>6. \A y \in live : OnPath(y, itEntry)' => y = r
    BY <1>1, <1>2, <2>2, FamilyTypes, PrefixBoth DEF OnPath, ChainsSound
  <2>7. m_parent[r] \notin open /\ IsPrefix(n, m_prefix[r])
    BY <1>2, <2>2, <2>4, FamilyTypes, NotItsParent, PrefixItself
  <2>8. SweptTree(itEntry, Open(itEntry, visitChildren), passed)'
    BY <1>1, <1>2, <2>2, <2>3, <2>5, <2>6, <2>7 DEF SweptTree
  <2> QED
    BY <2>2, <2>8 DEF TreeSweep
<1> QED
  BY <1>3, <1>4

-----------------------------------------------------------------------------
(* All steps.                                                              *)

LEMMA OtherSweeps ==
  /\ itType' # "full" => FullSweep'
  /\ itType' # "all" => UpSweep'
  /\ itType' # "partial" => TreeSweep'
BY DEF FullSweep, UpSweep, TreeSweep

LEMMA CalmSame ==
  ASSUME damaged' = damaged, disturbed' = disturbed
  PROVE  Calm' <=> Calm
BY Zenon DEF Calm

\* A step of the increment, from what it does to the sweep of its own type.
LEMMA IncrementSweeps ==
  ASSUME ItInv, SweepInv, UNCHANGED vars, UNCHANGED <<itArgs, stayed, disturbed>>,
         itPc' # "none",
         Calm => FullSweep' /\ TreeSweep' /\ twice' = twice,
         ~damaged => UpSweep',
         Calm /\ itPc' = "end" => \A a \in stayed : Wanted(m_prefix[a]) => a \in passed'
  PROVE  SweepInv'
<1>1. /\ damaged' = damaged /\ m_prefix' = m_prefix /\ m_parent' = m_parent
      /\ disturbed' = disturbed /\ stayed' = stayed /\ accepts' = accepts /\ visits' = visits
      /\ itType' = itType /\ itPrefix' = itPrefix
  BY TableSame DEF itArgs
<1>2. Calm' <=> Calm
  BY <1>1, CalmSame
<1>3. FullSweep' /\ TreeSweep'
  <2>1. CASE Calm
    BY <2>1
  <2>2. CASE ~Calm
    BY <1>2, <2>2 DEF FullSweep, TreeSweep
  <2> QED
    BY <2>1, <2>2
<1>4. UpSweep'
  <2>1. CASE damaged
    <3>1. damaged'
      BY <1>1, <2>1, Zenon
    <3> QED
      BY <3>1, Zenon DEF UpSweep
  <2> QED
    BY <2>1, Zenon
<1>5. StayedTree'
  BY <1>1 DEF SweepInv, StayedTree
<1>6. Once'
  <2>1. Calm => ~twice
    BY DEF SweepInv, Once
  <2>2. Calm' => ~twice'
    BY <1>2, <2>1, Zenon
  <2> QED
    BY <2>2 DEF Once
<1>7. EnumerationComplete'
  <2> SUFFICES ASSUME itPc' = "end", ~damaged', ~disturbed', NEW a \in stayed,
                      Wanted(m_prefix[a])'
               PROVE  a \in passed'
    BY <1>1 DEF EnumerationComplete
  <2>1. Calm
    BY <1>2, Zenon DEF Calm
  <2>2. Wanted(m_prefix[a])
    BY <1>1 DEF Wanted
  <2> QED
    BY <2>1, <2>2
<1> QED
  BY <1>3, <1>4, <1>5, <1>6, <1>7 DEF SweepInv

LEMMA StopSweeps ==
  ASSUME ItInv, SweepInv, NEW how \in {"undefined", "abort"}, ItStop(how)
  PROVE  SweepInv'
<1>1. /\ itPc' = how /\ UNCHANGED vars /\ UNCHANGED <<itArgs, stayed, disturbed>>
      /\ twice' = twice
  BY DEF ItStop
<1>2. FullSweep' /\ TreeSweep' /\ UpSweep'
  BY <1>1 DEF FullSweep, TreeSweep, UpSweep, Standing
<1> QED
  BY <1>1, <1>2, IncrementSweeps

LEMMA ChainSweeps ==
  ASSUME ItInv, SweepInv, ChainStep \/ BucketStep \/ BucketNext
  PROVE  SweepInv'
<1>1. /\ itType = "full" /\ UNCHANGED vars /\ UNCHANGED <<itArgs, stayed, disturbed>>
      /\ itPc' # "none"
  BY DEF ChainStep, BucketStep, BucketNext, ItInv, ItShape, ArriveAt, ArriveAtEnd
<1>2. UpSweep' /\ TreeSweep'
  BY <1>1, OtherSweeps DEF itArgs
<1>3. ASSUME Calm
      PROVE  /\ FullSweep' /\ twice' = twice
             /\ itPc' = "end" => \A a \in stayed : a \in passed'
  <2>1. CASE ChainStep
    BY <1>3, <2>1, ChainStepSweeps DEF SweepInv
  <2>2. CASE BucketStep
    BY <1>3, <2>2, BucketStepSweeps DEF SweepInv
  <2>3. CASE BucketNext
    BY <1>3, <2>3, BucketNextSweeps DEF SweepInv
  <2> QED
    BY <2>1, <2>2, <2>3
<1> QED
  BY <1>1, <1>2, <1>3, IncrementSweeps

LEMMA TreeSweeps ==
  ASSUME ItInv, SweepInv, TreeDown \/ TreeSibling \/ TreeEnd
  PROVE  SweepInv'
<1>1. /\ itType = "partial" /\ UNCHANGED vars /\ UNCHANGED <<itArgs, stayed, disturbed>>
      /\ itPc' # "none"
  BY DEF TreeDown, TreeSibling, TreeEnd, ItInv, ItShape, ArriveAt, ArriveAtEnd
<1>2. UpSweep' /\ FullSweep'
  BY <1>1, OtherSweeps DEF itArgs
<1>3. ASSUME Calm
      PROVE  /\ TreeSweep' /\ twice' = twice
             /\ itPc' = "end" => \A a \in stayed : Inside(m_prefix[a]) => a \in passed'
  <2>1. CASE TreeDown
    BY <1>3, <2>1, TreeDownSweeps DEF SweepInv
  <2>2. CASE TreeSibling
    BY <1>3, <2>2, TreeSiblingSweeps DEF SweepInv
  <2>3. CASE TreeEnd
    BY <1>3, <2>3, TreeEndSweeps DEF SweepInv
  <2> QED
    BY <2>1, <2>2, <2>3
<1>4. \A a \in stayed : Wanted(m_prefix[a]) => Inside(m_prefix[a])
  BY <1>1 DEF Wanted, Inside
<1> QED
  BY <1>1, <1>2, <1>3, <1>4, IncrementSweeps

LEMMA UpSweeps ==
  ASSUME ItInv, SweepInv, UpStep
  PROVE  SweepInv'
<1>1. /\ itType = "all" /\ UNCHANGED vars /\ UNCHANGED <<itArgs, stayed, disturbed>>
      /\ itPc' # "none"
  BY DEF UpStep, ItInv, ItShape, ArriveAt, ArriveAtEnd
<1>2. FullSweep' /\ TreeSweep'
  BY <1>1, OtherSweeps DEF itArgs
<1>3. ~damaged => /\ UpSweep' /\ twice' = twice
                  /\ itPc' = "end" =>
                       \A a \in stayed : Wanted(m_prefix[a]) => a \in passed'
  BY UpStepKeepsUpSweep DEF SweepInv
<1>4. Calm => ~damaged
  BY Zenon DEF Calm
<1> QED
  BY <1>1, <1>2, <1>3, <1>4, IncrementSweeps

LEMMA IncrementBeginsSweep ==
  ASSUME ItInv, SweepInv, Increment
  PROVE  SweepInv'
<1>1. /\ itPc = "rest" /\ itPc' \in {"chain", "tree", "up"} /\ UNCHANGED vars
      /\ UNCHANGED <<itArgs, stayed, disturbed>> /\ UNCHANGED <<itEntry, visitChildren>>
      /\ UNCHANGED itLoop /\ ghosts' = ghosts /\ passed' = passed /\ twice' = twice
  BY ItTypes DEF Increment, ItInv, ItShape, ItTypeOK
<1>2. /\ live' = live /\ m_prefix' = m_prefix /\ m_next' = m_next /\ m_nBuckets' = m_nBuckets
      /\ m_parent' = m_parent /\ m_children' = m_children /\ damaged' = damaged
      /\ itEntry' = itEntry /\ itType' = itType /\ itPrefix' = itPrefix /\ visits' = visits
      /\ accepts' = accepts /\ itRoot' = itRoot /\ stayed' = stayed /\ disturbed' = disturbed
      /\ visitChildren' = visitChildren
  BY <1>1, TableSame DEF itArgs
<1>3. Standing /\ Standing' /\ Kept' = Kept
  BY <1>1, <1>2 DEF Standing, Kept
<1>4. Calm' <=> Calm
  BY <1>2, CalmSame
<1>5. FullSweep'
  <2>1. Ahead' = Ahead
    BY <1>1, <1>2 DEF Ahead, AheadOf, Chain, Loc
  <2> QED
    BY <1>1, <1>2, <1>4, <2>1 DEF SweepInv, FullSweep
<1>6. UpSweep'
  <2> SUFFICES ASSUME itType = "all", ~damaged PROVE UpSweep'
    BY <1>2, Zenon DEF UpSweep
  <2>1. \A a : Wanted(m_prefix[a])' <=> Wanted(m_prefix[a])
    BY <1>2 DEF Wanted
  <2>2. /\ \A x \in passed : ghosts = <<>> /\ IsPrefix(m_prefix[itEntry], m_prefix[x])
        /\ ghosts = <<>> => itEntry \in passed
        /\ \A a \in stayed \ passed :
             Wanted(m_prefix[a]) => Kept # Null /\ IsPrefix(m_prefix[a], m_prefix[Kept])
    BY <1>3 DEF SweepInv, UpSweep
  <2> QED
    BY <1>1, <1>2, <1>3, <2>1, <2>2 DEF UpSweep
<1>7. TreeSweep'
  <2> SUFFICES ASSUME itType = "partial", Calm PROVE TreeSweep'
    BY <1>2, <1>4 DEF TreeSweep
  <2>1. SweptTree(itEntry, Open(itEntry, visitChildren), passed)
    BY <1>3 DEF SweepInv, TreeSweep
  <2>2. SweptTree(itEntry, Open(itEntry, visitChildren), passed)'
    BY <1>1, <1>2, <2>1 DEF SweptTree, Open, OnPath, PassedUpTo, Swept
  <2> QED
    BY <2>2 DEF TreeSweep
<1> QED
  BY <1>1, <1>5, <1>6, <1>7, IncrementSweeps

\* The beginning of an enumeration, from what it does to the sweep of its type.
LEMMA BeginSweeps ==
  ASSUME ItInv, SweepInv, NEW type, NEW prefix, NEW S, NEW V, Begin(type, prefix, S, V),
         itPc' # "none",
         ~damaged => FullSweep' /\ UpSweep' /\ TreeSweep' /\ ~twice',
         ~damaged /\ itPc' = "end" =>
           \A a \in stayed' : Wanted(m_prefix[a])' => a \in passed'
  PROVE  SweepInv'
<1>1. /\ stayed' = live /\ UNCHANGED vars /\ TreeInv
  BY DEF Begin, ItInv, ChainInv
<1>2. live' = live /\ m_parent' = m_parent /\ m_prefix' = m_prefix /\ damaged' = damaged
  BY <1>1, TableSame
<1>3. StayedTree'
  BY <1>1, <1>2, FamilyTypes DEF StayedTree
<1>4. FullSweep' /\ UpSweep' /\ TreeSweep' /\ Once'
  <2>1. CASE damaged
    <3>1. damaged'
      BY <1>2, <2>1, Zenon
    <3>2. ~Calm'
      BY <3>1, Zenon DEF Calm
    <3>3. UpSweep'
      BY <3>1, Zenon DEF UpSweep
    <3> QED
      BY <3>2, <3>3 DEF FullSweep, TreeSweep, Once
  <2>2. CASE ~damaged
    BY <2>2 DEF Once
  <2> QED
    BY <2>1, <2>2, Zenon
<1>5. EnumerationComplete'
  <2> SUFFICES ASSUME itPc' = "end", ~damaged', NEW a \in stayed', Wanted(m_prefix[a])'
               PROVE  a \in passed'
    BY Zenon DEF EnumerationComplete
  <2>1. ~damaged
    BY <1>2, Zenon
  <2> QED
    BY <2>1
<1> QED
  BY <1>3, <1>4, <1>5 DEF SweepInv

LEMMA EnumerationBegins ==
  ASSUME ItInv, SweepInv, NEW S \in Selector
  PROVE  /\ FullEnumerate(S) => SweepInv'
         /\ \A n \in Name : FindAllMatches(n, S) => SweepInv'
         /\ \A n \in Name : \A V \in SubSelector : PartialEnumerate(n, S, V) => SweepInv'
<1>1. Once
  BY DEF SweepInv
<1>2. ASSUME FullEnumerate(S) PROVE SweepInv'
  <2>1. Begin("full", <<>>, S, {}) /\ itType' = "full" /\ itPc' # "none"
    BY <1>2 DEF FullEnumerate, Begin
  <2>2. ~damaged => FullSweep' /\ ~twice' /\ itPc' # "end"
    BY <1>1, <1>2, FullBegins
  <2> QED
    BY <2>1, <2>2, OtherSweeps, BeginSweeps
<1>3. ASSUME NEW n \in Name, FindAllMatches(n, S) PROVE SweepInv'
  <2>1. Begin("all", n, S, {}) /\ itType' = "all" /\ itPc' # "none"
    BY <1>3 DEF FindAllMatches, Begin, ArriveAtEnd
  <2>2. ~damaged => /\ UpSweep' /\ ~twice'
                    /\ itPc' = "end" => \A a \in stayed' : ~Wanted(m_prefix[a])'
    BY <1>1, <1>3, FindAllBegins
  <2> QED
    BY <2>1, <2>2, OtherSweeps, BeginSweeps
<1>4. ASSUME NEW n \in Name, NEW V \in SubSelector, PartialEnumerate(n, S, V)
      PROVE  SweepInv'
  <2>1. Begin("partial", n, S, V) /\ itType' = "partial" /\ itPc' # "none"
    BY <1>4 DEF PartialEnumerate, Begin, ArriveAtEnd
  <2>2. ~damaged => /\ TreeSweep' /\ ~twice'
                    /\ itPc' = "end" => \A a \in stayed' : ~Wanted(m_prefix[a])'
    BY <1>1, <1>4, PartialBegins
  <2> QED
    BY <2>1, <2>2, OtherSweeps, BeginSweeps
<1> QED
  BY <1>2, <1>3, <1>4

LEMMA DropSweeps ==
  ASSUME Drop
  PROVE  SweepInv'
<1>1. itPc' = "none" /\ passed' = {} /\ stayed' = {} /\ ~twice'
  BY DEF Drop
<1>2. Once'
  BY <1>1, Zenon DEF Once
<1>3. FullSweep' /\ UpSweep' /\ TreeSweep' /\ StayedTree' /\ EnumerationComplete'
  BY <1>1 DEF FullSweep, UpSweep, TreeSweep, StayedTree, EnumerationComplete, Standing
<1> QED
  BY <1>2, <1>3 DEF SweepInv

LEMMA TableSweeps ==
  ASSUME ItInv, SweepInv, TableStep
  PROVE  SweepInv'
<1>1. FullSweep' /\ UpSweep' /\ TreeSweep'
  BY TableKeepsFullSweep, TableKeepsUpSweep, TableKeepsTreeSweep DEF SweepInv
<1>2. /\ TreeInv /\ TreeInv' /\ [Next]_vars /\ itPc' = itPc /\ itPc \in {"none", "rest"}
      /\ passed' = passed \cap live' /\ stayed' = stayed \cap live' /\ stayed \subseteq live
      /\ twice' = twice
  BY TableStepFacts, ItTypes DEF ItInv
<1>3. StayedTree'
  <2> SUFFICES ASSUME NEW a \in stayed' PROVE m_parent'[a] \in stayed' \cup {Null}
    BY DEF StayedTree
  <2>1. a \in stayed /\ a \in live \cap live'
    BY <1>2
  <2>2. m_parent'[a] = m_parent[a] /\ m_parent[a] \in stayed \cup {Null}
    BY <1>2, <2>1, ParentNext DEF SweepInv, StayedTree
  <2>3. m_parent'[a] \in live' \cup {Null}
    BY <1>2, <2>1 DEF TreeInv, TreeConsistent, HasParent
  <2> QED
    BY <1>2, <2>2, <2>3
<1>4. Once'
  <2>1. Calm' => ~twice
    BY CalmBefore DEF SweepInv, Once
  <2>2. itPc' = "none" => ~twice /\ passed' = {}
    BY <1>2 DEF SweepInv, Once
  <2>3. ~twice => ~twice'
    BY <1>2, Zenon
  <2> QED
    BY <2>1, <2>2, <2>3 DEF Once
<1>5. EnumerationComplete'
  BY <1>2 DEF EnumerationComplete
<1> QED
  BY <1>1, <1>3, <1>4, <1>5 DEF SweepInv

LEMMA SweepStart == ItInit => SweepInv
<1> SUFFICES ASSUME ItInit PROVE SweepInv
  OBVIOUS
<1>1. itPc = "none" /\ passed = {} /\ stayed = {} /\ ~twice
  BY DEF ItInit, NoIterator
<1>2. Once
  BY <1>1, Zenon DEF Once
<1>3. FullSweep /\ UpSweep /\ TreeSweep /\ StayedTree /\ EnumerationComplete
  BY <1>1 DEF FullSweep, UpSweep, TreeSweep, StayedTree, EnumerationComplete, Standing
<1> QED
  BY <1>2, <1>3 DEF SweepInv

LEMMA SweepStutter ==
  ASSUME SweepInv, UNCHANGED <<vars, itVars>>
  PROVE  SweepInv'
<1>1. /\ live' = live /\ m_prefix' = m_prefix /\ m_next' = m_next /\ m_nBuckets' = m_nBuckets
      /\ m_parent' = m_parent /\ m_children' = m_children /\ damaged' = damaged
  BY TableSame
<1>2. /\ itEntry' = itEntry /\ itType' = itType /\ itPrefix' = itPrefix /\ visits' = visits
      /\ accepts' = accepts /\ itRoot' = itRoot /\ stayed' = stayed /\ disturbed' = disturbed
      /\ visitChildren' = visitChildren /\ itPc' = itPc /\ newLocation' = newLocation
      /\ itNode' = itNode /\ ghosts' = ghosts /\ passed' = passed /\ twice' = twice
  BY DEF itVars, itArgs, itLoop
<1>3. FullSweep'
  BY <1>1, <1>2 DEF SweepInv, FullSweep, Calm, Ahead, AheadOf, Chain, Loc
<1>4. UpSweep'
  BY <1>1, <1>2 DEF SweepInv, UpSweep, Standing, Kept, Wanted
<1>5. TreeSweep'
  BY <1>1, <1>2 DEF SweepInv, TreeSweep, Standing, Calm, SweptTree, Open, OnPath,
                    PassedUpTo, Swept
<1>6. StayedTree' /\ Once' /\ EnumerationComplete'
  BY <1>1, <1>2 DEF SweepInv, StayedTree, Once, Calm, EnumerationComplete, Wanted
<1> QED
  BY <1>3, <1>4, <1>5, <1>6 DEF SweepInv

LEMMA SweepNext ==
  ASSUME ItInv, SweepInv, [ItNext]_<<vars, itVars>>
  PROVE  SweepInv'
<1>1. CASE TableStep
  BY <1>1, TableSweeps
<1>2. CASE \E S \in Selector :
             \/ "full" \in ItType /\ FullEnumerate(S)
             \/ \E n \in Name :
                  \/ /\ "partial" \in ItType
                     /\ \E V \in SubSelector : PartialEnumerate(n, S, V)
                  \/ "all" \in ItType /\ FindAllMatches(n, S)
  BY <1>2, EnumerationBegins
<1>3. CASE Increment
  BY <1>3, IncrementBeginsSweep
<1>4. CASE ItStep
  <2>1. CASE ChainStep \/ BucketStep \/ BucketNext
    BY <2>1, ChainSweeps
  <2>2. CASE TreeDown \/ TreeSibling \/ TreeEnd
    BY <2>2, TreeSweeps
  <2>3. CASE UpStep
    BY <2>3, UpSweeps
  <2>4. CASE ChainUndefined \/ BucketUndefined \/ TreeUndefined \/ TreeAborts
    BY <2>4, StopSweeps DEF ChainUndefined, BucketUndefined, TreeUndefined, TreeAborts
  <2> QED
    BY <1>4, <2>1, <2>2, <2>3, <2>4 DEF ItStep
<1>5. CASE Drop
  BY <1>5, DropSweeps
<1>6. CASE UNCHANGED <<vars, itVars>>
  BY <1>6, SweepStutter
<1> QED
  BY <1>1, <1>2, <1>3, <1>4, <1>5, <1>6 DEF ItNext

LEMMA SweepCorrect == ItSpec => []SweepInv
<1>1. ItInit => SweepInv
  BY SweepStart
<1>2. ItInv /\ SweepInv /\ [ItNext]_<<vars, itVars>> => SweepInv'
  BY SweepNext
<1> QED
  BY <1>1, <1>2, ItCorrect, PTL DEF ItSpec

-----------------------------------------------------------------------------
(* Theorems.                                                               *)

\* When an enumeration is at its end, it has come to every entry it was asked
\* for that was stored from its beginning on: the clients' other calls, between
\* the increments, hide nothing from it, unless they disturb it in one of the
\* ways that Disturbs lists or a node was unlinked through a wrong m_prev.
THEOREM EnumerationIsComplete == ItSpec => []EnumerationComplete
<1>1. SweepInv => EnumerationComplete
  BY DEF SweepInv
<1> QED
  BY <1>1, SweepCorrect, PTL

\* With the same exceptions, no enumeration comes to an entry that it has been
\* at before: neither along the chains of a table that entries are appended to
\* and taken out of, nor from sibling to sibling when lists of children shrink,
\* nor on the way up.
THEOREM EnumeratedOnce == ItSpec => []EnumeratesOnce
<1>1. SweepInv => EnumeratesOnce
  BY DEF SweepInv, Once, Calm, EnumeratesOnce
<1> QED
  BY <1>1, SweepCorrect, PTL

=============================================================================
