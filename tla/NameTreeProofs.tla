--------------------------- MODULE NameTreeProofs ---------------------------
(***************************************************************************)
(* Proofs about the hash table of NameTree, for every set of names, every  *)
(* hash function, every heap and every size of the table: its types, the   *)
(* tree of its entries and the dictionary it implements, in every table;   *)
(* then the chains, the calls, the queries and dump(), as long as no node  *)
(* was unlinked through a wrong m_prev.                                    *)
(***************************************************************************)
EXTENDS NameTreeChains, NameTreeQueries, DataLemmas, FiniteSetTheorems,
        SequenceTheorems, TLAPS

-----------------------------------------------------------------------------
(* Lemmas about the operators of the model.                                *)

\* The k-th prefix of a name is a name of k components, and its own parent is
\* the prefix that lookup() handled in the previous iteration.
LEMMA PrefixFacts ==
  ASSUME NEW n \in Name, NEW k \in 0 .. Len(n)
  PROVE  /\ Len(n) \in Nat
         /\ GetPrefix(n, k) \in Name
         /\ Len(GetPrefix(n, k)) = k
         /\ k = 0 => GetPrefix(n, k) = <<>>
         /\ k # 0 => /\ GetPrefix(n, k) # <<>>
                     /\ GetPrefix(GetPrefix(n, k), k - 1) = GetPrefix(n, k - 1)
<1>1. n \in Seq(Component) /\ GetPrefix(n, k) \in Name
  BY NameAssumption
<1>2. k = 0 => GetPrefix(n, k) = <<>>
  BY <1>1, SubSeqEmpty DEF GetPrefix
<1>3. /\ Len(n) \in Nat /\ Len(GetPrefix(n, k)) = k
      /\ k # 0 => GetPrefix(n, k) # <<>>
      /\ \A j \in 0 .. k : GetPrefix(GetPrefix(n, k), j) = GetPrefix(n, j)
  BY <1>1, InitialFacts DEF GetPrefix, Initial
<1>4. k # 0 => k - 1 \in 0 .. k
  BY <1>3
<1> QED
  BY <1>1, <1>2, <1>3, <1>4

\* A hash value modulo the number of buckets is the index of a bucket.
LEMMA LocationInTable ==
  ASSUME NEW n \in Name, NEW size \in Nat \ {0}
  PROVE  Location(n, size) \in 0 .. size - 1
<1>1. Hash[n] \in Nat
  BY HashAssumption
<1> QED
  BY <1>1, SMT DEF Location

\* Replacing the child at k by the last one and popping the last one keeps all
\* the other children, and nothing else.
LEMMA RemoveChildFacts ==
  ASSUME NEW s \in Seq(Addr), NEW k \in DOMAIN s
  PROVE  /\ RemoveChild(s, k) \in Seq(Addr)
         /\ DOMAIN RemoveChild(s, k) = 1 .. Len(s) - 1
         /\ \A j \in 1 .. Len(s) - 1 :
              RemoveChild(s, k)[j] = s[IF j = k THEN Len(s) ELSE j]
<1>1. Len(s) \in Nat /\ DOMAIN s = 1 .. Len(s) /\ Len(s) # 0
  BY LenProperties
<1>2. \A j \in 1 .. Len(s) : s[j] \in Addr
  BY ElementOfSeq
<1>3. RemoveChild(s, k) \in [1 .. Len(s) - 1 -> Addr]
  BY <1>1, <1>2 DEF RemoveChild
<1>4. RemoveChild(s, k) \in Seq(Addr)
  BY <1>1, <1>3, SeqDef, Len(s) - 1 \in Nat
<1> QED
  BY <1>1, <1>4 DEF RemoveChild

-----------------------------------------------------------------------------
(* Type correctness.                                                       *)

\* A running resize() has at least one new bucket, eraseEntryIfEmpty() an entry.
TypeInv ==
  /\ TypeOK
  /\ pc = "resize" => newNBuckets # 0
  /\ pc = "erase" => entry # Null

LEMMA ThresholdType == \A n \in Nat : Threshold(n) \in Nat
BY DEF Threshold

LEMMA TypeInit == Init => TypeInv
<1> SUFFICES ASSUME Init PROVE TypeInv
  OBVIOUS
<1>1. NBuckets \in Nat \ {0} /\ <<>> \in Name
  BY SizeAssumption, NameAssumption
<1>2. Len(<<>>) = 0 /\ <<>> \in Seq(Addr)
  BY EmptySeq
<1>3. \A n \in Nat : EmptyBuckets(n) \in [0 .. n - 1 -> Pointer]
  BY DEF EmptyBuckets, Pointer
<1>4. /\ m_nBuckets \in Nat \ {0} /\ bucket \in 0 .. m_nBuckets - 1
      /\ m_buckets \in [0 .. m_nBuckets - 1 -> Pointer]
      /\ newNBuckets \in Nat /\ newBuckets \in [0 .. newNBuckets - 1 -> Pointer]
  BY <1>1, <1>3 DEF Init
<1>5. /\ live \subseteq Addr
      /\ m_next \in [Addr -> Pointer] /\ m_prev \in [Addr -> Pointer]
      /\ m_prefix \in [Addr -> Name] /\ m_parent \in [Addr -> Pointer]
      /\ m_children \in [Addr -> Seq(Addr)]
      /\ content \in [Addr -> SUBSET Content]
  BY <1>1, <1>2 DEF Init, Pointer
<1>6. /\ name \in Name /\ i \in 0 .. Len(name)
      /\ entry \in Pointer /\ node \in Pointer /\ nodePrev \in Pointer
  BY <1>1, <1>2 DEF Init, Pointer
<1>7. damaged \in BOOLEAN
  BY Zenon DEF Init
<1>8. /\ m_nItems \in Int /\ m_resizeThreshold = Threshold(m_nBuckets)
      /\ pc = "idle" /\ p \in Pointer /\ pre \in Pointer /\ last \in Pointer
      /\ count \in Nat /\ after = "idle"
  BY DEF Init, Pointer
<1> QED
  BY <1>4, <1>5, <1>6, <1>7, <1>8 DEF TypeInv, TypeOK

\* The first insert() of a call, or the one after the k-th prefix.
LEMMA TypeBeginInsert ==
  ASSUME TypeInv, NEW n \in Name, NEW k \in 0 .. Len(n), BeginInsert(n, k)
  PROVE  pc' = "insert" /\ i' = k /\ node' \in Pointer /\ nodePrev' \in Pointer
<1>1. Location(GetPrefix(n, k), m_nBuckets) \in 0 .. m_nBuckets - 1
  BY PrefixFacts, LocationInTable DEF TypeInv, TypeOK
<1> QED
  BY <1>1 DEF BeginInsert, TypeInv, TypeOK

LEMMA TypeBeginResize ==
  ASSUME TypeInv, NEW n \in Nat \ {0}, NEW return \in {"idle", "grown"},
         BeginResize(n, return)
  PROVE  TypeInv'
BY DEF BeginResize, EmptyBuckets, TypeInv, TypeOK, Pointer, table, links, tree,
       locals

LEMMA TypeReturn ==
  ASSUME TypeInv, Return
  PROVE  /\ pc' = "idle" /\ name' \in Name /\ i' \in 0 .. Len(name')
         /\ entry' \in Pointer /\ node' \in Pointer /\ nodePrev' \in Pointer
<1>1. <<>> \in Name /\ Len(<<>>) = 0
  BY NameAssumption, EmptySeq
<1> QED
  BY <1>1 DEF Return, Pointer

LEMMA TypeResize ==
  ASSUME TypeInv,
         \/ ResizeWalk \/ ResizeLink \/ ResizeNextBucket \/ ResizeEnd
         \/ ResizeUndefined
  PROVE  TypeInv'
<1> USE DEF TypeInv, TypeOK, table, links, tree, locals, rehash
<1>1. CASE ResizeWalk
  <2>1. Slot \in Pointer
    <3>1. CASE last = Null
      <4>1. NewLocation \in 0 .. newNBuckets - 1
        BY <1>1, LocationInTable DEF ResizeWalk, NewLocation
      <4> QED
        BY <3>1, <4>1 DEF Slot
    <3>2. CASE last # Null
      BY <3>2 DEF Slot, Pointer
    <3> QED
      BY <3>1, <3>2
  <2> QED
    BY <1>1, <2>1 DEF ResizeWalk
<1>2. CASE ResizeLink
  <2>1. p \in Addr
    BY <1>2 DEF ResizeLink
  <2>2. m_next' \in [Addr -> Pointer] /\ m_prev' \in [Addr -> Pointer]
    BY <1>2, <2>1 DEF ResizeLink, Pointer
  <2>3. newBuckets' \in [0 .. newNBuckets - 1 -> Pointer]
    BY <1>2, <2>1 DEF ResizeLink, Pointer
  <2>4. count' \in Nat
    BY <1>2 DEF ResizeLink
  <2> QED
    BY <1>2, <2>1, <2>2, <2>3, <2>4 DEF ResizeLink, Pointer
<1>3. CASE ResizeNextBucket
  BY <1>3 DEF ResizeNextBucket, AtLastBucket
<1>4. CASE ResizeEnd
  <2>1. CASE count = m_nItems
    <3>1. EmptyBuckets(0) \in [0 .. 0 - 1 -> Pointer]
      BY DEF EmptyBuckets, Pointer
    <3> QED
      BY <1>4, <2>1, <3>1 DEF ResizeEnd, Pointer
  <2>2. CASE count # m_nItems
    BY <1>4, <2>2 DEF ResizeEnd, Stop
  <2> QED
    BY <2>1, <2>2
<1>5. CASE ResizeUndefined
  BY <1>5 DEF ResizeUndefined, Stop
<1> QED
  BY <1>1, <1>2, <1>3, <1>4, <1>5

\* Node a is linked behind the last node that the search has passed.
LinkLast(a) ==
  /\ pc = "insert" /\ node = Null
  /\ m_prev' = [m_prev EXCEPT ![a] = nodePrev]
  /\ IF nodePrev = Null
     THEN /\ m_buckets' = [m_buckets EXCEPT ![Location(Prefix, m_nBuckets)] = a]
          /\ m_next' = [m_next EXCEPT ![a] = Null]
     ELSE /\ m_next' = [m_next EXCEPT ![a] = Null, ![nodePrev] = a]
          /\ m_buckets' = m_buckets
  /\ m_nBuckets' = m_nBuckets

LEMMA TypeLinkLast ==
  ASSUME TypeInv, NEW a \in Addr, LinkLast(a)
  PROVE  /\ Prefix \in Name
         /\ m_buckets' \in [0 .. m_nBuckets - 1 -> Pointer]
         /\ m_next' \in [Addr -> Pointer] /\ m_prev' \in [Addr -> Pointer]
<1> USE DEF TypeInv, TypeOK
<1>1. Prefix \in Name
  BY PrefixFacts DEF Prefix
<1>2. Location(Prefix, m_nBuckets) \in 0 .. m_nBuckets - 1
  BY <1>1, LocationInTable
<1>3. /\ m_buckets' \in [0 .. m_nBuckets - 1 -> Pointer]
      /\ m_next' \in [Addr -> Pointer]
  <2>1. CASE nodePrev = Null
    <3>1. m_next' = [m_next EXCEPT ![a] = Null]
      BY <2>1 DEF LinkLast
    <3>2. m_buckets' = [m_buckets EXCEPT ![Location(Prefix, m_nBuckets)] = a]
      BY <2>1 DEF LinkLast
    <3> QED
      BY <1>2, <3>1, <3>2 DEF Pointer
  <2>2. CASE nodePrev # Null
    <3>1. m_next' = [m_next EXCEPT ![a] = Null, ![nodePrev] = a]
      BY <2>2 DEF LinkLast
    <3>2. m_buckets' = m_buckets
      BY <2>2 DEF LinkLast
    <3> QED
      BY <3>1, <3>2 DEF Pointer
  <2> QED
    BY <2>1, <2>2
<1>4. m_prev' \in [Addr -> Pointer]
  BY DEF LinkLast, Pointer
<1> QED
  BY <1>1, <1>3, <1>4

LEMMA TypeLookup ==
  ASSUME TypeInv,
         \/ \E n \in Name : Lookup(n)
         \/ InsertWalk \/ InsertFound \/ InsertUndefined \/ NextPrefix
         \/ \E a \in Addr \ live : InsertNew(a)
  PROVE  TypeInv'
<1> USE DEF TypeInv, TypeOK, table, links, tree, locals, rehash
<1>1. ASSUME NEW n \in Name, Lookup(n) PROVE TypeInv'
  <2>1. 0 \in 0 .. Len(n)
    BY PrefixFacts, NameAssumption, LenProperties
  <2>2. pc' = "insert" /\ i' = 0 /\ node' \in Pointer /\ nodePrev' \in Pointer
    BY <1>1, <2>1, TypeBeginInsert DEF Lookup
  <2> QED
    BY <1>1, <2>1, <2>2 DEF Lookup, Pointer
<1>2. CASE InsertWalk
  BY <1>2 DEF InsertWalk, Pointer
<1>3. CASE InsertFound
  BY <1>3 DEF InsertFound, Pointer
<1>4. CASE InsertUndefined
  BY <1>4 DEF InsertUndefined, Stop
<1>5. CASE NextPrefix
  <2>1. CASE i < Len(name)
    <3>1. i + 1 \in 0 .. Len(name)
      BY <2>1, PrefixFacts
    <3>2. /\ pc' = "insert" /\ i' = i + 1
          /\ node' \in Pointer /\ nodePrev' \in Pointer
      BY <1>5, <2>1, <3>1, TypeBeginInsert DEF NextPrefix
    <3> QED
      BY <1>5, <2>1, <3>1, <3>2 DEF NextPrefix
  <2>2. CASE ~(i < Len(name))
    BY <1>5, <2>2, TypeReturn DEF NextPrefix
  <2> QED
    BY <2>1, <2>2
<1>6. ASSUME NEW a \in Addr \ live, InsertNew(a) PROVE TypeInv'
  <2>1. LinkLast(a)
    BY <1>6 DEF InsertNew, LinkLast
  <2>2. /\ Prefix \in Name
        /\ m_buckets' \in [0 .. m_nBuckets - 1 -> Pointer]
        /\ m_next' \in [Addr -> Pointer] /\ m_prev' \in [Addr -> Pointer]
    BY <2>1, TypeLinkLast
  <2>3. m_parent' \in [Addr -> Pointer]
    BY <1>6 DEF InsertNew
  <2>4. m_children' \in [Addr -> Seq(Addr)]
    <3>1. <<>> \in Seq(Addr)
      BY EmptySeq
    <3>2. CASE entry = Null
      BY <1>6, <3>1, <3>2 DEF InsertNew
    <3>3. CASE entry # Null
      <4>1. entry \in Addr
        BY <3>3 DEF Pointer
      <4>2. \A s \in Seq(Addr) : Append(s, a) \in Seq(Addr)
        OBVIOUS
      <4> QED
        BY <1>6, <3>1, <3>3, <4>1, <4>2 DEF InsertNew
    <3> QED
      BY <3>2, <3>3
  <2>5. content' \in [Addr -> SUBSET Content] /\ m_prefix' \in [Addr -> Name]
    BY <1>6, <2>2 DEF InsertNew
  <2>6. /\ m_nItems' \in Int /\ live' \subseteq Addr /\ pc' = "inserted"
        /\ entry' \in Pointer /\ node' \in Pointer /\ nodePrev' \in Pointer
    BY <1>6 DEF InsertNew, Pointer
  <2> QED
    BY <1>6, <2>2, <2>3, <2>4, <2>5, <2>6 DEF InsertNew
<1> QED
  BY <1>1, <1>2, <1>3, <1>4, <1>5, <1>6

\* Unparent removes entry from the children of its parent, if it has one.
LEMMA UnparentCases ==
  ASSUME TypeInv, pc = "erase", Unparent
  PROVE  \/ m_parent[entry] = Null /\ m_children' = m_children
         \/ /\ m_parent[entry] \in Addr
            /\ \E k \in DOMAIN m_children[m_parent[entry]] :
                 /\ m_children[m_parent[entry]][k] = entry
                 /\ m_children' =
                      [m_children EXCEPT ![m_parent[entry]] = RemoveChild(@, k)]
<1>1. CASE m_parent[entry] = Null
  BY <1>1 DEF Unparent
<1>2. CASE m_parent[entry] # Null
  <2>1. m_parent[entry] \in Addr
    BY <1>2 DEF TypeInv, TypeOK, Pointer
  <2> QED
    BY <1>2, <2>1 DEF Unparent
<1> QED
  BY <1>1, <1>2

\* What eraseEntryIfEmpty() does to erase entry, whatever nodes are next to it.
EraseEntry ==
  /\ pc = "erase" /\ IsEmpty(entry)
  /\ Unparent /\ Unlink /\ Discard /\ EraseParent
  /\ UNCHANGED <<m_nBuckets, m_resizeThreshold, content, rehash>>

LEMMA TypeEraseEntry ==
  ASSUME TypeInv, EraseEntry, damaged' \in BOOLEAN
  PROVE  TypeInv'
<1> USE DEF TypeInv, TypeOK, table, links, tree, locals, rehash
<1>1. entry \in Addr
  BY DEF EraseEntry, Pointer
<1>2. m_children' \in [Addr -> Seq(Addr)]
  <2>1. CASE m_parent[entry] = Null
    BY <2>1 DEF EraseEntry, Unparent
  <2>2. CASE m_parent[entry] # Null
    <3>1. PICK k \in DOMAIN m_children[m_parent[entry]] :
            m_children' =
              [m_children EXCEPT ![m_parent[entry]] = RemoveChild(@, k)]
      BY <2>2, UnparentCases DEF EraseEntry
    <3>2. m_parent[entry] \in Addr
      BY <1>1, <2>2 DEF Pointer
    <3>3. RemoveChild(m_children[m_parent[entry]], k) \in Seq(Addr)
      BY <3>2, RemoveChildFacts
    <3>4. m_children \in [Addr -> Seq(Addr)]
      OBVIOUS
    <3> HIDE DEF TypeInv, TypeOK, table, links, tree, locals, rehash
    <3> QED
      BY <3>1, <3>2, <3>3, <3>4
  <2> QED
    BY <2>1, <2>2
<1>3. /\ m_buckets' \in [0 .. m_nBuckets - 1 -> Pointer]
      /\ m_next' \in [Addr -> Pointer]
  <2>1. m_prev[entry] \in Pointer /\ m_next[entry] \in Pointer
    BY <1>1
  <2>2. CASE m_prev[entry] # Null
    <3>1. /\ m_next' = [m_next EXCEPT ![m_prev[entry]] = m_next[entry],
                                      ![entry] = Null]
          /\ m_buckets' = m_buckets
      BY <2>2 DEF EraseEntry, Unlink
    <3> QED
      BY <2>1, <3>1 DEF Pointer
  <2>3. CASE m_prev[entry] = Null
    <3>1. /\ m_next' = [m_next EXCEPT ![entry] = Null]
          /\ m_buckets' =
               [m_buckets EXCEPT
                  ![Location(m_prefix[entry], m_nBuckets)] = m_next[entry]]
      BY <2>3 DEF EraseEntry, Unlink
    <3> QED
      BY <2>1, <3>1 DEF Pointer
  <2> QED
    BY <2>2, <2>3
<1>4. m_prev' \in [Addr -> Pointer]
  <2>1. m_prev[entry] \in Pointer /\ m_next[entry] \in Pointer
    BY <1>1
  <2>2. CASE m_next[entry] = Null
    <3>1. m_prev' = [m_prev EXCEPT ![entry] = Null]
      BY <2>2 DEF EraseEntry, Unlink
    <3> QED
      BY <3>1 DEF Pointer
  <2>3. CASE m_next[entry] # Null
    <3>1. m_prev' = [m_prev EXCEPT ![entry] = Null,
                                   ![m_next[entry]] = m_prev[entry]]
      BY <2>3 DEF EraseEntry, Unlink
    <3> QED
      BY <2>1, <3>1 DEF Pointer
  <2> QED
    BY <2>2, <2>3
<1>5. /\ m_nItems' \in Int /\ live' \subseteq Addr
      /\ m_prefix' \in [Addr -> Name] /\ m_parent' \in [Addr -> Pointer]
  BY NameAssumption DEF EraseEntry, Discard, Pointer
<1>6. /\ pc' \in {"idle", "erase"} /\ (pc' = "erase" => entry' # Null)
      /\ name' \in Name /\ i' \in 0 .. Len(name')
      /\ entry' \in Pointer /\ node' \in Pointer /\ nodePrev' \in Pointer
  <2>1. CASE m_parent[entry] = Null
    BY <2>1, TypeReturn DEF EraseEntry, EraseParent
  <2>2. CASE m_parent[entry] # Null
    BY <1>1, <2>2 DEF EraseEntry, EraseParent
  <2> QED
    BY <2>1, <2>2
<1>7. /\ UNCHANGED <<m_nBuckets, m_resizeThreshold, content>>
      /\ UNCHANGED <<newNBuckets, newBuckets, bucket, p, pre, last, count, after>>
  BY DEF EraseEntry
<1> QED
  BY <1>2, <1>3, <1>4, <1>5, <1>6, <1>7

LEMMA TypeErase ==
  ASSUME TypeInv,
         \/ \E a \in live : Erase(a)
         \/ EraseNotEmpty \/ EraseUndefined \/ EraseEmpty
  PROVE  TypeInv'
<1> USE DEF TypeInv, TypeOK, table, links, tree, locals, rehash
<1>1. ASSUME NEW a \in live, Erase(a) PROVE TypeInv'
  BY <1>1, HeapAssumption DEF Erase, Pointer
<1>2. CASE EraseNotEmpty
  <2>1. Return
    BY <1>2 DEF EraseNotEmpty
  <2>2. UNCHANGED <<table, links, tree, rehash, damaged>>
    BY <1>2 DEF EraseNotEmpty
  <2> QED
    BY <2>1, <2>2, TypeReturn
<1>3. CASE EraseUndefined
  <2>1. damaged' \in BOOLEAN
    BY <1>3, Zenon DEF EraseUndefined
  <2>2. pc' = "undefined" /\ UNCHANGED <<table, links, tree, locals, rehash>>
    BY <1>3 DEF EraseUndefined
  <2> QED
    BY <2>1, <2>2
<1>4. CASE EraseEmpty
  <2>1. damaged' \in BOOLEAN
    BY <1>4, Zenon DEF EraseEmpty
  <2>2. EraseEntry
    BY <1>4 DEF EraseEmpty, EraseEntry
  <2> QED
    BY <2>1, <2>2, TypeEraseEntry
<1> QED
  BY <1>1, <1>2, <1>3, <1>4

LEMMA TypeContent ==
  ASSUME TypeInv, NEW a \in Addr, NEW c \in Content,
         AddContent(a, c) \/ RemoveContent(a, c)
  PROVE  TypeInv'
<1>1. content[a] \cup {c} \in SUBSET Content /\ content[a] \ {c} \in SUBSET Content
  BY DEF TypeInv, TypeOK
<1>2. \E S \in SUBSET Content : content' = [content EXCEPT ![a] = S]
  BY <1>1 DEF AddContent, RemoveContent
<1>3. content' \in [Addr -> SUBSET Content]
  BY <1>2 DEF TypeInv, TypeOK
<1> QED
  BY <1>3 DEF AddContent, RemoveContent, TypeInv, TypeOK, table, links, locals,
              rehash

LEMMA TypeNext == TypeInv /\ [Next]_vars => TypeInv'
<1> SUFFICES ASSUME TypeInv, [Next]_vars PROVE TypeInv'
  OBVIOUS
<1>1. ASSUME NEW n \in ResizeTo, Resize(n) PROVE TypeInv'
  BY <1>1, SizeAssumption, TypeBeginResize DEF Resize
<1>2. CASE Grow
  <2>1. 2 * m_nBuckets \in Nat \ {0}
    BY DEF TypeInv, TypeOK
  <2> QED
    BY <1>2, <2>1, TypeBeginResize DEF Grow
<1>3. CASE UNCHANGED vars
  BY <1>3 DEF vars, TypeInv, TypeOK, table, links, tree, locals, rehash
<1>4. CASE Call
  <2>1. CASE \E n \in Name : Lookup(n)
    BY <2>1, TypeLookup
  <2>2. CASE \E a \in live : Erase(a)
    BY <2>2, TypeErase
  <2>3. CASE \E n \in ResizeTo : Resize(n)
    BY <1>1, <2>3
  <2>4. CASE \E a \in live, c \in Content : AddContent(a, c) \/ RemoveContent(a, c)
    BY <2>4, TypeContent DEF TypeInv, TypeOK
  <2> QED
    BY <1>4, <2>1, <2>2, <2>3, <2>4 DEF Call
<1>5. CASE Step
  <2>1. CASE \/ InsertWalk \/ InsertFound \/ InsertUndefined \/ NextPrefix
             \/ \E a \in Addr \ live : InsertNew(a)
    BY <2>1, TypeLookup
  <2>2. CASE \/ ResizeWalk \/ ResizeLink \/ ResizeNextBucket \/ ResizeEnd
             \/ ResizeUndefined
    BY <2>2, TypeResize
  <2>3. CASE EraseNotEmpty \/ EraseUndefined \/ EraseEmpty
    BY <2>3, TypeErase
  <2> QED
    BY <1>2, <1>5, <2>1, <2>2, <2>3 DEF Step
<1> QED
  BY <1>3, <1>4, <1>5 DEF Next

\* Every variable keeps its type in every behaviour, and the threshold of the
\* table is always the one of its present size, however the table is resized
\* and whatever resize() did to the chains.
THEOREM TypeCorrect == Spec => []TypeOK
<1>1. Init => TypeInv
  BY TypeInit
<1>2. TypeInv /\ [Next]_vars => TypeInv'
  BY TypeNext
<1>3. TypeInv => TypeOK
  BY DEF TypeInv
<1> QED
  BY <1>1, <1>2, <1>3, PTL DEF Spec

-----------------------------------------------------------------------------
(* The tree of the entries and the number of items.                        *)

\* Where the running call is in the tree: insert() searches below the entry of
\* the previous prefix, and eraseEntryIfEmpty() only gets at existing entries.
CallPosition ==
  /\ pc = "insert" =>
       IF i = 0
       THEN entry = Null
       ELSE entry \in live /\ m_prefix[entry] = GetPrefix(name, i - 1)
  /\ (pc \in {"inserted", "grown"} \/ (pc = "resize" /\ after = "grown")) =>
       entry \in live /\ m_prefix[entry] = Prefix
  /\ pc = "erase" => entry \in live

\* The inductive invariant.  The hash chains are not in it: what eraseEntryIfEmpty()
\* does to them through a stale m_prev never reaches the tree.
TreeInv == TypeInv /\ TreeConsistent /\ SizeCountsEntries /\ CallPosition

\* What the tree depends on.
treeVars == <<live, m_prefix, m_parent, m_children, m_nItems>>

LEMMA TreeStutter ==
  ASSUME TreeInv, UNCHANGED treeVars
  PROVE  TreeConsistent' /\ SizeCountsEntries'
BY DEF TreeInv, treeVars, TreeConsistent, HasParent, HasChildren,
       SizeCountsEntries

LEMMA TreeInit == Init => TreeInv
<1> SUFFICES ASSUME Init PROVE TreeInv
  OBVIOUS
<1>1. TypeInv
  BY TypeInit
<1>2. TreeConsistent
  BY DEF Init, TreeConsistent
<1>3. SizeCountsEntries
  BY FS_EmptySet DEF Init, SizeCountsEntries
<1>4. CallPosition
  BY DEF Init, CallPosition
<1> QED
  BY <1>1, <1>2, <1>3, <1>4 DEF TreeInv

\* The steps that leave the tree alone also leave the call where it is, or move
\* it to the next prefix.
LEMMA TreeOtherSteps ==
  ASSUME TreeInv, TypeInv',
         \/ \E n \in Name : Lookup(n)
         \/ \E n \in ResizeTo : Resize(n)
         \/ \E a \in live : Erase(a)
         \/ \E a \in live, c \in Content : AddContent(a, c) \/ RemoveContent(a, c)
         \/ InsertWalk \/ InsertFound \/ InsertUndefined \/ Grow \/ NextPrefix
         \/ ResizeWalk \/ ResizeLink \/ ResizeNextBucket \/ ResizeEnd
         \/ ResizeUndefined \/ EraseNotEmpty \/ EraseUndefined
         \/ UNCHANGED vars
  PROVE  TreeInv'
<1> USE DEF TreeInv, table, links, tree, locals, rehash
<1>1. ASSUME UNCHANGED treeVars, CallPosition' PROVE TreeInv'
  BY <1>1, TreeStutter
<1>2. ASSUME NEW n \in Name, Lookup(n) PROVE TreeInv'
  BY <1>1, <1>2 DEF Lookup, BeginInsert, CallPosition, treeVars
<1>3. ASSUME NEW n \in ResizeTo, Resize(n) PROVE TreeInv'
  BY <1>1, <1>3 DEF Resize, BeginResize, CallPosition, treeVars
<1>4. ASSUME NEW a \in live, Erase(a) PROVE TreeInv'
  BY <1>1, <1>4 DEF Erase, CallPosition, treeVars
<1>5. ASSUME NEW a \in live, NEW c \in Content,
             AddContent(a, c) \/ RemoveContent(a, c)
      PROVE  TreeInv'
  BY <1>1, <1>5 DEF AddContent, RemoveContent, CallPosition, treeVars
<1>6. CASE InsertWalk
  BY <1>1, <1>6 DEF InsertWalk, CallPosition, treeVars
<1>7. CASE InsertFound
  BY <1>1, <1>7 DEF InsertFound, CallPosition, Prefix, treeVars
<1>8. CASE InsertUndefined \/ ResizeUndefined
  BY <1>1, <1>8 DEF InsertUndefined, ResizeUndefined, Stop, CallPosition, treeVars
<1>9. CASE Grow
  BY <1>1, <1>9 DEF Grow, BeginResize, CallPosition, Prefix, treeVars
<1>10. CASE NextPrefix
  <2>1. CASE i < Len(name)
    <3>1. entry \in live /\ m_prefix[entry] = GetPrefix(name, i)
      BY <1>10 DEF NextPrefix, CallPosition, Prefix
    <3>2. /\ i' = i + 1 /\ pc' = "insert"
          /\ UNCHANGED <<name, entry>> /\ UNCHANGED treeVars
      BY <1>10, <2>1 DEF NextPrefix, BeginInsert, treeVars
    <3>3. i \in Nat
      BY PrefixFacts DEF TypeInv, TypeOK
    <3> QED
      BY <1>1, <3>1, <3>2, <3>3 DEF treeVars, CallPosition
  <2>2. CASE ~(i < Len(name))
    BY <1>1, <1>10, <2>2 DEF NextPrefix, Return, CallPosition, treeVars
  <2> QED
    BY <2>1, <2>2
<1>11. CASE ResizeWalk \/ ResizeLink \/ ResizeNextBucket
  BY <1>1, <1>11 DEF ResizeWalk, ResizeLink, ResizeNextBucket, CallPosition,
                     Prefix, treeVars
<1>12. CASE ResizeEnd
  <2>1. CASE count = m_nItems
    BY <1>1, <1>12, <2>1 DEF ResizeEnd, CallPosition, Prefix, treeVars,
                             TypeInv, TypeOK
  <2>2. CASE count # m_nItems
    BY <1>1, <1>12, <2>2 DEF ResizeEnd, Stop, CallPosition, treeVars
  <2> QED
    BY <2>1, <2>2
<1>13. CASE EraseNotEmpty
  BY <1>1, <1>13 DEF EraseNotEmpty, Return, CallPosition, treeVars
<1>14. CASE EraseUndefined
  BY <1>1, <1>14 DEF EraseUndefined, CallPosition, treeVars
<1>15. CASE UNCHANGED vars
  BY <1>1, <1>15 DEF vars, CallPosition, Prefix, treeVars
<1> QED
  BY <1>2, <1>3, <1>4, <1>5, <1>6, <1>7, <1>8, <1>9, <1>10, <1>11, <1>12,
     <1>13, <1>14, <1>15

\* A new entry is hooked below the entry of the previous prefix, last in its
\* list of children, and nothing else in the tree changes.
LEMMA TreeInsertNew ==
  ASSUME TreeInv, TypeInv', NEW a \in Addr \ live, InsertNew(a)
  PROVE  TreeInv'
<1> USE DEF TreeInv
<1>1. /\ m_prefix \in [Addr -> Name] /\ m_parent \in [Addr -> Pointer]
      /\ m_children \in [Addr -> Seq(Addr)]
      /\ name \in Name /\ i \in 0 .. Len(name) /\ i \in Nat
      /\ live \subseteq Addr /\ pc = "insert"
  BY PrefixFacts DEF TypeInv, TypeOK, InsertNew
<1>2. /\ live' = live \cup {a}
      /\ m_prefix' = [m_prefix EXCEPT ![a] = Prefix]
      /\ m_parent' = [m_parent EXCEPT ![a] = entry]
      /\ m_nItems' = m_nItems + 1
      /\ pc' = "inserted" /\ entry' = a /\ name' = name /\ i' = i
  BY DEF InsertNew
<1>3. /\ m_children'[a] = <<>>
      /\ \A x \in Addr \ {a, entry} : m_children'[x] = m_children[x]
      /\ entry # Null =>
           /\ entry \in live
           /\ m_children'[entry] = Append(m_children[entry], a)
  <2>1. CASE entry = Null
    BY <1>1, <2>1 DEF InsertNew
  <2>2. CASE entry # Null
    <3>1. entry \in live
      BY <1>1, <2>2 DEF CallPosition
    <3>2. m_children' = [m_children EXCEPT ![a] = <<>>,
                           ![entry] = Append(m_children[entry], a)]
      BY <2>2, <3>1 DEF InsertNew
    <3> QED
      BY <1>1, <3>1, <3>2
  <2> QED
    BY <2>1, <2>2
<1>4. \A x \in live : x # a /\ x # Null
  BY <1>1, HeapAssumption
<1>5. \A x \in live : \A k \in DOMAIN m_children[x] :
        /\ m_children'[x][k] = m_children[x][k]
        /\ k \in DOMAIN m_children'[x]
  <2> SUFFICES ASSUME NEW x \in live, NEW k \in DOMAIN m_children[x]
               PROVE  /\ m_children'[x][k] = m_children[x][k]
                      /\ k \in DOMAIN m_children'[x]
    OBVIOUS
  <2>1. CASE x = entry
    <3>1. m_children'[x] = Append(m_children[x], a)
      BY <1>3, <1>4, <2>1
    <3> QED
      BY <1>1, <3>1, LenProperties
  <2>2. CASE x # entry
    BY <1>1, <1>3, <1>4, <2>2
  <2> QED
    BY <2>1, <2>2
<1>6. ASSUME NEW x \in live PROVE HasParent(x)'
  <2>1. HasParent(x)
    BY DEF TreeConsistent
  <2>2. m_parent'[x] = m_parent[x] /\ m_prefix'[x] = m_prefix[x]
    BY <1>1, <1>2, <1>4
  <2>3. CASE m_parent[x] = Null
    BY <2>1, <2>2, <2>3 DEF HasParent
  <2>4. CASE m_parent[x] # Null
    <3>1. m_parent[x] \in live
      BY <2>1, <2>4 DEF HasParent
    <3>2. m_prefix'[m_parent[x]] = m_prefix[m_parent[x]]
      BY <1>1, <1>2, <1>4, <3>1
    <3> QED
      BY <1>2, <1>5, <2>1, <2>2, <2>4, <3>1, <3>2 DEF HasParent
  <2> QED
    BY <2>3, <2>4
<1>7. HasParent(a)'
  <2>1. m_parent'[a] = entry /\ m_prefix'[a] = GetPrefix(name, i)
    BY <1>1, <1>2 DEF Prefix
  <2>2. CASE i = 0
    <3>1. entry = Null /\ GetPrefix(name, i) = <<>>
      BY <1>1, <2>2, PrefixFacts DEF CallPosition
    <3> QED
      BY <2>1, <3>1 DEF HasParent
  <2>3. CASE i # 0
    <3>1. entry \in live /\ m_prefix[entry] = GetPrefix(name, i - 1)
      BY <1>1, <2>3 DEF CallPosition
    <3>2. m_prefix'[entry] = m_prefix[entry]
      BY <1>1, <1>2, <1>4, <3>1
    <3>3. /\ m_prefix'[a] # <<>>
          /\ Len(m_prefix'[a]) = i
          /\ GetPrefix(m_prefix'[a], i - 1) = GetPrefix(name, i - 1)
      BY <1>1, <2>1, <2>3, PrefixFacts
    <3>4. \E k \in DOMAIN m_children'[entry] : m_children'[entry][k] = a
      <4>1. /\ m_children[entry] \in Seq(Addr)
            /\ m_children'[entry] = Append(m_children[entry], a)
        BY <1>1, <1>3, <1>4, <3>1
      <4>2. /\ Len(m_children[entry]) + 1 \in DOMAIN m_children'[entry]
            /\ m_children'[entry][Len(m_children[entry]) + 1] = a
        BY <1>1, <4>1, LenProperties
      <4> QED
        BY <4>2
    <3> QED
      BY <1>2, <1>4, <2>1, <3>1, <3>2, <3>3, <3>4 DEF HasParent
  <2> QED
    BY <2>2, <2>3
<1>8. ASSUME NEW x \in live PROVE HasChildren(x)'
  <2>1. HasChildren(x)
    BY DEF TreeConsistent
  <2>2. \A y \in live : y \in live' /\ m_parent'[y] = m_parent[y]
    BY <1>1, <1>2, <1>4
  <2>3. CASE x # entry
    <3>1. m_children'[x] = m_children[x]
      BY <1>1, <1>3, <1>4, <2>3
    <3> QED
      BY <2>1, <2>2, <3>1 DEF HasChildren
  <2>4. CASE x = entry
    <3>1. /\ m_children[x] \in Seq(Addr)
          /\ m_children'[x] = Append(m_children[x], a)
      BY <1>1, <1>3, <1>4, <2>4
    <3>2. /\ DOMAIN m_children'[x] = 1 .. Len(m_children[x]) + 1
          /\ DOMAIN m_children[x] = 1 .. Len(m_children[x])
          /\ Len(m_children[x]) \in Nat
          /\ m_children'[x][Len(m_children[x]) + 1] = a
          /\ \A k \in 1 .. Len(m_children[x]) :
               m_children'[x][k] = m_children[x][k]
      BY <1>1, <3>1, LenProperties
    <3>3. a \in live' /\ m_parent'[a] = x
      BY <1>1, <1>2, <2>4
    <3>4. \A k \in 1 .. Len(m_children[x]) :
            /\ m_children[x][k] \in live /\ m_children[x][k] # a
            /\ m_parent[m_children[x][k]] = x
            /\ \A j \in 1 .. Len(m_children[x]) :
                 m_children[x][j] = m_children[x][k] => j = k
      BY <1>4, <2>1, <3>2 DEF HasChildren
    <3>5. ASSUME NEW k \in 1 .. Len(m_children[x]) + 1
          PROVE  /\ m_children'[x][k] \in live'
                 /\ m_parent'[m_children'[x][k]] = x
                 /\ \A j \in 1 .. Len(m_children[x]) + 1 :
                      m_children'[x][j] = m_children'[x][k] => j = k
      <4>1. CASE k = Len(m_children[x]) + 1
        <5>1. m_children'[x][k] = a
          BY <3>2, <4>1
        <5>2. \A j \in 1 .. Len(m_children[x]) : m_children'[x][j] # a
          BY <3>2, <3>4
        <5> QED
          BY <3>2, <3>3, <4>1, <5>1, <5>2
      <4>2. CASE k \in 1 .. Len(m_children[x])
        <5>1. m_children'[x][k] = m_children[x][k] /\ m_children[x][k] # a
          BY <3>2, <3>4, <4>2
        <5>2. /\ m_children'[x][k] \in live'
              /\ m_parent'[m_children'[x][k]] = x
          BY <2>2, <3>4, <4>2, <5>1
        <5>3. ASSUME NEW j \in 1 .. Len(m_children[x]) + 1,
                     m_children'[x][j] = m_children'[x][k]
              PROVE  j = k
          <6>1. j \in 1 .. Len(m_children[x])
            BY <3>2, <5>1, <5>3
          <6> QED
            BY <3>2, <3>4, <4>2, <5>3, <6>1
        <5> QED
          BY <5>2, <5>3
      <4> QED
        BY <3>2, <4>1, <4>2
    <3> QED
      BY <3>2, <3>5 DEF HasChildren
  <2> QED
    BY <2>3, <2>4
<1>9. HasChildren(a)'
  BY <1>3, EmptySeq DEF HasChildren
<1>10. SizeCountsEntries'
  <2>1. IsFiniteSet(live)
    BY <1>1, HeapAssumption, FS_Subset
  <2> QED
    BY <1>2, <2>1, FS_AddElement DEF SizeCountsEntries
<1>11. CallPosition'
  BY <1>1, <1>2 DEF CallPosition, Prefix
<1> QED
  BY <1>2, <1>6, <1>7, <1>8, <1>9, <1>10, <1>11 DEF TreeConsistent

\* An entry without children is nobody's parent, so that the tree stays closed
\* when it goes; its parent, where the recursion continues, is still stored.
LEMMA TreeErase ==
  ASSUME TreeInv, TypeInv', EraseEmpty
  PROVE  TreeInv'
<1> USE DEF TreeInv
<1> DEFINE up == m_parent[entry]
           kids == m_children[up]
<1>1. /\ m_prefix \in [Addr -> Name] /\ m_parent \in [Addr -> Pointer]
      /\ m_children \in [Addr -> Seq(Addr)]
      /\ live \subseteq Addr /\ pc = "erase" /\ entry \in live
      /\ m_children[entry] = <<>>
  BY DEF TypeInv, TypeOK, EraseEmpty, IsEmpty, CallPosition
<1>2. /\ live' = live \ {entry}
      /\ m_prefix' = [m_prefix EXCEPT ![entry] = <<>>]
      /\ m_parent' = [m_parent EXCEPT ![entry] = Null]
      /\ m_nItems' = m_nItems - 1
  BY DEF EraseEmpty, Discard
<1>3. HasParent(entry)
  BY <1>1 DEF TreeConsistent
<1>4. \A x \in live : m_parent[x] # entry
  <2> SUFFICES ASSUME NEW x \in live, m_parent[x] = entry PROVE FALSE
    OBVIOUS
  <2>1. HasParent(x) /\ entry # Null
    BY <1>1, HeapAssumption DEF TreeConsistent
  <2>2. DOMAIN m_children[entry] = {}
    BY <1>1, EmptySeq
  <2> QED
    BY <2>1, <2>2 DEF HasParent
<1>5. up # Null => up \in live /\ up # entry
  BY <1>1, <1>3, <1>4 DEF HasParent
<1>6. \A x \in live \ {entry} :
        /\ m_prefix'[x] = m_prefix[x] /\ m_parent'[x] = m_parent[x]
        /\ x # up => m_children'[x] = m_children[x]
  <2>1. \A x \in Addr \ {up} : m_children'[x] = m_children[x]
    <3>1. CASE up = Null
      BY <3>1 DEF EraseEmpty, Unparent
    <3>2. CASE up # Null
      BY <1>1, <3>2, UnparentCases DEF EraseEmpty
    <3> QED
      BY <3>1, <3>2
  <2> QED
    BY <1>1, <1>2, <2>1
<1>7. ASSUME up # Null
      PROVE  /\ \A k \in DOMAIN kids :
                  kids[k] # entry =>
                    \E j \in DOMAIN m_children'[up] : m_children'[up][j] = kids[k]
             /\ \A j \in DOMAIN m_children'[up] :
                  /\ \E k \in DOMAIN kids : m_children'[up][j] = kids[k]
                  /\ m_children'[up][j] # entry
                  /\ \A l \in DOMAIN m_children'[up] :
                       m_children'[up][l] = m_children'[up][j] => l = j
  <2>1. up \in Addr
    BY <1>1, <1>5, <1>7
  <2>2. PICK pos \in DOMAIN kids :
          /\ kids[pos] = entry
          /\ m_children' = [m_children EXCEPT ![up] = RemoveChild(kids, pos)]
    BY <1>1, <1>7, UnparentCases DEF EraseEmpty
  <2>3. m_children'[up] = RemoveChild(kids, pos)
    BY <1>1, <2>1, <2>2
  <2>4. kids \in Seq(Addr) /\ DOMAIN kids = 1 .. Len(kids) /\ Len(kids) \in Nat
    BY <1>1, <2>1, LenProperties
  <2>5. /\ DOMAIN m_children'[up] = 1 .. Len(kids) - 1
        /\ \A j \in 1 .. Len(kids) - 1 :
             m_children'[up][j] = kids[IF j = pos THEN Len(kids) ELSE j]
    BY <2>2, <2>3, <2>4, RemoveChildFacts
  <2>6. \A k, l \in 1 .. Len(kids) : kids[k] = kids[l] => k = l
    BY <1>1, <1>5, <1>7, <2>4 DEF TreeConsistent, HasChildren
  <2> HIDE DEF kids, up
  <2>7. ASSUME NEW k \in DOMAIN kids, kids[k] # entry
        PROVE  \E j \in DOMAIN m_children'[up] : m_children'[up][j] = kids[k]
    <3>1. k # pos
      BY <2>2, <2>7
    <3>2. CASE k = Len(kids)
      <4>1. pos \in 1 .. Len(kids) - 1
        BY <2>2, <2>4, <3>1, <3>2
      <4> QED
        BY <2>5, <3>2, <4>1
    <3>3. CASE k # Len(kids)
      BY <2>4, <2>5, <3>1, <3>3
    <3> QED
      BY <3>2, <3>3
  <2>8. ASSUME NEW j \in DOMAIN m_children'[up]
        PROVE  /\ \E k \in DOMAIN kids : m_children'[up][j] = kids[k]
               /\ m_children'[up][j] # entry
               /\ \A l \in DOMAIN m_children'[up] :
                    m_children'[up][l] = m_children'[up][j] => l = j
    <3> DEFINE from(n) == IF n = pos THEN Len(kids) ELSE n
    <3>1. \A n \in 1 .. Len(kids) - 1 :
            /\ from(n) \in 1 .. Len(kids) /\ from(n) # pos
            /\ m_children'[up][n] = kids[from(n)]
      BY <2>2, <2>4, <2>5
    <3>2. \A n, l \in 1 .. Len(kids) - 1 : from(n) = from(l) => n = l
      BY <2>4
    <3> HIDE DEF from
    <3> QED
      BY <2>2, <2>4, <2>5, <2>6, <3>1, <3>2
  <2> QED
    BY <2>7, <2>8
<1> HIDE DEF up, kids
<1>8. ASSUME NEW x \in live' PROVE HasParent(x)'
  <2>1. x \in live /\ x # entry /\ HasParent(x)
    BY <1>2 DEF TreeConsistent
  <2>2. m_prefix'[x] = m_prefix[x] /\ m_parent'[x] = m_parent[x]
    BY <1>6, <2>1
  <2>3. CASE m_parent[x] = Null
    BY <2>1, <2>2, <2>3 DEF HasParent
  <2>4. CASE m_parent[x] # Null
    <3>1. PICK k \in DOMAIN m_children[m_parent[x]] :
            m_children[m_parent[x]][k] = x
      BY <2>1, <2>4 DEF HasParent
    <3>2. m_parent[x] \in live \ {entry}
      BY <1>4, <2>1, <2>4 DEF HasParent
    <3>3. \E j \in DOMAIN m_children'[m_parent[x]] :
            m_children'[m_parent[x]][j] = x
      BY <1>6, <1>7, <2>1, <2>4, <3>1, <3>2 DEF kids
    <3>4. m_prefix'[m_parent[x]] = m_prefix[m_parent[x]]
      BY <1>6, <3>2
    <3> QED
      BY <1>2, <2>1, <2>2, <2>4, <3>2, <3>3, <3>4 DEF HasParent
  <2> QED
    BY <2>3, <2>4
<1>9. ASSUME NEW x \in live' PROVE HasChildren(x)'
  <2>1. x \in live /\ x # entry /\ HasChildren(x)
    BY <1>2 DEF TreeConsistent
  <2>2. \A y \in live : y # entry => y \in live' /\ m_parent'[y] = m_parent[y]
    BY <1>2, <1>6
  <2>3. CASE x = up
    <3>1. up # Null
      BY <1>1, <2>1, <2>3, HeapAssumption
    <3>2. ASSUME NEW j \in DOMAIN m_children'[x]
          PROVE  /\ m_children'[x][j] \in live'
                 /\ m_parent'[m_children'[x][j]] = x
                 /\ \A l \in DOMAIN m_children'[x] :
                      m_children'[x][l] = m_children'[x][j] => l = j
      <4>1. PICK k \in DOMAIN m_children[x] : m_children'[x][j] = m_children[x][k]
        BY <1>7, <2>3, <3>1, <3>2 DEF kids
      <4>2. /\ m_children'[x][j] # entry
            /\ \A l \in DOMAIN m_children'[x] :
                 m_children'[x][l] = m_children'[x][j] => l = j
        BY <1>7, <2>3, <3>1, <3>2
      <4>3. m_children[x][k] \in live /\ m_parent[m_children[x][k]] = x
        BY <2>1 DEF HasChildren
      <4> QED
        BY <2>2, <4>1, <4>2, <4>3
    <3> QED
      BY <3>2 DEF HasChildren
  <2>4. CASE x # up
    <3>1. m_children'[x] = m_children[x]
      BY <1>6, <2>1, <2>4
    <3>2. \A k \in DOMAIN m_children[x] : m_children[x][k] # entry
      BY <2>1, <2>4 DEF HasChildren, up
    <3> QED
      BY <2>1, <2>2, <3>1, <3>2 DEF HasChildren
  <2> QED
    BY <2>3, <2>4
<1>10. SizeCountsEntries'
  <2>1. IsFiniteSet(live)
    BY <1>1, HeapAssumption, FS_Subset
  <2>2. Cardinality(live) \in Nat
    BY <2>1, FS_CardinalityType
  <2> QED
    BY <1>1, <1>2, <2>1, <2>2, FS_RemoveElement DEF SizeCountsEntries
<1>11. CallPosition'
  <2>1. CASE up = Null
    BY <2>1 DEF EraseEmpty, EraseParent, Return, CallPosition, up
  <2>2. CASE up # Null
    <3>1. entry' = up /\ pc' = "erase"
      BY <1>1, <2>2 DEF EraseEmpty, EraseParent, up
    <3> QED
      BY <1>2, <1>5, <2>2, <3>1 DEF CallPosition
  <2> QED
    BY <2>1, <2>2
<1> QED
  BY <1>8, <1>9, <1>10, <1>11 DEF TreeConsistent

LEMMA TreeNext == TreeInv /\ [Next]_vars => TreeInv'
<1> SUFFICES ASSUME TreeInv, [Next]_vars PROVE TreeInv'
  OBVIOUS
<1>1. TypeInv'
  BY TypeNext DEF TreeInv
<1>2. ASSUME NEW a \in Addr \ live, InsertNew(a) PROVE TreeInv'
  BY <1>1, <1>2, TreeInsertNew
<1>3. CASE EraseEmpty
  BY <1>1, <1>3, TreeErase
<1> QED
  BY <1>1, <1>2, <1>3, TreeOtherSteps DEF Next, Call, Step

\* TreeInv, of which the theorems below state the parts that matter.
LEMMA TreeCorrect == Spec => []TreeInv
<1>1. Init => TreeInv
  BY TreeInit
<1>2. TreeInv /\ [Next]_vars => TreeInv'
  BY TreeNext
<1> QED
  BY <1>1, <1>2, PTL DEF Spec

\* Parents and children agree in every state of every behaviour, those in which
\* the hash chains are corrupted included: the BOOST_ASSERT(isFound == true)
\* of eraseEntryIfEmpty() never fails and no erased entry is ever a parent.
THEOREM TreeIsConsistent == Spec => []TreeConsistent
<1>1. TreeInv => TreeConsistent
  BY DEF TreeInv
<1> QED
  BY <1>1, TreeCorrect, PTL

\* size() is the number of entries that exist, in every state.
THEOREM SizeIsCorrect == Spec => []SizeCountsEntries
<1>1. TreeInv => SizeCountsEntries
  BY DEF TreeInv
<1> QED
  BY <1>1, TreeCorrect, PTL

-----------------------------------------------------------------------------
(* What the clients of the table need to know of its steps.                 *)

\* How a step of the table changes the tree.
LEMMA TreeSteps ==
  ASSUME TreeInv, [Next]_vars
  PROVE  \/ UNCHANGED <<live, m_prefix, m_parent, m_children>>
         \/ \E a \in Addr \ live : InsertNew(a)
         \/ EraseEmpty
BY DEF Next, Call, Step, vars, tree, Lookup, Erase, Resize, AddContent,
       RemoveContent, InsertWalk, InsertFound, InsertUndefined, Grow, NextPrefix,
       ResizeWalk, ResizeLink, ResizeNextBucket, ResizeEnd, ResizeUndefined,
       EraseNotEmpty, EraseUndefined, BeginResize, Stop

\* An entry is erased before its parent, and when it has no children.
LEMMA EraseFacts ==
  ASSUME TreeInv, EraseEmpty
  PROVE  /\ entry \in live /\ live' = live \ {entry}
         /\ m_parent[entry] \in (live \ {entry}) \cup {Null}
         /\ m_children'[entry] = <<>>
         /\ \A x \in Addr \ live : m_children'[x] = m_children[x]
<1>1. /\ pc = "erase" /\ live' = live \ {entry} /\ Unparent
      /\ m_children[entry] = <<>>
  BY DEF EraseEmpty, Discard, IsEmpty
<1>2. entry \in live /\ live \subseteq Addr /\ m_children \in [Addr -> Seq(Addr)]
  BY <1>1 DEF TreeInv, CallPosition, TypeInv, TypeOK
<1>3. m_parent[entry] \in (live \ {entry}) \cup {Null}
  <2> SUFFICES ASSUME m_parent[entry] # Null
               PROVE  m_parent[entry] \in live /\ m_parent[entry] # entry
    OBVIOUS
  <2>1. m_parent[entry] \in live
    BY <1>2 DEF TreeInv, TreeConsistent, HasParent
  <2>2. ASSUME m_parent[entry] = entry PROVE FALSE
    <3>1. PICK k \in DOMAIN m_children[entry] : m_children[entry][k] = entry
      BY <1>2, <2>2 DEF TreeInv, TreeConsistent, HasParent
    <3> QED
      BY <1>1, <3>1, EmptySeq
  <2> QED
    BY <2>1, <2>2
<1>4. /\ m_children'[entry] = <<>>
      /\ \A x \in Addr \ live : m_children'[x] = m_children[x]
  <2>1. CASE m_parent[entry] = Null
    BY <1>1, <1>2, <2>1 DEF Unparent
  <2>2. CASE m_parent[entry] # Null
    <3>1. PICK v : m_children' = [m_children EXCEPT ![m_parent[entry]] = v]
      BY <1>1, <2>2 DEF Unparent
    <3> QED
      BY <1>1, <1>2, <1>3, <2>2, <3>1
  <2> QED
    BY <2>1, <2>2
<1> QED
  BY <1>1, <1>2, <1>3, <1>4

-----------------------------------------------------------------------------
(* NameTree implements the dictionary of NameTreeSpec.  The proof rests on   *)
(* the tree of entries alone, so that it also covers the tables whose chains *)
(* are corrupted.                                                            *)

\* The type facts the proof uses, in this state.
LEMMA AbstractTypes ==
  ASSUME TypeInv
  PROVE  /\ live \subseteq Addr
         /\ m_prefix \in [Addr -> Name]
         /\ content \in [Addr -> SUBSET Content]
         /\ ContentsOf \in [Name -> SUBSET Content]
         /\ \A n \in Name : \A c : c \in ContentsOf[n] <=>
              \E a \in live : m_prefix[a] = n /\ c \in content[a]
<1>1. /\ live \subseteq Addr
      /\ m_prefix \in [Addr -> Name]
      /\ content \in [Addr -> SUBSET Content]
  BY DEF TypeInv, TypeOK
<1> QED
  BY <1>1 DEF ContentsOf

LEMMA AbstractInit == Init => Abstract!SpecInit
<1> SUFFICES ASSUME Init PROVE Abstract!SpecInit
  OBVIOUS
<1>1. live = {}
  BY DEF Init
<1>2. StoredNames = {}
  BY <1>1 DEF StoredNames
<1>3. ContentsOf = [n \in Name |-> {}]
  BY <1>1 DEF ContentsOf
<1> QED
  BY <1>2, <1>3 DEF Abstract!SpecInit

\* A new entry stores its name, below the entry of the previous prefix.  In a
\* corrupted table the name can have been stored before.
LEMMA AbstractInsertNew ==
  ASSUME TreeInv, TypeInv', NEW a \in Addr \ live, InsertNew(a)
  PROVE  \/ Abstract!Store(Prefix)
         \/ UNCHANGED <<StoredNames, ContentsOf>>
<1>1. /\ live \subseteq Addr
      /\ m_prefix \in [Addr -> Name]
      /\ content \in [Addr -> SUBSET Content]
  BY AbstractTypes DEF TreeInv
<1>2. /\ live' = live \cup {a}
      /\ m_prefix' = [m_prefix EXCEPT ![a] = Prefix]
      /\ content' = [content EXCEPT ![a] = {}]
      /\ pc = "insert"
  BY DEF InsertNew
<1>3. name \in Name /\ i \in 0 .. Len(name)
  BY DEF TreeInv, TypeInv, TypeOK
<1>4. Prefix \in Name
  BY <1>3, PrefixFacts DEF Prefix
<1>5. /\ m_prefix'[a] = Prefix /\ content'[a] = {}
      /\ \A x \in live : m_prefix'[x] = m_prefix[x] /\ content'[x] = content[x]
  BY <1>1, <1>2
<1>6. StoredNames' = StoredNames \cup {Prefix}
  BY <1>2, <1>5 DEF StoredNames
<1>7. ContentsOf' = ContentsOf
  BY <1>2, <1>5 DEF ContentsOf
<1>8. CASE Prefix \in StoredNames
  BY <1>6, <1>7, <1>8
<1>9. CASE Prefix \notin StoredNames
  <2>1. ASSUME Prefix # <<>>
        PROVE  Abstract!Parent(Prefix) \in StoredNames
    <3>1. i # 0
      BY <1>3, <2>1, PrefixFacts DEF Prefix
    <3>2. entry \in live /\ m_prefix[entry] = GetPrefix(name, i - 1)
      BY <1>2, <3>1 DEF TreeInv, CallPosition
    <3>3. Abstract!Parent(Prefix) = GetPrefix(name, i - 1)
      <4>1. Len(Prefix) = i /\ GetPrefix(Prefix, i - 1) = GetPrefix(name, i - 1)
        BY <1>3, <3>1, PrefixFacts DEF Prefix
      <4> QED
        BY <4>1 DEF Abstract!Parent, GetPrefix
    <3> QED
      BY <3>2, <3>3 DEF StoredNames
  <2> QED
    BY <1>6, <1>7, <1>9, <2>1 DEF Abstract!Store
<1> QED
  BY <1>8, <1>9

\* Erasing the last entry of a name removes the name: its children would be
\* stored below this entry, which has none.
LEMMA AbstractErase ==
  ASSUME TreeInv, EraseEmpty
  PROVE  \/ Abstract!Remove(m_prefix[entry])
         \/ UNCHANGED <<StoredNames, ContentsOf>>
<1> DEFINE n == m_prefix[entry]
<1>1. /\ live \subseteq Addr
      /\ m_prefix \in [Addr -> Name]
      /\ content \in [Addr -> SUBSET Content]
      /\ ContentsOf \in [Name -> SUBSET Content]
      /\ \A m \in Name : \A c : c \in ContentsOf[m] <=>
           \E a \in live : m_prefix[a] = m /\ c \in content[a]
  BY AbstractTypes DEF TreeInv
<1>2. /\ live' = live \ {entry}
      /\ m_prefix' = [m_prefix EXCEPT ![entry] = <<>>]
      /\ content' = content
      /\ entry \in live /\ content[entry] = {} /\ m_children[entry] = <<>>
  BY DEF EraseEmpty, Discard, IsEmpty, TreeInv, CallPosition
<1>3. \A x \in live \ {entry} : m_prefix'[x] = m_prefix[x]
  BY <1>1, <1>2
<1>4. ContentsOf' = ContentsOf
  BY <1>2, <1>3 DEF ContentsOf
<1>5. CASE \E x \in live \ {entry} : m_prefix[x] = n
  <2>1. StoredNames' = StoredNames
    BY <1>2, <1>3, <1>5 DEF StoredNames
  <2> QED
    BY <1>4, <2>1
<1>6. CASE \A x \in live \ {entry} : m_prefix[x] # n
  <2>1. StoredNames' = StoredNames \ {n} /\ n \in StoredNames
    BY <1>2, <1>3, <1>6 DEF StoredNames
  <2>2. ContentsOf[n] = {}
    BY <1>1, <1>2, <1>6
  <2>3. ASSUME NEW m \in StoredNames, m # <<>>
        PROVE  Abstract!Parent(m) # n
    <3>1. PICK x \in live : m_prefix[x] = m
      BY DEF StoredNames
    <3>2. HasParent(x)
      BY DEF TreeInv, TreeConsistent
    <3>3. /\ m_parent[x] \in live
          /\ m_prefix[m_parent[x]] = Abstract!Parent(m)
          /\ \E k \in DOMAIN m_children[m_parent[x]] :
               m_children[m_parent[x]][k] = x
      BY <2>3, <3>1, <3>2 DEF HasParent, GetPrefix, Abstract!Parent
    <3>4. m_parent[x] # entry
      BY <1>2, <3>3, EmptySeq
    <3> QED
      BY <1>6, <3>3, <3>4
  <2> QED
    BY <1>4, <2>1, <2>2, <2>3 DEF Abstract!Remove
<1> QED
  BY <1>5, <1>6

\* What one entry carries changes: so does what its name carries, or nothing.
LEMMA AbstractContent ==
  ASSUME TreeInv, TypeInv', NEW a \in live, NEW c \in Content,
         AddContent(a, c) \/ RemoveContent(a, c)
  PROVE  \E S \in SUBSET Content : Abstract!SetContents(m_prefix[a], S)
<1> DEFINE n == m_prefix[a]
<1>1. /\ live \subseteq Addr
      /\ m_prefix \in [Addr -> Name]
      /\ content \in [Addr -> SUBSET Content]
      /\ ContentsOf \in [Name -> SUBSET Content]
  BY AbstractTypes DEF TreeInv
<1>2. live' = live /\ m_prefix' = m_prefix
  BY DEF AddContent, RemoveContent
<1>3. \A x \in live : x # a => content'[x] = content[x]
  BY <1>1 DEF AddContent, RemoveContent
<1>4. n \in StoredNames /\ StoredNames' = StoredNames
  BY <1>2 DEF StoredNames
<1>5. ContentsOf' \in [Name -> SUBSET Content]
  BY DEF ContentsOf
<1>6. \A m \in Name : m # n => ContentsOf'[m] = ContentsOf[m]
  BY <1>2, <1>3 DEF ContentsOf
<1>7. ContentsOf' = [ContentsOf EXCEPT ![n] = ContentsOf'[n]]
  BY <1>1, <1>5, <1>6
<1>8. Abstract!SetContents(n, ContentsOf'[n])
  BY <1>4, <1>7 DEF Abstract!SetContents
<1> QED
  BY <1>1, <1>5, <1>8

LEMMA AbstractNext ==
  TreeInv /\ TypeInv' /\ [Next]_vars
    => [Abstract!SpecNext]_<<StoredNames, ContentsOf>>
<1> SUFFICES ASSUME TreeInv, TypeInv', [Next]_vars
             PROVE  [Abstract!SpecNext]_<<StoredNames, ContentsOf>>
  OBVIOUS
<1>1. \A a \in live : m_prefix[a] \in Name
  BY AbstractTypes DEF TreeInv
<1>2. ASSUME UNCHANGED <<live, m_prefix, content>>
      PROVE  UNCHANGED <<StoredNames, ContentsOf>>
  BY <1>2 DEF StoredNames, ContentsOf
<1>3. ASSUME NEW a \in Addr \ live, InsertNew(a)
      PROVE  [Abstract!SpecNext]_<<StoredNames, ContentsOf>>
  <2>1. Prefix \in Name
    BY PrefixFacts DEF TreeInv, TypeInv, TypeOK, Prefix
  <2> QED
    BY <1>3, <2>1, AbstractInsertNew DEF Abstract!SpecNext
<1>4. CASE EraseEmpty
  <2>1. entry \in live
    BY <1>4 DEF TreeInv, CallPosition, EraseEmpty
  <2> QED
    BY <1>1, <1>4, <2>1, AbstractErase DEF Abstract!SpecNext
<1>5. ASSUME NEW a \in live, NEW c \in Content,
             AddContent(a, c) \/ RemoveContent(a, c)
      PROVE  [Abstract!SpecNext]_<<StoredNames, ContentsOf>>
  BY <1>1, <1>5, AbstractContent DEF Abstract!SpecNext
<1>6. ASSUME NEW n \in Name, Lookup(n) PROVE UNCHANGED <<live, m_prefix, content>>
  BY <1>6 DEF Lookup, tree
<1>7. ASSUME NEW a \in live, Erase(a) PROVE UNCHANGED <<live, m_prefix, content>>
  BY <1>7 DEF Erase, tree
<1>8. ASSUME NEW n \in ResizeTo, Resize(n)
      PROVE  UNCHANGED <<live, m_prefix, content>>
  BY <1>8 DEF Resize, BeginResize, tree
<1>9. ASSUME \/ InsertWalk \/ InsertFound \/ InsertUndefined \/ Grow
             \/ NextPrefix
      PROVE  UNCHANGED <<live, m_prefix, content>>
  BY <1>9 DEF InsertWalk, InsertFound, InsertUndefined, Grow, NextPrefix,
              BeginResize, Stop, tree
<1>10. ASSUME \/ ResizeWalk \/ ResizeLink \/ ResizeNextBucket \/ ResizeEnd
              \/ ResizeUndefined
       PROVE  UNCHANGED <<live, m_prefix, content>>
  BY <1>10 DEF ResizeWalk, ResizeLink, ResizeNextBucket, ResizeEnd,
               ResizeUndefined, Stop, tree
<1>11. ASSUME EraseNotEmpty \/ EraseUndefined
       PROVE  UNCHANGED <<live, m_prefix, content>>
  BY <1>11 DEF EraseNotEmpty, EraseUndefined, tree
<1>12. ASSUME UNCHANGED vars PROVE UNCHANGED <<live, m_prefix, content>>
  BY <1>12 DEF vars, tree
<1> QED
  BY <1>2, <1>3, <1>4, <1>5, <1>6, <1>7, <1>8, <1>9, <1>10, <1>11, <1>12
     DEF Next, Call, Step

\* Whatever the clients call in whatever order, and whatever happened to the
\* hash chains, the names that have an entry and what they carry change as in
\* the dictionary: one name at a time, always below a stored parent, and a name
\* goes only when it carries nothing and has nothing below it.
THEOREM TableImplementsSpec == Spec => ImplementsNameTreeSpec
<1>1. Init => Abstract!SpecInit
  BY AbstractInit
<1>2. TreeInv => TypeInv
  BY DEF TreeInv
<1>3. TreeInv /\ TreeInv' /\ [Next]_vars
        => [Abstract!SpecNext]_<<StoredNames, ContentsOf>>
  BY <1>2, AbstractNext DEF TreeInv
<1>4. Abstract!specVars = <<StoredNames, ContentsOf>>
  BY DEF Abstract!specVars
<1> QED
  BY <1>1, <1>3, <1>4, TreeCorrect, PTL
     DEF Spec, ImplementsNameTreeSpec, Abstract!NameTreeSpec, Abstract!specVars


-----------------------------------------------------------------------------
(* Lemmas about chains, whatever they are used for.                        *)

\* What Chained says depends on the links and the places of the nodes alone.
LEMMA ChainedCongruent ==
  ASSUME NEW nodes, NEW heads, NEW next, NEW prev, NEW at,
         NEW heads2, NEW next2, NEW prev2, NEW at2,
         Chained(nodes, heads, next, prev, at),
         DOMAIN heads2 = DOMAIN heads,
         \A b \in DOMAIN heads : heads2[b] = heads[b],
         \A a \in nodes : next2[a] = next[a] /\ prev2[a] = prev[a] /\ at2[a] = at[a]
  PROVE  Chained(nodes, heads2, next2, prev2, at2)
<1>1. HeadsIn(nodes, heads2, at2) /\ NodesIn(nodes, heads2, at2)
  BY DEF Chained, HeadsIn, NodesIn
<1>2. NextIn(nodes, heads2, next2, prev2, at2)
  BY DEF Chained, NodesIn, NextIn
<1>3. PrevIn(nodes, heads2, next2, prev2, at2)
  BY DEF Chained, NodesIn, PrevIn
<1>4. Reached(nodes, heads2, next2)
  <2> SUFFICES ASSUME NEW S \in SUBSET nodes, ClosedUnder(S, heads2, next2)
               PROVE  S = nodes
    BY DEF Reached
  <2>1. ClosedUnder(S, heads, next)
    BY DEF ClosedUnder
  <2> QED
    BY <2>1 DEF Chained, Reached
<1> QED
  BY <1>1, <1>2, <1>3, <1>4 DEF Chained

\* Buckets without a first node hold nothing.
LEMMA ChainedEmpty ==
  ASSUME NEW heads, NEW next, NEW prev, NEW at, \A b \in DOMAIN heads : heads[b] = Null
  PROVE  Chained({}, heads, next, prev, at)
BY DEF Chained, HeadsIn, NodesIn, NextIn, PrevIn, Reached

LEMMA ChainedNone ==
  ASSUME NEW nodes, NEW heads, NEW next, NEW prev, NEW at,
         Chained(nodes, heads, next, prev, at),
         \A b \in DOMAIN heads : heads[b] = Null
  PROVE  nodes = {}
<1>1. ClosedUnder({}, heads, next)
  BY DEF ClosedUnder
<1> QED
  BY <1>1 DEF Chained, Reached

\* A bucket without a first node can be left out.
LEMMA ChainedWithout ==
  ASSUME NEW nodes, NEW heads, NEW next, NEW prev, NEW at, NEW b, NEW heads2,
         Null \notin nodes,
         Chained(nodes, heads, next, prev, at),
         b \in DOMAIN heads, heads[b] = Null,
         DOMAIN heads2 = DOMAIN heads \ {b},
         \A c \in DOMAIN heads2 : heads2[c] = heads[c]
  PROVE  Chained(nodes, heads2, next, prev, at)
<1>1. \A a \in nodes : at[a] # b
  <2> DEFINE S == {a \in nodes : at[a] # b}
  <2>1. ClosedUnder(S, heads, next)
    <3>1. \A c \in DOMAIN heads : heads[c] \in S \cup {Null}
      BY DEF Chained, HeadsIn
    <3>2. \A a \in S : next[a] \in S \cup {Null}
      BY DEF Chained, NextIn
    <3> QED
      BY <3>1, <3>2 DEF ClosedUnder
  <2>2. S = nodes
    BY <2>1 DEF Chained, Reached
  <2> QED
    BY <2>2
<1>2. HeadsIn(nodes, heads2, at) /\ NodesIn(nodes, heads2, at)
  BY <1>1 DEF Chained, HeadsIn, NodesIn
<1>3. NextIn(nodes, heads2, next, prev, at) /\ PrevIn(nodes, heads2, next, prev, at)
  BY <1>1, <1>2 DEF Chained, NodesIn, NextIn, PrevIn
<1>4. Reached(nodes, heads2, next)
  <2> SUFFICES ASSUME NEW S \in SUBSET nodes, ClosedUnder(S, heads2, next)
               PROVE  S = nodes
    BY DEF Reached
  <2>1. ClosedUnder(S, heads, next)
    BY DEF ClosedUnder
  <2> QED
    BY <2>1 DEF Chained, Reached
<1> QED
  BY <1>2, <1>3, <1>4 DEF Chained

\* l is the last node of chain b, or Null when the chain is empty.
EndOf(l, b, nodes, heads, next, at) ==
  IF l = Null THEN heads[b] = Null
  ELSE l \in nodes /\ at[l] = b /\ next[l] = Null

\* q is the node before e, or Null when e is the first one of its chain.
Before(q, e, nodes, heads, next, at) ==
  IF q = Null THEN heads[at[e]] = e ELSE q \in nodes /\ next[q] = e

\* Node a is added at the end of a chain: after l, or as its first node when l is
\* Null.
Appended(a, l, nodes, heads, next, prev, at, heads2, next2, prev2, at2) ==
  /\ a \notin nodes /\ a # Null /\ at2[a] \in DOMAIN heads
  /\ EndOf(l, at2[a], nodes, heads, next, at)
  /\ \A x \in nodes : /\ next2[x] = IF x = l THEN a ELSE next[x]
                      /\ prev2[x] = prev[x]
                      /\ at2[x] = at[x]
  /\ next2[a] = Null /\ (l # Null => prev2[a] = l)
  /\ DOMAIN heads2 = DOMAIN heads
  /\ \A b \in DOMAIN heads :
       heads2[b] = IF l = Null /\ b = at2[a] THEN a ELSE heads[b]

LEMMA ChainedAppend ==
  ASSUME NEW nodes, NEW heads, NEW next, NEW prev, NEW at, NEW a, NEW l,
         NEW heads2, NEW next2, NEW prev2, NEW at2,
         Null \notin nodes, Chained(nodes, heads, next, prev, at),
         Appended(a, l, nodes, heads, next, prev, at, heads2, next2, prev2, at2)
  PROVE  Chained(nodes \cup {a}, heads2, next2, prev2, at2)
<1> USE DEF Appended, EndOf
<1>1. HeadsIn(nodes \cup {a}, heads2, at2)
  BY DEF Chained, HeadsIn
<1>2. NodesIn(nodes \cup {a}, heads2, at2)
  BY DEF Chained, NodesIn
<1>3. NextIn(nodes \cup {a}, heads2, next2, prev2, at2)
  <2> SUFFICES ASSUME NEW x \in nodes, next2[x] # Null
               PROVE  /\ next2[x] \in nodes \cup {a}
                      /\ at2[next2[x]] = at2[x]
                      /\ prev2[next2[x]] = x
                      /\ heads2[at2[x]] # next2[x]
    BY DEF NextIn
  <2>1. at2[x] \in DOMAIN heads /\ at2[x] = at[x]
    BY DEF Chained, NodesIn
  <2>2. CASE x = l
    BY <2>1, <2>2 DEF Chained, HeadsIn
  <2>3. CASE x # l
    <3>1. next2[x] = next[x]
      BY <2>3
    <3> QED
      BY <2>1, <3>1 DEF Chained, NextIn
  <2> QED
    BY <2>2, <2>3
<1>4. PrevIn(nodes \cup {a}, heads2, next2, prev2, at2)
  <2>1. heads2[at2[a]] # a => prev2[a] \in nodes /\ next2[prev2[a]] = a
    OBVIOUS
  <2>2. ASSUME NEW x \in nodes, heads2[at2[x]] # x
        PROVE  prev2[x] \in nodes /\ next2[prev2[x]] = x
    <3>1. heads[at[x]] # x
      BY <2>2 DEF Chained, NodesIn
    <3>2. prev[x] \in nodes /\ next[prev[x]] = x
      BY <3>1 DEF Chained, PrevIn
    <3>3. prev[x] # l
      BY <3>2
    <3> QED
      BY <3>2, <3>3
  <2> QED
    BY <2>1, <2>2 DEF PrevIn
<1>5. Reached(nodes \cup {a}, heads2, next2)
  <2> SUFFICES ASSUME NEW S \in SUBSET (nodes \cup {a}), ClosedUnder(S, heads2, next2)
               PROVE  S = nodes \cup {a}
    BY DEF Reached
  <2>1. ClosedUnder(S \cap nodes, heads, next)
    <3>1. \A b \in DOMAIN heads : heads[b] \in (S \cap nodes) \cup {Null}
      BY DEF ClosedUnder, Chained, HeadsIn
    <3>2. ASSUME NEW x \in S \cap nodes PROVE next[x] \in (S \cap nodes) \cup {Null}
      <4>1. next[x] \in nodes \cup {Null}
        BY DEF Chained, NextIn
      <4>2. next2[x] \in S \cup {Null}
        BY DEF ClosedUnder
      <4> QED
        BY <4>1, <4>2
    <3> QED
      BY <3>1, <3>2 DEF ClosedUnder
  <2>2. nodes \subseteq S
    BY <2>1 DEF Chained, Reached
  <2>3. a \in S
    <3>1. CASE l = Null
      <4>1. heads2[at2[a]] = a
        BY <3>1
      <4> QED
        BY <4>1 DEF ClosedUnder
    <3>2. CASE l # Null
      <4>1. next2[l] = a /\ l \in S
        BY <2>2, <3>2
      <4> QED
        BY <4>1 DEF ClosedUnder
    <3> QED
      BY <3>1, <3>2
  <2> QED
    BY <2>2, <2>3
<1> QED
  BY <1>1, <1>2, <1>3, <1>4, <1>5 DEF Chained

\* Node e is taken out from behind q, or from the head of its chain when q is
\* Null.  The prev of a new first node does not matter.
TakenOut(e, q, nodes, heads, next, prev, at, heads2, next2, prev2, at2) ==
  /\ e \in nodes /\ Before(q, e, nodes, heads, next, at)
  /\ \A x \in nodes \ {e} :
       /\ next2[x] = IF x = q THEN next[e] ELSE next[x]
       /\ x # next[e] => prev2[x] = prev[x]
       /\ at2[x] = at[x]
  /\ q # Null /\ next[e] # Null => prev2[next[e]] = q
  /\ DOMAIN heads2 = DOMAIN heads
  /\ \A b \in DOMAIN heads :
       heads2[b] = IF q = Null /\ b = at[e] THEN next[e] ELSE heads[b]

LEMMA ChainedRemove ==
  ASSUME NEW nodes, NEW heads, NEW next, NEW prev, NEW at, NEW e, NEW q,
         NEW heads2, NEW next2, NEW prev2, NEW at2,
         Null \notin nodes, Chained(nodes, heads, next, prev, at),
         TakenOut(e, q, nodes, heads, next, prev, at, heads2, next2, prev2, at2)
  PROVE  Chained(nodes \ {e}, heads2, next2, prev2, at2)
<1> USE DEF TakenOut, Before
<1>1. /\ at[e] \in DOMAIN heads
      /\ next[e] # Null =>
           /\ next[e] \in nodes /\ at[next[e]] = at[e]
           /\ prev[next[e]] = e /\ heads[at[e]] # next[e]
  BY DEF Chained, NodesIn, NextIn
<1>2. q # Null => /\ q \in nodes /\ next[q] = e /\ prev[e] = q
                  /\ at[q] = at[e] /\ heads[at[e]] # e
  BY DEF Chained, NextIn
<1>3. \A x \in nodes : next[x] = e => x = q
  BY <1>2 DEF Chained, NextIn
<1>4. next[e] # e /\ (q # Null => q # e)
  <2>1. ASSUME next[e] = e PROVE FALSE
    <3>1. q = e
      BY <1>3, <2>1
    <3>2. q # Null
      BY <3>1
    <3>3. ClosedUnder(nodes \ {e}, heads, next)
      <4>1. \A b \in DOMAIN heads : heads[b] \in (nodes \ {e}) \cup {Null}
        BY <1>2, <3>2 DEF Chained, HeadsIn
      <4>2. \A x \in nodes \ {e} : next[x] \in (nodes \ {e}) \cup {Null}
        BY <1>3, <3>1 DEF Chained, NextIn
      <4> QED
        BY <4>1, <4>2 DEF ClosedUnder
    <3> QED
      BY <3>3 DEF Chained, Reached
  <2> QED
    BY <1>2, <2>1
<1>5. HeadsIn(nodes \ {e}, heads2, at2)
  <2> SUFFICES ASSUME NEW b \in DOMAIN heads, heads2[b] # Null
               PROVE  heads2[b] \in nodes \ {e} /\ at2[heads2[b]] = b
    BY DEF HeadsIn
  <2>1. CASE q = Null /\ b = at[e]
    BY <1>1, <1>4, <2>1
  <2>2. CASE ~(q = Null /\ b = at[e])
    <3>1. heads2[b] = heads[b] /\ heads[b] \in nodes /\ at[heads[b]] = b
      BY <2>2 DEF Chained, HeadsIn
    <3>2. heads[b] # e
      BY <1>2, <2>2, <3>1
    <3> QED
      BY <3>1, <3>2
  <2> QED
    BY <2>1, <2>2
<1>6. NodesIn(nodes \ {e}, heads2, at2)
  BY DEF Chained, NodesIn
<1>7. NextIn(nodes \ {e}, heads2, next2, prev2, at2)
  <2> SUFFICES ASSUME NEW x \in nodes \ {e}, next2[x] # Null
               PROVE  /\ next2[x] \in nodes \ {e}
                      /\ at2[next2[x]] = at2[x]
                      /\ prev2[next2[x]] = x
                      /\ heads2[at2[x]] # next2[x]
    BY DEF NextIn
  <2>1. at2[x] = at[x] /\ at[x] \in DOMAIN heads
    BY DEF Chained, NodesIn
  <2>2. CASE x = q
    <3>1. q # Null /\ next2[x] = next[e]
      BY <2>2
    <3> QED
      BY <1>1, <1>2, <1>4, <2>1, <2>2, <3>1
  <2>3. CASE x # q
    <3>1. next2[x] = next[x]
      BY <2>3
    <3>2. /\ next[x] \in nodes /\ at[next[x]] = at[x] /\ prev[next[x]] = x
          /\ heads[at[x]] # next[x]
      BY <3>1 DEF Chained, NextIn
    <3>3. next[x] # e /\ next[x] # next[e]
      BY <1>1, <1>3, <2>3, <3>2
    <3> QED
      BY <2>1, <3>1, <3>2, <3>3
  <2> QED
    BY <2>2, <2>3
<1>8. PrevIn(nodes \ {e}, heads2, next2, prev2, at2)
  <2> SUFFICES ASSUME NEW x \in nodes \ {e}, heads2[at2[x]] # x
               PROVE  prev2[x] \in nodes \ {e} /\ next2[prev2[x]] = x
    BY DEF PrevIn
  <2>1. at2[x] = at[x] /\ at[x] \in DOMAIN heads
    BY DEF Chained, NodesIn
  <2>2. CASE x = next[e]
    <3>1. q # Null
      BY <1>1, <2>1, <2>2
    <3> QED
      BY <1>2, <1>4, <2>2, <3>1
  <2>3. CASE x # next[e]
    <3>1. heads[at[x]] # x
      <4>1. CASE q = Null /\ at[x] = at[e]
        BY <4>1
      <4>2. CASE ~(q = Null /\ at[x] = at[e])
        BY <2>1, <4>2
      <4> QED
        BY <4>1, <4>2
    <3>2. prev[x] \in nodes /\ next[prev[x]] = x
      BY <3>1 DEF Chained, PrevIn
    <3>3. prev[x] # e /\ prev[x] # q
      BY <1>2, <2>3, <3>2
    <3> QED
      BY <2>3, <3>2, <3>3
  <2> QED
    BY <2>2, <2>3
<1>9. Reached(nodes \ {e}, heads2, next2)
  <2> SUFFICES ASSUME NEW S \in SUBSET (nodes \ {e}), ClosedUnder(S, heads2, next2)
               PROVE  S = nodes \ {e}
    BY DEF Reached
  <2>1. \A x \in S : next[x] \in S \cup {e, Null}
    <3> SUFFICES ASSUME NEW x \in S PROVE next[x] \in S \cup {e, Null}
      OBVIOUS
    <3>1. CASE x = q
      BY <1>2, <3>1
    <3>2. CASE x # q
      <4>1. next2[x] = next[x]
        BY <3>2
      <4> QED
        BY <4>1 DEF ClosedUnder
    <3> QED
      BY <3>1, <3>2
  <2>2. CASE q # Null /\ q \notin S
    <3>1. ClosedUnder(S, heads, next)
      <4>1. \A b \in DOMAIN heads : heads[b] \in S \cup {Null}
        BY <2>2 DEF ClosedUnder
      <4>2. \A x \in S : next[x] # e
        BY <1>3, <2>2
      <4> QED
        BY <2>1, <4>1, <4>2 DEF ClosedUnder
    <3> QED
      BY <2>2, <3>1 DEF Chained, Reached
  <2>3. CASE q = Null \/ q \in S
    <3>1. next[e] \in S \cup {Null}
      <4>1. CASE q = Null
        <5>1. heads2[at[e]] = next[e]
          BY <1>1, <4>1
        <5> QED
          BY <1>1, <5>1 DEF ClosedUnder
      <4>2. CASE q # Null
        <5>1. q \in S /\ next2[q] = next[e]
          BY <2>3, <4>2
        <5> QED
          BY <5>1 DEF ClosedUnder
      <4> QED
        BY <4>1, <4>2
    <3>2. \A b \in DOMAIN heads : heads[b] \in S \cup {e, Null}
      <4> SUFFICES ASSUME NEW b \in DOMAIN heads PROVE heads[b] \in S \cup {e, Null}
        OBVIOUS
      <4>1. CASE q = Null /\ b = at[e]
        BY <4>1
      <4>2. CASE ~(q = Null /\ b = at[e])
        <5>1. heads2[b] = heads[b]
          BY <4>2
        <5> QED
          BY <5>1 DEF ClosedUnder
      <4> QED
        BY <4>1, <4>2
    <3>3. ClosedUnder(S \cup {e}, heads, next)
      BY <2>1, <3>1, <3>2 DEF ClosedUnder
    <3> QED
      BY <3>3 DEF Chained, Reached
  <2> QED
    BY <2>2, <2>3
<1> QED
  BY <1>5, <1>6, <1>7, <1>8, <1>9 DEF Chained

-----------------------------------------------------------------------------
(* Lemmas about Chain, the walk along m_next.                              *)

\* The walk stays in a set that it cannot leave.
LEMMA ChainWithin ==
  ASSUME NEW S \in SUBSET Addr, NEW head \in S \cup {Null},
         \A x \in S : m_next[x] \in S \cup {Null}
  PROVE  Chain(head) \subseteq S
BY DEF Chain

LEMMA ChainOfNull == Chain(Null) = {}
<1>1. /\ {} \in SUBSET Addr /\ Null \in {} \cup {Null}
      /\ \A x \in {} : m_next[x] \in {} \cup {Null}
  OBVIOUS
<1> QED
  BY <1>1 DEF Chain

\* It starts at its head and goes on with what follows.
LEMMA ChainGoesOn ==
  ASSUME NEW a \in Addr
  PROVE  Chain(a) \subseteq {a} \cup Chain(m_next[a])
<1> SUFFICES ASSUME NEW x \in Chain(a), x # a,
                    NEW S \in SUBSET Addr, m_next[a] \in S \cup {Null},
                    \A y \in S : m_next[y] \in S \cup {Null}
             PROVE  x \in S
  BY DEF Chain
<1> DEFINE T == S \cup {a}
<1>1. /\ T \in SUBSET Addr /\ a \in T \cup {Null}
      /\ \A y \in T : m_next[y] \in T \cup {Null}
  OBVIOUS
<1>2. x \in T
  BY <1>1 DEF Chain
<1> QED
  BY <1>2

\* In sound chains the walk from the head of a bucket visits exactly its nodes.
LEMMA ChainOfBucket ==
  ASSUME NEW nodes \in SUBSET Addr, NEW heads, NEW prev, NEW at, Null \notin Addr,
         Chained(nodes, heads, m_next, prev, at), NEW b \in DOMAIN heads
  PROVE  Chain(heads[b]) = {a \in nodes : at[a] = b}
<1> DEFINE B == {a \in nodes : at[a] = b}
<1>1. Chain(heads[b]) \subseteq B
  <2>1. heads[b] \in B \cup {Null}
    BY DEF Chained, HeadsIn
  <2>2. \A x \in B : m_next[x] \in B \cup {Null}
    BY DEF Chained, NextIn
  <2> QED
    BY <2>1, <2>2, ChainWithin
<1>2. ASSUME NEW a \in B,
             NEW S \in SUBSET Addr, heads[b] \in S \cup {Null},
             \A x \in S : m_next[x] \in S \cup {Null}
      PROVE  a \in S
  <2> DEFINE T == {x \in nodes : x \in S \/ at[x] # b}
  <2>1. \A c \in DOMAIN heads : heads[c] \in T \cup {Null}
    BY <1>2 DEF Chained, HeadsIn
  <2>2. \A x \in T : m_next[x] \in T \cup {Null}
    BY <1>2 DEF Chained, NextIn
  <2>3. T = nodes
    BY <2>1, <2>2 DEF Chained, Reached, ClosedUnder
  <2> QED
    BY <2>3
<1>3. B \subseteq Chain(heads[b])
  BY <1>2 DEF Chain
<1> QED
  BY <1>1, <1>3

\* The walk visits its head, and after each node the one that follows.
LEMMA ChainCloses ==
  ASSUME m_next \in [Addr -> Pointer], NEW head \in Pointer
  PROVE  /\ head # Null => head \in Chain(head)
         /\ \A x \in Chain(head) : m_next[x] \in Chain(head) \cup {Null}
<1>1. head # Null => head \in Chain(head)
  BY DEF Chain, Pointer
<1>2. ASSUME NEW x \in Chain(head), m_next[x] # Null PROVE m_next[x] \in Chain(head)
  <2>1. m_next[x] \in Addr /\ x \in Addr
    BY <1>2 DEF Chain, Pointer
  <2>2. ASSUME NEW S \in SUBSET Addr, head \in S \cup {Null},
               \A y \in S : m_next[y] \in S \cup {Null}
        PROVE  m_next[x] \in S
    <3>1. x \in S
      BY <2>2 DEF Chain
    <3> QED
      BY <1>2, <2>2, <3>1
  <2> QED
    BY <2>1, <2>2 DEF Chain
<1> QED
  BY <1>1, <1>2

\* A walk that starts behind a node of a sound chain never comes back to it.
LEMMA ChainNoCycle ==
  ASSUME m_next \in [Addr -> Pointer], Null \notin Addr,
         NEW nodes \in SUBSET Addr, NEW heads, NEW prev, NEW at,
         Chained(nodes, heads, m_next, prev, at), NEW a \in nodes
  PROVE  a \notin Chain(m_next[a])
<1> SUFFICES ASSUME a \in Chain(m_next[a]) PROVE FALSE
  OBVIOUS
<1> DEFINE D == Chain(m_next[a])
           T == {x \in D : \E y \in D : m_next[y] = x}
<1>1. m_next[a] \in Pointer /\ \A x \in nodes : m_next[x] \in nodes \cup {Null}
  BY DEF Chained, NextIn
<1>2. /\ m_next[a] # Null => m_next[a] \in D
      /\ \A x \in D : m_next[x] \in D \cup {Null}
  BY <1>1, ChainCloses
<1>3. D \subseteq nodes
  BY <1>1, ChainWithin
<1>4. m_next[a] \in T \cup {Null} /\ \A x \in T : m_next[x] \in T \cup {Null}
  BY <1>2
<1>5. T \subseteq Addr
  BY <1>3
<1> HIDE DEF T
<1>6. D \subseteq T
  BY <1>4, <1>5, ChainWithin
<1>7. \A x \in D : \E y \in D : m_next[y] = x
  BY <1>6 DEF T
<1> HIDE DEF D
<1>8. \A b \in DOMAIN heads : heads[b] \in (nodes \ D) \cup {Null}
  <2> SUFFICES ASSUME NEW b \in DOMAIN heads, heads[b] \in D PROVE FALSE
    BY DEF Chained, HeadsIn
  <2>1. PICK y \in D : m_next[y] = heads[b]
    BY <1>7
  <2>2. heads[b] # Null /\ y \in nodes
    BY <1>3
  <2> QED
    BY <2>1, <2>2 DEF Chained, HeadsIn, NextIn
<1>9. \A x \in nodes \ D : m_next[x] \in (nodes \ D) \cup {Null}
  <2> SUFFICES ASSUME NEW x \in nodes \ D, m_next[x] \in D PROVE FALSE
    BY <1>1
  <2>1. PICK y \in D : m_next[y] = m_next[x]
    BY <1>7
  <2>2. m_next[x] # Null /\ y \in nodes
    BY <1>3
  <2>3. prev[m_next[x]] = x /\ prev[m_next[y]] = y
    BY <2>1, <2>2 DEF Chained, NextIn
  <2> QED
    BY <2>1, <2>3
<1>10. nodes \ D = nodes
  BY <1>8, <1>9 DEF Chained, Reached, ClosedUnder
<1> QED
  BY <1>10 DEF D

-----------------------------------------------------------------------------
(* The steps of the calls, one lemma for each group of them.  They are     *)
(* about any nodes that the chains may hold besides those of the entries:  *)
(* an allocation that fails in insert() leaves some, in NameTree there are *)
(* none.  at says in which bucket a node is.                               *)

\* resize() among nodes: those in moved, which have entries, are in the new chains.
HalfwayAmong(nodes, at, moved) ==
  /\ count = Cardinality(moved)
  /\ Chained(moved, newBuckets, m_next, m_prev, BucketIn(newNBuckets))
  /\ Chained(nodes \ moved, OldHeads, m_next, m_prev, at)
  /\ last # Null =>
       /\ pre = last /\ last \in moved /\ p # Null
       /\ BucketIn(newNBuckets)[last] = NewLocation

\* The search of insert() among nodes.
PositionAmong(nodes, at) ==
  /\ node # Null => node \in nodes
  /\ IF nodePrev = Null
     THEN node = Null /\ m_buckets[Location(Prefix, m_nBuckets)] = Null
     ELSE /\ nodePrev \in nodes
          /\ at[nodePrev] = Location(Prefix, m_nBuckets)
          /\ node \in {m_next[nodePrev], nodePrev}
  /\ \A a \in live : m_prefix[a] = Prefix => a \in Chain(node)

\* ChainsSound, for chains that hold nodes.
SoundAmong(nodes, at) ==
  /\ live \subseteq nodes /\ nodes \subseteq Addr
  /\ \A a \in live : at[a] = BucketIn(m_nBuckets)[a]
  /\ \A a, b \in live : m_prefix[a] = m_prefix[b] => a = b
  /\ \A a \in Addr \ nodes : m_next[a] = Null
  /\ IF pc = "resize"
     THEN \E moved \in SUBSET live : HalfwayAmong(nodes, at, moved)
     ELSE Chained(nodes, m_buckets, m_next, m_prev, at)
  /\ pc = "insert" => PositionAmong(nodes, at)

\* Types of the variables, as far as the chains depend on them.
LEMMA LinkTypes ==
  ASSUME TypeInv
  PROVE  /\ m_nBuckets \in Nat \ {0}
         /\ DOMAIN m_buckets = 0 .. m_nBuckets - 1
         /\ m_buckets \in [0 .. m_nBuckets - 1 -> Pointer]
         /\ live \subseteq Addr /\ Null \notin live /\ Null \notin Addr
         /\ m_next \in [Addr -> Pointer] /\ m_prev \in [Addr -> Pointer]
         /\ m_prefix \in [Addr -> Name]
         /\ node \in Pointer /\ nodePrev \in Pointer
         /\ name \in Name /\ i \in 0 .. Len(name)
BY HeapAssumption DEF TypeInv, TypeOK

LEMMA ChainTypes ==
  ASSUME TreeInv
  PROVE  /\ m_nBuckets \in Nat \ {0}
         /\ DOMAIN m_buckets = 0 .. m_nBuckets - 1
         /\ m_buckets \in [0 .. m_nBuckets - 1 -> Pointer]
         /\ live \subseteq Addr /\ Null \notin live /\ Null \notin Addr
         /\ m_next \in [Addr -> Pointer] /\ m_prev \in [Addr -> Pointer]
         /\ m_prefix \in [Addr -> Name]
         /\ node \in Pointer /\ nodePrev \in Pointer
         /\ name \in Name /\ i \in 0 .. Len(name)
BY LinkTypes DEF TreeInv

\* The bucket of every entry exists.
LEMMA PlaceInTable ==
  ASSUME TypeInv, NEW a \in Addr, NEW n \in Nat \ {0}
  PROVE  BucketIn(n)[a] = Location(m_prefix[a], n) /\ BucketIn(n)[a] \in 0 .. n - 1
<1>1. m_prefix[a] \in Name
  BY LinkTypes
<1> QED
  BY <1>1, LocationInTable DEF BucketIn

LEMMA BucketInTable ==
  ASSUME TreeInv, NEW a \in Addr, NEW n \in Nat \ {0}
  PROVE  BucketIn(n)[a] = Location(m_prefix[a], n) /\ BucketIn(n)[a] \in 0 .. n - 1
BY PlaceInTable DEF TreeInv

\* Wherever the chains are sound, the nodes of a bucket are on its chain.
LEMMA AmongChain ==
  ASSUME TypeInv, NEW nodes, NEW at, SoundAmong(nodes, at), pc # "resize"
  PROVE  /\ live \subseteq nodes /\ nodes \subseteq Addr /\ Null \notin nodes
         /\ Chained(nodes, m_buckets, m_next, m_prev, at)
         /\ \A b \in 0 .. m_nBuckets - 1 : Chain(m_buckets[b]) = {a \in nodes : at[a] = b}
         /\ \A a \in live : at[a] = Location(m_prefix[a], m_nBuckets)
<1>1. /\ Chained(nodes, m_buckets, m_next, m_prev, at)
      /\ live \subseteq nodes /\ nodes \subseteq Addr /\ Null \notin nodes
      /\ \A a \in live : at[a] = BucketIn(m_nBuckets)[a]
  BY LinkTypes DEF SoundAmong
<1>2. ASSUME NEW b \in 0 .. m_nBuckets - 1
      PROVE  Chain(m_buckets[b]) = {a \in nodes : at[a] = b}
  BY <1>1, LinkTypes, ChainOfBucket
<1>3. \A a \in live : at[a] = Location(m_prefix[a], m_nBuckets)
  BY <1>1, LinkTypes, PlaceInTable
<1> QED
  BY <1>1, <1>2, <1>3

\* Wherever the chains are sound, the entries of a bucket are on its chain.
LEMMA SoundChain ==
  ASSUME TreeInv, ChainsSound, pc # "resize"
  PROVE  /\ Chained(live, m_buckets, m_next, m_prev, BucketIn(m_nBuckets))
         /\ \A b \in 0 .. m_nBuckets - 1 :
              Chain(m_buckets[b]) = {a \in live : Location(m_prefix[a], m_nBuckets) = b}
<1>1. Chained(live, m_buckets, m_next, m_prev, BucketIn(m_nBuckets))
  BY DEF ChainsSound, ChainsHold
<1>2. ASSUME NEW b \in 0 .. m_nBuckets - 1
      PROVE  Chain(m_buckets[b]) = {a \in live : BucketIn(m_nBuckets)[a] = b}
  BY <1>1, ChainTypes, ChainOfBucket
<1>3. \A a \in live : BucketIn(m_nBuckets)[a] = Location(m_prefix[a], m_nBuckets)
  BY ChainTypes, BucketInTable
<1> QED
  BY <1>1, <1>2, <1>3

\* Without other nodes, this is ChainsSound.
LEMMA AmongLive ==
  ASSUME TypeInv, ChainsSound
  PROVE  SoundAmong(live, BucketIn(m_nBuckets))
BY LinkTypes DEF ChainsSound, ChainsHold, FreeUnlinked, SoundAmong, HalfwayAmong,
                 Halfway, PositionAmong, InsertPosition

LEMMA AmongLiveAfter ==
  ASSUME NEW nodes, NEW at, nodes = live', SoundAmong(nodes, at)'
  PROVE  ChainsSound'
<1>1. \A a \in live' : at[a] = BucketIn(m_nBuckets)'[a]
  BY DEF SoundAmong
<1>2. ChainsHold'
  <2>1. CASE pc' = "resize"
    <3>1. PICK moved \in SUBSET live' : HalfwayAmong(nodes, at, moved)'
      BY <2>1 DEF SoundAmong
    <3>2. Chained(nodes \ moved, OldHeads', m_next', m_prev', at)
      BY <3>1 DEF HalfwayAmong
    <3>3. Chained(live' \ moved, OldHeads', m_next', m_prev', BucketIn(m_nBuckets)')
      BY <1>1, <3>2, ChainedCongruent
    <3>4. Halfway(moved)'
      BY <3>1, <3>3 DEF HalfwayAmong, Halfway
    <3> QED
      BY <2>1, <3>4 DEF ChainsHold
  <2>2. CASE pc' # "resize"
    <3>1. Chained(nodes, m_buckets', m_next', m_prev', at)
      BY <2>2 DEF SoundAmong
    <3>2. Chained(live', m_buckets', m_next', m_prev', BucketIn(m_nBuckets)')
      BY <1>1, <3>1, ChainedCongruent
    <3> QED
      BY <2>2, <3>2 DEF ChainsHold
  <2> QED
    BY <2>1, <2>2
<1>3. pc' = "insert" => InsertPosition'
  BY <1>1 DEF SoundAmong, PositionAmong, InsertPosition
<1> QED
  BY <1>2, <1>3 DEF SoundAmong, ChainsSound, FreeUnlinked

\* A search that starts at the head of a bucket has all of its chain before it.
LEMMA SearchBegins ==
  ASSUME TypeInv, NEW nodes, NEW at, SoundAmong(nodes, at), pc # "resize",
         NEW n \in Name, NEW k \in 0 .. Len(n), BeginInsert(n, k), name' = n,
         UNCHANGED <<table, links, tree>>
  PROVE  PositionAmong(nodes, at)'
<1> DEFINE b == Location(GetPrefix(n, k), m_nBuckets)
<1>1. /\ node' = m_buckets[b] /\ nodePrev' = m_buckets[b]
      /\ Prefix' = GetPrefix(n, k)
  BY DEF BeginInsert, Prefix
<1>2. /\ UNCHANGED <<m_nBuckets, m_buckets, m_next, m_prefix, live>>
      /\ Chain(node)' = Chain(m_buckets[b])
  BY <1>1 DEF table, links, tree, Chain
<1>3. b \in 0 .. m_nBuckets - 1
  BY LinkTypes, PrefixFacts, LocationInTable
<1>4. Location(Prefix, m_nBuckets)' = b
  BY <1>1, <1>2 DEF Location
<1>5. \A a \in live : m_prefix[a] = GetPrefix(n, k) => at[a] = b
  BY AmongChain
<1> HIDE DEF b
<1>6. m_buckets[b] # Null => m_buckets[b] \in nodes /\ at[m_buckets[b]] = b
  BY <1>3, LinkTypes, AmongChain DEF Chained, HeadsIn
<1>7. \A a \in live : m_prefix[a] = GetPrefix(n, k) => a \in Chain(m_buckets[b])
  BY <1>3, <1>5, AmongChain
<1> QED
  BY <1>1, <1>2, <1>4, <1>6, <1>7 DEF PositionAmong

\* Steps that write to no link, to no bucket and to no entry's name.
LEMMA ChainsQuiet ==
  ASSUME TypeInv, NEW nodes, NEW at, SoundAmong(nodes, at),
         \/ \E n \in Name : Lookup(n)
         \/ \E a \in live : Erase(a)
         \/ \E a \in live, c \in Content : AddContent(a, c) \/ RemoveContent(a, c)
         \/ InsertFound \/ NextPrefix \/ EraseNotEmpty
  PROVE  SoundAmong(nodes, at)' /\ pc' \notin {"undefined", "abort"}
<1>1. /\ UNCHANGED <<m_nBuckets, m_buckets, m_next, m_prev, m_prefix, live>>
      /\ pc # "resize" /\ pc' \notin {"resize", "undefined", "abort"}
  BY DEF Lookup, Erase, AddContent, RemoveContent, InsertFound, NextPrefix,
         EraseNotEmpty, BeginInsert, Return, table, links, tree
<1>2. pc' = "insert" => PositionAmong(nodes, at)'
  <2>1. ASSUME NEW n \in Name, Lookup(n) PROVE PositionAmong(nodes, at)'
    <3>1. 0 \in 0 .. Len(n)
      BY PrefixFacts, NameAssumption, LenProperties
    <3> QED
      BY <1>1, <2>1, <3>1, SearchBegins DEF Lookup
  <2>2. CASE NextPrefix
    <3>1. CASE i < Len(name)
      <4>1. i + 1 \in 0 .. Len(name)
        BY <3>1, LinkTypes, PrefixFacts
      <4> QED
        BY <1>1, <2>2, <3>1, <4>1, SearchBegins, LinkTypes DEF NextPrefix
    <3>2. CASE ~(i < Len(name))
      BY <2>2, <3>2 DEF NextPrefix, Return
    <3> QED
      BY <3>1, <3>2
  <2>3. CASE \/ \E a \in live : Erase(a)
             \/ \E a \in live, c \in Content : AddContent(a, c) \/ RemoveContent(a, c)
             \/ InsertFound \/ EraseNotEmpty
    BY <2>3 DEF Erase, AddContent, RemoveContent, InsertFound, EraseNotEmpty, Return
  <2> QED
    BY <2>1, <2>2, <2>3
<1> QED
  BY <1>1, <1>2 DEF SoundAmong, BucketIn

\* The call ends with the chains as they are.
LEMMA ChainsReturn ==
  ASSUME NEW nodes, NEW at, SoundAmong(nodes, at), pc # "resize",
         pc' \notin {"resize", "insert"},
         UNCHANGED <<m_nBuckets, m_buckets, m_next, m_prev, m_prefix, live>>
  PROVE  SoundAmong(nodes, at)'
BY DEF SoundAmong, BucketIn

\* The search goes on to the next node of the same chain.
LEMMA ChainsInsertWalk ==
  ASSUME TypeInv, NEW nodes, NEW at, SoundAmong(nodes, at),
         pc = "insert", node \in nodes, node \in live => m_prefix[node] # Prefix,
         nodePrev' = node, node' = m_next[node],
         UNCHANGED <<table, links, tree, pc, name, i>>
  PROVE  SoundAmong(nodes, at)'
<1>1. UNCHANGED <<m_nBuckets, m_buckets, m_next, m_prev, m_prefix, live, name, i>>
  BY DEF table, links, tree
<1>2. /\ Prefix' = Prefix /\ Location(Prefix, m_nBuckets)' = Location(Prefix, m_nBuckets)
      /\ Chain(node)' = Chain(m_next[node])
  BY <1>1 DEF Prefix, Location, Chain
<1>3. PositionAmong(nodes, at) /\ node # Null /\ node \in Addr
  BY AmongChain DEF SoundAmong
<1>4. /\ at[node] = Location(Prefix, m_nBuckets)
      /\ m_next[node] # Null => m_next[node] \in nodes
  BY <1>3, AmongChain DEF PositionAmong, Chained, NextIn
<1>5. \A a \in live : m_prefix[a] = Prefix => a \in Chain(m_next[node])
  BY <1>3, ChainGoesOn DEF PositionAmong
<1>6. PositionAmong(nodes, at)'
  BY <1>1, <1>2, <1>3, <1>4, <1>5 DEF PositionAmong
<1> QED
  BY <1>1, <1>6 DEF SoundAmong, BucketIn

\* The search has passed all nodes of the chain, none of which has the name: the
\* new one goes to its end, with or without an entry.
LEMMA ChainsLinkLast ==
  ASSUME TypeInv, NEW nodes, NEW at, SoundAmong(nodes, at),
         NEW a \in Addr \ nodes, LinkLast(a), pc' \in {"inserted", "idle"},
         \/ live' = live \cup {a} /\ m_prefix' = [m_prefix EXCEPT ![a] = Prefix]
         \/ live' = live /\ m_prefix' = m_prefix,
         NEW at2, at2 = [x \in Addr |-> IF x = a THEN Location(Prefix, m_nBuckets)
                                        ELSE at[x]],
         NEW nodes2, nodes2 = nodes \cup {a}
  PROVE  SoundAmong(nodes2, at2)'
<1> DEFINE b == Location(Prefix, m_nBuckets)
<1>1. /\ pc = "insert" /\ node = Null /\ m_nBuckets' = m_nBuckets
      /\ m_prev' = [m_prev EXCEPT ![a] = nodePrev]
      /\ IF nodePrev = Null
         THEN /\ m_buckets' = [m_buckets EXCEPT ![b] = a]
              /\ m_next' = [m_next EXCEPT ![a] = Null]
         ELSE /\ m_next' = [m_next EXCEPT ![a] = Null, ![nodePrev] = a]
              /\ m_buckets' = m_buckets
  BY DEF LinkLast
<1>2. PositionAmong(nodes, at)
  BY <1>1 DEF SoundAmong
<1>3. Prefix \in Name /\ b \in 0 .. m_nBuckets - 1
  BY LinkTypes, PrefixFacts, LocationInTable DEF Prefix
<1>4. /\ live \subseteq nodes /\ nodes \subseteq Addr /\ Null \notin nodes /\ a # Null
      /\ a \notin live /\ Chained(nodes, m_buckets, m_next, m_prev, at)
  BY <1>1, AmongChain, LinkTypes
<1>5. IF nodePrev = Null
      THEN m_buckets[b] = Null
      ELSE nodePrev \in nodes /\ at[nodePrev] = b /\ m_next[nodePrev] = Null
  BY <1>1, <1>2, <1>4 DEF PositionAmong
<1>6. /\ \A x \in live : m_prefix'[x] = m_prefix[x]
      /\ a \in live' => m_prefix'[a] = Prefix /\ live' = live \cup {a}
      /\ a \notin live' => live' = live
  BY <1>4, LinkTypes
<1>7. /\ \A x \in nodes : at2[x] = at[x]
      /\ at2[a] = b
  BY <1>4
<1>8. \A x \in live' : at2[x] = BucketIn(m_nBuckets)'[x]
  <2>1. \A x \in live : at2[x] = BucketIn(m_nBuckets)'[x]
    BY <1>1, <1>4, <1>6, <1>7 DEF SoundAmong, BucketIn, Location
  <2>2. a \in live' => at2[a] = BucketIn(m_nBuckets)'[a]
    BY <1>1, <1>6, <1>7 DEF BucketIn, Location
  <2> QED
    BY <1>6, <2>1, <2>2
<1> HIDE DEF b
<1>9. /\ \A x \in nodes : /\ m_next'[x] = IF x = nodePrev THEN a ELSE m_next[x]
                          /\ m_prev'[x] = m_prev[x]
      /\ m_next'[a] = Null /\ m_prev'[a] = nodePrev
      /\ \A x \in Addr \ nodes2 : m_next'[x] = m_next[x]
      /\ DOMAIN m_buckets' = DOMAIN m_buckets
      /\ \A c \in DOMAIN m_buckets :
           m_buckets'[c] = IF nodePrev = Null /\ c = b THEN a ELSE m_buckets[c]
  <2>1. CASE nodePrev = Null
    BY <1>1, <1>3, <1>4, <2>1, LinkTypes
  <2>2. CASE nodePrev # Null
    BY <1>1, <1>4, <1>5, <2>2, LinkTypes
  <2> QED
    BY <2>1, <2>2
<1>10. Chained(nodes2, m_buckets', m_next', m_prev', at2)
  <2>1. /\ b \in DOMAIN m_buckets
        /\ EndOf(nodePrev, b, nodes, m_buckets, m_next, at)
    BY <1>3, <1>5, LinkTypes DEF EndOf
  <2>2. Appended(a, nodePrev, nodes, m_buckets, m_next, m_prev, at,
                 m_buckets', m_next', m_prev', at2)
    BY <1>4, <1>7, <1>9, <2>1 DEF Appended
  <2> QED
    BY <1>4, <2>2, ChainedAppend
<1>11. \A x, y \in live' : m_prefix'[x] = m_prefix'[y] => x = y
  <2>1. \A x \in live : m_prefix[x] # Prefix
    BY <1>1, <1>2, ChainOfNull DEF PositionAmong
  <2> QED
    BY <1>6, <2>1 DEF SoundAmong
<1>12. /\ live' \subseteq nodes2 /\ nodes2 \subseteq Addr
       /\ \A x \in Addr \ nodes2 : m_next'[x] = Null
  BY <1>4, <1>6, <1>9 DEF SoundAmong
<1> QED
  BY <1>8, <1>10, <1>11, <1>12 DEF SoundAmong

LEMMA ChainsInsertNew ==
  ASSUME TypeInv, NEW nodes, NEW at, SoundAmong(nodes, at),
         NEW a \in Addr \ nodes, InsertNew(a)
  PROVE  /\ \E at2 : SoundAmong(nodes \cup {a}, at2)'
         /\ live' = live \cup {a} /\ pc' = "inserted"
<1>1. /\ LinkLast(a) /\ pc' = "inserted"
      /\ live' = live \cup {a} /\ m_prefix' = [m_prefix EXCEPT ![a] = Prefix]
  BY DEF InsertNew, LinkLast
<1> QED
  BY <1>1, ChainsLinkLast

\* At the beginning of resize() nothing is moved.
LEMMA ChainsBeginResize ==
  ASSUME TypeInv, NEW nodes, NEW at, SoundAmong(nodes, at), pc # "resize",
         NEW n \in Nat \ {0}, NEW return, BeginResize(n, return)
  PROVE  SoundAmong(nodes, at)' /\ pc' \notin {"undefined", "abort"}
<1>1. /\ UNCHANGED <<m_nBuckets, m_buckets, m_next, m_prev, m_prefix, live>>
      /\ pc' = "resize" /\ newNBuckets' = n /\ newBuckets' = EmptyBuckets(n)
      /\ bucket' = 0 /\ p' = m_buckets[0] /\ last' = Null /\ count' = 0
  BY DEF BeginResize, table, links, tree
<1> DEFINE heads == OldHeads'
<1>2. Chained(nodes, m_buckets, m_next, m_prev, at)
  BY AmongChain
<1>3. /\ DOMAIN heads = DOMAIN m_buckets
      /\ \A b \in DOMAIN m_buckets : heads[b] = m_buckets[b]
  BY <1>1, LinkTypes DEF OldHeads
<1> HIDE DEF heads
<1>4. Chained(nodes, heads, m_next, m_prev, at)
  BY <1>2, <1>3, ChainedCongruent
<1>5. Chained(nodes \ {}, OldHeads', m_next', m_prev', at)
  BY <1>1, <1>4 DEF heads
<1>6. Chained({}, newBuckets', m_next', m_prev', BucketIn(newNBuckets)')
  BY <1>1, ChainedEmpty DEF EmptyBuckets
<1>7. HalfwayAmong(nodes, at, {})'
  BY <1>1, <1>5, <1>6, FS_EmptySet DEF HalfwayAmong
<1>8. \E moved \in SUBSET live' : HalfwayAmong(nodes, at, moved)'
  BY <1>7
<1> QED
  BY <1>1, <1>8 DEF SoundAmong, BucketIn

\* What the middle of resize() looks like to the next step.
LEMMA HalfwayFacts ==
  ASSUME TypeInv, NEW nodes, NEW at, SoundAmong(nodes, at), pc = "resize",
         NEW moved, HalfwayAmong(nodes, at, moved)
  PROVE  /\ newNBuckets \in Nat \ {0} /\ DOMAIN newBuckets = 0 .. newNBuckets - 1
         /\ bucket \in 0 .. m_nBuckets - 1 /\ DOMAIN OldHeads = bucket .. m_nBuckets - 1
         /\ OldHeads[bucket] = p
         /\ p # Null => p \in nodes \ moved /\ at[p] = bucket
         /\ p \in live => /\ BucketIn(newNBuckets)[p] = NewLocation
                          /\ NewLocation \in DOMAIN newBuckets
<1>1. /\ newNBuckets \in Nat \ {0} /\ DOMAIN newBuckets = 0 .. newNBuckets - 1
      /\ bucket \in 0 .. m_nBuckets - 1 /\ m_nBuckets \in Nat
  BY DEF TypeInv, TypeOK
<1>2. DOMAIN OldHeads = bucket .. m_nBuckets - 1 /\ OldHeads[bucket] = p
  BY <1>1 DEF OldHeads
<1>3. bucket \in DOMAIN OldHeads
  BY <1>1, <1>2
<1>4. p # Null => p \in nodes \ moved /\ at[p] = bucket
  BY <1>2, <1>3 DEF HalfwayAmong, Chained, HeadsIn
<1>5. p \in live => BucketIn(newNBuckets)[p] = NewLocation /\ NewLocation \in 0 .. newNBuckets - 1
  BY <1>1, LinkTypes, PlaceInTable DEF NewLocation
<1> QED
  BY <1>1, <1>2, <1>4, <1>5

\* The walk over the new chain of p goes on.
LEMMA ChainsResizeWalk ==
  ASSUME TypeInv, NEW nodes, NEW at, SoundAmong(nodes, at), ResizeWalk
  PROVE  SoundAmong(nodes, at)' /\ pc' \notin {"undefined", "abort"}
<1>1. /\ UNCHANGED <<m_nBuckets, m_buckets, m_next, m_prev, m_prefix, live,
                     newNBuckets, newBuckets, bucket, p, count>>
      /\ pc = "resize" /\ pc' = "resize" /\ p \in live /\ Slot # Null
      /\ pre' = Slot /\ last' = Slot
  BY DEF ResizeWalk, table, links, tree
<1>2. PICK moved \in SUBSET live : HalfwayAmong(nodes, at, moved)
  BY <1>1 DEF SoundAmong
<1>3. p # Null
  BY <1>1, LinkTypes
<1>4. Slot \in moved /\ BucketIn(newNBuckets)[Slot] = NewLocation
  <2>1. Chained(moved, newBuckets, m_next, m_prev, BucketIn(newNBuckets))
    BY <1>2 DEF HalfwayAmong
  <2>2. CASE last = Null
    BY <1>1, <1>2, <2>1, <2>2, HalfwayFacts DEF Slot, Chained, HeadsIn
  <2>3. CASE last # Null
    <3>1. last \in moved /\ BucketIn(newNBuckets)[last] = NewLocation
      BY <1>2, <2>3 DEF HalfwayAmong
    <3> QED
      BY <1>1, <2>1, <2>3, <3>1 DEF Slot, Chained, NextIn
  <2> QED
    BY <2>2, <2>3
<1>5. /\ BucketIn(newNBuckets)' = BucketIn(newNBuckets)
      /\ OldHeads' = OldHeads /\ NewLocation' = NewLocation
  BY <1>1 DEF BucketIn, OldHeads, NewLocation
<1>6. HalfwayAmong(nodes, at, moved)'
  BY <1>1, <1>2, <1>3, <1>4, <1>5 DEF HalfwayAmong
<1>7. \E m \in SUBSET live' : HalfwayAmong(nodes, at, m)'
  BY <1>1, <1>6
<1> QED
  BY <1>1, <1>7 DEF SoundAmong, BucketIn

\* p goes from the head of what is left of its old chain to the end of a new one;
\* the stale pre it gets for m_prev does no harm, as p is then the first there.
LEMMA ChainsResizeLink ==
  ASSUME TypeInv, NEW nodes, NEW at, SoundAmong(nodes, at), ResizeLink
  PROVE  SoundAmong(nodes, at)' /\ pc' \notin {"undefined", "abort"}
<1>1. /\ UNCHANGED <<m_nBuckets, m_buckets, m_prefix, live, newNBuckets, bucket>>
      /\ pc = "resize" /\ pc' = "resize" /\ p \in live /\ Slot = Null
      /\ count' = IF count < CountBound THEN count + 1 ELSE count
      /\ m_prev' = [m_prev EXCEPT ![p] = pre]
      /\ IF last = Null
         THEN /\ newBuckets' = [newBuckets EXCEPT ![NewLocation] = p]
              /\ m_next' = [m_next EXCEPT ![p] = Null]
         ELSE /\ m_next' = [m_next EXCEPT ![p] = Null, ![last] = p]
              /\ newBuckets' = newBuckets
      /\ p' = m_next[p] /\ last' = Null
  BY DEF ResizeLink, table, tree
<1>2. PICK moved \in SUBSET live : HalfwayAmong(nodes, at, moved)
  BY <1>1 DEF SoundAmong
<1> DEFINE new == BucketIn(newNBuckets)
           b == NewLocation
<1>3. /\ p # Null /\ p \in live /\ p \notin moved
      /\ at[p] = bucket /\ new[p] = b /\ b \in DOMAIN newBuckets
      /\ DOMAIN OldHeads = bucket .. m_nBuckets - 1
      /\ bucket \in DOMAIN OldHeads /\ OldHeads[bucket] = p
  BY <1>1, <1>2, LinkTypes, HalfwayFacts
<1>4. /\ Chained(moved, newBuckets, m_next, m_prev, new)
      /\ Chained(nodes \ moved, OldHeads, m_next, m_prev, at)
      /\ count = Cardinality(moved)
      /\ last # Null => pre = last /\ last \in moved /\ new[last] = b
  BY <1>2 DEF HalfwayAmong
<1>5. live \subseteq nodes /\ nodes \subseteq Addr /\ Null \notin nodes
  BY LinkTypes DEF SoundAmong
<1>6. BucketIn(m_nBuckets)' = BucketIn(m_nBuckets) /\ BucketIn(newNBuckets)' = new
  BY <1>1 DEF BucketIn
<1> HIDE DEF new, b
<1>7. IF last = Null THEN newBuckets[b] = Null ELSE m_next[last] = Null
  BY <1>1 DEF Slot, b
<1>8. /\ \A x \in nodes \ {p} : m_next'[x] = IF x = last THEN p ELSE m_next[x]
      /\ \A x \in nodes \ {p} : m_prev'[x] = m_prev[x]
      /\ m_next'[p] = Null /\ m_prev'[p] = pre
      /\ \A x \in Addr \ nodes : m_next'[x] = m_next[x]
      /\ DOMAIN newBuckets' = DOMAIN newBuckets
      /\ \A c \in DOMAIN newBuckets :
           newBuckets'[c] = IF last = Null /\ c = b THEN p ELSE newBuckets[c]
  <2>1. p \in Addr /\ last # p
    BY <1>3, <1>4, LinkTypes
  <2>2. CASE last = Null
    BY <1>1, <1>3, <1>5, <2>1, <2>2, LinkTypes DEF b
  <2>3. CASE last # Null
    <3>1. last \in nodes
      BY <1>4, <1>5, <2>3
    <3> QED
      BY <1>1, <1>3, <1>5, <2>1, <2>3, <3>1, LinkTypes
  <2> QED
    BY <2>2, <2>3
<1>9. Chained(moved \cup {p}, newBuckets', m_next', m_prev', new)
  <2>1. EndOf(last, b, moved, newBuckets, m_next, new)
    BY <1>3, <1>4, <1>7 DEF EndOf
  <2>2. last # Null => m_prev'[p] = last
    BY <1>4, <1>8
  <2>3. Appended(p, last, moved, newBuckets, m_next, m_prev, new,
                 newBuckets', m_next', m_prev', new)
    BY <1>3, <1>5, <1>8, <2>1, <2>2 DEF Appended
  <2> QED
    BY <1>4, <2>3, LinkTypes, ChainedAppend
<1>10. Chained((nodes \ moved) \ {p}, OldHeads', m_next', m_prev', at)
  <2> DEFINE rest == nodes \ moved
             heads == OldHeads
             heads2 == OldHeads'
  <2>1. /\ DOMAIN heads2 = DOMAIN heads
        /\ \A c \in DOMAIN heads :
             heads2[c] = IF c = bucket THEN m_next[p] ELSE heads[c]
    BY <1>1 DEF OldHeads
  <2>2. /\ Null \notin rest /\ p \in rest
        /\ \A x \in rest \ {p} : m_next'[x] = m_next[x] /\ m_prev'[x] = m_prev[x]
    BY <1>3, <1>4, <1>5, <1>8
  <2>3. /\ Chained(rest, heads, m_next, m_prev, at)
        /\ Before(Null, p, rest, heads, m_next, at)
    BY <1>3, <1>4 DEF Before
  <2>4. at[p] = bucket
    BY <1>3
  <2> HIDE DEF rest, heads, heads2
  <2>5. TakenOut(p, Null, rest, heads, m_next, m_prev, at,
                 heads2, m_next', m_prev', at)
    BY <2>1, <2>2, <2>3, <2>4 DEF TakenOut
  <2>6. Chained(rest \ {p}, heads2, m_next', m_prev', at)
    BY <2>2, <2>3, <2>5, ChainedRemove
  <2> QED
    BY <2>6 DEF rest, heads2
<1>11. count' = Cardinality(moved \cup {p})
  <2>1. /\ IsFiniteSet(Addr) /\ moved \subseteq Addr /\ p \in Addr /\ p \notin moved
    BY <1>3, LinkTypes, HeapAssumption
  <2>2. IsFiniteSet(moved) /\ Cardinality(moved \cup {p}) = Cardinality(moved) + 1
    BY <2>1, FS_Subset, FS_AddElement
  <2>3. /\ Cardinality(moved) \in Nat /\ Cardinality(Addr) \in Nat
        /\ Cardinality(moved) <= Cardinality(Addr)
    BY <2>1, <2>2, FS_Subset, FS_CardinalityType
  <2> QED
    BY <1>1, <1>4, <2>2, <2>3 DEF CountBound
<1>12. PICK after2 : after2 = moved \cup {p}
  OBVIOUS
<1>13. HalfwayAmong(nodes, at, after2)'
  <2>1. nodes \ after2 = (nodes \ moved) \ {p}
    BY <1>12
  <2> QED
    BY <1>1, <1>6, <1>9, <1>10, <1>11, <1>12, <2>1 DEF HalfwayAmong
<1>14. \E m \in SUBSET live' : HalfwayAmong(nodes, at, m)'
  <2>1. after2 \in SUBSET live'
    BY <1>1, <1>12
  <2> QED
    BY <1>13, <2>1
<1> QED
  BY <1>1, <1>6, <1>8, <1>14 DEF SoundAmong

\* A bucket of the old array is done: no node belongs there any more.
LEMMA ChainsResizeNextBucket ==
  ASSUME TypeInv, NEW nodes, NEW at, SoundAmong(nodes, at), ResizeNextBucket
  PROVE  SoundAmong(nodes, at)' /\ pc' \notin {"undefined", "abort"}
<1>1. /\ UNCHANGED <<m_nBuckets, m_buckets, m_next, m_prev, m_prefix, live,
                     newNBuckets, newBuckets, last, count>>
      /\ pc = "resize" /\ pc' = "resize" /\ p = Null
      /\ ~(bucket + 1 >= m_nBuckets)
      /\ bucket' = bucket + 1 /\ p' = m_buckets[bucket + 1]
  BY DEF ResizeNextBucket, table, links, tree, AtLastBucket
<1>2. PICK moved \in SUBSET live : HalfwayAmong(nodes, at, moved)
  BY <1>1 DEF SoundAmong
<1> DEFINE heads == OldHeads
           heads2 == OldHeads'
<1>3. /\ bucket \in 0 .. m_nBuckets - 1 /\ m_nBuckets \in Nat
      /\ DOMAIN heads = bucket .. m_nBuckets - 1
      /\ heads[bucket] = Null
  BY <1>1, <1>2, HalfwayFacts, LinkTypes
<1>4. DOMAIN heads2 = bucket + 1 .. m_nBuckets - 1
  BY <1>1 DEF OldHeads
<1>5. \A c \in DOMAIN heads2 : heads2[c] = heads[c]
  BY <1>1, <1>3, <1>4 DEF OldHeads
<1>6. BucketIn(newNBuckets)' = BucketIn(newNBuckets)
  BY <1>1 DEF BucketIn
<1>7. /\ Chained(nodes \ moved, heads, m_next, m_prev, at) /\ last = Null
      /\ Null \notin nodes \ moved
  BY <1>1, <1>2, LinkTypes DEF HalfwayAmong, SoundAmong
<1> HIDE DEF heads, heads2
<1>8. DOMAIN heads2 = DOMAIN heads \ {bucket} /\ bucket \in DOMAIN heads
  BY <1>3, <1>4
<1>9. Chained(nodes \ moved, heads2, m_next, m_prev, at)
  BY <1>3, <1>5, <1>7, <1>8, ChainedWithout
<1>10. HalfwayAmong(nodes, at, moved)'
  BY <1>1, <1>2, <1>6, <1>7, <1>9 DEF HalfwayAmong, heads2
<1>11. \E m \in SUBSET live' : HalfwayAmong(nodes, at, m)'
  BY <1>1, <1>10
<1> QED
  BY <1>1, <1>11 DEF SoundAmong, BucketIn

\* Behind the last bucket everything is moved, so that the count is right and all
\* nodes have entries.
LEMMA ChainsResizeEnd ==
  ASSUME TypeInv, SizeCountsEntries, NEW nodes, NEW at, SoundAmong(nodes, at),
         ResizeEnd, NEW at2, at2 = BucketIn(newNBuckets)
  PROVE  /\ SoundAmong(nodes, at2)' /\ nodes = live /\ live' = live
         /\ pc' = after /\ pc' \notin {"undefined", "abort"}
<1>1. pc = "resize" /\ p = Null /\ bucket + 1 >= m_nBuckets
  BY DEF ResizeEnd, AtLastBucket
<1>2. PICK moved \in SUBSET live : HalfwayAmong(nodes, at, moved)
  BY <1>1 DEF SoundAmong
<1>3. moved = nodes /\ nodes = live
  <2>1. \A b \in DOMAIN OldHeads : OldHeads[b] = Null
    <3>1. /\ DOMAIN OldHeads = bucket .. m_nBuckets - 1 /\ OldHeads[bucket] = Null
          /\ bucket \in 0 .. m_nBuckets - 1 /\ m_nBuckets \in Nat
      BY <1>1, <1>2, HalfwayFacts, LinkTypes
    <3>2. bucket .. m_nBuckets - 1 = {bucket}
      BY <1>1, <3>1
    <3> QED
      BY <3>1, <3>2
  <2>2. nodes \ moved = {}
    BY <1>2, <2>1, ChainedNone DEF HalfwayAmong
  <2> QED
    BY <2>2 DEF SoundAmong
<1>4. count = m_nItems
  BY <1>2, <1>3 DEF HalfwayAmong, SizeCountsEntries
<1>5. /\ UNCHANGED <<m_next, m_prev, m_prefix, live>>
      /\ m_buckets' = newBuckets /\ m_nBuckets' = newNBuckets
      /\ pc' = after
  BY <1>4 DEF ResizeEnd, links, tree
<1>6. after \in {"idle", "grown"}
  BY DEF TypeInv, TypeOK
<1>7. BucketIn(m_nBuckets)' = at2
  BY <1>5 DEF BucketIn
<1>8. Chained(nodes, m_buckets', m_next', m_prev', at2)
  BY <1>2, <1>3, <1>5 DEF HalfwayAmong
<1>9. SoundAmong(nodes, at2)'
  BY <1>5, <1>6, <1>7, <1>8 DEF SoundAmong
<1> QED
  BY <1>3, <1>5, <1>6, <1>9

\* Through a right m_prev, eraseEntryIfEmpty() takes the node of the entry out of
\* its chain and no other, whatever node is next to it.
LEMMA ChainsUnlink ==
  ASSUME TypeInv, NEW nodes, NEW at, SoundAmong(nodes, at),
         pc = "erase", entry \in live,
         {m_prev[entry], m_next[entry]} \subseteq nodes \cup {Null},
         Unlink, Discard, EraseParent, m_nBuckets' = m_nBuckets,
         ~WrongPrev(entry), NEW nodes2, nodes2 = nodes \ {entry}
  PROVE  SoundAmong(nodes2, at)' /\ pc' \in {"idle", "erase"}
<1> DEFINE b == Location(m_prefix[entry], m_nBuckets)
           prv == m_prev[entry]
           nxt == m_next[entry]
<1>1. /\ entry \in Addr
      /\ prv \in nodes \cup {Null} /\ nxt \in nodes \cup {Null}
      /\ IF prv # Null
         THEN /\ m_next' = [m_next EXCEPT ![prv] = nxt, ![entry] = Null]
              /\ m_buckets' = m_buckets
         ELSE /\ m_buckets' = [m_buckets EXCEPT ![b] = nxt]
              /\ m_next' = [m_next EXCEPT ![entry] = Null]
      /\ m_prev' = IF nxt = Null
                   THEN [m_prev EXCEPT ![entry] = Null]
                   ELSE [m_prev EXCEPT ![entry] = Null, ![nxt] = prv]
  BY LinkTypes DEF Unlink
<1>2. live' = live \ {entry} /\ m_prefix' = [m_prefix EXCEPT ![entry] = <<>>]
  BY DEF Discard
<1>3. pc' \in {"idle", "erase"}
  BY DEF EraseParent, Return
<1>4. IF prv = Null THEN m_buckets[b] = entry ELSE m_next[prv] = entry
  BY DEF WrongPrev, Bucket
<1>5. /\ live \subseteq nodes /\ nodes \subseteq Addr /\ Null \notin nodes
      /\ Chained(nodes, m_buckets, m_next, m_prev, at)
      /\ b \in DOMAIN m_buckets /\ at[entry] = b
  BY <1>1, AmongChain, LinkTypes, PlaceInTable
<1>6. \A x \in live' : at[x] = BucketIn(m_nBuckets)'[x]
  BY <1>1, <1>2, LinkTypes DEF SoundAmong, BucketIn, Location
<1> HIDE DEF b
<1>7. /\ \A x \in Addr \ {entry} : m_next'[x] = IF x = prv THEN nxt ELSE m_next[x]
      /\ m_next'[entry] = Null
      /\ DOMAIN m_buckets' = DOMAIN m_buckets
      /\ \A c \in DOMAIN m_buckets :
           m_buckets'[c] = IF prv = Null /\ c = b THEN nxt ELSE m_buckets[c]
  <2>1. CASE prv # Null
    BY <1>1, <1>5, <2>1, LinkTypes
  <2>2. CASE prv = Null
    BY <1>1, <1>5, <2>2, LinkTypes
  <2> QED
    BY <2>1, <2>2
<1>8. /\ \A x \in Addr \ {entry} : x # nxt => m_prev'[x] = m_prev[x]
      /\ nxt # Null => m_prev'[nxt] = prv
  BY <1>1, <1>5, LinkTypes
<1>9. Chained(nodes2, m_buckets', m_next', m_prev', at)
  <2>1. Before(prv, entry, nodes, m_buckets, m_next, at)
    BY <1>1, <1>4, <1>5 DEF Before
  <2>2. TakenOut(entry, prv, nodes, m_buckets, m_next, m_prev, at,
                 m_buckets', m_next', m_prev', at)
    BY <1>1, <1>5, <1>7, <1>8, <2>1 DEF TakenOut
  <2> QED
    BY <1>5, <2>2, ChainedRemove
<1>10. \A x \in Addr \ nodes2 : m_next'[x] = Null
  <2> SUFFICES ASSUME NEW x \in Addr \ nodes2, x # entry PROVE m_next'[x] = Null
    BY <1>7
  <2>1. x \notin nodes /\ x # prv
    BY <1>1, <1>5, LinkTypes
  <2> QED
    BY <1>7, <2>1 DEF SoundAmong
<1>11. \A x, y \in live' : m_prefix'[x] = m_prefix'[y] => x = y
  BY <1>1, <1>2, LinkTypes DEF SoundAmong
<1>12. live' \subseteq nodes2 /\ nodes2 \subseteq Addr
  BY <1>2, <1>5
<1> QED
  BY <1>3, <1>6, <1>9, <1>10, <1>11, <1>12 DEF SoundAmong

\* In sound chains no step gets at a deleted node.
LEMMA ChainsDefined ==
  ASSUME TypeInv, NEW nodes, NEW at, SoundAmong(nodes, at)
  PROVE  /\ pc = "insert" => node \in nodes \cup {Null}
         /\ pc = "resize" => p \in nodes \cup {Null}
         /\ pc = "erase" /\ entry \in live /\ ~WrongPrev(entry) =>
              {m_prev[entry], m_next[entry]} \subseteq nodes \cup {Null}
<1>1. pc = "insert" => node \in nodes \cup {Null}
  BY DEF SoundAmong, PositionAmong
<1>2. pc = "resize" => p \in nodes \cup {Null}
  <2> SUFFICES ASSUME pc = "resize" PROVE p \in nodes \cup {Null}
    OBVIOUS
  <2>1. PICK moved \in SUBSET live : HalfwayAmong(nodes, at, moved)
    BY DEF SoundAmong
  <2> QED
    BY <2>1, HalfwayFacts
<1>3. ASSUME pc = "erase", entry \in live, ~WrongPrev(entry)
      PROVE  {m_prev[entry], m_next[entry]} \subseteq nodes \cup {Null}
  <2>1. entry \in nodes /\ entry \in Addr /\ entry # Null
    BY <1>3, LinkTypes DEF SoundAmong
  <2>2. m_next[entry] \in nodes \cup {Null}
    BY <1>3, <2>1, AmongChain DEF Chained, NextIn
  <2>3. m_prev[entry] \in nodes \cup {Null}
    <3> SUFFICES ASSUME m_prev[entry] # Null, m_prev[entry] \notin nodes PROVE FALSE
      OBVIOUS
    <3>1. m_prev[entry] \in Addr /\ m_next[m_prev[entry]] = entry
      BY <1>3, <2>1, LinkTypes DEF WrongPrev, Pointer
    <3> QED
      BY <2>1, <3>1 DEF SoundAmong
  <2> QED
    BY <2>2, <2>3
<1> QED
  BY <1>1, <1>2, <1>3

\* damaged is set by the two steps that use a wrong m_prev, and is never reset.
LEMMA DamageStays ==
  ASSUME [Next]_vars, ~damaged'
  PROVE  /\ ~damaged
         /\ EraseEmpty \/ EraseUndefined => ~WrongPrev(entry)
<1>1. CASE EraseEmpty
  <2>1. damaged' = (damaged \/ WrongPrev(entry))
    BY <1>1, Zenon DEF EraseEmpty
  <2> QED
    BY <2>1, Zenon
<1>2. CASE EraseUndefined
  <2>1. damaged' = (damaged \/ WrongPrev(entry))
    BY <1>2, Zenon DEF EraseUndefined
  <2> QED
    BY <2>1, Zenon
<1>3. CASE ~EraseEmpty /\ ~EraseUndefined
  <2>1. damaged' = damaged
    BY <1>3 DEF Next, Call, Step, vars, Lookup, Erase, Resize, AddContent,
       RemoveContent, InsertWalk, InsertFound, InsertUndefined, InsertNew, Grow,
       NextPrefix, ResizeWalk, ResizeLink, ResizeNextBucket, ResizeEnd,
       ResizeUndefined, EraseNotEmpty, BeginResize, Stop
  <2> QED
    BY <1>3, <2>1, Zenon
<1> QED
  BY <1>1, <1>2, <1>3, Zenon

\* The inductive invariant.  The tree is a part of it: that size() counts the
\* entries makes the assertion at the end of resize() hold.
ChainInv == TreeInv /\ ChainsCorrect

LEMMA ChainInit == Init => ChainInv
<1> SUFFICES ASSUME Init PROVE ChainInv
  OBVIOUS
<1>1. /\ pc = "idle" /\ live = {} /\ m_buckets = EmptyBuckets(NBuckets)
      /\ m_nBuckets = NBuckets /\ m_next = [a \in Addr |-> Null]
  BY DEF Init
<1>2. \A b \in DOMAIN m_buckets : m_buckets[b] = Null
  BY <1>1 DEF EmptyBuckets
<1>3. ChainsHold
  BY <1>1, <1>2, ChainedEmpty DEF ChainsHold
<1>4. FreeUnlinked
  BY <1>1 DEF FreeUnlinked
<1> QED
  BY <1>1, <1>3, <1>4, TreeInit DEF ChainInv, ChainsCorrect, ChainsSound

LEMMA ChainStepSound ==
  ASSUME TreeInv, ChainsSound, Next, EraseEmpty \/ EraseUndefined => ~WrongPrev(entry)
  PROVE  ChainsSound' /\ pc' \notin {"undefined", "abort"}
<1>1. PICK nodes, at : nodes = live /\ at = BucketIn(m_nBuckets)
  OBVIOUS
<1>2. TypeInv /\ SizeCountsEntries /\ SoundAmong(nodes, at)
  BY <1>1, AmongLive DEF TreeInv
<1> DEFINE Goal == ChainsSound' /\ pc' \notin {"undefined", "abort"}
<1>3. ASSUME live' = live, SoundAmong(nodes, at)' PROVE ChainsSound'
  BY <1>1, <1>3, AmongLiveAfter
<1>4. ASSUME NEW n \in ResizeTo, Resize(n) PROVE Goal
  <2>1. live' = live
    BY <1>4 DEF Resize, BeginResize, tree
  <2> QED
    BY <1>2, <1>3, <1>4, <2>1, SizeAssumption, ChainsBeginResize DEF Resize
<1>5. CASE Grow
  <2>1. 2 * m_nBuckets \in Nat \ {0} /\ live' = live
    BY <1>2, <1>5, LinkTypes DEF Grow, BeginResize, tree
  <2> QED
    BY <1>2, <1>3, <1>5, <2>1, ChainsBeginResize DEF Grow
<1>6. CASE EraseEmpty
  <2>1. /\ pc = "erase" /\ entry \in live /\ live' = live \ {entry}
        /\ {m_prev[entry], m_next[entry]} \subseteq nodes \cup {Null}
        /\ Unlink /\ Discard /\ EraseParent /\ m_nBuckets' = m_nBuckets
        /\ ~WrongPrev(entry)
    BY <1>1, <1>6 DEF EraseEmpty, Discard, TreeInv, CallPosition
  <2>2. PICK nodes2 : nodes2 = nodes \ {entry}
    OBVIOUS
  <2>3. SoundAmong(nodes2, at)' /\ pc' \in {"idle", "erase"}
    BY <1>2, <2>1, <2>2, ChainsUnlink
  <2> QED
    BY <1>1, <2>1, <2>2, <2>3, AmongLiveAfter
<1>7. ASSUME NEW a \in Addr \ live, InsertNew(a) PROVE Goal
  <2>1. PICK nodes2 : nodes2 = nodes \cup {a}
    OBVIOUS
  <2>2. /\ \E at2 : SoundAmong(nodes2, at2)'
        /\ live' = nodes2 /\ pc' = "inserted"
    BY <1>1, <1>2, <1>7, <2>1, ChainsInsertNew
  <2>3. PICK at2 : SoundAmong(nodes2, at2)'
    BY <2>2
  <2> QED
    BY <2>2, <2>3, AmongLiveAfter
<1>8. CASE \/ ResizeWalk \/ ResizeLink \/ ResizeNextBucket
  <2>1. live' = live
    BY <1>8 DEF ResizeWalk, ResizeLink, ResizeNextBucket, tree
  <2> QED
    BY <1>2, <1>3, <1>8, <2>1, ChainsResizeWalk, ChainsResizeLink,
       ChainsResizeNextBucket
<1>9. CASE ResizeEnd
  <2>1. PICK at2 : at2 = BucketIn(newNBuckets)
    OBVIOUS
  <2>2. /\ SoundAmong(nodes, at2)' /\ nodes = live /\ live' = live
        /\ pc' \notin {"undefined", "abort"}
    BY <1>2, <1>9, <2>1, ChainsResizeEnd
  <2> QED
    BY <2>2, AmongLiveAfter
<1>10. CASE \/ \E n \in Name : Lookup(n)
            \/ \E a \in live : Erase(a)
            \/ \E a \in live, c \in Content : AddContent(a, c) \/ RemoveContent(a, c)
            \/ InsertFound \/ NextPrefix \/ EraseNotEmpty
  <2>1. live' = live
    BY <1>10 DEF Lookup, Erase, AddContent, RemoveContent, InsertFound, NextPrefix,
                 EraseNotEmpty, tree
  <2> QED
    BY <1>2, <1>3, <1>10, <2>1, ChainsQuiet
<1>11. CASE InsertWalk
  <2>1. /\ pc = "insert" /\ pc' = "insert" /\ live' = live /\ node \in nodes
        /\ m_prefix[node] # Prefix
        /\ nodePrev' = node /\ node' = m_next[node]
        /\ UNCHANGED <<table, links, tree, pc, name, i>>
    BY <1>1, <1>11 DEF InsertWalk, tree
  <2> QED
    BY <1>2, <1>3, <2>1, ChainsInsertWalk
<1>12. CASE InsertUndefined \/ ResizeUndefined \/ EraseUndefined
  BY <1>1, <1>2, <1>12, ChainsDefined
     DEF InsertUndefined, ResizeUndefined, EraseUndefined, TreeInv, CallPosition
<1> QED
  BY <1>4, <1>5, <1>6, <1>7, <1>8, <1>9, <1>10, <1>11, <1>12 DEF Next, Call, Step

LEMMA ChainsStutter ==
  ASSUME ChainsSound,
         UNCHANGED <<table, links, live, m_prefix, pc, locals, rehash>>
  PROVE  ChainsSound'
<1> USE DEF table, links, locals, rehash
<1>1. /\ OldHeads' = OldHeads /\ NewLocation' = NewLocation /\ Prefix' = Prefix
      /\ BucketIn(m_nBuckets)' = BucketIn(m_nBuckets)
      /\ BucketIn(newNBuckets)' = BucketIn(newNBuckets)
  BY DEF OldHeads, NewLocation, Prefix, BucketIn
<1>2. \A moved : Halfway(moved) => Halfway(moved)'
  BY <1>1 DEF Halfway
<1>3. ChainsHold'
  BY <1>1, <1>2 DEF ChainsSound, ChainsHold
<1>4. Chain(node)' = Chain(node)
  BY DEF Chain
<1>5. Location(Prefix, m_nBuckets)' = Location(Prefix, m_nBuckets)
  BY <1>1 DEF Location
<1>6. pc' = "insert" => InsertPosition'
  BY <1>1, <1>4, <1>5 DEF ChainsSound, InsertPosition
<1> QED
  BY <1>3, <1>6 DEF ChainsSound, FreeUnlinked

LEMMA ChainNext == ChainInv /\ [Next]_vars => ChainInv'
<1> SUFFICES ASSUME ChainInv, [Next]_vars PROVE ChainInv'
  OBVIOUS
<1>1. TreeInv'
  BY TreeNext DEF ChainInv
<1>2. ASSUME ~damaged' PROVE ChainsSound' /\ pc' \notin {"undefined", "abort"}
  <2>1. ~damaged /\ (EraseEmpty \/ EraseUndefined => ~WrongPrev(entry))
    BY <1>2, DamageStays
  <2>2. TreeInv /\ ChainsSound /\ pc \notin {"undefined", "abort"}
    BY <2>1 DEF ChainInv, ChainsCorrect
  <2>3. CASE Next
    BY <2>1, <2>2, <2>3, ChainStepSound
  <2>4. CASE UNCHANGED vars
    BY <2>2, <2>4, ChainsStutter DEF vars, tree
  <2> QED
    BY <2>3, <2>4
<1> QED
  BY <1>1, <1>2 DEF ChainInv, ChainsCorrect

\* In every state of every call the chains hold all entries, as long as no node
\* was unlinked through a wrong m_prev: in the middle of resize() each entry
\* is in exactly one of the two arrays.
THEOREM ChainsAreCorrect == Spec => []ChainsCorrect
<1>1. Init => ChainInv
  BY ChainInit
<1>2. ChainInv /\ [Next]_vars => ChainInv'
  BY ChainNext
<1>3. ChainInv => ChainsCorrect
  BY DEF ChainInv
<1> QED
  BY <1>1, <1>2, <1>3, PTL DEF Spec

LEMMA ChainCorrect == Spec => []ChainInv
<1>1. Init => ChainInv
  BY ChainInit
<1>2. ChainInv /\ [Next]_vars => ChainInv'
  BY ChainNext
<1> QED
  BY <1>1, <1>2, PTL DEF Spec

\* Between calls a walk along the chain of a bucket visits exactly the entries
\* whose hash belongs there, and m_prev is right for all but the first of them:
\* insert(), resize() and eraseEntryIfEmpty() keep each other's view of the table,
\* for every table size, hash function and set of names, as long as no node was
\* unlinked through a wrong m_prev.
THEOREM TableIsConsistent == Spec => []TableConsistent
<1>1. ChainInv => TableConsistent
  <2> SUFFICES ASSUME ChainInv, pc = "idle", ~damaged
               PROVE  /\ \A b \in DOMAIN m_buckets :
                           Chain(m_buckets[b]) =
                             {a \in live : Location(m_prefix[a], m_nBuckets) = b}
                      /\ \A a \in live : Bucket(a) # a =>
                           m_prev[a] \in live /\ m_next[m_prev[a]] = a
    BY DEF TableConsistent
  <2>1. TreeInv /\ ChainsSound
    BY DEF ChainInv, ChainsCorrect
  <2>2. \A a \in live : Bucket(a) = m_buckets[BucketIn(m_nBuckets)[a]]
    BY <2>1, ChainTypes, BucketInTable DEF Bucket
  <2> QED
    BY <2>1, <2>2, ChainTypes, SoundChain DEF Chained, PrevIn
<1> QED
  BY <1>1, ChainCorrect, PTL

\* The search of insert() never misses an entry: no name is stored twice, also
\* when the table was resized between two prefixes of a name, as long as no node
\* was unlinked through a wrong m_prev.
THEOREM NamesAreUnique == Spec => []NamesUnique
<1>1. ChainInv => NamesUnique
  BY DEF ChainInv, ChainsCorrect, ChainsSound, NamesUnique
<1> QED
  BY <1>1, ChainCorrect, PTL

\* No call touches a deleted node, and BOOST_ASSERT(count == m_nItems) holds.
THEOREM CallsAreDefined == Spec => []NeverUndefined
<1>1. ChainInv => NeverUndefined
  BY DEF ChainInv, ChainsCorrect, NeverUndefined
<1> QED
  BY <1>1, ChainCorrect, PTL

-----------------------------------------------------------------------------
(* What the calls of lookup() and eraseEntryIfEmpty() have done when they     *)
(* return, and how full the table is then.                                 *)

Stored(n) == \E a \in live : m_prefix[a] = n

\* insert() has stored every prefix that it has dealt with.
PrefixesStored ==
  /\ pc = "insert" => \A k \in 0 .. i - 1 : Stored(GetPrefix(name, k))
  /\ pc \in {"inserted", "grown"} \/ (pc = "resize" /\ after = "grown") =>
       \A k \in 0 .. i : Stored(GetPrefix(name, k))

LEMMA PrefixesStoredNext ==
  ASSUME TreeInv, PrefixesStored, [Next]_vars
  PROVE  PrefixesStored'
<1>1. i \in Nat
  BY ChainTypes, PrefixFacts
<1>2. ASSUME live \subseteq live', \A a \in live : m_prefix'[a] = m_prefix[a]
      PROVE  \A n : Stored(n) => Stored(n)'
  BY <1>2 DEF Stored
<1>3. CASE InsertWalk \/ UNCHANGED vars
  BY <1>2, <1>3 DEF InsertWalk, PrefixesStored, vars, tree, locals, rehash, table,
     links
<1>4. CASE InsertFound
  <2>1. /\ UNCHANGED <<live, m_prefix, name, i>> /\ pc = "insert" /\ pc' = "inserted"
        /\ node \in live /\ m_prefix[node] = GetPrefix(name, i)
    BY <1>4 DEF InsertFound, tree, Prefix
  <2>2. Stored(GetPrefix(name, i))
    BY <2>1 DEF Stored
  <2>3. \A k \in 0 .. i : k = i \/ k \in 0 .. i - 1
    BY <1>1
  <2>4. \A k \in 0 .. i : Stored(GetPrefix(name, k))
    BY <2>1, <2>2, <2>3 DEF PrefixesStored
  <2> QED
    BY <1>2, <2>1, <2>4 DEF PrefixesStored
<1>5. ASSUME NEW a \in Addr \ live, InsertNew(a) PROVE PrefixesStored'
  <2>1. /\ live' = live \cup {a} /\ m_prefix' = [m_prefix EXCEPT ![a] = GetPrefix(name, i)]
        /\ name' = name /\ i' = i /\ pc = "insert" /\ pc' = "inserted"
    BY <1>5 DEF InsertNew, Prefix
  <2>2. live \subseteq live' /\ \A x \in live : m_prefix'[x] = m_prefix[x]
    BY <2>1, ChainTypes
  <2>3. m_prefix'[a] = GetPrefix(name, i) /\ a \in live'
    BY <2>1, ChainTypes
  <2>4. \A k \in 0 .. i : k = i \/ k \in 0 .. i - 1
    BY <1>1
  <2>5. \A k \in 0 .. i : Stored(GetPrefix(name, k))'
    <3>1. Stored(GetPrefix(name, i))'
      BY <2>1, <2>3 DEF Stored
    <3>2. \A k \in 0 .. i - 1 : Stored(GetPrefix(name, k))'
      BY <2>1, <2>2 DEF PrefixesStored, Stored
    <3>3. ASSUME NEW k \in 0 .. i PROVE Stored(GetPrefix(name, k))'
      <4>1. CASE k = i
        BY <2>1, <2>3, <4>1 DEF Stored
      <4>2. CASE k \in 0 .. i - 1
        BY <3>2, <4>2
      <4> QED
        BY <2>4, <4>1, <4>2
    <3> QED
      BY <3>3
  <2> QED
    BY <2>1, <2>5 DEF PrefixesStored
<1>6. CASE NextPrefix
  <2>1. /\ UNCHANGED <<live, m_prefix>> /\ pc \in {"inserted", "grown"}
    BY <1>6 DEF NextPrefix, tree
  <2>2. CASE i < Len(name)
    <3>1. pc' = "insert" /\ i' = i + 1 /\ name' = name
      BY <1>6, <2>2 DEF NextPrefix, BeginInsert
    <3>2. \A k \in 0 .. i' - 1 : k \in 0 .. i
      BY <1>1, <3>1
    <3> QED
      BY <2>1, <3>1, <3>2 DEF PrefixesStored, Stored
  <2>3. CASE ~(i < Len(name))
    <3>1. pc' = "idle"
      BY <1>6, <2>3 DEF NextPrefix, Return
    <3> QED
      BY <3>1 DEF PrefixesStored
  <2> QED
    BY <2>2, <2>3
<1>7. CASE Grow
  BY <1>2, <1>7 DEF Grow, BeginResize, PrefixesStored, tree, locals
<1>8. CASE ResizeWalk \/ ResizeLink \/ ResizeNextBucket
  BY <1>2, <1>8 DEF ResizeWalk, ResizeLink, ResizeNextBucket, PrefixesStored, tree,
     locals
<1>9. CASE ResizeEnd
  BY <1>2, <1>9 DEF ResizeEnd, Stop, PrefixesStored, tree, locals, TreeInv, TypeInv,
     TypeOK
<1>10. ASSUME NEW n \in Name, Lookup(n) PROVE PrefixesStored'
  <2>1. pc' = "insert" /\ i' = 0
    BY <1>10 DEF Lookup, BeginInsert
  <2> QED
    BY <2>1 DEF PrefixesStored
<1>11. CASE \/ \E a \in live : Erase(a)
            \/ \E n \in ResizeTo : Resize(n)
            \/ \E a \in live, c \in Content : AddContent(a, c) \/ RemoveContent(a, c)
            \/ InsertUndefined \/ ResizeUndefined
            \/ EraseNotEmpty \/ EraseUndefined \/ EraseEmpty
  <2>1. /\ pc' \notin {"insert", "inserted", "grown"}
        /\ pc' = "resize" => after' = "idle"
    BY <1>11 DEF Erase, Resize, BeginResize, AddContent, RemoveContent,
       InsertUndefined, ResizeUndefined, Stop, EraseNotEmpty, EraseUndefined,
       EraseEmpty, EraseParent, Return
  <2> QED
    BY <2>1 DEF PrefixesStored
<1> QED
  BY <1>3, <1>4, <1>5, <1>6, <1>7, <1>8, <1>9, <1>10, <1>11 DEF Next, Call, Step

\* lookup() returns the entry of its name, and every prefix of the name is stored
\* and found at that moment, as long as no node was unlinked through a wrong m_prev;
\* that the entry returned has the name asked for holds in every table.
THEOREM LookupIsCorrect == Spec => LookupStoresPrefixes
<1>1. Init => ChainInv /\ PrefixesStored
  BY ChainInit DEF Init, PrefixesStored
<1>2. ChainInv /\ PrefixesStored /\ [Next]_vars => (ChainInv /\ PrefixesStored)'
  BY ChainNext, PrefixesStoredNext DEF ChainInv
<1>3. ChainInv /\ PrefixesStored /\ [Next]_vars =>
        [(pc \in {"inserted", "grown"} /\ pc' = "idle") => LookupDone]_vars
  <2> SUFFICES ASSUME ChainInv, PrefixesStored, [Next]_vars,
                      pc \in {"inserted", "grown"}, pc' = "idle"
               PROVE  LookupDone
    OBVIOUS
  <2>1. NextPrefix
    BY DEF Next, Call, Step, vars, Lookup, Erase, Resize, AddContent,
       RemoveContent, InsertWalk, InsertFound, InsertUndefined, InsertNew, Grow,
       ResizeWalk, ResizeLink, ResizeNextBucket, ResizeEnd,
       ResizeUndefined, EraseNotEmpty, EraseUndefined, EraseEmpty, BeginResize
  <2>2. i = Len(name)
    <3>1. ~(i < Len(name))
      BY <2>1 DEF NextPrefix, BeginInsert
    <3>2. Len(name) \in Nat /\ i \in 0 .. Len(name)
      BY ChainTypes, PrefixFacts DEF ChainInv
    <3> QED
      BY <3>1, <3>2
  <2>3. m_prefix[entry] = name
    <3>1. m_prefix[entry] = GetPrefix(name, Len(name))
      BY <2>2 DEF ChainInv, TreeInv, CallPosition, Prefix
    <3>2. name \in Seq(Component)
      BY ChainTypes, NameAssumption DEF ChainInv
    <3> QED
      BY <3>1, <3>2, SubSeqFull DEF GetPrefix
  <2>4. ASSUME ~damaged, NEW k \in 0 .. Len(name)
        PROVE  \E a \in live : m_prefix[a] = GetPrefix(name, k) /\ a \in Chain(Bucket(a))
    <3>1. PICK a \in live : m_prefix[a] = GetPrefix(name, k)
      BY <2>2 DEF PrefixesStored, Stored
    <3>2. TreeInv /\ ChainsSound
      BY <2>4 DEF ChainInv, ChainsCorrect
    <3>3. Location(m_prefix[a], m_nBuckets) \in 0 .. m_nBuckets - 1
      BY <3>2, ChainTypes, LocationInTable
    <3>4. a \in Chain(Bucket(a))
      BY <3>2, <3>3, SoundChain DEF Bucket
    <3> QED
      BY <3>1, <3>4
  <2> QED
    BY <2>3, <2>4 DEF LookupDone
<1> QED
  BY <1>1, <1>2, <1>3, PTL DEF Spec, LookupStoresPrefixes

\* A table that an insertion fills above half has room again once it has doubled.
LEMMA LoadFacts ==
  ASSUME NEW n \in Nat \ {0}, NEW items \in Nat, NEW s \in Nat
  PROVE  /\ items <= Threshold(n) => 2 * items <= n
         /\ items > Threshold(n) => 2 * items > n
         /\ items * s <= items * s /\ (items - 1) * s <= items * s
         /\ items * n <= items * (2 * n)
         /\ 2 * (items + 1) <= 2 * n \/ (items + 1) * n <= items * (2 * n)
<1>1. items * s \in Nat /\ items * n \in Nat /\ (items - 1) * s = items * s - s
  OBVIOUS
<1>2. items * (2 * n) = 2 * (items * n) /\ (items + 1) * n = items * n + n
  OBVIOUS
<1>3. items = 0 \/ n <= items * n
  OBVIOUS
<1>4. (items <= Threshold(n) => 2 * items <= n) /\ (items > Threshold(n) => 2 * items > n)
  BY DEF Threshold
<1> QED
  BY <1>1, <1>2, <1>3, <1>4

\* What LoadBounded says of a step.
LoadKept ==
  \/ pc = "idle" /\ pc' = "resize"
  \/ pc' \in {"abort", "undefined"}
  \/ 2 * m_nItems' <= SizeAhead'
  \/ m_nItems' * SizeAhead <= m_nItems * SizeAhead'

LEMMA LoadNext ==
  ASSUME TypeInv, SizeCountsEntries, [Next]_vars
  PROVE  LoadKept
<1>1. /\ m_nBuckets \in Nat \ {0} /\ m_nItems \in Nat /\ newNBuckets \in Nat
      /\ m_resizeThreshold = Threshold(m_nBuckets)
      /\ SizeAhead \in Nat
  <2>1. live \subseteq Addr
    BY DEF TypeInv, TypeOK
  <2>2. m_nItems \in Nat
    BY <2>1, HeapAssumption, FS_Subset, FS_CardinalityType DEF SizeCountsEntries
  <2> QED
    BY <2>2 DEF TypeInv, TypeOK, SizeAhead
<1>2. ASSUME m_nItems' = m_nItems, SizeAhead' = SizeAhead PROVE LoadKept
  BY <1>1, <1>2, LoadFacts DEF LoadKept
<1>3. CASE \/ \E n \in Name : Lookup(n)
           \/ \E a \in live : Erase(a)
           \/ \E a \in live, c \in Content : AddContent(a, c) \/ RemoveContent(a, c)
           \/ InsertWalk \/ EraseNotEmpty \/ UNCHANGED vars
  <2>1. m_nItems' = m_nItems /\ SizeAhead' = SizeAhead
    BY <1>3 DEF Lookup, BeginInsert, Erase, AddContent, RemoveContent, InsertWalk,
                EraseNotEmpty, Return, vars, table, rehash, SizeAhead
  <2> QED
    BY <1>2, <2>1
<1>4. CASE \/ InsertUndefined \/ ResizeUndefined \/ EraseUndefined
           \/ \E n \in ResizeTo : Resize(n)
  BY <1>4 DEF InsertUndefined, ResizeUndefined, EraseUndefined, Stop, Resize,
              BeginResize, LoadKept
<1>5. CASE InsertFound
  <2>1. /\ m_nItems' = m_nItems /\ SizeAhead = m_nBuckets
        /\ SizeAhead' = IF 2 * m_nItems > m_nBuckets THEN 2 * m_nBuckets ELSE m_nBuckets
    BY <1>5 DEF InsertFound, table, SizeAhead
  <2> QED
    BY <1>1, <2>1, LoadFacts DEF LoadKept
<1>6. ASSUME NEW a \in Addr \ live, InsertNew(a) PROVE LoadKept
  <2>1. /\ m_nItems' = m_nItems + 1 /\ SizeAhead = m_nBuckets
        /\ SizeAhead' = IF 2 * m_nItems' > m_nBuckets THEN 2 * m_nBuckets ELSE m_nBuckets
    BY <1>6 DEF InsertNew, SizeAhead
  <2>2. CASE 2 * m_nItems' > m_nBuckets
    <3>1. SizeAhead' = 2 * m_nBuckets
      BY <2>1, <2>2
    <3> QED
      BY <1>1, <2>1, <3>1, LoadFacts DEF LoadKept
  <2>3. CASE ~(2 * m_nItems' > m_nBuckets)
    BY <1>1, <2>1, <2>3 DEF LoadKept
  <2> QED
    BY <2>2, <2>3
<1>7. CASE Grow
  <2>1. m_nItems > Threshold(m_nBuckets) => 2 * m_nItems > m_nBuckets
    BY <1>1, LoadFacts
  <2>2. m_nItems' = m_nItems /\ SizeAhead' = SizeAhead
    BY <1>1, <1>7, <2>1 DEF Grow, BeginResize, table, SizeAhead
  <2> QED
    BY <1>2, <2>2
<1>8. CASE NextPrefix
  <2>1. /\ UNCHANGED <<m_nItems, m_nBuckets>> /\ pc' \in {"idle", "insert"}
        /\ pc = "grown" \/ (pc = "inserted" /\ m_nItems <= m_resizeThreshold)
    BY <1>8 DEF NextPrefix, BeginInsert, Return, table
  <2>2. m_nItems <= Threshold(m_nBuckets) => 2 * m_nItems <= m_nBuckets
    BY <1>1, LoadFacts
  <2>3. SizeAhead' = SizeAhead
    BY <1>1, <2>1, <2>2 DEF SizeAhead
  <2> QED
    BY <1>2, <2>1, <2>3
<1>9. CASE ResizeWalk \/ ResizeLink \/ ResizeNextBucket
  <2>1. m_nItems' = m_nItems /\ SizeAhead' = SizeAhead
    BY <1>9 DEF ResizeWalk, ResizeLink, ResizeNextBucket, table, SizeAhead
  <2> QED
    BY <1>2, <2>1
<1>10. CASE ResizeEnd
  <2>1. CASE count = m_nItems
    <3>1. m_nItems' = m_nItems /\ m_nBuckets' = newNBuckets /\ pc' \in {"idle", "grown"}
      BY <1>10, <2>1 DEF ResizeEnd, TypeInv, TypeOK
    <3>2. SizeAhead' = SizeAhead
      BY <1>10, <3>1 DEF ResizeEnd, SizeAhead
    <3> QED
      BY <1>2, <3>1, <3>2
  <2>2. CASE count # m_nItems
    BY <1>10, <2>2 DEF ResizeEnd, Stop, LoadKept
  <2> QED
    BY <2>1, <2>2
<1>11. CASE EraseEmpty
  <2>1. /\ m_nItems' = m_nItems - 1 /\ m_nBuckets' = m_nBuckets
        /\ pc = "erase" /\ pc' \in {"idle", "erase"}
    BY <1>11 DEF EraseEmpty, Discard, EraseParent, Return
  <2>2. SizeAhead' = SizeAhead
    BY <2>1 DEF SizeAhead
  <2> QED
    BY <1>1, <2>1, <2>2, LoadFacts DEF LoadKept
<1> QED
  BY <1>3, <1>4, <1>5, <1>6, <1>7, <1>8, <1>9, <1>10, <1>11 DEF Next, Call, Step

\* From any first size, and with any resizes by clients in between, no lookup()
\* leaves the table fuller than half, or than the last of these resizes had made
\* it: one doubling for each inserted prefix is enough.
THEOREM LoadIsBounded == Spec => LoadBounded
<1>1. Init => 2 * m_nItems <= SizeAhead
  BY SizeAssumption DEF Init, SizeAhead
<1>2. TreeInv /\ [Next]_vars => LoadKept
  BY LoadNext DEF TreeInv
<1>3. TreeInv /\ [Next]_vars => [LoadKept]_vars
  BY <1>2
<1> QED
  BY <1>1, <1>3, TreeCorrect, PTL DEF Spec, LoadBounded, LoadKept

-----------------------------------------------------------------------------
(* The queries: walks along the chains that are recursive functions.       *)

Iterable(N, S, x0, f) == N \in Nat /\ x0 \in S /\ f \in [S -> S]

\* A function can be applied any number of times in a row.
LEMMA Iterates ==
  ASSUME NEW N, NEW S, NEW x0, NEW f, Iterable(N, S, x0, f)
  PROVE  \E w \in [0 .. N -> S] : w[0] = x0 /\ \A k \in 1 .. N : w[k] = f[w[k - 1]]
<1> USE DEF Iterable
<1> DEFINE Iterated(w, m) == w[0] = x0 /\ \A k \in 1 .. m : w[k] = f[w[k - 1]]
           Bad == {m \in Nat : ~ \E w \in [0 .. m -> S] : Iterated(w, m)}
<1>1. ASSUME Bad # {} PROVE FALSE
  <2>1. PICK m \in Bad : \A k \in Bad : m <= k
    BY <1>1, LeastNat
  <2>2. m # 0
    <3>1. [k \in 0 .. 0 |-> x0] \in [0 .. 0 -> S] /\ Iterated([k \in 0 .. 0 |-> x0], 0)
      OBVIOUS
    <3> QED
      BY <3>1
  <2>3. m - 1 \in Nat /\ m - 1 \notin Bad
    <3>1. m \in Nat /\ ~(m <= m - 1)
      OBVIOUS
    <3> HIDE DEF Bad
    <3> QED
      BY <2>1, <2>2, <3>1
  <2>4. PICK w \in [0 .. m - 1 -> S] : Iterated(w, m - 1)
    BY <2>3
  <2> DEFINE v == [k \in 0 .. m |-> IF k = m THEN f[w[m - 1]] ELSE w[k]]
  <2>5. v \in [0 .. m -> S]
    BY <2>3
  <2>6. Iterated(v, m)
    <3>1. v[0] = x0
      BY <2>3, <2>4
    <3>2. ASSUME NEW k \in 1 .. m PROVE v[k] = f[v[k - 1]]
      <4>1. v[k - 1] = w[k - 1]
        BY <2>3
      <4>2. CASE k = m
        BY <4>1, <4>2, <2>3
      <4>3. CASE k # m
        <5>1. k \in 1 .. m - 1
          BY <2>3, <4>3
        <5> QED
          BY <2>4, <4>1, <4>3, <5>1
      <4> QED
        BY <4>2, <4>3
    <3> QED
      BY <3>1, <3>2
  <2> QED
    BY <2>1, <2>5, <2>6
<1> QED
  BY <1>1

\* One step of the search of findExactMatch(n).
SearchStep(n, x) == IF x \in live /\ m_prefix[x] # n THEN m_next[x] ELSE x

\* What findExactMatch() returns is the end of a walk of that many steps.
LEMMA ExactMatchWalk ==
  ASSUME TreeInv, NEW n \in Name, NEW N \in Nat, N = Cardinality(Addr)
  PROVE  \E w \in [0 .. N -> Pointer] :
           /\ w[0] = m_buckets[Location(n, m_nBuckets)]
           /\ \A k \in 1 .. N : w[k] = SearchStep(n, w[k - 1])
           /\ FindExactMatch(n) = w[N]
<1> DEFINE h == m_buckets[Location(n, m_nBuckets)]
           f == [x \in Pointer |-> SearchStep(n, x)]
           W(w) == [k \in 0 .. N |->
                      IF k = 0 THEN m_buckets[Location(n, m_nBuckets)]
                      ELSE LET x == w[k - 1]
                           IN IF x \in live /\ m_prefix[x] # n THEN m_next[x] ELSE x]
           walk == CHOOSE w : w = W(w)
<1>1. h \in Pointer /\ f \in [Pointer -> Pointer]
  BY ChainTypes, LocationInTable DEF SearchStep, Pointer
<1>2. \A x \in Pointer : f[x] = SearchStep(n, x)
  OBVIOUS
<1> HIDE DEF f, h
<1>3. PICK w \in [0 .. N -> Pointer] : w[0] = h /\ \A k \in 1 .. N : w[k] = f[w[k - 1]]
  <2>1. Iterable(N, Pointer, h, f)
    BY <1>1 DEF Iterable
  <2> QED
    BY <2>1, Iterates
<1>4. \A k \in 1 .. N : w[k] = SearchStep(n, w[k - 1])
  BY <1>2, <1>3
<1> USE DEF h
<1>5. w = W(w)
  BY <1>3, <1>4 DEF SearchStep
<1>6. walk = W(walk)
  BY <1>5
<1>7. FindExactMatch(n) = walk[N]
  BY DEF FindExactMatch
<1> HIDE DEF walk
<1>8. walk[0] = h /\ \A k \in 1 .. N : walk[k] = SearchStep(n, walk[k - 1])
  BY <1>6 DEF SearchStep
<1>9. walk \in [0 .. N -> Pointer]
  <2> DEFINE Bad == {k \in 0 .. N : walk[k] \notin Pointer}
  <2>1. ASSUME Bad # {} PROVE FALSE
    <3>1. Bad \in SUBSET Nat
      OBVIOUS
    <3>2. PICK k \in Bad : \A j \in Bad : k <= j
      BY <2>1, <3>1, LeastNat
    <3>3. k \in 1 .. N /\ k - 1 \in 0 .. N /\ k - 1 \notin Bad
      BY <1>1, <1>8, <3>2
    <3>4. walk[k] = f[walk[k - 1]]
      BY <1>2, <1>8, <3>3
    <3> QED
      BY <1>1, <3>2, <3>3, <3>4
  <2>2. walk = [k \in 0 .. N |-> walk[k]]
    BY <1>6
  <2> QED
    BY <2>1, <2>2
<1> QED
  BY <1>7, <1>8, <1>9

\* What is left of the chain behind a node has fewer nodes.
LEMMA ChainShrinks ==
  ASSUME TreeInv, ChainsSound, pc = "idle", NEW x \in live
  PROVE  /\ \A y \in Addr : Cardinality(Chain(y)) \in Nat
         /\ Cardinality(Chain(m_next[x])) \in Nat
         /\ Cardinality(Chain(m_next[x])) < Cardinality(Chain(x))
<1>1. Chained(live, m_buckets, m_next, m_prev, BucketIn(m_nBuckets))
  BY SoundChain
<1>2. x \notin Chain(m_next[x])
  BY <1>1, ChainTypes, ChainNoCycle
<1>3. x \in Pointer /\ x # Null /\ Chain(x) \subseteq Addr
  BY ChainTypes DEF Chain, Pointer
<1>4. x \in Chain(x) /\ \A y \in Chain(x) : m_next[y] \in Chain(x) \cup {Null}
  BY <1>3, ChainTypes, ChainCloses
<1>5. Chain(m_next[x]) \subseteq Chain(x)
  BY <1>3, <1>4, ChainWithin
<1>6. \A y : Cardinality(Chain(y)) \in Nat /\ IsFiniteSet(Chain(y))
  <2>1. \A y : Chain(y) \in SUBSET Addr
    BY DEF Chain
  <2> QED
    BY <2>1, HeapAssumption, FS_Subset, FS_CardinalityType
<1>7. /\ Cardinality(Chain(m_next[x])) <= Cardinality(Chain(x))
      /\ Cardinality(Chain(x)) = Cardinality(Chain(m_next[x])) => Chain(x) = Chain(m_next[x])
  BY <1>5, <1>6, FS_Subset
<1> QED
  BY <1>2, <1>4, <1>6, <1>7

\* Where the search for n is after k steps: at an entry of that name, or with at
\* most N - k nodes before it, and an entry of that name among them if there is one.
SearchInv(n, x, left) ==
  /\ x \in live \cup {Null}
  /\ (x \in live /\ m_prefix[x] = n) \/ Cardinality(Chain(x)) <= left
  /\ \A a \in live : m_prefix[a] = n => a \in Chain(x)

LEMMA SearchStepInv ==
  ASSUME TreeInv, ChainsSound, pc = "idle", NEW n \in Name,
         NEW x, NEW left \in Nat, SearchInv(n, x, left + 1)
  PROVE  SearchInv(n, SearchStep(n, x), left)
<1>1. CASE x = Null
  <2>1. Chain(x) = {} /\ Cardinality(Chain(x)) = 0 /\ SearchStep(n, x) = x
    BY <1>1, ChainOfNull, FS_EmptySet, ChainTypes DEF SearchStep
  <2> QED
    BY <1>1, <2>1 DEF SearchInv
<1>2. CASE x \in live /\ m_prefix[x] = n
  BY <1>2 DEF SearchInv, SearchStep
<1>3. CASE x \in live /\ m_prefix[x] # n
  <2>1. SearchStep(n, x) = m_next[x]
    BY <1>3 DEF SearchStep
  <2>2. m_next[x] \in live \cup {Null}
    BY <1>3, SoundChain DEF Chained, NextIn
  <2>3. Cardinality(Chain(m_next[x])) <= left
    <3>1. Cardinality(Chain(x)) <= left + 1
      BY <1>3 DEF SearchInv
    <3>2. x \in Addr
      BY <1>3, ChainTypes
    <3> QED
      BY <1>3, <3>1, <3>2, ChainShrinks
  <2>4. \A a \in live : m_prefix[a] = n => a \in Chain(m_next[x])
    BY <1>3, ChainTypes, ChainGoesOn DEF SearchInv
  <2> QED
    BY <2>1, <2>2, <2>3, <2>4 DEF SearchInv
<1> QED
  BY <1>1, <1>2, <1>3 DEF SearchInv

\* findExactMatch(n) returns the entry of that name, or null if there is none.
LEMMA ExactMatchFound ==
  ASSUME TreeInv, ChainsSound, pc = "idle", NEW n \in Name
  PROVE  IF \E a \in live : m_prefix[a] = n
         THEN FindExactMatch(n) \in live /\ m_prefix[FindExactMatch(n)] = n
         ELSE FindExactMatch(n) = Null
<1> DEFINE N == Cardinality(Addr)
           b == Location(n, m_nBuckets)
<1>1. N \in Nat
  BY HeapAssumption, FS_CardinalityType
<1>2. PICK w \in [0 .. N -> Pointer] :
        /\ w[0] = m_buckets[b]
        /\ \A k \in 1 .. N : w[k] = SearchStep(n, w[k - 1])
        /\ FindExactMatch(n) = w[N]
  BY <1>1, ExactMatchWalk
<1>3. b \in 0 .. m_nBuckets - 1
  BY ChainTypes, LocationInTable
<1>4. SearchInv(n, w[0], N)
  <2>1. m_buckets[b] \in live \cup {Null}
    BY <1>3, SoundChain, ChainTypes DEF Chained, HeadsIn
  <2>2. Chain(m_buckets[b]) = {a \in live : Location(m_prefix[a], m_nBuckets) = b}
    BY <1>3, SoundChain
  <2>3. Cardinality(Chain(m_buckets[b])) <= N
    BY HeapAssumption, FS_Subset DEF Chain
  <2> QED
    BY <1>2, <2>1, <2>2, <2>3 DEF SearchInv
<1> HIDE DEF N, b
<1> DEFINE Bad == {k \in Nat : k <= N /\ ~SearchInv(n, w[k], N - k)}
<1>5. ASSUME Bad # {} PROVE FALSE
  <2>1. PICK k \in Bad : \A j \in Bad : k <= j
    BY <1>5, LeastNat
  <2>2. k \in Nat /\ k <= N /\ ~SearchInv(n, w[k], N - k)
    OBVIOUS
  <2>3. k # 0
    BY <1>1, <1>4, <2>2
  <2>4. k - 1 \notin Bad /\ k - 1 \in Nat /\ k - 1 <= N /\ k \in 1 .. N
    <3>1. k - 1 \in Nat /\ ~(k <= k - 1) /\ k - 1 <= N /\ k \in 1 .. N
      BY <1>1, <2>2, <2>3
    <3> HIDE DEF Bad
    <3> QED
      BY <2>1, <3>1
  <2>5. SearchInv(n, w[k - 1], (N - k) + 1) /\ N - k \in Nat
    <3>1. N - (k - 1) = (N - k) + 1 /\ N - k \in Nat
      BY <1>1, <2>2, <2>4
    <3>2. SearchInv(n, w[k - 1], N - (k - 1))
      BY <2>4
    <3> QED
      BY <3>1, <3>2
  <2> QED
    BY <1>2, <2>2, <2>4, <2>5, SearchStepInv
<1>6. SearchInv(n, w[N], 0)
  <2>1. N \notin Bad
    BY <1>5
  <2>2. SearchInv(n, w[N], N - N)
    BY <1>1, <2>1
  <2> QED
    BY <1>1, <2>2, N - N = 0
<1>7. CASE w[N] \in live /\ m_prefix[w[N]] = n
  BY <1>2, <1>7
<1>8. CASE ~(w[N] \in live /\ m_prefix[w[N]] = n)
  <2>1. Chain(w[N]) = {}
    <3>1. Cardinality(Chain(w[N])) <= 0
      BY <1>6, <1>8 DEF SearchInv
    <3>2. IsFiniteSet(Chain(w[N])) /\ Cardinality(Chain(w[N])) \in Nat
      <4>1. Chain(w[N]) \in SUBSET Addr
        BY DEF Chain
      <4> QED
        BY <4>1, HeapAssumption, FS_Subset, FS_CardinalityType
    <3> QED
      BY <3>1, <3>2, FS_EmptySet
  <2>2. w[N] = Null
    BY <1>1, <1>2, <2>1, ChainTypes, ChainCloses
  <2>3. ~ \E a \in live : m_prefix[a] = n
    BY <1>6, <2>1 DEF SearchInv
  <2> QED
    BY <1>2, <2>2, <2>3
<1> QED
  BY <1>7, <1>8

\* A prefix of a name is a prefix of all its longer prefixes.
LEMMA PrefixOfPrefix ==
  ASSUME NEW n \in Name, NEW k \in 0 .. Len(n), NEW j \in 0 .. k
  PROVE  IsPrefix(GetPrefix(n, j), GetPrefix(n, k))
<1>1. n \in Seq(Component) /\ Len(n) \in Nat /\ j \in 0 .. Len(n)
  BY NameAssumption, LenProperties
<1>2. Len(GetPrefix(n, j)) = j /\ Len(GetPrefix(n, k)) = k
  BY <1>1, PrefixFacts
<1>3. GetPrefix(GetPrefix(n, k), j) = GetPrefix(n, j)
  BY <1>1, InitialFacts DEF GetPrefix, Initial
<1> QED
  BY <1>2, <1>3 DEF IsPrefix

\* The stored entries that findLongestPrefixMatch() can return.
Matches(n, selector) ==
  {a \in live : m_prefix[a] \in selector /\ IsPrefix(m_prefix[a], n)}

\* It returns one that has all others above it.
LEMMA LongestMatchFound ==
  ASSUME TreeInv, ChainsSound, pc = "idle", NEW n \in Name, NEW selector
  PROVE  IF Matches(n, selector) = {}
         THEN FindLongestPrefixMatch(n, selector) = Null
         ELSE /\ FindLongestPrefixMatch(n, selector) \in Matches(n, selector)
              /\ \A a \in Matches(n, selector) :
                   IsPrefix(m_prefix[a], m_prefix[FindLongestPrefixMatch(n, selector)])
<1> DEFINE K == {k \in 0 .. Len(n) : /\ FindExactMatch(GetPrefix(n, k)) # Null
                                     /\ GetPrefix(n, k) \in selector}
           longest == CHOOSE k \in K : \A j \in K : j <= k
           best == FindExactMatch(GetPrefix(n, longest))
<1>1. /\ Len(n) \in Nat
      /\ \A k \in 0 .. Len(n) : GetPrefix(n, k) \in Name /\ Len(GetPrefix(n, k)) = k
  BY NameAssumption, LenProperties, PrefixFacts
<1>2. FindLongestPrefixMatch(n, selector) = IF K = {} THEN Null ELSE best
  BY DEF FindLongestPrefixMatch
<1>3. ASSUME NEW k \in K
      PROVE  /\ FindExactMatch(GetPrefix(n, k)) \in Matches(n, selector)
             /\ m_prefix[FindExactMatch(GetPrefix(n, k))] = GetPrefix(n, k)
  <2>1. /\ FindExactMatch(GetPrefix(n, k)) \in live
        /\ m_prefix[FindExactMatch(GetPrefix(n, k))] = GetPrefix(n, k)
    BY <1>1, ExactMatchFound
  <2>2. IsPrefix(GetPrefix(n, k), n)
    BY <1>1 DEF IsPrefix
  <2> QED
    BY <2>1, <2>2 DEF Matches
<1>4. ASSUME NEW a \in Matches(n, selector)
      PROVE  Len(m_prefix[a]) \in K /\ m_prefix[a] = GetPrefix(n, Len(m_prefix[a]))
  <2>1. m_prefix[a] \in Name /\ a \in live /\ m_prefix[a] \in selector
    BY ChainTypes DEF Matches
  <2>2. Len(m_prefix[a]) \in 0 .. Len(n) /\ m_prefix[a] = GetPrefix(n, Len(m_prefix[a]))
    BY <1>1, <2>1, NameAssumption, LenProperties DEF Matches, IsPrefix
  <2>3. FindExactMatch(m_prefix[a]) # Null
    BY <2>1, ExactMatchFound, ChainTypes
  <2> QED
    BY <2>1, <2>2, <2>3
<1> HIDE DEF K
<1>5. CASE K = {}
  BY <1>2, <1>4, <1>5
<1>6. CASE K # {}
  <2>1. K \in SUBSET (0 .. Len(n))
    BY DEF K
  <2>2. longest \in K /\ \A j \in K : j <= longest
    BY <1>1, <1>6, <2>1, GreatestNat
  <2> HIDE DEF longest
  <2>3. best \in Matches(n, selector) /\ m_prefix[best] = GetPrefix(n, longest)
    BY <1>3, <2>2
  <2>4. ASSUME NEW a \in Matches(n, selector)
        PROVE  IsPrefix(m_prefix[a], m_prefix[best])
    <3>1. Len(m_prefix[a]) \in 0 .. longest /\ longest \in 0 .. Len(n)
      BY <1>1, <1>4, <2>1, <2>2
    <3> QED
      BY <1>4, <2>3, <3>1, PrefixOfPrefix
  <2> QED
    BY <1>2, <1>6, <2>3, <2>4
<1> QED
  BY <1>5, <1>6

\* Between calls findExactMatch() finds what is stored and nothing else, and
\* findLongestPrefixMatch() the longest match that its selector accepts, as long
\* as no node was unlinked through a wrong m_prev.
THEOREM QueriesAreExact == Spec => []QueriesMatchStored
<1>1. ChainInv => QueriesMatchStored
  <2> SUFFICES ASSUME ChainInv, pc = "idle", ~damaged, NEW n \in Name
               PROVE  /\ FindExactMatch(n) =
                           IF \E a \in live : m_prefix[a] = n
                           THEN CHOOSE a \in live : m_prefix[a] = n ELSE Null
                      /\ \A selector \in SUBSET Name :
                           LET found == FindLongestPrefixMatch(n, selector)
                               matches == Matches(n, selector)
                           IN IF matches = {} THEN found = Null
                              ELSE /\ found \in matches
                                   /\ \A a \in matches :
                                        IsPrefix(m_prefix[a], m_prefix[found])
    BY DEF QueriesMatchStored, Matches
  <2>1. TreeInv /\ ChainsSound
    BY DEF ChainInv, ChainsCorrect
  <2>2. FindExactMatch(n) =
          IF \E a \in live : m_prefix[a] = n
          THEN CHOOSE a \in live : m_prefix[a] = n ELSE Null
    <3>1. CASE \E a \in live : m_prefix[a] = n
      <4>1. FindExactMatch(n) \in live /\ m_prefix[FindExactMatch(n)] = n
        BY <2>1, <3>1, ExactMatchFound
      <4>2. \A a \in live : m_prefix[a] = n => a = FindExactMatch(n)
        BY <2>1, <4>1 DEF ChainsSound
      <4>3. (CHOOSE a \in live : m_prefix[a] = n) = FindExactMatch(n)
        BY <4>1, <4>2
      <4> QED
        BY <3>1, <4>3
    <3>2. CASE ~ \E a \in live : m_prefix[a] = n
      BY <2>1, <3>2, ExactMatchFound
    <3> QED
      BY <3>1, <3>2
  <2> QED
    BY <2>1, <2>2, LongestMatchFound
<1> QED
  BY <1>1, ChainCorrect, PTL

-----------------------------------------------------------------------------
(* dump(): a walk along each chain, chain after chain.                     *)

Walked == [at : Pointer, passed : Seq(Addr)]

\* One step of the walk of dump().
ListStep(x) ==
  IF x.at \in live THEN [at |-> m_next[x.at], passed |-> Append(x.passed, x.at)] ELSE x

\* What dump() lists of a bucket is what a walk of that many steps has passed.
LEMMA ListingWalk ==
  ASSUME TreeInv, NEW b \in 0 .. m_nBuckets - 1, NEW N \in Nat, N = Cardinality(Addr)
  PROVE  \E w \in [0 .. N -> Walked] :
           /\ w[0] = [at |-> m_buckets[b], passed |-> <<>>]
           /\ \A k \in 1 .. N : w[k] = ListStep(w[k - 1])
           /\ ChainEntries(b) = w[N].passed
<1> DEFINE h == [at |-> m_buckets[b], passed |-> <<>>]
           f == [x \in Walked |-> ListStep(x)]
           W(w) == [k \in 0 .. N |->
                      IF k = 0 THEN [at |-> m_buckets[b], passed |-> <<>>]
                      ELSE LET x == w[k - 1]
                           IN IF x.at \in live
                              THEN [at |-> m_next[x.at], passed |-> Append(x.passed, x.at)]
                              ELSE x]
           walk == CHOOSE w : w = W(w)
<1>0. ChainEntries(b) = walk[N].passed
  BY DEF ChainEntries
<1>1. h \in Walked
  BY ChainTypes, EmptySeq DEF Walked
<1>2. \A x \in Walked : ListStep(x) \in Walked
  <2> SUFFICES ASSUME NEW x \in Walked, x.at \in live PROVE ListStep(x) \in Walked
    BY DEF ListStep
  <2>1. x.at \in Addr /\ x.passed \in Seq(Addr) /\ m_next[x.at] \in Pointer
    BY ChainTypes DEF Walked
  <2>2. Append(x.passed, x.at) \in Seq(Addr)
    BY <2>1, AppendProperties
  <2> QED
    BY <2>1, <2>2 DEF ListStep, Walked
<1>3. f \in [Walked -> Walked] /\ \A x \in Walked : f[x] = ListStep(x)
  BY <1>2
<1> HIDE DEF f, h
<1>4. PICK w \in [0 .. N -> Walked] : w[0] = h /\ \A k \in 1 .. N : w[k] = f[w[k - 1]]
  <2>1. Iterable(N, Walked, h, f)
    BY <1>1, <1>3 DEF Iterable
  <2> QED
    BY <2>1, Iterates
<1>5. \A k \in 1 .. N : w[k] = ListStep(w[k - 1])
  BY <1>3, <1>4
<1>6. w = W(w)
  <2>1. ASSUME NEW k \in 0 .. N PROVE w[k] = W(w)[k]
    <3>1. CASE k = 0
      BY <1>4, <3>1 DEF h
    <3>2. CASE k # 0
      <4>1. k \in 1 .. N
        BY <3>2
      <4> QED
        BY <1>5, <3>2, <4>1 DEF ListStep
    <3> QED
      BY <3>1, <3>2
  <2>2. w = [k \in 0 .. N |-> w[k]]
    BY <1>4
  <2> HIDE DEF W
  <2>3. [k \in 0 .. N |-> w[k]] = [k \in 0 .. N |-> W(w)[k]]
    BY <2>1
  <2>4. W(w) = [k \in 0 .. N |-> W(w)[k]]
    BY DEF W
  <2> QED
    BY <2>2, <2>3, <2>4
<1> HIDE DEF W
<1>7. walk = W(walk)
  BY <1>6
<1> HIDE DEF walk
<1>8. walk[0] = h /\ \A k \in 1 .. N : walk[k] = ListStep(walk[k - 1])
  <2>1. 0 \in 0 .. N /\ \A k \in 1 .. N : k \in 0 .. N /\ k # 0
    OBVIOUS
  <2>2. walk[0] = W(walk)[0] /\ \A k \in 1 .. N : walk[k] = W(walk)[k]
    BY <1>7
  <2>3. W(walk)[0] = h /\ \A k \in 1 .. N : W(walk)[k] = ListStep(walk[k - 1])
    BY <2>1 DEF ListStep, h, W
  <2> QED
    BY <2>2, <2>3
<1>9. walk \in [0 .. N -> Walked]
  <2> DEFINE A == {k \in 0 .. N : walk[k] \in Walked}
  <2>1. 0 \in A
    BY <1>1, <1>8
  <2>2. ASSUME NEW k \in 0 + 1 .. N, k - 1 \in A PROVE k \in A
    <3>1. k \in 1 .. N /\ k \in 0 .. N /\ walk[k - 1] \in Walked
      BY <2>2
    <3> QED
      BY <1>2, <1>8, <3>1
  <2> HIDE DEF A
  <2>3. 0 .. N \subseteq A
    <3>1. 0 \in Int /\ N \in Int
      OBVIOUS
    <3>2. \A k \in 0 + 1 .. N : k - 1 \in A => k \in A
      BY <2>2
    <3> QED
      BY ONLY <2>1, <3>1, <3>2, FromTheLeast
  <2>4. \A k \in 0 .. N : walk[k] \in Walked
    BY <2>3 DEF A
  <2>5. walk = [k \in 0 .. N |-> walk[k]]
    BY <1>7 DEF W
  <2> QED
    BY <2>4, <2>5
<1> QED
  BY <1>0, <1>8, <1>9 DEF h

\* The walk over S has passed every node once that is not ahead of it, and at
\* most that many are left.
ListInv(S, x, left) ==
  /\ x \in Walked /\ x.at \in live \cup {Null}
  /\ Injective(x.passed)
  /\ Elements(x.passed) \cap Chain(x.at) = {}
  /\ Elements(x.passed) \cup Chain(x.at) = S
  /\ Cardinality(Chain(x.at)) <= left

LEMMA ListStepInv ==
  ASSUME TreeInv, ChainsSound, pc = "idle",
         NEW S, NEW x, NEW left \in Nat, ListInv(S, x, left + 1)
  PROVE  ListInv(S, ListStep(x), left)
<1> USE DEF ListInv
<1>1. CASE x.at = Null
  <2>1. /\ Chain(x.at) = {} /\ Cardinality(Chain(x.at)) = 0 /\ ListStep(x) = x
    BY <1>1, ChainOfNull, FS_EmptySet, ChainTypes DEF ListStep
  <2> QED
    BY <1>1, <2>1
<1>2. CASE x.at \in live
  <2> DEFINE a == x.at
             y == ListStep(x)
  <2>1. a \in live /\ a \in Addr /\ x.passed \in Seq(Addr) /\ a \in Pointer /\ a # Null
    BY <1>2, ChainTypes DEF Walked, Pointer
  <2>2. Chained(live, m_buckets, m_next, m_prev, BucketIn(m_nBuckets))
    BY SoundChain
  <2>3. m_next[a] \in live \cup {Null} /\ m_next[a] \in Pointer
    BY <2>1, <2>2, ChainTypes DEF Chained, NextIn
  <2>4. y = [at |-> m_next[a], passed |-> Append(x.passed, a)]
    BY <1>2 DEF ListStep
  <2>5. a \in Chain(a) /\ Chain(m_next[a]) \subseteq Chain(a)
    <3>1. a \in Chain(a) /\ \A z \in Chain(a) : m_next[z] \in Chain(a) \cup {Null}
      BY <2>1, ChainTypes, ChainCloses
    <3>2. Chain(a) \in SUBSET Addr
      BY DEF Chain
    <3>3. m_next[a] \in Chain(a) \cup {Null}
      BY <3>1
    <3> HIDE DEF a
    <3> QED
      BY <3>1, <3>2, <3>3, ChainWithin
  <2>6. Chain(a) \subseteq {a} \cup Chain(m_next[a])
    BY <2>1, ChainGoesOn
  <2>7. a \notin Chain(m_next[a])
    BY <2>1, <2>2, ChainTypes, ChainNoCycle
  <2>8. a \notin Elements(x.passed)
    BY <2>5
  <2>9. /\ Append(x.passed, a) \in Seq(Addr) /\ Injective(Append(x.passed, a))
        /\ Elements(Append(x.passed, a)) = Elements(x.passed) \cup {a}
    BY <2>1, <2>8, AppendFacts
  <2>10. Cardinality(Chain(m_next[a])) <= left
    <3>1. Cardinality(Chain(a)) <= left + 1
      OBVIOUS
    <3> HIDE DEF a
    <3> QED
      BY <2>1, <3>1, ChainShrinks
  <2>11. y.at = m_next[a] /\ y.passed = Append(x.passed, a) /\ y \in Walked
    BY <2>3, <2>4, <2>9 DEF Walked
  <2> HIDE DEF a, y
  <2>12. /\ Elements(y.passed) \cap Chain(y.at) = {}
         /\ Elements(y.passed) \cup Chain(y.at) = S
    BY <2>5, <2>6, <2>7, <2>9, <2>11 DEF a
  <2> QED
    BY <2>3, <2>9, <2>10, <2>11, <2>12 DEF y
<1> QED
  BY <1>1, <1>2

\* dump() goes over the entries of a bucket, each of them once.
LEMMA ChainEntriesFacts ==
  ASSUME TreeInv, ChainsSound, pc = "idle", NEW b \in 0 .. m_nBuckets - 1
  PROVE  /\ ChainEntries(b) \in Seq(Addr) /\ Injective(ChainEntries(b))
         /\ Elements(ChainEntries(b)) =
              {a \in live : Location(m_prefix[a], m_nBuckets) = b}
<1> DEFINE h == m_buckets[b]
<1>1. PICK N \in Nat : N = Cardinality(Addr)
  BY HeapAssumption, FS_CardinalityType
<1>2. PICK w \in [0 .. N -> Walked] :
        /\ w[0] = [at |-> m_buckets[b], passed |-> <<>>]
        /\ \A k \in 1 .. N : w[k] = ListStep(w[k - 1])
        /\ ChainEntries(b) = w[N].passed
  BY <1>1, ListingWalk
<1>3. Chain(h) = {a \in live : Location(m_prefix[a], m_nBuckets) = b}
  BY SoundChain
<1>4. h \in live \cup {Null}
  <2>1. Chained(live, m_buckets, m_next, m_prev, BucketIn(m_nBuckets))
    BY SoundChain
  <2> QED
    BY <2>1, ChainTypes DEF Chained, HeadsIn
<1> DEFINE A == {k \in 0 .. N : ListInv(Chain(h), w[k], N - k)}
<1>5. 0 \in A
  <2>1. w[0].at = h /\ w[0].passed = <<>> /\ w[0] \in Walked /\ 0 \in 0 .. N
    BY <1>2
  <2>2. Injective(w[0].passed) /\ Elements(w[0].passed) = {}
    BY <2>1, EmptyList
  <2>3. Cardinality(Chain(h)) <= N - 0
    <3>1. Chain(h) \in SUBSET Addr
      BY DEF Chain
    <3> QED
      BY <1>1, <3>1, HeapAssumption, FS_Subset
  <2> HIDE DEF h
  <2> QED
    BY <1>4, <2>1, <2>2, <2>3 DEF ListInv
<1>6. ASSUME NEW k \in 0 + 1 .. N, k - 1 \in A PROVE k \in A
  <2>1. k \in 1 .. N /\ k \in 0 .. N /\ N - k \in Nat /\ N - (k - 1) = (N - k) + 1
    OBVIOUS
  <2>2. ListInv(Chain(h), w[k - 1], (N - k) + 1)
    BY <1>6, <2>1
  <2>3. ListInv(Chain(h), ListStep(w[k - 1]), N - k)
    BY <2>1, <2>2, ListStepInv
  <2> QED
    BY <1>2, <2>1, <2>3
<1> HIDE DEF A, h
<1>7. N \in A
  <2>1. 0 \in Int /\ N \in Int
    OBVIOUS
  <2>2. \A k \in 0 + 1 .. N : k - 1 \in A => k \in A
    BY <1>6
  <2>3. 0 .. N \subseteq A
    BY ONLY <1>5, <2>1, <2>2, FromTheLeast
  <2> QED
    BY <2>3
<1>8. ListInv(Chain(h), w[N], 0)
  BY <1>7 DEF A
<1>9. Chain(w[N].at) = {}
  <2>1. Chain(w[N].at) \in SUBSET Addr
    BY DEF Chain
  <2>2. /\ IsFiniteSet(Chain(w[N].at)) /\ Cardinality(Chain(w[N].at)) \in Nat
    BY <2>1, HeapAssumption, FS_Subset, FS_CardinalityType
  <2> QED
    BY <1>8, <2>2, FS_EmptySet DEF ListInv
<1>10. ChainEntries(b) \in Seq(Addr)
  BY <1>2 DEF Walked
<1> QED
  BY <1>2, <1>3, <1>8, <1>9, <1>10 DEF ListInv

\* The entries of the first k buckets.
InBuckets(k) == {a \in live : Location(m_prefix[a], m_nBuckets) < k}

\* What dump() lists after k buckets.
LEMMA ListingRounds ==
  ASSUME TreeInv, ChainsSound, pc = "idle"
  PROVE  \E w \in [0 .. m_nBuckets -> Seq(Addr)] :
           /\ w[0] = <<>>
           /\ \A k \in 1 .. m_nBuckets : w[k] = w[k - 1] \o ChainEntries(k - 1)
           /\ AllEntries = w[m_nBuckets]
<1> DEFINE N == m_nBuckets
           listed == [k \in 1 .. N |-> ChainEntries(k - 1)]
           how == [k \in 1 .. N |-> "behind"]
           W(w) == [k \in 0 .. N |->
                      IF k = 0 THEN <<>> ELSE w[k - 1] \o ChainEntries(k - 1)]
           V(w) == [k \in 0 .. N |->
                      IF k = 0 THEN <<>> ELSE Round(how[k], w[k - 1], listed[k])]
           upTo == CHOOSE w : w = W(w)
           all == Collected(0, N, how, listed)
<1>1. N \in Nat
  BY ChainTypes
<1>2. \A k \in 1 .. N : listed[k] = ChainEntries(k - 1) /\ listed[k] \in Seq(Addr)
  <2>1. \A k \in 1 .. N : k - 1 \in 0 .. m_nBuckets - 1
    BY <1>1
  <2> QED
    BY <2>1, ChainEntriesFacts
<1>3. AllEntries = upTo[N]
  BY DEF AllEntries
<1> HIDE DEF N, listed
<1>4. \A k \in 1 .. N : \A x : Round(how[k], x, listed[k]) = x \o listed[k]
  BY DEF Round
<1> HIDE DEF how
<1>5. \A w : W(w) = V(w)
  <2> TAKE w
  <2>1. ASSUME NEW k \in 0 .. N PROVE W(w)[k] = V(w)[k]
    <3>1. CASE k = 0
      BY <3>1
    <3>2. CASE k # 0
      <4>1. k \in 1 .. N
        BY <1>1, <3>2
      <4>2. Round(how[k], w[k - 1], listed[k]) = w[k - 1] \o ChainEntries(k - 1)
        BY <1>2, <1>4, <4>1
      <4> QED
        BY <3>2, <4>2
    <3> QED
      BY <3>1, <3>2
  <2>2. W(w) = [k \in 0 .. N |-> W(w)[k]] /\ V(w) = [k \in 0 .. N |-> V(w)[k]]
    OBVIOUS
  <2> HIDE DEF W, V
  <2> QED
    BY <2>1, <2>2
<1>6. upTo = all
  <2>1. all = CHOOSE w : w = V(w)
    BY DEF Collected
  <2> HIDE DEF W, V, all
  <2> QED
    BY <1>5, <2>1, Zenon
<1> HIDE DEF W, upTo
<1>7. Yield(0, N, how, listed, Addr)
  <2>1. \A k \in 1 .. N : \A x \in Seq(Addr) : x \o listed[k] \in Seq(Addr)
    BY <1>2, ConcatProperties
  <2>2. \A k \in 0 + 1 .. N : k \in 1 .. N
    BY <1>1
  <2>3. \A k \in 0 + 1 .. N : \A x \in Seq(Addr) : Round(how[k], x, listed[k]) \in Seq(Addr)
    BY <1>4, <2>1, <2>2
  <2> QED
    BY <1>1, <2>3 DEF Yield
<1> HIDE DEF all
<1>8. /\ all \in [0 .. N -> Seq(Addr)] /\ all[0] = <<>>
      /\ \A k \in 0 + 1 .. N : all[k] = Round(how[k], all[k - 1], listed[k])
  BY ONLY <1>7, RoundsCollect DEF all
<1>9. ASSUME NEW k \in 1 .. N PROVE all[k] = all[k - 1] \o ChainEntries(k - 1)
  <2>1. k \in 0 + 1 .. N
    BY <1>1
  <2> QED
    BY <1>2, <1>4, <1>8, <2>1
<1> QED
  BY <1>3, <1>6, <1>8, <1>9 DEF N

\* dump() goes over all entries, each of them once.
LEMMA AllEntriesFacts ==
  ASSUME TreeInv, ChainsSound, pc = "idle"
  PROVE  /\ AllEntries \in Seq(Addr) /\ Injective(AllEntries)
         /\ Elements(AllEntries) = live
<1> DEFINE N == m_nBuckets
<1>1. PICK w \in [0 .. N -> Seq(Addr)] :
           /\ w[0] = <<>>
           /\ \A k \in 1 .. N : w[k] = w[k - 1] \o ChainEntries(k - 1)
           /\ AllEntries = w[N]
  BY ListingRounds
<1>2. N \in Nat /\ \A a \in live : Location(m_prefix[a], m_nBuckets) \in 0 .. N - 1
  BY ChainTypes, LocationInTable
<1>3. ASSUME NEW k \in 1 .. N
      PROVE  /\ ChainEntries(k - 1) \in Seq(Addr) /\ Injective(ChainEntries(k - 1))
             /\ InBuckets(k - 1) \cap Elements(ChainEntries(k - 1)) = {}
             /\ InBuckets(k - 1) \cup Elements(ChainEntries(k - 1)) = InBuckets(k)
  <2>1. k - 1 \in 0 .. m_nBuckets - 1
    BY <1>2
  <2>2. /\ ChainEntries(k - 1) \in Seq(Addr) /\ Injective(ChainEntries(k - 1))
        /\ Elements(ChainEntries(k - 1)) =
             {a \in live : Location(m_prefix[a], m_nBuckets) = k - 1}
    BY <2>1, ChainEntriesFacts
  <2>3. \A a \in live : Location(m_prefix[a], m_nBuckets) < k <=>
                          \/ Location(m_prefix[a], m_nBuckets) < k - 1
                          \/ Location(m_prefix[a], m_nBuckets) = k - 1
    <3> SUFFICES ASSUME NEW l \in 0 .. N - 1
                 PROVE  l < k <=> l < k - 1 \/ l = k - 1
      BY <1>2
    <3> QED
      BY <1>2
  <2>4. \A a \in live : ~(/\ Location(m_prefix[a], m_nBuckets) < k - 1
                          /\ Location(m_prefix[a], m_nBuckets) = k - 1)
    BY <1>2
  <2> QED
    BY <2>2, <2>3, <2>4 DEF InBuckets
<1> DEFINE A == {k \in 0 .. N : Elements(w[k]) = InBuckets(k) /\ Injective(w[k])}
<1> HIDE DEF N
<1>4. 0 \in A
  <2>1. Elements(w[0]) = {} /\ Injective(w[0]) /\ 0 \in 0 .. N
    BY <1>1, <1>2, EmptyList
  <2>2. InBuckets(0) = {}
    BY <1>2 DEF InBuckets
  <2> QED
    BY <2>1, <2>2
<1>5. ASSUME NEW k \in 0 + 1 .. N, k - 1 \in A PROVE k \in A
  <2>1. k \in 1 .. N /\ k - 1 \in 0 .. N /\ k \in 0 .. N
    BY <1>2
  <2>2. /\ w[k - 1] \in Seq(Addr) /\ Injective(w[k - 1])
        /\ Elements(w[k - 1]) = InBuckets(k - 1)
    BY <1>1, <1>5, <2>1
  <2>3. w[k] = w[k - 1] \o ChainEntries(k - 1)
    BY <1>1, <2>1
  <2>4. /\ Elements(w[k]) = InBuckets(k - 1) \cup Elements(ChainEntries(k - 1))
        /\ Injective(w[k])
    BY <1>3, <2>1, <2>2, <2>3, ConcatFacts
  <2> QED
    BY <1>3, <2>1, <2>4
<1> HIDE DEF A
<1>6. N \in A
  <2>1. 0 \in Int /\ N \in Int /\ N \in 0 .. N
    BY <1>2
  <2>2. \A k \in 0 + 1 .. N : k - 1 \in A => k \in A
    BY <1>5
  <2>3. 0 .. N \subseteq A
    BY ONLY <1>4, <2>1, <2>2, FromTheLeast
  <2> QED
    BY <2>1, <2>3
<1>7. InBuckets(N) = live
  BY <1>2 DEF InBuckets
<1>8. w[N] \in Seq(Addr)
  BY <1>1, <1>2
<1> QED
  BY <1>1, <1>6, <1>7, <1>8 DEF A

\* Between calls dump() writes one line for every entry, as many as the total it
\* ends with and each of another name, and every parent and child that a line
\* names has a line that names it back, as long as no node was unlinked through a
\* wrong m_prev.
THEOREM DumpIsATree == Spec => []DumpShowsTree
<1>1. ChainInv => DumpShowsTree
  <2> SUFFICES ASSUME ChainInv, pc = "idle", ~damaged
               PROVE  LET lines == Dump
                          Shown == {lines[k] : k \in DOMAIN lines}
                      IN /\ Len(lines) = m_nItems
                         /\ Cardinality({l.prefix : l \in Shown}) = m_nItems
                         /\ \A l \in Shown :
                              /\ \A k \in DOMAIN l.children :
                                   \E m \in Shown :
                                     m.prefix = l.children[k] /\ m.parent = {l.prefix}
                              /\ \A n \in l.parent :
                                   \E m \in Shown :
                                     /\ m.prefix = n
                                     /\ \E k \in DOMAIN m.children :
                                          m.children[k] = l.prefix
    BY DEF DumpShowsTree
  <2> DEFINE E == AllEntries
             N == Len(E)
             Shown == {Dump[k] : k \in DOMAIN Dump}
             names == {l.prefix : l \in Shown}
  <2>1. TreeInv /\ ChainsSound
    BY DEF ChainInv, ChainsCorrect
  <2>2. E \in Seq(Addr) /\ Injective(E) /\ Elements(E) = live
    BY <2>1, AllEntriesFacts
  <2>3. N \in Nat /\ DOMAIN E = 1 .. N
    BY <2>2, LenProperties
  <2>4. Dump = [k \in 1 .. N |-> Line(E[k])]
    BY <2>3 DEF Dump
  <2>5. Len(Dump) = N
    BY <2>3, <2>4
  <2>6. Cardinality(live) = N
    <3>1. E \in [1 .. N -> live]
      BY <2>2, <2>3 DEF Elements
    <3>2. E \in Bijection(1 .. N, live)
      BY <2>2, <2>3, <3>1, Zenon DEF Bijection, Injection, Surjection, IsInjective, Injective, Elements
    <3> QED
      BY <2>3, <3>2, FS_CountingElements DEF ExistsBijection
  <2>7. m_nItems = N
    BY <2>1, <2>6 DEF TreeInv, SizeCountsEntries
  <2>8. Shown = {Line(a) : a \in live}
    <3>1. Shown = {Line(E[k]) : k \in 1 .. N}
      BY <2>4
    <3>2. live = {E[k] : k \in 1 .. N}
      BY <2>2, <2>3 DEF Elements
    <3> QED
      BY ONLY <3>1, <3>2
  <2> HIDE DEF E, N, Shown
  <2>9. Cardinality(names) = N
    <3> DEFINE f == [a \in live |-> m_prefix[a]]
    <3>1. names = {m_prefix[a] : a \in live}
      <4>1. \A a : Line(a).prefix = m_prefix[a]
        BY DEF Line
      <4>2. names = {l.prefix : l \in {Line(a) : a \in live}}
        BY <2>8
      <4> QED
        BY ONLY <4>1, <4>2
    <3> HIDE DEF names
    <3>2. f \in Bijection(live, names)
      <4>1. \A a, c \in live : f[a] = f[c] => a = c
        BY <2>1 DEF ChainsSound
      <4>2. f \in [live -> names] /\ \A n \in names : \E a \in live : f[a] = n
        BY <3>1
      <4> HIDE DEF f
      <4> QED
        BY <4>1, <4>2 DEF Bijection, Injection, Surjection, IsInjective
    <3>3. IsFiniteSet(live)
      BY <2>1, ChainTypes, HeapAssumption, FS_Subset
    <3> QED
      BY <2>6, <3>2, <3>3, FS_Bijection DEF ExistsBijection
  <2>10. ASSUME NEW l \in Shown
         PROVE  /\ \A k \in DOMAIN l.children :
                     \E m \in Shown : m.prefix = l.children[k] /\ m.parent = {l.prefix}
                /\ \A n \in l.parent :
                     \E m \in Shown : /\ m.prefix = n
                                      /\ \E k \in DOMAIN m.children :
                                           m.children[k] = l.prefix
    <3>1. PICK a \in live : l = Line(a)
      BY <2>8
    <3>2. HasParent(a) /\ HasChildren(a)
      BY <2>1 DEF TreeInv, TreeConsistent
    <3>3. ASSUME NEW k \in DOMAIN l.children
          PROVE  \E m \in Shown : m.prefix = l.children[k] /\ m.parent = {l.prefix}
      <4> DEFINE c == m_children[a][k]
      <4>1. k \in DOMAIN m_children[a] /\ l.children[k] = m_prefix[c]
        BY <3>1, <3>3 DEF Line
      <4>2. c \in live /\ m_parent[c] = a /\ a # Null
        BY <2>1, <3>2, <4>1, ChainTypes DEF HasChildren
      <4>3. Line(c) \in Shown
        BY <2>8, <4>2
      <4>4. Line(c).prefix = m_prefix[c] /\ Line(c).parent = {m_prefix[a]}
        BY <4>2 DEF Line
      <4>5. l.prefix = m_prefix[a]
        BY <3>1 DEF Line
      <4> QED
        BY <4>1, <4>3, <4>4, <4>5
    <3>4. ASSUME NEW n \in l.parent
          PROVE  \E m \in Shown : /\ m.prefix = n
                                  /\ \E k \in DOMAIN m.children :
                                       m.children[k] = l.prefix
      <4> DEFINE up == m_parent[a]
      <4>1. up # Null /\ n = m_prefix[up]
        BY <3>1, <3>4 DEF Line
      <4>2. up \in live /\ \E k \in DOMAIN m_children[up] : m_children[up][k] = a
        BY <3>2, <4>1 DEF HasParent
      <4>3. PICK k \in DOMAIN m_children[up] : m_children[up][k] = a
        BY <4>2
      <4>4. Line(up) \in Shown /\ Line(up).prefix = n
        BY <2>8, <4>1, <4>2 DEF Line
      <4>5. k \in DOMAIN Line(up).children /\ Line(up).children[k] = l.prefix
        BY <3>1, <4>3 DEF Line
      <4> QED
        BY <4>4, <4>5
    <3> QED
      BY <3>3, <3>4
  <2> QED
    BY <2>5, <2>7, <2>9, <2>10 DEF Shown
<1> QED
  BY <1>1, ChainCorrect, PTL

-----------------------------------------------------------------------------
(* The entries above and below an entry.                                   *)

\* The parent of a stored entry is stored or null, and its children are stored.
LEMMA FamilyTypes ==
  ASSUME TreeInv, NEW a \in live
  PROVE  /\ a \in Addr /\ a # Null /\ m_prefix[a] \in Name
         /\ m_parent[a] \in live \cup {Null}
         /\ m_children[a] \in Seq(Addr)
         /\ Len(m_children[a]) \in Nat
         /\ DOMAIN m_children[a] = 1 .. Len(m_children[a])
         /\ m_children[a] # <<>> => 1 \in DOMAIN m_children[a]
         /\ \A k \in DOMAIN m_children[a] :
              /\ m_children[a][k] \in live
              /\ m_parent[m_children[a][k]] = a
<1>1. a \in Addr /\ a # Null /\ m_prefix[a] \in Name
  BY ChainTypes
<1>2. m_children[a] \in Seq(Addr)
  BY <1>1 DEF TreeInv, TypeInv, TypeOK
<1>3. /\ Len(m_children[a]) \in Nat /\ DOMAIN m_children[a] = 1 .. Len(m_children[a])
      /\ m_children[a] # <<>> => 1 \in DOMAIN m_children[a]
  BY <1>2, LenProperties, EmptySeq
<1> QED
  BY <1>1, <1>2, <1>3 DEF TreeInv, TreeConsistent, HasParent, HasChildren

\* The prefixes of a prefix of n are the prefixes of n.
LEMMA PrefixSame ==
  ASSUME NEW n \in Name, NEW m \in Name, IsPrefix(m, n), NEW k \in 0 .. Len(m)
  PROVE  /\ Len(m) \in 0 .. Len(n) /\ k \in 0 .. Len(n)
         /\ GetPrefix(m, k) = GetPrefix(n, k)
         /\ IsPrefix(GetPrefix(m, k), n)
<1>1. /\ Len(m) \in Nat /\ Len(n) \in Nat
      /\ m = GetPrefix(n, Len(m)) /\ Len(m) \in 0 .. Len(n) /\ k \in 0 .. Len(n)
  BY NameAssumption, LenProperties DEF IsPrefix
<1>2. IsPrefix(GetPrefix(n, k), GetPrefix(n, Len(m))) /\ Len(GetPrefix(n, k)) = k
  BY <1>1, PrefixOfPrefix, PrefixFacts
<1>3. GetPrefix(n, k) = GetPrefix(m, k)
  BY <1>1, <1>2 DEF IsPrefix
<1> QED
  BY <1>1, <1>2, <1>3 DEF IsPrefix

\* The name of a parent is a prefix of its child's, one component shorter.
LEMMA ParentName ==
  ASSUME TreeInv, NEW a \in live, m_parent[a] # Null
  PROVE  /\ m_parent[a] \in live
         /\ Len(m_prefix[a]) \in Nat \ {0}
         /\ Len(m_prefix[m_parent[a]]) = Len(m_prefix[a]) - 1
         /\ m_prefix[m_parent[a]] = GetPrefix(m_prefix[a], Len(m_prefix[a]) - 1)
         /\ IsPrefix(m_prefix[m_parent[a]], m_prefix[a])
<1>1. /\ m_parent[a] \in live /\ m_prefix[a] # <<>> /\ m_prefix[a] \in Name
      /\ m_prefix[m_parent[a]] = GetPrefix(m_prefix[a], Len(m_prefix[a]) - 1)
  BY FamilyTypes DEF TreeInv, TreeConsistent, HasParent
<1>2. Len(m_prefix[a]) \in Nat \ {0}
  BY <1>1, NameAssumption, LenProperties, EmptySeq
<1>3. Len(m_prefix[a]) - 1 \in 0 .. Len(m_prefix[a])
  BY <1>2
<1>4. Len(m_prefix[m_parent[a]]) = Len(m_prefix[a]) - 1
  BY <1>1, <1>3, PrefixFacts
<1> QED
  BY <1>1, <1>2, <1>3, <1>4 DEF IsPrefix

LEMMA PrefixTransitive ==
  ASSUME NEW n \in Name, NEW m \in Name, NEW l \in Name, IsPrefix(l, m), IsPrefix(m, n)
  PROVE  IsPrefix(l, n)
<1>1. /\ Len(l) \in Nat /\ Len(m) \in Nat
      /\ l = GetPrefix(m, Len(l)) /\ Len(l) \in 0 .. Len(m)
  BY NameAssumption, LenProperties DEF IsPrefix
<1> QED
  BY <1>1, PrefixSame

\* The other prefixes of a name are prefixes of its parent's.
LEMMA PrefixOfParent ==
  ASSUME TreeInv, NEW c \in live, m_parent[c] # Null,
         NEW m \in Name, IsPrefix(m, m_prefix[c]), m # m_prefix[c]
  PROVE  IsPrefix(m, m_prefix[m_parent[c]])
<1> DEFINE n == m_prefix[c]
           u == m_prefix[m_parent[c]]
<1>1. /\ n \in Name /\ u \in Name /\ m \in Name /\ n \in Seq(Component)
      /\ Len(n) \in Nat \ {0} /\ Len(u) = Len(n) - 1 /\ Len(m) \in Nat
      /\ IsPrefix(u, n)
  BY ParentName, FamilyTypes, NameAssumption, LenProperties
<1>2. m # n
  OBVIOUS
<1>3. Len(m) <= Len(n) /\ m = GetPrefix(n, Len(m))
  BY DEF IsPrefix
<1> HIDE DEF n, u
<1>4. GetPrefix(n, Len(n)) = n
  BY <1>1 DEF GetPrefix
<1>5. Len(m) \in 0 .. Len(u)
  BY <1>1, <1>2, <1>3, <1>4
<1>6. GetPrefix(u, Len(m)) = GetPrefix(n, Len(m))
  BY <1>1, <1>5, PrefixSame
<1> QED
  BY <1>1, <1>3, <1>5, <1>6 DEF IsPrefix, u

\* What is above an entry, and not it, is above its parent.
LEMMA AboveParent ==
  ASSUME TreeInv, ChainsSound, NEW c \in live, m_parent[c] # Null,
         NEW y \in live, IsPrefix(m_prefix[y], m_prefix[c]), y # c
  PROVE  IsPrefix(m_prefix[y], m_prefix[m_parent[c]])
BY PrefixOfParent, FamilyTypes DEF ChainsSound

\* An entry without a parent has the empty name, of which that is the only prefix.
LEMMA PrefixOfRoot ==
  ASSUME TreeInv, NEW c \in live, m_parent[c] = Null,
         NEW m \in Name, IsPrefix(m, m_prefix[c])
  PROVE  m = m_prefix[c]
<1>1. m_prefix[c] = <<>>
  BY DEF TreeInv, TreeConsistent, HasParent
<1>2. Len(m) \in Nat /\ m \in Seq(Component) /\ Len(<<>>) = 0
  BY NameAssumption, LenProperties, EmptySeq
<1>3. Len(m) = 0
  BY <1>1, <1>2 DEF IsPrefix
<1>4. m = <<>>
  BY <1>2, <1>3, EmptySeq
<1> QED
  BY <1>1, <1>4

\* An entry is not above its parent, and what is above the parent is above it.
LEMMA BelowParent ==
  ASSUME TreeInv, NEW c \in live, m_parent[c] # Null
  PROVE  /\ ~IsPrefix(m_prefix[c], m_prefix[m_parent[c]])
         /\ \A m \in Name : IsPrefix(m, m_prefix[m_parent[c]]) => IsPrefix(m, m_prefix[c])
<1>1. /\ Len(m_prefix[c]) \in Nat
      /\ Len(m_prefix[m_parent[c]]) = Len(m_prefix[c]) - 1
  BY ParentName
<1>2. ~IsPrefix(m_prefix[c], m_prefix[m_parent[c]])
  BY <1>1 DEF IsPrefix
<1>3. \A m \in Name : IsPrefix(m, m_prefix[m_parent[c]]) => IsPrefix(m, m_prefix[c])
  BY ParentName, FamilyTypes, PrefixTransitive
<1> QED
  BY <1>2, <1>3

LEMMA PrefixItself ==
  ASSUME NEW n \in Name
  PROVE  IsPrefix(n, n)
<1>1. n \in Seq(Component) /\ Len(n) \in Nat
  BY NameAssumption, LenProperties
<1> QED
  BY <1>1 DEF IsPrefix, GetPrefix

\* Names are prefixes of each other only if they are the same.
LEMMA PrefixBoth ==
  ASSUME NEW n \in Name, NEW m \in Name, IsPrefix(n, m), IsPrefix(m, n)
  PROVE  n = m
<1>1. n \in Seq(Component) /\ Len(n) \in Nat /\ Len(m) \in Nat
  BY NameAssumption, LenProperties
<1>2. Len(n) = Len(m) /\ m = GetPrefix(n, Len(n))
  BY <1>1 DEF IsPrefix
<1> QED
  BY <1>1, <1>2 DEF GetPrefix

\* The name of a child is not its parent's, and not the name of one above.
LEMMA NotItsParent ==
  ASSUME TreeInv, NEW c \in live, m_parent[c] # Null
  PROVE  c # m_parent[c]
<1>1. m_prefix[c] \in Name
  BY FamilyTypes
<1> QED
  BY <1>1, BelowParent, PrefixItself

\* The children of an entry are the entries that name it as their parent.
LEMMA ChildOf ==
  ASSUME TreeInv, NEW c \in live, m_parent[c] # Null
  PROVE  /\ m_parent[c] \in live
         /\ \E j \in DOMAIN m_children[m_parent[c]] : m_children[m_parent[c]][j] = c
BY DEF TreeInv, TreeConsistent, HasParent

LEMMA ChildrenDistinct ==
  ASSUME TreeInv, NEW a \in live, NEW j \in DOMAIN m_children[a], NEW k \in DOMAIN m_children[a],
         m_children[a][j] = m_children[a][k]
  PROVE  j = k
BY DEF TreeInv, TreeConsistent, HasChildren

\* An entry with another one below it has children.
LEMMA AncestorHasChildren ==
  ASSUME TreeInv, ChainsSound, NEW a \in live, NEW r \in live, r # a,
         IsPrefix(m_prefix[r], m_prefix[a])
  PROVE  m_children[r] # <<>>
<1> DEFINE n == m_prefix[a]
           L == Len(m_prefix[r])
           Below == {k \in Nat : /\ L < k /\ k <= Len(n)
                                 /\ \E x \in live : m_prefix[x] = GetPrefix(n, k)}
<1>1. /\ n \in Name /\ n \in Seq(Component) /\ Len(n) \in Nat /\ L \in Nat
      /\ L <= Len(n) /\ m_prefix[r] = GetPrefix(n, L)
      /\ m_prefix[r] # n
  BY FamilyTypes, NameAssumption, LenProperties DEF IsPrefix, ChainsSound
<1>2. GetPrefix(n, Len(n)) = n
  BY <1>1 DEF GetPrefix
<1>3. Len(n) \in Below
  BY <1>1, <1>2
<1>4. PICK k \in Below : \A j \in Below : k <= j
  BY <1>3, LeastNat
<1>5. PICK x \in live : m_prefix[x] = GetPrefix(n, k)
  BY <1>4
<1>6. k \in 1 .. Len(n) /\ L < k /\ k \in 0 .. Len(n)
  BY <1>1, <1>4
<1>7. \A j \in Nat : L < j /\ j < k => ~ \E y \in live : m_prefix[y] = GetPrefix(n, j)
  BY <1>1, <1>4
<1> HIDE DEF n, L, Below
<1>8. m_prefix[x] # <<>> /\ Len(m_prefix[x]) = k
  BY <1>1, <1>5, <1>6, PrefixFacts
<1>9. m_parent[x] # Null
  BY <1>8 DEF TreeInv, TreeConsistent, HasParent
<1>10. /\ m_parent[x] \in live
       /\ m_prefix[m_parent[x]] = GetPrefix(n, k - 1)
  BY <1>1, <1>5, <1>6, <1>8, <1>9, ParentName, PrefixFacts
<1>11. k - 1 = L
  BY <1>1, <1>6, <1>7, <1>10, k - 1 \in Nat
<1>12. m_parent[x] = r
  BY <1>1, <1>10, <1>11 DEF ChainsSound
<1>13. \E j \in DOMAIN m_children[r] : m_children[r][j] = x
  BY <1>9, <1>12 DEF TreeInv, TreeConsistent, HasParent
<1> QED
  BY <1>13, EmptySeq

-----------------------------------------------------------------------------
(* What eraseEntryIfEmpty() removes.                                       *)

\* An entry in use is not to be removed, and nothing above it is.
LEMMA NoneDoomed ==
  ASSUME TreeInv, pc = "erase", ~IsEmpty(entry)
  PROVE  Doomed = {}
<1> SUFFICES ASSUME NEW a \in Doomed PROVE FALSE
  OBVIOUS
<1>1. entry \in live /\ a \in live
  BY DEF TreeInv, CallPosition, Doomed
<1>2. IsPrefix(m_prefix[a], m_prefix[entry]) /\ content[entry] = {}
  BY <1>1 DEF Doomed
<1>3. PICK x \in live : m_parent[x] = entry
  BY <1>1, <1>2, FamilyTypes DEF IsEmpty
<1>4. IsPrefix(m_prefix[entry], m_prefix[x]) /\ ~IsPrefix(m_prefix[x], m_prefix[entry])
  BY <1>1, <1>3, FamilyTypes, ParentName, BelowParent
<1>5. IsPrefix(m_prefix[a], m_prefix[x])
  BY <1>1, <1>2, <1>4, FamilyTypes, PrefixTransitive
<1> QED
  BY <1>4, <1>5 DEF Doomed

\* An empty entry is to be removed: no other has a name at or below its own.
LEMMA EmptyDoomed ==
  ASSUME TreeInv, ChainsSound, pc = "erase", IsEmpty(entry)
  PROVE  entry \in Doomed
<1>1. entry \in live /\ IsPrefix(m_prefix[entry], m_prefix[entry])
  BY FamilyTypes, PrefixItself DEF TreeInv, CallPosition
<1>2. \A d \in live : IsPrefix(m_prefix[entry], m_prefix[d]) => d = entry
  BY <1>1, AncestorHasChildren DEF IsEmpty
<1> QED
  BY <1>1, <1>2 DEF Doomed, IsEmpty

\* What remains to be removed once the entry is gone is what is to be removed of
\* its parent.
LEMMA DoomedNext ==
  ASSUME TreeInv, ChainsSound, EraseEmpty, m_parent[entry] # Null
  PROVE  pc' = "erase" /\ Doomed' = Doomed \ {entry}
<1>1. PICK e, up : e = entry /\ up = m_parent[entry]
  OBVIOUS
<1>2. /\ pc = "erase" /\ pc' = "erase" /\ entry' = up /\ content' = content
      /\ m_prefix' = [m_prefix EXCEPT ![e] = <<>>] /\ IsEmpty(e)
  BY <1>1 DEF EraseEmpty, Discard, EraseParent
<1>3. e \in live /\ live' = live \ {e} /\ up \in live'
  BY <1>1, EraseFacts
<1>4. \A x \in live' : m_prefix'[x] = m_prefix[x]
  BY <1>2, <1>3, ChainTypes
<1>5. \A x \in live' : IsPrefix(m_prefix[x], m_prefix[e]) <=> IsPrefix(m_prefix[x], m_prefix[up])
  <2> SUFFICES ASSUME NEW x \in live'
               PROVE  IsPrefix(m_prefix[x], m_prefix[e]) <=> IsPrefix(m_prefix[x], m_prefix[up])
    OBVIOUS
  <2>1. x \in live /\ x # e /\ m_prefix[x] \in Name /\ m_parent[e] = up /\ up # Null
    BY <1>1, <1>3, FamilyTypes
  <2> QED
    BY <1>3, <2>1, AboveParent, BelowParent
<1>6. content[e] = {} /\ IsPrefix(m_prefix[e], m_prefix[e])
  BY <1>2, <1>3, FamilyTypes, PrefixItself DEF IsEmpty
<1>7. Doomed = {a \in live : /\ IsPrefix(m_prefix[a], m_prefix[e])
                             /\ \A d \in live' : IsPrefix(m_prefix[a], m_prefix[d]) =>
                                  content[d] = {} /\ IsPrefix(m_prefix[d], m_prefix[e])}
  BY <1>1, <1>3, <1>6 DEF Doomed
<1>8. Doomed' = {a \in live' : /\ IsPrefix(m_prefix[a], m_prefix[up])
                               /\ \A d \in live' : IsPrefix(m_prefix[a], m_prefix[d]) =>
                                    content[d] = {} /\ IsPrefix(m_prefix[d], m_prefix[up])}
  BY <1>2, <1>3, <1>4 DEF Doomed
<1> QED
  BY <1>1, <1>2, <1>3, <1>5, <1>7, <1>8

LEMMA SparedNext ==
  ASSUME ChainInv, [Next]_vars, pc = "erase", pc' # "undefined", ~damaged
  PROVE  Spared' = Spared
<1>1. TreeInv /\ ChainsSound
  BY DEF ChainInv, ChainsCorrect
<1>2. EraseNotEmpty \/ EraseEmpty \/ UNCHANGED vars
  BY DEF Next, Call, Step, vars, Lookup, Erase, Resize, AddContent,
     RemoveContent, InsertWalk, InsertFound, InsertUndefined, InsertNew, Grow,
     NextPrefix, ResizeWalk, ResizeLink, ResizeNextBucket, ResizeEnd,
     ResizeUndefined, EraseUndefined
<1>3. CASE UNCHANGED vars
  BY <1>3 DEF vars, tree, locals, Spared, Doomed
<1>4. CASE EraseNotEmpty
  <2>1. pc' = "idle" /\ live' = live /\ ~IsEmpty(entry)
    BY <1>4 DEF EraseNotEmpty, Return, tree
  <2> QED
    BY <1>1, <2>1, NoneDoomed DEF Spared
<1>5. CASE EraseEmpty
  <2>1. live' = live \ {entry} /\ entry \in Doomed /\ entry \in live
    BY <1>1, <1>5, EraseFacts, EmptyDoomed DEF EraseEmpty
  <2>2. CASE m_parent[entry] = Null
    <3>1. pc' = "idle"
      BY <1>5, <2>2 DEF EraseEmpty, EraseParent, Return
    <3>2. ASSUME NEW a \in Doomed PROVE a = entry
      <4>1. a \in live /\ IsPrefix(m_prefix[a], m_prefix[entry])
        BY DEF Doomed
      <4>2. m_prefix[a] = m_prefix[entry]
        BY <1>1, <2>1, <2>2, <4>1, FamilyTypes, PrefixOfRoot
      <4> QED
        BY <1>1, <2>1, <4>1, <4>2 DEF ChainsSound
    <3> QED
      BY <2>1, <3>1, <3>2 DEF Spared
  <2>3. CASE m_parent[entry] # Null
    BY <1>1, <1>5, <2>1, <2>3, DoomedNext DEF Spared
  <2> QED
    BY <2>2, <2>3
<1> QED
  BY <1>2, <1>3, <1>4, <1>5

\* eraseEntryIfEmpty() removes the entry and the ones above it as far as nothing
\* else is stored or carried there, by the names of the table at the time of the
\* call, and no other entry: the recursion on the parent, which looks at lists of
\* children, neither stops early nor goes too far.
THEOREM EraseIsComplete == Spec => EraseTakesUnused
<1>1. ChainInv /\ [Next]_vars =>
        [pc = "erase" /\ pc' # "undefined" /\ ~damaged => Spared' = Spared]_vars
  BY SparedNext
<1> QED
  BY <1>1, ChainCorrect, PTL DEF Spec, EraseTakesUnused

=============================================================================
