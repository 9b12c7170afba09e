------------------------------ MODULE NameTree ------------------------------
(***************************************************************************)
(* The Name Prefix Hash Table of name-tree.cpp, pointer by pointer.        *)
(*                                                                         *)
(* An address stands for a hash table Node together with the Entry it      *)
(* carries: insert() creates the two together, each points to the other,   *)
(* and eraseEntryIfEmpty() drops the two together.                         *)
(*                                                                         *)
(* The table is single threaded: a client starts a call only when pc is    *)
(* "idle".  A call then runs in steps, one per iteration of its loops, so  *)
(* that the invariants also speak of the moments in between.               *)
(*                                                                         *)
(* Reading or writing a Node after its delete is undefined behaviour: the  *)
(* model then stops in pc = "undefined" and says nothing of what follows.  *)
(* A failed BOOST_ASSERT stops it in pc = "abort".  allocation may return  *)
(* any address that is free, also one that dangling pointers still name.   *)
(***************************************************************************)
EXTENDS Integers, Sequences, FiniteSets

CONSTANTS
  Component,  \* name components
  Name,       \* the names used by the clients, with all their prefixes
  Hash,       \* hashName: the 32-bit hash of every name
  Addr,       \* heap addresses (bound on the number of live entries)
  Null,       \* the null pointer
  Content,    \* FIB, PIT and Measurements entries an Entry can carry
  NBuckets,   \* constructor argument nBuckets
  ResizeTo,   \* sizes that clients pass to the public resize()
  Erasable    \* names whose entries clients pass to eraseEntryIfEmpty()

GetPrefix(n, k) == SubSeq(n, 1, k)
IsPrefix(m, n) == Len(m) <= Len(n) /\ m = GetPrefix(n, Len(m))

ASSUME NameAssumption ==
  /\ Name \subseteq Seq(Component)
  /\ <<>> \in Name
  /\ \A n \in Name : \A k \in 0 .. Len(n) : GetPrefix(n, k) \in Name
  /\ Erasable \subseteq Name

ASSUME HashAssumption == Hash \in [Name -> Nat]

ASSUME HeapAssumption == IsFiniteSet(Addr) /\ Null \notin Addr

\* nBuckets = 0 divides by zero in the first call; resize(0) likewise.
ASSUME SizeAssumption == NBuckets \in Nat \ {0} /\ ResizeTo \subseteq Nat \ {0}

VARIABLES
  \* fields of NameTree
  m_nItems, m_nBuckets, m_resizeThreshold, m_buckets,
  \* the heap: allocated addresses, Node fields, Entry fields
  live, m_next, m_prev, m_prefix, m_parent, m_children, content,
  \* locals of the running lookup() or eraseEntryIfEmpty()
  pc, name, i, entry, node, nodePrev,
  \* locals of the running resize(), and where it returns to
  newNBuckets, newBuckets, bucket, p, pre, last, count, after,
  \* history: a node was unlinked whose m_prev was not its chain predecessor
  damaged

table  == <<m_nItems, m_nBuckets, m_resizeThreshold, m_buckets>>
links  == <<m_next, m_prev>>
tree   == <<live, m_prefix, m_parent, m_children, content>>
locals == <<name, i, entry, node, nodePrev>>
rehash == <<newNBuckets, newBuckets, bucket, p, pre, last, count, after>>
vars   == <<table, links, tree, pc, locals, rehash, damaged>>

Pointer == Addr \cup {Null}

ThresholdRoundedUp(n) == (n + 1) \div 2

\* m_loadFactor = 0.5, truncated to an integer.
Threshold(n) == n \div 2

Location(n, size) == Hash[n] % size

\* The head of the chain that a's hash selects.
Bucket(a) == m_buckets[Location(m_prefix[a], m_nBuckets)]

EmptyBuckets(n) == [b \in 0 .. n - 1 |-> Null]

Init ==
  /\ m_nItems = 0
  /\ m_nBuckets = NBuckets
  /\ m_resizeThreshold = Threshold(NBuckets)
  /\ m_buckets = EmptyBuckets(NBuckets)
  /\ live = {}
  /\ m_next = [a \in Addr |-> Null]
  /\ m_prev = [a \in Addr |-> Null]
  /\ m_prefix = [a \in Addr |-> <<>>]
  /\ m_parent = [a \in Addr |-> Null]
  /\ m_children = [a \in Addr |-> <<>>]
  /\ content = [a \in Addr |-> {}]
  /\ pc = "idle"
  /\ name = <<>> /\ i = 0 /\ entry = Null /\ node = Null /\ nodePrev = Null
  /\ newNBuckets = 0 /\ newBuckets = EmptyBuckets(0) /\ bucket = 0
  /\ p = Null /\ pre = Null /\ last = Null /\ count = 0 /\ after = "idle"
  /\ damaged = FALSE

\* The call returns; its locals go out of scope.
Return ==
  /\ pc' = "idle"
  /\ name' = <<>> /\ i' = 0 /\ entry' = Null
  /\ node' = Null /\ nodePrev' = Null

\* Execution leaves the defined behaviour of the program, or asserts.
Stop(how) ==
  /\ pc' = how
  /\ UNCHANGED <<table, links, tree, locals, rehash, damaged>>

-----------------------------------------------------------------------------
(* resize(newNBuckets): every node is unhooked from the old array, bucket  *)
(* by bucket, and appended to its chain in the new one.                    *)

BeginResize(n, return) ==
  /\ pc' = "resize"
  /\ after' = return
  /\ newNBuckets' = n
  /\ newBuckets' = EmptyBuckets(n)
  /\ bucket' = 0
  /\ p' = m_buckets[0]
  /\ pre' = Null /\ last' = Null /\ count' = 0
  /\ UNCHANGED <<table, links, tree, locals, damaged>>

NewLocationOldSize == Location(m_prefix[p], m_nBuckets)
NewLocation == Location(m_prefix[p], newNBuckets)

SlotNeverAdvances == newBuckets[NewLocation]
\* *pp: the pointer to overwrite, in the bucket array or in a node.
Slot == IF last = Null THEN newBuckets[NewLocation] ELSE m_next[last]

\* The inner loop steps over a node of the new chain.
ResizeWalk ==
  /\ pc = "resize" /\ p \in live
  /\ Slot # Null
  /\ pre' = Slot /\ last' = Slot
  /\ UNCHANGED <<table, links, tree, pc, locals, newNBuckets, newBuckets,
                 bucket, p, count, after, damaged>>

\* count stops here: in a corrupted table whose chains have become cyclic the
\* loops of resize() need not end, and m_nItems never exceeds the heap.
CountBound == Cardinality(Addr) + 1

\* The end of the new chain is found: link p there.  m_prev takes pre, which
\* keeps its value from an earlier node when this new chain was empty.
ResizeLink ==
  /\ pc = "resize" /\ p \in live
  /\ Slot = Null
  /\ count' = IF count < CountBound THEN count + 1 ELSE count
  /\ m_prev' = [m_prev EXCEPT ![p] = pre]
  /\ IF last = Null
     THEN /\ newBuckets' = [newBuckets EXCEPT ![NewLocation] = p]
          /\ m_next' = [m_next EXCEPT ![p] = Null]
     ELSE /\ m_next' = [m_next EXCEPT ![p] = Null, ![last] = p]
          /\ UNCHANGED newBuckets
  /\ p' = m_next[p]
  /\ last' = Null
  /\ UNCHANGED <<table, tree, pc, locals, newNBuckets, bucket, pre, after,
                 damaged>>

AtLastBucketEarly == bucket + 2 >= m_nBuckets
AtLastBucket == bucket + 1 >= m_nBuckets

ResizeNextBucket ==
  /\ pc = "resize" /\ p = Null
  /\ ~AtLastBucket
  /\ bucket' = bucket + 1
  /\ p' = m_buckets[bucket + 1]
  /\ UNCHANGED <<table, links, tree, pc, locals, newNBuckets, newBuckets,
                 pre, last, count, after, damaged>>

\* All buckets are moved.  BOOST_ASSERT(count == m_nItems), swap the arrays.
ResizeEnd ==
  /\ pc = "resize" /\ p = Null
  /\ AtLastBucket
  /\ IF count = m_nItems
     THEN /\ m_buckets' = newBuckets
          /\ m_nBuckets' = newNBuckets
          /\ m_resizeThreshold' = Threshold(newNBuckets)
          /\ pc' = after
          /\ newNBuckets' = 0 /\ newBuckets' = EmptyBuckets(0) /\ bucket' = 0
          /\ p' = Null /\ pre' = Null /\ last' = Null /\ count' = 0
          /\ after' = "idle"
          /\ UNCHANGED <<m_nItems, links, tree, locals, damaged>>
     ELSE Stop("abort")

\* The walk over an old bucket meets a deleted node.
ResizeUndefined ==
  /\ pc = "resize" /\ p \notin live \cup {Null}
  /\ Stop("undefined")

Resize(n) ==
  /\ pc = "idle"
  /\ BeginResize(n, "idle")

-----------------------------------------------------------------------------
(* lookup(prefix): inserts every prefix of the name, shortest first.       *)

BeginInsertPastEnd(n, k) ==
  /\ pc' = "insert"
  /\ i' = k + 1
  /\ node' = m_buckets[Location(GetPrefix(n, k), m_nBuckets)]
  /\ nodePrev' = node'

\* insert() starts to search the chain of the k-th prefix of n.
BeginInsert(n, k) ==
  /\ pc' = "insert"
  /\ i' = k
  /\ node' = m_buckets[Location(GetPrefix(n, k), m_nBuckets)]
  /\ nodePrev' = node'

LookupSkipsRoot(n) ==
  /\ pc = "idle"
  /\ BeginInsert(n, IF n = <<>> THEN 0 ELSE 1)
  /\ name' = n
  /\ entry' = Null
  /\ UNCHANGED <<table, links, tree, rehash, damaged>>

Lookup(n) ==
  /\ pc = "idle"
  /\ BeginInsert(n, 0)
  /\ name' = n
  /\ entry' = Null
  /\ UNCHANGED <<table, links, tree, rehash, damaged>>

Prefix == GetPrefix(name, i)

InsertWalkHeadOnly ==
  /\ pc = "insert" /\ node \in live
  /\ m_prefix[node] # Prefix
  /\ nodePrev' = node
  /\ node' = Null
  /\ UNCHANGED <<table, links, tree, pc, name, i, entry, rehash, damaged>>

InsertWalk ==
  /\ pc = "insert" /\ node \in live
  /\ m_prefix[node] # Prefix
  /\ nodePrev' = node
  /\ node' = m_next[node]
  /\ UNCHANGED <<table, links, tree, pc, name, i, entry, rehash, damaged>>

InsertFound ==
  /\ pc = "insert" /\ node \in live
  /\ m_prefix[node] = Prefix
  /\ pc' = "inserted"
  /\ entry' = node
  /\ node' = Null /\ nodePrev' = Null
  /\ UNCHANGED <<table, links, tree, name, i, rehash, damaged>>

InsertUndefined ==
  /\ pc = "insert" /\ node \notin live \cup {Null}
  /\ Stop("undefined")

\* The end of the chain: a new Node and Entry at address a, which lookup()
\* counts and hooks below the entry of the previous iteration.
InsertNew(a) ==
  /\ pc = "insert" /\ node = Null
  /\ live' = live \cup {a}
  /\ m_prev' = [m_prev EXCEPT ![a] = nodePrev]
  /\ IF nodePrev = Null
     THEN /\ m_buckets' = [m_buckets EXCEPT ![Location(Prefix, m_nBuckets)] = a]
          /\ m_next' = [m_next EXCEPT ![a] = Null]
     ELSE /\ m_next' = [m_next EXCEPT ![a] = Null, ![nodePrev] = a]
          /\ UNCHANGED m_buckets
  /\ m_prefix' = [m_prefix EXCEPT ![a] = Prefix]
  /\ m_parent' = [m_parent EXCEPT ![a] = entry]
  /\ m_children' = IF entry = Null
                   THEN [m_children EXCEPT ![a] = <<>>]
                   ELSE [m_children EXCEPT ![a] = <<>>,
                                           ![entry] = Append(@, a)]
  /\ content' = [content EXCEPT ![a] = {}]
  /\ m_nItems' = m_nItems + 1
  /\ pc' = "inserted"
  /\ entry' = a
  /\ node' = Null /\ nodePrev' = Null
  /\ UNCHANGED <<m_nBuckets, m_resizeThreshold, name, i, rehash, damaged>>

\* if (m_nItems > m_resizeThreshold) resize(m_resizeFactor * m_nBuckets)
Grow ==
  /\ pc = "inserted"
  /\ m_nItems > m_resizeThreshold
  /\ BeginResize(2 * m_nBuckets, "grown")

\* The iteration ends: go on with the next longer prefix, or return.
NextPrefix ==
  /\ \/ pc = "inserted" /\ m_nItems <= m_resizeThreshold
     \/ pc = "grown"
  /\ IF i < Len(name)
     THEN BeginInsert(name, i + 1) /\ UNCHANGED <<name, entry>>
     ELSE Return
  /\ UNCHANGED <<table, links, tree, rehash, damaged>>

-----------------------------------------------------------------------------
(* eraseEntryIfEmpty(entry), and its recursion on the parent.              *)

IsEmptyIgnoringContent(a) == m_children[a] = <<>>

\* No children, no FIB, no PIT and no Measurements entries.
IsEmpty(a) == m_children[a] = <<>> /\ content[a] = {}

RemoveChildPopOnly(children, k) == SubSeq(children, 1, Len(children) - 1)

\* The last child takes the place of the child at position k.
RemoveChild(children, k) ==
  [j \in 1 .. Len(children) - 1 |->
     IF j = k THEN children[Len(children)] ELSE children[j]]

Erase(a) ==
  /\ pc = "idle"
  /\ m_prefix[a] \in Erasable
  /\ pc' = "erase"
  /\ entry' = a
  /\ UNCHANGED <<table, links, tree, name, i, node, nodePrev, rehash, damaged>>

EraseNotEmpty ==
  /\ pc = "erase" /\ ~IsEmpty(entry)
  /\ Return
  /\ UNCHANGED <<table, links, tree, rehash, damaged>>

\* The unlinking of a would not write to the pointer that refers to a.
WrongPrev(a) ==
  IF m_prev[a] = Null THEN Bucket(a) # a ELSE m_next[m_prev[a]] # a

\* A neighbour that the unlinking writes to has been deleted already.
EraseUndefined ==
  /\ pc = "erase" /\ IsEmpty(entry)
  /\ {m_prev[entry], m_next[entry]} \ (live \cup {Null}) # {}
  /\ pc' = "undefined"
  /\ damaged' = (damaged \/ WrongPrev(entry))
  /\ UNCHANGED <<table, links, tree, locals, rehash>>

UnparentNever == UNCHANGED m_children

\* Drop entry from its parent's children, if it has a parent, where
\* BOOST_ASSERT(isFound == true) expects to find it.
Unparent ==
  LET up == m_parent[entry] IN
  IF up = Null
  THEN UNCHANGED m_children
  ELSE \E k \in DOMAIN m_children[up] :
         /\ m_children[up][k] = entry
         /\ \A j \in 1 .. k - 1 : m_children[up][j] # entry
         /\ m_children' = [m_children EXCEPT ![up] = RemoveChild(@, k)]

UnlinkForwardOnly ==
  LET prv == m_prev[entry]
      nxt == m_next[entry]
  IN /\ IF prv # Null
        THEN /\ m_next' = [m_next EXCEPT ![prv] = nxt, ![entry] = Null]
             /\ UNCHANGED m_buckets
        ELSE /\ m_buckets' = [m_buckets EXCEPT
                                ![Location(m_prefix[entry], m_nBuckets)] = nxt]
             /\ m_next' = [m_next EXCEPT ![entry] = Null]
     /\ m_prev' = [m_prev EXCEPT ![entry] = Null]

UnlinkKeepsHead ==
  LET prv == m_prev[entry]
      nxt == m_next[entry]
  IN /\ m_next' = IF prv # Null
                  THEN [m_next EXCEPT ![prv] = nxt, ![entry] = Null]
                  ELSE [m_next EXCEPT ![entry] = Null]
     /\ m_prev' = IF nxt = Null
                  THEN [m_prev EXCEPT ![entry] = Null]
                  ELSE [m_prev EXCEPT ![entry] = Null, ![nxt] = prv]
     /\ UNCHANGED m_buckets

\* Take entry's node out of its doubly linked chain.
Unlink ==
  LET prv == m_prev[entry]
      nxt == m_next[entry]
  IN /\ IF prv # Null
        THEN /\ m_next' = [m_next EXCEPT ![prv] = nxt, ![entry] = Null]
             /\ UNCHANGED m_buckets
        ELSE /\ m_buckets' = [m_buckets EXCEPT
                                ![Location(m_prefix[entry], m_nBuckets)] = nxt]
             /\ m_next' = [m_next EXCEPT ![entry] = Null]
     /\ m_prev' = IF nxt = Null
                  THEN [m_prev EXCEPT ![entry] = Null]
                  ELSE [m_prev EXCEPT ![entry] = Null, ![nxt] = prv]

DiscardUncounted ==
  /\ live' = live \ {entry}
  /\ m_prefix' = [m_prefix EXCEPT ![entry] = <<>>]
  /\ m_parent' = [m_parent EXCEPT ![entry] = Null]
  /\ UNCHANGED m_nItems

\* m_nItems--; delete node, which drops the table's reference to the entry.
Discard ==
  /\ m_nItems' = m_nItems - 1
  /\ live' = live \ {entry}
  /\ m_prefix' = [m_prefix EXCEPT ![entry] = <<>>]
  /\ m_parent' = [m_parent EXCEPT ![entry] = Null]

EraseParentNever == Return

\* eraseEntryIfEmpty(parent), if there is a parent.
EraseParent ==
  IF m_parent[entry] = Null
  THEN Return
  ELSE entry' = m_parent[entry] /\ UNCHANGED <<pc, name, i, node, nodePrev>>

\* The entry is empty: erase it and go on with its parent.
EraseEmpty ==
  /\ pc = "erase" /\ IsEmpty(entry)
  /\ {m_prev[entry], m_next[entry]} \subseteq live \cup {Null}
  /\ Unparent
  /\ Unlink
  /\ Discard
  /\ EraseParent
  /\ damaged' = (damaged \/ WrongPrev(entry))
  /\ UNCHANGED <<m_nBuckets, m_resizeThreshold, content, rehash>>

-----------------------------------------------------------------------------
(* setFibEntry(), insertPitEntry(), setMeasurementsEntry() and their       *)
(* opposites, on an entry that the client obtained from lookup().          *)

AddContent(a, c) ==
  /\ pc = "idle"
  /\ content' = [content EXCEPT ![a] = @ \cup {c}]
  /\ UNCHANGED <<table, links, live, m_prefix, m_parent, m_children, pc,
                 locals, rehash, damaged>>

RemoveContent(a, c) ==
  /\ pc = "idle"
  /\ content' = [content EXCEPT ![a] = @ \ {c}]
  /\ UNCHANGED <<table, links, live, m_prefix, m_parent, m_children, pc,
                 locals, rehash, damaged>>

-----------------------------------------------------------------------------
Call ==
  \/ \E n \in Name : Lookup(n)
  \/ \E a \in live : Erase(a)
  \/ \E n \in ResizeTo : Resize(n)
  \/ \E a \in live, c \in Content : AddContent(a, c) \/ RemoveContent(a, c)

Step ==
  \/ InsertWalk \/ InsertFound \/ InsertUndefined
  \/ \E a \in Addr \ live : InsertNew(a)
  \/ Grow \/ NextPrefix
  \/ ResizeWalk \/ ResizeLink \/ ResizeNextBucket \/ ResizeEnd \/ ResizeUndefined
  \/ EraseNotEmpty \/ EraseUndefined \/ EraseEmpty

Next == Call \/ Step

Spec == Init /\ [][Next]_vars

\* The thread that made a call keeps executing it.
FairSpec == Spec /\ WF_vars(Step)

-----------------------------------------------------------------------------
(* Properties.                                                             *)

\* The nodes that a walk along m_next from head visits: those in every set
\* that contains head and is closed under m_next.
Chain(head) ==
  {a \in Addr :
     \A S \in SUBSET Addr :
       /\ head \in S \cup {Null}
       /\ \A x \in S : m_next[x] \in S \cup {Null}
       => a \in S}

\* Types of all variables.
TypeOK ==
  /\ m_nItems \in Int
  /\ m_nBuckets \in Nat \ {0}
  /\ m_resizeThreshold = Threshold(m_nBuckets)
  /\ m_buckets \in [0 .. m_nBuckets - 1 -> Pointer]
  /\ live \subseteq Addr
  /\ m_next \in [Addr -> Pointer] /\ m_prev \in [Addr -> Pointer]
  /\ m_prefix \in [Addr -> Name]
  /\ m_parent \in [Addr -> Pointer]
  /\ m_children \in [Addr -> Seq(Addr)]
  /\ content \in [Addr -> SUBSET Content]
  /\ pc \in {"idle", "insert", "inserted", "grown", "resize", "erase",
             "undefined", "abort"}
  /\ name \in Name /\ i \in 0 .. Len(name)
  /\ entry \in Pointer /\ node \in Pointer /\ nodePrev \in Pointer
  /\ newNBuckets \in Nat
  /\ newBuckets \in [0 .. newNBuckets - 1 -> Pointer]
  /\ bucket \in 0 .. m_nBuckets - 1
  /\ p \in Pointer /\ pre \in Pointer /\ last \in Pointer
  /\ count \in Nat
  /\ after \in {"idle", "grown"}
  /\ damaged \in BOOLEAN

\* a is hooked below the entry of the name that is one component shorter.
HasParent(a) ==
  LET up == m_parent[a] IN
  IF up = Null
  THEN m_prefix[a] = <<>>
  ELSE /\ up \in live
       /\ m_prefix[a] # <<>>
       /\ m_prefix[up] = GetPrefix(m_prefix[a], Len(m_prefix[a]) - 1)
       /\ \E k \in DOMAIN m_children[up] : m_children[up][k] = a

\* The children of a are live, distinct, and point back to a.
HasChildren(a) ==
  \A k \in DOMAIN m_children[a] :
    /\ m_children[a][k] \in live
    /\ m_parent[m_children[a][k]] = a
    /\ \A j \in DOMAIN m_children[a] :
         m_children[a][j] = m_children[a][k] => j = k

\* The entries form a tree by name, parent and children agreeing with each
\* other, in every state of every call, whatever happened to the hash chains:
\* insert() and eraseEntryIfEmpty() never leave an entry whose parent is gone,
\* and BOOST_ASSERT(isFound == true) cannot fail.
TreeConsistent == \A a \in live : HasParent(a) /\ HasChildren(a)

\* size() is the number of entries that exist, in every state of every call.
SizeCountsEntries == m_nItems = Cardinality(live)

\* Between calls the chain of every bucket holds exactly the entries whose
\* hash belongs there, and m_prev is right for all of them but the heads: as
\* long as no node was unlinked through a wrong m_prev, insert(), resize() and
\* eraseEntryIfEmpty() keep each other's view of the chains, and the stale
\* m_prev that resize() stores is confined to the first node of a chain.
TableConsistent ==
  pc = "idle" /\ ~damaged =>
    /\ \A b \in DOMAIN m_buckets :
         Chain(m_buckets[b]) =
           {a \in live : Location(m_prefix[a], m_nBuckets) = b}
    /\ \A a \in live :
         Bucket(a) # a => m_prev[a] \in live /\ m_next[m_prev[a]] = a

\* No name is stored twice, in any state of any call: the search of insert()
\* never misses an entry, also right after the table was resized between two
\* prefixes, as long as no node was unlinked through a wrong m_prev.
NamesUnique ==
  ~damaged => \A a, b \in live : m_prefix[a] = m_prefix[b] => a = b

\* No call touches a deleted node and BOOST_ASSERT(count == m_nItems) of
\* resize() holds, as long as no node was unlinked through a wrong m_prev.
NeverUndefined == ~damaged => pc \notin {"undefined", "abort"}

\* findExactMatch() on the name of a stored entry, between calls, reaches that
\* entry: whatever is stored is found in the bucket of its hash.
Findable == pc = "idle" => \A a \in live : a \in Chain(Bucket(a))

\* The number of buckets, once the growth that is due or under way is done.
SizeAhead ==
  IF pc = "resize" THEN newNBuckets
  ELSE IF pc = "inserted" /\ 2 * m_nItems > m_nBuckets THEN 2 * m_nBuckets
  ELSE m_nBuckets

\* The table starts at most half full, and no step but a client's own resize()
\* takes it above that, or any fuller than such a resize() has left it: one
\* doubling per inserted prefix is enough, also from a single bucket on.
LoadBounded ==
  /\ 2 * m_nItems <= SizeAhead
  /\ [][ \/ pc = "idle" /\ pc' = "resize"
         \/ pc' \in {"abort", "undefined"}
         \/ 2 * m_nItems' <= SizeAhead'
         \/ m_nItems' * SizeAhead <= m_nItems * SizeAhead' ]_vars

LookupDone ==
  /\ m_prefix[entry] = name
  /\ ~damaged =>
       \A k \in 0 .. Len(name) : \E a \in live :
         m_prefix[a] = GetPrefix(name, k) /\ a \in Chain(Bucket(a))

\* lookup() returns the entry of the full name, and at that moment every
\* prefix of the name is stored and found, although the table may have been
\* resized between two prefixes.
LookupStoresPrefixes ==
  [][(pc \in {"inserted", "grown"} /\ pc' = "idle") => LookupDone]_vars

\* What eraseEntryIfEmpty(entry) has to remove: the entry and those above it,
\* up to the first that carries something or has a name below it off the path.
Doomed ==
  {a \in live :
     /\ IsPrefix(m_prefix[a], m_prefix[entry])
     /\ \A d \in live : IsPrefix(m_prefix[a], m_prefix[d]) =>
          content[d] = {} /\ IsPrefix(m_prefix[d], m_prefix[entry])}

Spared == IF pc = "erase" THEN live \ Doomed ELSE live

\* eraseEntryIfEmpty() removes what was unused, by the names of the table and
\* not by its child lists, when it was called, and nothing else: what it is to
\* spare stays the same from step to step, and is all that is left when it
\* returns, unless a node was unlinked through a wrong m_prev before it.
EraseTakesUnused ==
  [][pc = "erase" /\ pc' # "undefined" /\ ~damaged => Spared' = Spared]_vars

\* Every call returns, unless a node was unlinked through a wrong m_prev: the
\* loops of insert() and resize() end because no chain is cyclic, and the
\* recursion of eraseEntryIfEmpty() ends at the root.
CallReturns == (pc # "idle") ~> (pc = "idle" \/ damaged)

-----------------------------------------------------------------------------
\* The names that have an entry, and what the entries of a name carry: there
\* can be several of a name once the chains are damaged.
StoredNames == {m_prefix[a] : a \in live}

ContentsOf ==
  [n \in Name |->
     {c \in Content : \E a \in live : m_prefix[a] = n /\ c \in content[a]}]

Abstract == INSTANCE NameTreeSpec WITH stored <- StoredNames, contents <- ContentsOf

\* Every step of every call, in damaged tables too, stores one name below its
\* parent, removes one name that carries nothing and has nothing below it,
\* changes what one entry carries, or changes no name: the growth of the table
\* in the middle of a lookup() and the recursion of eraseEntryIfEmpty() cannot
\* be observed in the set of names.
ImplementsNameTreeSpec == Abstract!NameTreeSpec

=============================================================================
