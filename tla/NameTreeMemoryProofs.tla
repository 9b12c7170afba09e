------------------------ MODULE NameTreeMemoryProofs -------------------------
(***************************************************************************)
(* Proofs about the memory of the table, for every set of names, every     *)
(* hash function and every heap: about the lifetime of the entries and the *)
(* destructor, whatever handles clients keep and drop (NameTreeLifetime),  *)
(* and about the table after failed allocations (NameTreeFailure).         *)
(***************************************************************************)
EXTENDS NameTreeLifetime, NameTreeFailure, NameTreeProofs

-----------------------------------------------------------------------------
(* The table under LifeSpec: its own steps, and what clients do with the   *)
(* handles of erased entries.                                              *)

StaleHandle == pc \in {"abort", "undefined"} /\ ~(handles \subseteq live)

LifeTypeOK ==
  /\ handles \subseteq Addr /\ entries \subseteq Addr
  /\ kept \in [Addr -> Pointer]
  /\ phase \in {"open", "destroying", "destroyed", "undefined"}
  /\ NodeFreesNext \in BOOLEAN
  /\ atBucket \in Nat
  /\ phase = "open" => atBucket = 0
  /\ phase # "open" => pc = "idle"

\* The table is as it is without clients that use erased entries, unless one
\* of them has stopped the program.
TableInv == TreeInv /\ (ChainsCorrect \/ StaleHandle)

\* The table changes by steps of NameTree, by a setter on an entry that may be
\* erased, or stops on an erased entry.
LEMMA LifeTableSteps ==
  ASSUME LifeTypeOK, TreeInv, [LifeNext]_<<vars, lifeVars>>
  PROVE  \/ [Next]_vars
         \/ \E a \in Addr, c \in Content : AddContent(a, c) \/ RemoveContent(a, c)
         \/ \E a \in handles \ live : EraseAgain(a)
<1>1. CASE TableStep
  BY <1>1 DEF TableStep, Next, Call
<1>2. CASE \E n \in Name : Hold(n)
  BY <1>2 DEF Hold
<1>3. ASSUME NEW a \in handles, NEW c \in Content, Use(a, c)
      PROVE  \E x \in Addr, d \in Content : AddContent(x, d) \/ RemoveContent(x, d)
  BY <1>3 DEF Use, LifeTypeOK
<1>4. CASE \/ \E a \in handles : Drop(a)
           \/ Destroy \/ DestroyBucket \/ DestroyUndefined \/ DestroyEnd
           \/ UNCHANGED <<vars, lifeVars>>
  BY <1>4 DEF Drop, Destroy, DestroyBucket, DestroyUndefined, DestroyEnd
<1> QED
  BY <1>1, <1>2, <1>3, <1>4 DEF LifeNext

\* A setter leaves the tree and the chains alone.
LEMMA TableContent ==
  ASSUME TreeInv, NEW a \in Addr, NEW c \in Content,
         AddContent(a, c) \/ RemoveContent(a, c)
  PROVE  /\ TreeInv' /\ (ChainsCorrect => ChainsCorrect')
         /\ UNCHANGED <<table, links, live, m_prefix, m_parent, m_children, pc,
                        locals, rehash, damaged>>
<1>1. UNCHANGED <<table, links, live, m_prefix, m_parent, m_children, pc, locals,
                  rehash, damaged>>
  BY DEF AddContent, RemoveContent
<1>2. TypeInv'
  BY TypeContent DEF TreeInv
<1>3. TreeConsistent' /\ SizeCountsEntries'
  BY <1>1, TreeStutter DEF treeVars, table
<1>4. CallPosition'
  BY <1>1 DEF TreeInv, CallPosition, Prefix, locals, rehash
<1>5. ChainsSound => ChainsSound'
  BY <1>1, ChainsStutter
<1>6. ChainsCorrect => ChainsCorrect'
  BY <1>1, <1>5 DEF ChainsCorrect
<1> QED
  BY <1>1, <1>2, <1>3, <1>4, <1>6 DEF TreeInv

LEMMA TableStops ==
  ASSUME TreeInv, NEW a, EraseAgain(a)
  PROVE  /\ TreeInv' /\ pc = "idle" /\ pc' \in {"abort", "undefined"}
         /\ UNCHANGED <<table, links, tree, locals, rehash, damaged, lifeVars>>
<1>1. /\ UNCHANGED <<table, links, tree, locals, rehash, damaged, lifeVars>>
      /\ pc = "idle" /\ pc' \in {"abort", "undefined"}
  BY DEF EraseAgain, Stop
<1>2. TypeInv'
  BY <1>1 DEF TreeInv, TypeInv, TypeOK, table, links, tree, locals, rehash
<1>3. TreeConsistent' /\ SizeCountsEntries'
  BY <1>1, TreeStutter DEF treeVars, table, tree
<1>4. CallPosition'
  BY <1>1 DEF CallPosition
<1> QED
  BY <1>1, <1>2, <1>3, <1>4 DEF TreeInv

\* Nothing happens any more once the program has stopped.
LEMMA StoppedStays ==
  ASSUME LifeTypeOK, TreeInv, pc \in {"abort", "undefined"},
         [LifeNext]_<<vars, lifeVars>>
  PROVE  UNCHANGED <<pc, handles, live>>
<1>1. phase = "open"
  BY DEF LifeTypeOK
<1>2. ~(TableStep \/ \E n \in Name : Hold(n))
  BY DEF TableStep, Hold, Lookup, Erase, Resize, Step, InsertWalk, InsertFound,
     InsertUndefined, InsertNew, Grow, NextPrefix, ResizeWalk, ResizeLink,
     ResizeNextBucket, ResizeEnd, ResizeUndefined, EraseNotEmpty, EraseUndefined,
     EraseEmpty
<1>3. ~ \E a \in handles : Drop(a) \/ \E c \in Content : Use(a, c)
  BY DEF Drop, Use, AddContent, RemoveContent
<1>4. ~(\/ \E a \in handles \ live : EraseAgain(a)
        \/ Destroy \/ DestroyBucket \/ DestroyUndefined \/ DestroyEnd)
  BY <1>1 DEF EraseAgain, Destroy, DestroyBucket, DestroyUndefined, DestroyEnd
<1>5. UNCHANGED <<vars, lifeVars>>
  BY <1>2, <1>3, <1>4 DEF LifeNext
<1> QED
  BY <1>5 DEF vars, lifeVars, tree

LEMMA TableInvNext ==
  ASSUME LifeTypeOK, TableInv, [LifeNext]_<<vars, lifeVars>>
  PROVE  TableInv'
<1>1. CASE StaleHandle
  <2>1. UNCHANGED <<pc, handles, live>>
    BY <1>1, StoppedStays DEF StaleHandle, TableInv
  <2>2. TreeInv'
    BY LifeTableSteps, TreeNext, TableContent, TableStops DEF TableInv
  <2> QED
    BY <1>1, <2>1, <2>2 DEF TableInv, StaleHandle
<1>2. CASE ChainsCorrect
  <2>1. CASE [Next]_vars
    BY <1>2, <2>1, ChainNext DEF TableInv, ChainInv
  <2>2. ASSUME NEW a \in Addr, NEW c \in Content,
               AddContent(a, c) \/ RemoveContent(a, c)
        PROVE  TableInv'
    BY <1>2, <2>2, TableContent DEF TableInv
  <2>3. ASSUME NEW a \in handles \ live, EraseAgain(a) PROVE TableInv'
    <3>1. TreeInv' /\ pc' \in {"abort", "undefined"} /\ UNCHANGED <<handles, live>>
      BY <2>3, TableStops DEF TableInv, lifeVars, tree
    <3> QED
      BY <3>1 DEF TableInv, StaleHandle
  <2> QED
    BY <2>1, <2>2, <2>3, LifeTableSteps DEF TableInv
<1> QED
  BY <1>1, <1>2 DEF TableInv

-----------------------------------------------------------------------------
(* The references to the entries.                                          *)

\* What counting the references at the end of a call leaves.
LEMMA Counted ==
  ASSUME CountReferences
  PROVE  /\ entries' \subseteq entries \cup live'
         /\ pc' # "idle" => live' \subseteq entries'
         /\ pc' = "idle" =>
              /\ Supported(entries)'
              /\ \A K \in SUBSET (entries \cup live') : Supported(K)' => K \subseteq entries'
<1>1. CASE pc' # "idle"
  BY <1>1 DEF CountReferences
<1>2. CASE pc' = "idle"
  <2>1. entries' = UNION {K \in SUBSET (entries \cup live') : Supported(K)'}
    BY <1>2 DEF CountReferences
  <2>2. \A K \in SUBSET (entries \cup live') : Supported(K)' => K \subseteq entries'
    BY <2>1
  <2>3. ASSUME NEW e \in entries'
        PROVE  e \in Roots' \/ \E f \in entries' : e \in Refs(f)'
    <3>1. PICK K \in SUBSET (entries \cup live') : Supported(K)' /\ e \in K
      BY <2>1
    <3>2. e \in Roots' \/ \E f \in K : e \in Refs(f)'
      BY <3>1 DEF Supported
    <3> QED
      BY <2>2, <3>1, <3>2
  <2> QED
    BY <1>2, <2>1, <2>2, <2>3 DEF Supported
<1> QED
  BY <1>1, <1>2

LEMMA LifeTypeNext ==
  ASSUME LifeTypeOK, TableInv, [LifeNext]_<<vars, lifeVars>>
  PROVE  LifeTypeOK'
<1>1. live \subseteq Addr /\ live' \subseteq Addr /\ m_parent \in [Addr -> Pointer]
  BY TableInvNext DEF TableInv, TreeInv, TypeInv, TypeOK
<1>2. Null \in Pointer
  BY DEF Pointer
<1>3. CASE TableStep
  <2>1. phase = "open" /\ UNCHANGED <<handles, phase, NodeFreesNext, atBucket>>
    BY <1>3 DEF TableStep, destruction
  <2>2. entries' \subseteq Addr
    BY <1>1, <1>3, Counted DEF TableStep, LifeTypeOK
  <2>3. kept' \in [Addr -> Pointer]
    BY <1>1, <1>2, <1>3 DEF TableStep, LifeTypeOK
  <2> QED
    BY <2>1, <2>2, <2>3 DEF LifeTypeOK
<1>4. CASE \E n \in Name : Hold(n)
  BY <1>1, <1>4 DEF Hold, LifeTypeOK, destruction, vars
<1>5. CASE \E a \in handles : Drop(a)
  <2>1. /\ handles' \subseteq handles /\ UNCHANGED <<kept, phase, destruction, pc>>
        /\ CountReferences
    BY <1>5 DEF Drop, vars
  <2> QED
    BY <1>1, <2>1, Counted DEF LifeTypeOK, destruction
<1>6. CASE \E a \in handles, c \in Content : phase = "open" /\ Use(a, c)
  BY <1>6 DEF Use, LifeTypeOK, lifeVars, destruction, AddContent, RemoveContent
<1>7. CASE \E a \in handles \ live : EraseAgain(a)
  BY <1>7 DEF EraseAgain, LifeTypeOK, lifeVars, destruction
<1>8. CASE Destroy
  BY <1>8 DEF Destroy, LifeTypeOK, vars
<1>9. CASE DestroyBucket
  <2>1. /\ UNCHANGED <<handles, kept, phase, NodeFreesNext, pc>> /\ CountReferences
        /\ phase = "destroying" /\ atBucket' = atBucket + 1
    BY <1>9 DEF DestroyBucket, vars
  <2> QED
    BY <1>1, <2>1, Counted DEF LifeTypeOK
<1>10. CASE DestroyUndefined \/ DestroyEnd
  BY <1>10 DEF DestroyUndefined, DestroyEnd, LifeTypeOK, vars, destruction
<1>11. CASE UNCHANGED <<vars, lifeVars>>
  BY <1>11 DEF LifeTypeOK, vars, lifeVars, destruction
<1> QED
  BY <1>3, <1>4, <1>5, <1>6, <1>7, <1>8, <1>9, <1>10, <1>11 DEF LifeNext

LEMMA LifeTableInit == LifeInit => TableInv /\ LifeTypeOK
<1> SUFFICES ASSUME LifeInit PROVE TableInv /\ LifeTypeOK
  OBVIOUS
<1>1. TableInv
  BY ChainInit DEF LifeInit, ChainInv, TableInv
<1>2. kept \in [Addr -> Pointer]
  BY DEF LifeInit, Pointer
<1> QED
  BY <1>1, <1>2 DEF LifeInit, LifeTypeOK

LEMMA LifeTableCorrect == LifeSpec => [](TableInv /\ LifeTypeOK)
<1>1. LifeInit => TableInv /\ LifeTypeOK
  BY LifeTableInit
<1>2. TableInv /\ LifeTypeOK /\ [LifeNext]_<<vars, lifeVars>> => (TableInv /\ LifeTypeOK)'
  BY TableInvNext, LifeTypeNext
<1> QED
  BY <1>1, <1>2, PTL DEF LifeSpec

\* The code fails an assertion or reads a deleted node only for a client that has
\* kept the handle of an erased entry, unless a node was unlinked through a wrong
\* m_prev before.
THEOREM OnlyStaleHandlesStop == LifeSpec => []StopsOnStaleHandle
<1>1. TableInv => StopsOnStaleHandle
  BY DEF TableInv, StaleHandle, StopsOnStaleHandle, ChainsCorrect
<1> QED
  BY <1>1, LifeTableCorrect, PTL

\* Entries that keep each other after they were erased would never be freed.
KeptEnds ==
  \A K \in SUBSET (entries \ live) :
    (\A e \in K : \E f \in K : kept[f] = e) => K = {}

\* An erased entry refers to its former parent alone, never in a circle, and all
\* that exists between calls is referred to.
EntriesInv ==
  /\ \A a \in entries \ live : m_children[a] = <<>>
  /\ KeptEnds
  /\ pc = "idle" => Supported(entries)
  /\ phase = "open" => live \subseteq entries

\* A call that erases an entry adds it to those that are kept, or frees it.
LEMMA KeptNext ==
  ASSUME LifeTypeOK, TreeInv, EntriesInv, TableStep
  PROVE  KeptEnds' /\ \A a \in entries' \ live' : m_children'[a] = <<>>
<1>1. /\ (live' \ live) \cap entries = {}
      /\ kept' = [a \in Addr |-> IF a \in live \ live' THEN m_parent[a]
                                 ELSE IF a \in entries \ live THEN kept[a] ELSE Null]
      /\ entries' \subseteq entries \cup live'
  BY Counted DEF TableStep
<1>2. live \subseteq Addr /\ entries \subseteq Addr /\ Null \notin Addr
  BY HeapAssumption DEF LifeTypeOK, TreeInv, TypeInv, TypeOK
<1>3. \A a \in entries \ live : kept'[a] = kept[a]
  BY <1>1, <1>2
<1>4. CASE EraseEmpty
  <2>1. /\ entry \in live /\ live' = live \ {entry}
        /\ m_parent[entry] \in live' \cup {Null}
        /\ m_children'[entry] = <<>>
        /\ \A x \in Addr \ live : m_children'[x] = m_children[x]
    BY <1>4, EraseFacts
  <2>2. entries' \ live' \subseteq (entries \ live) \cup {entry}
    BY <1>1, <2>1
  <2>3. kept'[entry] \in live' \cup {Null}
    BY <1>1, <1>2, <2>1
  <2>4. \A a \in entries' \ live' : m_children'[a] = <<>>
    BY <1>2, <2>1, <2>2 DEF EntriesInv
  <2>5. ASSUME NEW K \in SUBSET (entries' \ live'),
               \A e \in K : \E f \in K : kept'[f] = e
        PROVE  K = {}
    <3> DEFINE J == K \ {entry}
    <3>1. J \in SUBSET (entries \ live) /\ Null \notin K /\ K \cap live' = {}
      BY <1>2, <2>1, <2>2
    <3>2. \A e \in K : \E f \in J : kept[f] = e
      <4> SUFFICES ASSUME NEW e \in K PROVE \E f \in J : kept[f] = e
        OBVIOUS
      <4>1. PICK f \in K : kept'[f] = e
        BY <2>5
      <4>2. f # entry
        BY <2>3, <3>1, <4>1
      <4> QED
        BY <1>3, <3>1, <4>1, <4>2
    <3>3. J = {}
      BY <3>1, <3>2 DEF EntriesInv, KeptEnds
    <3> QED
      BY <3>2, <3>3
  <2> QED
    BY <2>4, <2>5 DEF KeptEnds
<1>5. CASE ~EraseEmpty
  <2>1. [Next]_vars
    BY DEF TableStep, Next, Call
  <2>2. live \subseteq live' /\ \A x \in Addr \ live' : m_children'[x] = m_children[x]
    <3>1. CASE UNCHANGED <<live, m_children>>
      BY <3>1
    <3>2. ASSUME NEW a \in Addr \ live, InsertNew(a)
          PROVE  /\ live' = live \cup {a}
                 /\ \A x \in Addr \ live' : m_children'[x] = m_children[x]
      <4>1. /\ pc = "insert" /\ live' = live \cup {a}
            /\ m_children' = IF entry = Null
                             THEN [m_children EXCEPT ![a] = <<>>]
                             ELSE [m_children EXCEPT ![a] = <<>>,
                                                     ![entry] = Append(@, a)]
        BY <3>2 DEF InsertNew
      <4>2. entry \in live \cup {Null} /\ m_children \in [Addr -> Seq(Addr)]
        BY <4>1 DEF TreeInv, CallPosition, TypeInv, TypeOK
      <4> QED
        BY <1>2, <4>1, <4>2
    <3> QED
      BY <1>5, <2>1, <3>1, <3>2, TreeSteps
  <2>3. entries' \ live' \subseteq entries \ live
    BY <1>1, <2>2
  <2>4. \A a \in entries' \ live' : m_children'[a] = <<>>
    BY <1>2, <2>2, <2>3 DEF EntriesInv
  <2>5. ASSUME NEW K \in SUBSET (entries' \ live'),
               \A e \in K : \E f \in K : kept'[f] = e
        PROVE  K = {}
    <3>1. K \in SUBSET (entries \ live)
      BY <2>3
    <3>2. \A e \in K : \E f \in K : kept[f] = e
      BY <1>3, <2>5, <3>1
    <3> QED
      BY <3>1, <3>2 DEF EntriesInv, KeptEnds
  <2> QED
    BY <2>4, <2>5 DEF KeptEnds
<1> QED
  BY <1>4, <1>5

\* Steps that only keep or drop handles, set contents, or delete nodes.
LEMMA KeptStutter ==
  ASSUME EntriesInv, entries' \subseteq entries \cup live,
         UNCHANGED <<live, m_children, kept>>
  PROVE  KeptEnds' /\ \A a \in entries' \ live' : m_children'[a] = <<>>
<1>1. entries' \ live' \subseteq entries \ live
  OBVIOUS
<1> QED
  BY <1>1 DEF EntriesInv, KeptEnds

\* Nodes and handles support what they point to, also in the next state.
LEMMA SupportedStays ==
  ASSUME Supported(entries), Roots \subseteq Roots', entries' = entries,
         UNCHANGED <<live, m_parent, m_children, kept>>
  PROVE  Supported(entries)'
<1>1. \A f : Refs(f)' = Refs(f)
  BY DEF Refs
<1> QED
  BY <1>1 DEF Supported

LEMMA EntriesNext ==
  ASSUME LifeTypeOK, TableInv, EntriesInv, [LifeNext]_<<vars, lifeVars>>
  PROVE  EntriesInv'
<1> USE DEF destruction, lifeVars, vars, tree
<1>1. TreeInv /\ live \subseteq Addr
  BY DEF TableInv, TreeInv, TypeInv, TypeOK
<1>2. CASE TableStep
  <2>1. phase = "open" /\ phase' = "open" /\ CountReferences
    BY <1>2 DEF TableStep
  <2>2. live' \subseteq entries'
    <3>1. CASE pc' = "idle"
      <4> SUFFICES ASSUME NEW K, K = live' PROVE K \subseteq entries'
        OBVIOUS
      <4>1. Supported(K)'
        BY <2>1 DEF Supported, Roots
      <4> QED
        BY <2>1, <3>1, <4>1, Counted
    <3> QED
      BY <2>1, <3>1, Counted
  <2> QED
    BY <1>1, <1>2, <2>1, <2>2, KeptNext, Counted DEF EntriesInv
<1>3. CASE \E n \in Name : Hold(n)
  <2>1. /\ UNCHANGED <<live, m_parent, m_children, kept, entries, phase, nodes, pc>>
        /\ handles \subseteq handles'
    BY <1>3 DEF Hold
  <2>2. Roots \subseteq Roots'
    BY <2>1 DEF Roots
  <2> QED
    BY <2>1, <2>2, KeptStutter, SupportedStays DEF EntriesInv
<1>4. CASE \/ \E a \in handles : Drop(a)
           \/ DestroyBucket
  <2>1. /\ UNCHANGED <<live, m_parent, m_children, kept, phase, pc>>
        /\ CountReferences /\ pc = "idle"
    BY <1>4 DEF Drop, DestroyBucket, LifeTypeOK
  <2>2. phase = "open" => live \subseteq entries'
    <3> SUFFICES ASSUME phase = "open" PROVE live \subseteq entries'
      OBVIOUS
    <3> SUFFICES ASSUME NEW K, K = live PROVE K \subseteq entries'
      OBVIOUS
    <3>1. Supported(K)'
      BY <2>1 DEF Supported, Roots
    <3> QED
      BY <2>1, <3>1, Counted
  <2> QED
    BY <2>1, <2>2, KeptStutter, Counted DEF EntriesInv
<1>5. CASE \/ \E a \in handles, c \in Content : phase = "open" /\ Use(a, c)
           \/ UNCHANGED <<vars, lifeVars>>
  <2>1. UNCHANGED <<live, m_parent, m_children, kept, handles, entries, phase, nodes, pc>>
    BY <1>5 DEF Use, AddContent, RemoveContent
  <2>2. Roots \subseteq Roots'
    BY <2>1 DEF Roots
  <2> QED
    BY <2>1, <2>2, KeptStutter, SupportedStays DEF EntriesInv
<1>6. CASE \E a \in handles \ live : EraseAgain(a)
  <2>1. /\ UNCHANGED <<live, m_children, kept, entries, phase>>
        /\ pc' # "idle"
    BY <1>6 DEF EraseAgain, Stop
  <2> QED
    BY <2>1, KeptStutter DEF EntriesInv
<1>7. CASE Destroy \/ DestroyUndefined \/ DestroyEnd
  <2>1. /\ UNCHANGED <<live, m_parent, m_children, kept, handles, entries, pc>>
        /\ phase' # "open"
        /\ IF phase = "open" THEN nodes' = live ELSE nodes' = nodes
    BY <1>7 DEF Destroy, DestroyUndefined, DestroyEnd
  <2>2. Roots \subseteq Roots'
    BY <2>1 DEF Roots
  <2> QED
    BY <2>1, <2>2, KeptStutter, SupportedStays DEF EntriesInv
<1> QED
  BY <1>2, <1>3, <1>4, <1>5, <1>6, <1>7 DEF LifeNext

LEMMA EntriesCorrect == LifeSpec => [](TableInv /\ LifeTypeOK /\ EntriesInv)
<1>1. LifeInit => EntriesInv
  BY DEF LifeInit, Init, EntriesInv, KeptEnds, Supported
<1>2. TableInv /\ LifeTypeOK /\ EntriesInv /\ [LifeNext]_<<vars, lifeVars>> => EntriesInv'
  BY EntriesNext
<1> QED
  BY <1>1, <1>2, LifeTableCorrect, PTL DEF LifeSpec

\* What refers to an erased entry is a handle or an erased entry below it.
LEMMA ErasedAreKept ==
  ASSUME LifeTypeOK, TreeInv, EntriesInv, Supported(entries),
         NEW e \in entries \ live, e \notin Roots
  PROVE  \E f \in entries \ live : kept[f] = e
<1>1. PICK f \in entries : e \in Refs(f)
  BY DEF Supported
<1>2. \A k \in DOMAIN m_children[f] : f \in live => m_children[f][k] \in live
  BY DEF TreeInv, TreeConsistent, HasChildren
<1>3. f \in live => m_parent[f] \in live \cup {Null}
  BY DEF TreeInv, TreeConsistent, HasParent
<1>4. e # Null
  BY HeapAssumption DEF LifeTypeOK
<1>5. f \notin live
  BY <1>1, <1>2, <1>3, <1>4 DEF Refs
<1>6. m_children[f] = <<>> /\ DOMAIN <<>> = {}
  BY <1>5, EmptySeq DEF EntriesInv
<1> QED
  BY <1>1, <1>5, <1>6 DEF Refs

\* While the table is in use nothing leaks: between calls every erased entry is
\* in the hands of a client or an ancestor of one that is, whatever resize() and
\* eraseEntryIfEmpty() did to the chains.
THEOREM NothingLeaks == LifeSpec => []ErasedAreFreed
<1>1. TableInv /\ LifeTypeOK /\ EntriesInv => ErasedAreFreed
  <2> SUFFICES ASSUME TableInv, LifeTypeOK, EntriesInv, pc = "idle", phase = "open",
                      NEW a \in entries \ live, NEW S \in SUBSET entries,
                      handles \ live \subseteq S,
                      \A e \in S \ live : kept[e] \in S \cup {Null}
               PROVE  a \in S
    BY DEF ErasedAreFreed
  <2> DEFINE K == (entries \ live) \ S
  <2>1. \A e \in K : \E f \in K : kept[f] = e
    <3> SUFFICES ASSUME NEW e \in K PROVE \E f \in K : kept[f] = e
      OBVIOUS
    <3>1. e \notin Roots
      BY DEF Roots
    <3>2. PICK f \in entries \ live : kept[f] = e
      BY <3>1, ErasedAreKept DEF TableInv, EntriesInv
    <3>3. e # Null
      BY HeapAssumption DEF LifeTypeOK
    <3> QED
      BY <3>2, <3>3
  <2>2. K = {}
    BY <2>1 DEF EntriesInv, KeptEnds
  <2> QED
    BY <2>2
<1> QED
  BY <1>1, EntriesCorrect, PTL

-----------------------------------------------------------------------------
(* The destructor.                                                         *)

\* The chains that it walks.
LEMMA BucketFacts ==
  ASSUME TreeInv, ChainsSound, pc = "idle", NEW b \in 0 .. m_nBuckets - 1
  PROVE  /\ Chain(m_buckets[b]) =
              {a \in live : Location(m_prefix[a], m_nBuckets) = b}
         /\ m_buckets[b] # Null =>
              /\ m_buckets[b] \in live
              /\ Location(m_prefix[m_buckets[b]], m_nBuckets) = b
         /\ \A a \in live : a \notin Chain(m_next[a])
<1>1. Chained(live, m_buckets, m_next, m_prev, BucketIn(m_nBuckets))
  BY SoundChain
<1>2. m_buckets[b] # Null =>
        m_buckets[b] \in live /\ BucketIn(m_nBuckets)[m_buckets[b]] = b
  BY <1>1, ChainTypes DEF Chained, HeadsIn
<1>3. m_buckets[b] # Null => Location(m_prefix[m_buckets[b]], m_nBuckets) = b
  BY <1>2, ChainTypes, BucketInTable
<1>4. \A a \in live : a \notin Chain(m_next[a])
  BY <1>1, ChainTypes, ChainNoCycle
<1> QED
  BY <1>2, <1>3, <1>4, SoundChain

\* The nodes that are left when the destructor has dealt with n buckets.
Left(n) ==
  {a \in live : \/ Location(m_prefix[a], m_nBuckets) >= n
                \/ ~NodeFreesNext /\ Bucket(a) # a}

DestroyInv ==
  ~damaged =>
    /\ phase # "undefined"
    /\ phase \in {"destroying", "destroyed"} => nodes = Left(atBucket)
    /\ phase = "destroyed" => ~BucketsLeft

\* Each bucket is deleted once, and has nothing in common with the others.
LEMMA DestroyOneBucket ==
  ASSUME TreeInv, ChainsSound, LifeTypeOK, phase = "destroying", BucketsLeft,
         nodes = Left(atBucket)
  PROVE  /\ Deleted(atBucket) \subseteq nodes /\ ~Cyclic(atBucket)
         /\ nodes \ Deleted(atBucket) = Left(atBucket + 1)
<1> DEFINE b == atBucket
           h == m_buckets[b]
<1>1. b \in Nat /\ b \in 0 .. m_nBuckets - 1 /\ pc = "idle"
  BY ChainTypes DEF LifeTypeOK, BucketsLeft
<1>2. /\ Chain(h) = {a \in live : Location(m_prefix[a], m_nBuckets) = b}
      /\ h # Null => h \in live /\ Location(m_prefix[h], m_nBuckets) = b
      /\ \A a \in live : a \notin Chain(m_next[a])
  BY <1>1, BucketFacts
<1>3. \A a \in live : Location(m_prefix[a], m_nBuckets) \in 0 .. m_nBuckets - 1
  BY ChainTypes, LocationInTable
<1>4. \A a \in live : Location(m_prefix[a], m_nBuckets) = b => Bucket(a) = h
  BY DEF Bucket
<1>5. Null \notin live
  BY ChainTypes
<1> HIDE DEF b, h
<1>6. Deleted(b) = IF NodeFreesNext THEN Chain(h) ELSE {h} \ {Null}
  BY DEF Deleted, b, h
<1>7. Deleted(b) \subseteq Left(b)
  BY <1>1, <1>2, <1>3, <1>6 DEF Left
<1>8. ~Cyclic(b)
  BY <1>2, <1>6 DEF Cyclic
<1>9. Left(b) \ Deleted(b) = Left(b + 1)
  <2>1. ASSUME NEW a \in live
        PROVE  a \in Left(b) \ Deleted(b) <=> a \in Left(b + 1)
    <3> DEFINE at == Location(m_prefix[a], m_nBuckets)
    <3>1. at \in Nat /\ (at >= b + 1 <=> at >= b /\ at # b)
      BY <1>1, <1>3
    <3>2. CASE NodeFreesNext
      BY <1>2, <1>6, <3>1, <3>2 DEF Left
    <3>3. CASE ~NodeFreesNext
      <4>1. a \in Deleted(b) <=> a = h
        BY <1>5, <1>6, <3>3
      <4>2. a = h => at = b /\ Bucket(a) = a
        BY <1>2, <1>4, <1>5
      <4>3. at = b => Bucket(a) = h
        BY <1>4
      <4> QED
        BY <3>1, <3>3, <4>1, <4>2, <4>3 DEF Left
    <3> QED
      BY <3>2, <3>3
  <2> QED
    BY <2>1 DEF Left
<1> QED
  BY <1>7, <1>8, <1>9 DEF b

LEMMA DestroyNext ==
  ASSUME LifeTypeOK, TableInv, DestroyInv, [LifeNext]_<<vars, lifeVars>>
  PROVE  DestroyInv'
<1> USE DEF destruction, lifeVars
<1>1. CASE phase' = "open"
  BY <1>1 DEF DestroyInv
<1>2. CASE Destroy
  <2>1. /\ pc = "idle" /\ phase' = "destroying" /\ nodes' = live /\ atBucket' = 0
        /\ UNCHANGED vars /\ TreeInv
    BY <1>2 DEF Destroy, LifeTypeOK, TableInv
  <2>2. \A a \in live : Location(m_prefix[a], m_nBuckets) >= 0
    BY <2>1, ChainTypes, LocationInTable
  <2>3. Left(0)' = live
    BY <2>1, <2>2 DEF Left, Location, vars, table, tree
  <2>4. Left(atBucket)' = Left(0)'
    BY <2>1 DEF Left
  <2> QED
    BY <2>1, <2>3, <2>4 DEF DestroyInv
<1>3. CASE DestroyBucket \/ DestroyUndefined
  <2> SUFFICES ASSUME ~damaged'
               PROVE  phase' = "destroying" /\ nodes' = Left(atBucket)'
    BY DEF DestroyInv
  <2>1. phase = "destroying" /\ UNCHANGED vars /\ BucketsLeft /\ pc = "idle"
    BY <1>3 DEF DestroyBucket, DestroyUndefined, LifeTypeOK
  <2>2. ~damaged
    BY <2>1, Zenon DEF vars
  <2>3. TreeInv /\ ChainsSound
    BY <2>1, <2>2 DEF TableInv, StaleHandle, ChainsCorrect
  <2>4. nodes = Left(atBucket)
    BY <2>1, <2>2 DEF DestroyInv
  <2>5. /\ Deleted(atBucket) \subseteq nodes /\ ~Cyclic(atBucket)
        /\ nodes \ Deleted(atBucket) = Left(atBucket + 1)
    BY <2>1, <2>3, <2>4, DestroyOneBucket
  <2>6. /\ phase' = phase /\ NodeFreesNext' = NodeFreesNext
        /\ nodes' = nodes \ Deleted(atBucket) /\ atBucket' = atBucket + 1
    BY <1>3, <2>5 DEF DestroyBucket, DestroyUndefined
  <2>7. Left(atBucket)' = Left(atBucket + 1)
    BY <2>1, <2>6 DEF Left, Location, Bucket, vars, table, tree
  <2> QED
    BY <2>1, <2>5, <2>6, <2>7
<1>4. CASE \/ \E a \in handles : Drop(a)
           \/ DestroyEnd
           \/ UNCHANGED <<vars, lifeVars>>
  <2>1. /\ UNCHANGED <<vars, nodes, NodeFreesNext, atBucket>>
        /\ phase' = IF DestroyEnd THEN "destroyed" ELSE phase
        /\ DestroyEnd => phase = "destroying" /\ ~BucketsLeft
    BY <1>4 DEF Drop, DestroyEnd
  <2>2. Left(atBucket)' = Left(atBucket) /\ (BucketsLeft' <=> BucketsLeft)
    BY <2>1 DEF Left, Location, Bucket, BucketsLeft, vars, table, tree
  <2>3. damaged' = damaged
    BY <2>1, Zenon DEF vars
  <2> QED
    BY <2>1, <2>2, <2>3 DEF DestroyInv
<1>5. CASE \/ TableStep \/ \E n \in Name : Hold(n)
           \/ \E a \in handles, c \in Content : phase = "open" /\ Use(a, c)
           \/ \E a \in handles \ live : EraseAgain(a)
  BY <1>1, <1>5 DEF TableStep, Hold, Use, EraseAgain
<1> QED
  BY <1>2, <1>3, <1>4, <1>5 DEF LifeNext

LEMMA DestroyCorrect == LifeSpec => [](TableInv /\ LifeTypeOK /\ DestroyInv)
<1>1. LifeInit => DestroyInv
  BY DEF LifeInit, DestroyInv
<1>2. TableInv /\ LifeTypeOK /\ DestroyInv /\ [LifeNext]_<<vars, lifeVars>> => DestroyInv'
  BY DestroyNext
<1> QED
  BY <1>1, <1>2, LifeTableCorrect, PTL DEF LifeSpec

\* The destructor deletes no node twice, whether ~Node() deletes the next node of
\* its chain or not, unless a node was unlinked through a wrong m_prev before.
THEOREM NoDoubleDelete == LifeSpec => []DestructorDefined
<1>1. DestroyInv => DestructorDefined
  BY DEF DestroyInv, DestructorDefined
<1> QED
  BY <1>1, DestroyCorrect, PTL

\* It deletes all nodes if ~Node() deletes the next one, and otherwise leaves all
\* but the first node of every bucket, as long as no node was unlinked through a
\* wrong m_prev.
THEOREM NodesAreDeleted == LifeSpec => []NodesDeleted
<1>1. TableInv /\ LifeTypeOK /\ DestroyInv => NodesDeleted
  <2> SUFFICES ASSUME TableInv, LifeTypeOK, DestroyInv, phase = "destroyed", ~damaged
               PROVE  nodes = IF NodeFreesNext THEN {} ELSE {a \in live : Bucket(a) # a}
    BY DEF NodesDeleted
  <2>1. nodes = Left(atBucket) /\ ~(atBucket < m_nBuckets)
    BY DEF DestroyInv, BucketsLeft
  <2>2. \A a \in live : ~(Location(m_prefix[a], m_nBuckets) >= atBucket)
    BY <2>1, ChainTypes, LocationInTable DEF TableInv, LifeTypeOK
  <2> QED
    BY <2>1, <2>2 DEF Left
<1> QED
  BY <1>1, DestroyCorrect, PTL

-----------------------------------------------------------------------------
(* What the destructor cannot free: parents and children keep each other.  *)

\* A stored entry with a name refers to its parent and is one of its children.
LEMMA ParentAndChild ==
  ASSUME TreeInv, NEW e \in live, m_prefix[e] # <<>>
  PROVE  /\ m_parent[e] \in live
         /\ e \in Refs(m_parent[e]) /\ m_parent[e] \in Refs(e)
         /\ m_prefix[e] \in Name /\ Len(m_prefix[e]) \in Nat \ {0}
         /\ Len(m_prefix[m_parent[e]]) = Len(m_prefix[e]) - 1
<1>1. m_prefix[e] \in Name /\ m_prefix[e] \in Seq(Component)
  BY ChainTypes, NameAssumption
<1>2. Len(m_prefix[e]) \in Nat \ {0}
  BY <1>1, LenProperties, EmptySeq
<1>3. /\ m_parent[e] \in live
      /\ m_prefix[m_parent[e]] = GetPrefix(m_prefix[e], Len(m_prefix[e]) - 1)
      /\ \E k \in DOMAIN m_children[m_parent[e]] : m_children[m_parent[e]][k] = e
  BY DEF TreeInv, TreeConsistent, HasParent
<1>4. Len(m_prefix[m_parent[e]]) = Len(m_prefix[e]) - 1
  BY <1>1, <1>2, <1>3, PrefixFacts
<1> QED
  BY <1>1, <1>2, <1>3, <1>4 DEF Refs

\* Unless the root is alone, every stored entry is referred to by another one.
LEMMA Family ==
  ASSUME TreeInv, \A x, y \in live : m_prefix[x] = m_prefix[y] => x = y,
         Cardinality(live) # 1, NEW e \in live
  PROVE  \E f \in live : e \in Refs(f)
<1>1. CASE m_prefix[e] # <<>>
  BY <1>1, ParentAndChild
<1>2. CASE m_prefix[e] = <<>>
  <2> DEFINE Lengths ==
               {k \in Nat : \E x \in live : m_prefix[x] # <<>> /\ k = Len(m_prefix[x])}
  <2>1. live # {e}
    BY FS_Singleton
  <2>2. \E x \in live : m_prefix[x] # <<>>
    BY <1>2, <2>1
  <2>3. Lengths \in SUBSET Nat /\ Lengths # {}
    <3>1. \A x \in live : m_prefix[x] # <<>> => Len(m_prefix[x]) \in Nat
      BY ParentAndChild
    <3> QED
      BY <2>2, <3>1
  <2>4. PICK n \in Lengths : \A m \in Lengths : n <= m
    BY <2>3, LeastNat
  <2>5. PICK x \in live : m_prefix[x] # <<>> /\ n = Len(m_prefix[x])
    BY <2>4
  <2>6. m_parent[x] \in live /\ Len(m_prefix[m_parent[x]]) = n - 1 /\ n \in Nat
    BY <2>5, ParentAndChild
  <2>7. m_prefix[m_parent[x]] = <<>>
    <3>1. m_prefix[m_parent[x]] # <<>> => n - 1 \in Lengths
      BY <2>6
    <3>2. n - 1 \in Lengths => n <= n - 1
      BY <2>4
    <3> QED
      BY <2>6, <3>1, <3>2
  <2>8. m_parent[x] = e
    BY <1>2, <2>6, <2>7
  <2> QED
    BY <2>5, <2>8, ParentAndChild
<1> QED
  BY <1>1, <1>2

LEMMA NoSelfReference ==
  ASSUME TreeInv, NEW e \in live
  PROVE  e \notin Refs(e)
<1>1. m_parent[e] # e
  <2> SUFFICES ASSUME m_parent[e] = e PROVE FALSE
    OBVIOUS
  <2>1. m_prefix[e] # <<>>
    BY ChainTypes DEF TreeInv, TreeConsistent, HasParent
  <2> QED
    BY <2>1, ParentAndChild
<1>2. \A k \in DOMAIN m_children[e] : m_children[e][k] # e
  BY <1>1 DEF TreeInv, TreeConsistent, HasChildren
<1> QED
  BY <1>1, <1>2 DEF Refs

\* The stored entries outlive the destruction of the nodes, unless there is one only.
LeakInv ==
  ~damaged /\ phase # "open" /\ Cardinality(live) # 1 => live \subseteq entries

LEMMA LeakNext ==
  ASSUME LifeTypeOK, TableInv, EntriesInv, LeakInv, [LifeNext]_<<vars, lifeVars>>
  PROVE  LeakInv'
<1> SUFFICES ASSUME ~damaged', phase' # "open", Cardinality(live') # 1
             PROVE  live' \subseteq entries'
  BY DEF LeakInv
<1>1. CASE Destroy
  BY <1>1 DEF Destroy, EntriesInv, vars, tree
<1>2. CASE \/ \E a \in handles : Drop(a)
           \/ DestroyBucket
  <2>1. UNCHANGED <<vars, phase, kept>> /\ pc = "idle" /\ CountReferences
    BY <1>2 DEF Drop, DestroyBucket, LifeTypeOK
  <2>2. ~damaged
    BY <2>1, Zenon DEF vars
  <2>3. /\ UNCHANGED <<live, m_parent, m_children, pc>>
        /\ live \subseteq entries
    BY <2>1, <2>2 DEF vars, tree, LeakInv
  <2>4. TreeInv /\ ChainsSound
    BY <2>1, <2>2 DEF TableInv, StaleHandle, ChainsCorrect
  <2>5. \A e \in live : \E f \in live : e \in Refs(f)
    BY <2>3, <2>4, Family DEF ChainsSound
  <2>6. \A f : Refs(f)' = Refs(f)
    BY <2>1, <2>3 DEF Refs
  <2> SUFFICES ASSUME NEW K, K = live PROVE K \subseteq entries'
    BY <2>3
  <2>7. Supported(K)'
    BY <2>5, <2>6 DEF Supported
  <2> QED
    BY <2>1, <2>3, <2>7, Counted
<1>3. CASE DestroyUndefined \/ DestroyEnd \/ UNCHANGED <<vars, lifeVars>>
  <2>1. UNCHANGED <<vars, entries>> /\ phase # "open"
    BY <1>3 DEF DestroyUndefined, DestroyEnd, lifeVars
  <2>2. ~damaged
    BY <2>1, Zenon DEF vars
  <2> QED
    BY <2>1, <2>2 DEF LeakInv, vars, tree
<1>4. CASE \/ TableStep \/ \E n \in Name : Hold(n)
           \/ \E a \in handles, c \in Content : phase = "open" /\ Use(a, c)
           \/ \E a \in handles \ live : EraseAgain(a)
  BY <1>4 DEF TableStep, Hold, Use, EraseAgain, lifeVars
<1> QED
  BY <1>1, <1>2, <1>3, <1>4 DEF LifeNext

\* A table with more than a root leaves all its entries behind when it is
\* destroyed, and nothing else: neither the root alone nor an entry that was
\* erased before and that no client has, as long as no node was unlinked through a
\* wrong m_prev.
THEOREM DestructionLeaks == LifeSpec => []DestroyedTableLeaks
<1>1. TableInv /\ LifeTypeOK /\ EntriesInv /\ DestroyInv /\ LeakInv => DestroyedTableLeaks
  <2> SUFFICES ASSUME TableInv, LifeTypeOK, EntriesInv, DestroyInv, LeakInv,
                      phase = "destroyed", ~damaged, handles = {}
               PROVE  entries = IF Cardinality(live) = 1 THEN {} ELSE live
    BY DEF DestroyedTableLeaks
  <2>1. /\ pc = "idle" /\ TreeInv /\ ChainsSound
        /\ nodes = Left(atBucket) /\ ~(atBucket < m_nBuckets)
        /\ Supported(entries)
    BY DEF LifeTypeOK, TableInv, StaleHandle, ChainsCorrect, DestroyInv, BucketsLeft,
           EntriesInv
  <2>2. Roots \subseteq {a \in live : Bucket(a) # a}
    <3>1. \A a \in live : ~(Location(m_prefix[a], m_nBuckets) >= atBucket)
      BY <2>1, ChainTypes, LocationInTable DEF LifeTypeOK
    <3> QED
      BY <2>1, <3>1 DEF Roots, Left
  <2>3. entries \subseteq live
    <3>1. \A e \in entries \ live : \E f \in entries \ live : kept[f] = e
      BY <2>1, <2>2, ErasedAreKept
    <3> QED
      BY <3>1 DEF EntriesInv, KeptEnds
  <2>4. CASE Cardinality(live) # 1
    BY <2>3, <2>4 DEF LeakInv
  <2>5. CASE Cardinality(live) = 1
    <3>1. IsFiniteSet(live)
      BY <2>1, ChainTypes, HeapAssumption, FS_Subset
    <3>2. PICK e : live = {e}
      BY <2>5, <3>1, FS_Singleton
    <3>3. Bucket(e) = e
      <4> DEFINE b == Location(m_prefix[e], m_nBuckets)
      <4>1. b \in 0 .. m_nBuckets - 1
        BY <2>1, <3>2, ChainTypes, LocationInTable
      <4>2. /\ e \in Chain(m_buckets[b])
            /\ m_buckets[b] # Null => m_buckets[b] = e
        BY <2>1, <3>2, <4>1, BucketFacts
      <4>3. m_buckets[b] # Null
        BY <4>2, ChainOfNull
      <4> QED
        BY <4>2, <4>3 DEF Bucket
    <3>4. \A x \in entries : x = e /\ x \notin Roots /\ \A f \in entries : f = e
      BY <2>2, <2>3, <3>2, <3>3
    <3>5. entries = {}
      BY <2>1, <3>2, <3>4, NoSelfReference DEF Supported
    <3> QED
      BY <2>5, <3>5
  <2> QED
    BY <2>4, <2>5
<1>2. LifeInit => LeakInv
  BY DEF LifeInit, LeakInv
<1>3. /\ TableInv /\ LifeTypeOK /\ EntriesInv /\ LeakInv
      /\ [LifeNext]_<<vars, lifeVars>>
      => LeakInv'
  BY LeakNext
<1> QED
  BY <1>1, <1>2, <1>3, EntriesCorrect, DestroyCorrect, PTL DEF LifeSpec

-----------------------------------------------------------------------------
(* The table after failed allocations: types, entries and nodes, in every  *)
(* table, damaged or not.                                                  *)

\* A running call has an entry wherever it needs one.
EntryExists ==
  /\ pc = "insert" => entry \in live \cup {Null}
  /\ (pc \in {"inserted", "grown", "erase"} \/ (pc = "resize" /\ after = "grown"))
       => entry \in live

\* An erased entry has no children, so that a parent that lists one is stored.
NoDeadParent == \A a \in Addr \ live : m_children[a] = <<>>

EntryInv ==
  /\ TypeInv
  /\ bare \subseteq Addr /\ bare \cap live = {}
  /\ SizeCountsEntries /\ EntryExists /\ NoDeadParent

LEMMA EntryInit == FailureInit => EntryInv
<1> SUFFICES ASSUME FailureInit PROVE EntryInv
  OBVIOUS
<1>1. Init /\ bare = {}
  BY DEF FailureInit
<1>2. /\ pc = "idle" /\ live = {} /\ m_nItems = 0
      /\ m_children = [a \in Addr |-> <<>>]
  BY <1>1 DEF Init
<1>3. TypeInv
  BY <1>1, TypeInit
<1> QED
  BY <1>1, <1>2, <1>3, FS_EmptySet
     DEF EntryInv, SizeCountsEntries, EntryExists, NoDeadParent

\* A step that NameTree takes too.
LEMMA AlikeFacts ==
  ASSUME Alike
  PROVE  Next /\ bare' = bare
BY DEF Alike, Next, Call, Step, Free

\* An entry more or less is counted.
LEMMA CountChanges ==
  ASSUME TypeInv, SizeCountsEntries
  PROVE  /\ \A a \in Addr \ live : m_nItems + 1 = Cardinality(live \cup {a})
         /\ \A a \in live : m_nItems - 1 = Cardinality(live \ {a})
<1>1. IsFiniteSet(live)
  BY LinkTypes, HeapAssumption, FS_Subset
<1>2. Cardinality(live) \in Nat
  BY <1>1, FS_CardinalityType
<1>3. ASSUME NEW a \in Addr \ live PROVE m_nItems + 1 = Cardinality(live \cup {a})
  BY <1>1, <1>2, FS_AddElement DEF SizeCountsEntries
<1>4. ASSUME NEW a \in live PROVE m_nItems - 1 = Cardinality(live \ {a})
  BY <1>1, <1>2, FS_RemoveElement DEF SizeCountsEntries
<1> QED
  BY <1>3, <1>4

\* insert() and lookup() keep these when they return and when they go on.
LEMMA EntryKept ==
  ASSUME EntryInv, TypeInv', UNCHANGED <<live, bare, m_nItems, m_children>>,
         EntryExists'
  PROVE  EntryInv'
BY DEF EntryInv, SizeCountsEntries, NoDeadParent

\* A new entry has no children; the one above it is stored.
LEMMA EntryAdded ==
  ASSUME EntryInv, TypeInv', NEW a \in Addr, a \notin live, a \notin bare,
         live' = live \cup {a}, bare' = bare, m_nItems' = m_nItems + 1,
         \A x \in Addr \ live' : m_children'[x] = m_children[x],
         EntryExists'
  PROVE  EntryInv'
<1>1. SizeCountsEntries'
  BY CountChanges DEF EntryInv, SizeCountsEntries
<1>2. NoDeadParent'
  BY DEF EntryInv, NoDeadParent
<1> QED
  BY <1>1, <1>2 DEF EntryInv

\* The erasure of an entry goes on with its parent only if the parent listed the
\* entry, and is therefore stored.
LEMMA EntryErased ==
  ASSUME EntryInv, TypeInv', EraseEntry, bare' = bare
  PROVE  EntryInv'
<1> DEFINE up == m_parent[entry]
<1>1. /\ pc = "erase" /\ entry \in live /\ entry \in Addr /\ live \subseteq Addr
      /\ m_children[entry] = <<>>
      /\ live' = live \ {entry} /\ m_nItems' = m_nItems - 1
  BY LinkTypes DEF EntryInv, EntryExists, EraseEntry, IsEmpty, Discard
<1>2. SizeCountsEntries'
  BY <1>1, CountChanges DEF EntryInv, SizeCountsEntries
<1>3. \/ up = Null /\ m_children' = m_children
      \/ /\ up \in live /\ up # entry
         /\ \A x \in Addr \ {up} : m_children'[x] = m_children[x]
  <2>1. CASE up = Null
    BY <2>1 DEF EraseEntry, Unparent
  <2>2. CASE up # Null
    <3>1. /\ up \in Addr /\ m_children \in [Addr -> Seq(Addr)]
          /\ \E k \in DOMAIN m_children[up] :
               /\ m_children[up][k] = entry
               /\ m_children' = [m_children EXCEPT ![up] = RemoveChild(@, k)]
      BY <1>1, <2>2, UnparentCases DEF EraseEntry, EntryInv, TypeInv, TypeOK
    <3>2. m_children[up] # <<>>
      BY <3>1, EmptySeq
    <3>3. up \in live /\ up # entry
      BY <1>1, <3>1, <3>2 DEF EntryInv, NoDeadParent
    <3> QED
      BY <3>1, <3>3
  <2> QED
    BY <2>1, <2>2
<1>4. NoDeadParent'
  BY <1>1, <1>3 DEF EntryInv, NoDeadParent
<1>5. EntryExists'
  <2>1. CASE up = Null
    BY <2>1 DEF EraseEntry, EraseParent, Return, EntryExists
  <2>2. CASE up # Null
    <3>1. entry' = up /\ pc' = "erase"
      BY <1>1, <2>2 DEF EraseEntry, EraseParent
    <3> QED
      BY <1>1, <1>3, <2>2, <3>1 DEF EntryExists
  <2> QED
    BY <2>1, <2>2
<1> QED
  BY <1>1, <1>2, <1>4, <1>5 DEF EntryInv

\* The steps of NameTree.
LEMMA EntryAlike ==
  ASSUME EntryInv, Alike
  PROVE  EntryInv'
<1>1. TypeInv' /\ bare' = bare
  BY AlikeFacts, TypeNext DEF EntryInv
<1>2. ASSUME NEW a \in Free, InsertNew(a) PROVE EntryInv'
  <2>1. /\ pc = "insert" /\ pc' = "inserted" /\ entry' = a
        /\ live' = live \cup {a} /\ m_nItems' = m_nItems + 1
    BY <1>2 DEF InsertNew
  <2>2. a \in Addr /\ a \notin live /\ a \notin bare
    BY DEF Free
  <2>3. entry \in live \cup {Null}
    BY <2>1 DEF EntryInv, EntryExists
  <2>4. \A x \in Addr \ live' : m_children'[x] = m_children[x]
    <3>1. m_children \in [Addr -> Seq(Addr)]
      BY DEF EntryInv, TypeInv, TypeOK
    <3>2. CASE entry = Null
      BY <1>2, <2>1, <3>1, <3>2 DEF InsertNew
    <3>3. CASE entry # Null
      BY <1>2, <2>1, <2>3, <3>1, <3>3 DEF InsertNew
    <3> QED
      BY <3>2, <3>3
  <2>5. EntryExists'
    BY <2>1 DEF EntryExists
  <2> QED
    BY <1>1, <2>1, <2>2, <2>4, <2>5, EntryAdded
<1>3. CASE EraseEmpty
  BY <1>1, <1>3, EntryErased DEF EraseEmpty, EraseEntry
<1>4. ASSUME NEW a \in live, Erase(a) PROVE EntryInv'
  <2>1. UNCHANGED <<live, m_nItems, m_children>> /\ pc' = "erase" /\ entry' = a
    BY <1>4 DEF Erase, tree, table
  <2> QED
    BY <1>1, <2>1, EntryKept DEF EntryExists
<1>5. CASE \/ \E n \in Name : Lookup(n)
           \/ \E a \in live, c \in Content : AddContent(a, c) \/ RemoveContent(a, c)
           \/ InsertWalk \/ InsertFound \/ NextPrefix \/ EraseNotEmpty
  <2>1. UNCHANGED <<live, m_nItems, m_children>>
    BY <1>5 DEF Lookup, AddContent, RemoveContent, InsertWalk, InsertFound,
                NextPrefix, EraseNotEmpty, tree, table
  <2>2. EntryExists'
    BY <1>5 DEF Lookup, AddContent, RemoveContent, InsertWalk, InsertFound,
                NextPrefix, EraseNotEmpty, BeginInsert, Return, EntryInv,
                EntryExists, tree, locals
  <2> QED
    BY <1>1, <2>1, <2>2, EntryKept
<1>6. CASE \/ \E n \in ResizeTo : Resize(n)
           \/ Grow \/ ResizeWalk \/ ResizeLink \/ ResizeNextBucket \/ ResizeEnd
  <2>1. UNCHANGED <<live, m_nItems, m_children, entry>>
    BY <1>6 DEF Resize, Grow, BeginResize, ResizeWalk, ResizeLink,
                ResizeNextBucket, ResizeEnd, Stop, tree, table, locals
  <2>2. EntryExists'
    BY <1>6, <2>1 DEF Resize, Grow, BeginResize, ResizeWalk, ResizeLink,
                      ResizeNextBucket, ResizeEnd, Stop, EntryInv, EntryExists,
                      TypeInv, TypeOK, rehash
  <2> QED
    BY <1>1, <2>1, <2>2, EntryKept
<1>7. CASE InsertUndefined \/ ResizeUndefined \/ EraseUndefined
  <2>1. UNCHANGED <<live, m_nItems, m_children>> /\ pc' = "undefined"
    BY <1>7 DEF InsertUndefined, ResizeUndefined, EraseUndefined, Stop, tree, table
  <2> QED
    BY <1>1, <2>1, EntryKept DEF EntryExists
<1> QED
  BY <1>2, <1>3, <1>4, <1>5, <1>6, <1>7 DEF Alike

\* What a failure in insert() does to the links is what its success does.
LEMMA LinkNodeFacts ==
  ASSUME TypeInv, NEW a \in Free, LinkNode(a)
  PROVE  /\ a \in Addr /\ a \notin live /\ a \notin bare
         /\ LinkLast(a) /\ Prefix \in Name
         /\ m_buckets' \in [0 .. m_nBuckets - 1 -> Pointer]
         /\ m_next' \in [Addr -> Pointer] /\ m_prev' \in [Addr -> Pointer]
         /\ UNCHANGED <<m_nBuckets, m_resizeThreshold>>
<1>1. a \in Addr /\ a \notin live /\ a \notin bare
  BY DEF Free
<1>2. LinkLast(a) /\ UNCHANGED <<m_nBuckets, m_resizeThreshold>>
  BY DEF LinkNode, LinkLast
<1> QED
  BY <1>1, <1>2, TypeLinkLast

\* The steps of a lookup() whose allocation fails.
LEMMA EntryFailure ==
  ASSUME EntryInv,
         \/ NewNodeFails \/ NewBucketsFail
         \/ \E a \in Free : NewEntryFails(a) \/ PushBackFails(a)
  PROVE  EntryInv' /\ pc' = "idle"
<1> USE DEF TypeInv, TypeOK, table, links, tree, rehash
<1>1. CASE NewNodeFails \/ NewBucketsFail
  <2>1. Return /\ UNCHANGED <<table, links, tree, rehash, damaged, bare>>
    BY <1>1 DEF NewNodeFails, NewBucketsFail
  <2>2. TypeInv'
    BY <2>1, TypeReturn DEF EntryInv
  <2>3. pc' = "idle" /\ EntryExists'
    BY <2>1 DEF Return, EntryExists
  <2> QED
    BY <2>1, <2>2, <2>3, EntryKept
<1>2. ASSUME NEW a \in Free, NewEntryFails(a) PROVE EntryInv' /\ pc' = "idle"
  <2>1. /\ LinkNode(a) /\ Return /\ bare' = bare \cup {a}
        /\ UNCHANGED <<m_nItems, tree, rehash, damaged>>
    BY <1>2 DEF NewEntryFails
  <2>2. TypeInv'
    BY <2>1, LinkNodeFacts, TypeReturn DEF EntryInv
  <2>3. pc' = "idle" /\ EntryExists'
    BY <2>1 DEF Return, EntryExists
  <2>4. bare' \subseteq Addr /\ bare' \cap live' = {}
    BY <2>1, LinkNodeFacts DEF EntryInv
  <2> QED
    BY <2>1, <2>2, <2>3, <2>4 DEF EntryInv, SizeCountsEntries, NoDeadParent
<1>3. ASSUME NEW a \in Free, PushBackFails(a) PROVE EntryInv' /\ pc' = "idle"
  <2>1. /\ LinkNode(a) /\ Return /\ entry # Null /\ live' = live \cup {a}
        /\ m_nItems' = m_nItems + 1
        /\ m_prefix' = [m_prefix EXCEPT ![a] = Prefix]
        /\ m_parent' = [m_parent EXCEPT ![a] = entry]
        /\ m_children' = [m_children EXCEPT ![a] = <<>>]
        /\ content' = [content EXCEPT ![a] = {}]
        /\ UNCHANGED <<rehash, damaged, bare>>
    BY <1>3 DEF PushBackFails
  <2>2. /\ a \in Addr /\ a \notin live /\ a \notin bare /\ Prefix \in Name
        /\ m_buckets' \in [0 .. m_nBuckets - 1 -> Pointer]
        /\ m_next' \in [Addr -> Pointer] /\ m_prev' \in [Addr -> Pointer]
        /\ UNCHANGED <<m_nBuckets, m_resizeThreshold>>
    BY <2>1, LinkNodeFacts DEF EntryInv
  <2>3. /\ m_prefix' \in [Addr -> Name] /\ m_parent' \in [Addr -> Pointer]
        /\ m_children' \in [Addr -> Seq(Addr)]
        /\ content' \in [Addr -> SUBSET Content]
    BY <2>1, <2>2, EmptySeq DEF EntryInv
  <2>4. TypeInv'
    BY <2>1, <2>2, <2>3, TypeReturn DEF EntryInv
  <2>5. pc' = "idle" /\ EntryExists'
    BY <2>1 DEF Return, EntryExists
  <2>6. \A x \in Addr \ live' : m_children'[x] = m_children[x]
    BY <2>1 DEF EntryInv
  <2> HIDE DEF TypeInv
  <2> QED
    BY <2>1, <2>2, <2>4, <2>5, <2>6, EntryAdded
<1> QED
  BY <1>1, <1>2, <1>3

\* The steps that meet what a failure has left.
LEMMA EntryMeets ==
  ASSUME EntryInv, WalkOverBare \/ EraseNextToBare \/ ResizeAborts \/ EraseAborts
  PROVE  EntryInv'
<1>1. CASE WalkOverBare
  <2>1. TypeInv'
    BY <1>1 DEF WalkOverBare, EntryInv, TypeInv, TypeOK, table, links, tree, rehash,
                Pointer
  <2>2. UNCHANGED <<live, bare, m_nItems, m_children>> /\ EntryExists'
    BY <1>1 DEF WalkOverBare, EntryInv, EntryExists, table, tree
  <2> QED
    BY <2>1, <2>2, EntryKept
<1>2. CASE EraseNextToBare
  <2>1. EraseEntry /\ bare' = bare
    BY <1>2 DEF EraseNextToBare, EraseEntry
  <2>2. damaged' \in BOOLEAN
    BY <1>2, Zenon DEF EraseNextToBare
  <2>3. TypeInv'
    BY <2>1, <2>2, TypeEraseEntry DEF EntryInv
  <2> QED
    BY <2>1, <2>3, EntryErased
<1>3. CASE ResizeAborts \/ EraseAborts
  <2>1. Stop("abort") /\ bare' = bare
    BY <1>3 DEF ResizeAborts, EraseAborts
  <2>2. TypeInv'
    BY <2>1 DEF Stop, EntryInv, TypeInv, TypeOK, table, links, tree, locals, rehash
  <2>3. UNCHANGED <<live, m_nItems, m_children>> /\ EntryExists'
    BY <2>1 DEF Stop, EntryExists, table, tree
  <2> QED
    BY <2>1, <2>2, <2>3, EntryKept
<1> QED
  BY <1>1, <1>2, <1>3

LEMMA EntryNext == EntryInv /\ [FailureNext]_failureVars => EntryInv'
<1> SUFFICES ASSUME EntryInv, [FailureNext]_failureVars PROVE EntryInv'
  OBVIOUS
<1>1. CASE UNCHANGED failureVars
  <2>1. UNCHANGED <<vars, bare>>
    BY <1>1 DEF failureVars
  <2>2. TypeInv'
    BY <2>1, TypeNext DEF EntryInv
  <2>3. UNCHANGED <<live, m_nItems, m_children>> /\ EntryExists'
    BY <2>1 DEF EntryInv, EntryExists, vars, table, tree, locals, rehash
  <2> QED
    BY <2>1, <2>2, <2>3, EntryKept
<1> QED
  BY <1>1, EntryAlike, EntryFailure, EntryMeets DEF FailureNext

-----------------------------------------------------------------------------
(* The chains after failed allocations, as long as no node was unlinked    *)
(* through a wrong m_prev: they hold the nodes of the entries and the bare *)
(* ones, in the bucket of the name whose entry could not be made.          *)

FailureChains ==
  ~damaged /\ pc # "abort" =>
    /\ pc # "undefined"
    /\ \E at : SoundAmong(live \cup bare, at)

FailureInv == EntryInv /\ FailureChains /\ FailuresAbortKnown

LEMMA FailureInvInit == FailureInit => FailureInv
<1> SUFFICES ASSUME FailureInit PROVE FailureInv
  OBVIOUS
<1>1. Init /\ bare = {}
  BY DEF FailureInit
<1>2. TypeInv /\ ChainsSound /\ live \cup bare = live
  BY <1>1, ChainInit DEF ChainInv, TreeInv, ChainsCorrect, Init
<1>3. SoundAmong(live \cup bare, BucketIn(m_nBuckets))
  BY <1>2, AmongLive, Zenon
<1>4. pc = "idle"
  BY <1>1 DEF Init
<1>5. FailureChains
  BY <1>3, <1>4 DEF FailureChains
<1> QED
  BY <1>4, <1>5, EntryInit DEF FailureInv, FailuresAbortKnown

\* The chains are sound after a step that does not stop.
LEMMA FailureChainsAfter ==
  ASSUME NEW linked, NEW at, linked = live' \cup bare', SoundAmong(linked, at)',
         pc' \notin {"undefined", "abort"}
  PROVE  FailureChains' /\ FailuresAbortKnown'
<1>1. SoundAmong(live \cup bare, at)'
  BY DEF SoundAmong
<1>2. \E f : SoundAmong(live \cup bare, f)'
  BY <1>1
<1> QED
  BY <1>2 DEF FailureChains, FailuresAbortKnown

\* damaged is set by the three steps that use a wrong m_prev, and is never reset.
LEMMA FailureDamage ==
  ASSUME [FailureNext]_failureVars, ~damaged'
  PROVE  /\ ~damaged
         /\ EraseEmpty \/ EraseUndefined \/ EraseNextToBare => ~WrongPrev(entry)
<1>1. ASSUME EraseEmpty \/ EraseUndefined \/ EraseNextToBare
      PROVE  damaged' = (damaged \/ WrongPrev(entry))
  BY <1>1, Zenon DEF EraseEmpty, EraseUndefined, EraseNextToBare
<1>2. ASSUME ~EraseEmpty, ~EraseUndefined, ~EraseNextToBare PROVE damaged' = damaged
  <2>1. CASE Alike
    <3>1. Next
      BY <2>1, AlikeFacts
    <3> QED
      BY <1>2, <3>1
         DEF Next, Call, Step, Lookup, Erase, Resize, AddContent, RemoveContent,
             InsertWalk, InsertFound, InsertUndefined, InsertNew, Grow, NextPrefix,
             ResizeWalk, ResizeLink, ResizeNextBucket, ResizeEnd, ResizeUndefined,
             EraseNotEmpty, BeginResize, Stop
  <2>2. CASE \/ WalkOverBare \/ ResizeAborts \/ EraseAborts
             \/ NewNodeFails \/ NewBucketsFail
             \/ \E a \in Free : NewEntryFails(a) \/ PushBackFails(a)
    BY <2>2 DEF WalkOverBare, ResizeAborts, EraseAborts, Stop, NewNodeFails,
                NewBucketsFail, NewEntryFails, PushBackFails
  <2>3. CASE UNCHANGED failureVars
    BY <2>3 DEF failureVars, vars
  <2> QED
    BY <1>2, <2>1, <2>2, <2>3 DEF FailureNext
<1>3. CASE EraseEmpty \/ EraseUndefined \/ EraseNextToBare
  <2>1. damaged' = (damaged \/ WrongPrev(entry))
    BY <1>1, <1>3, Zenon
  <2> QED
    BY <2>1, Zenon
<1>4. CASE ~EraseEmpty /\ ~EraseUndefined /\ ~EraseNextToBare
  <2>1. damaged' = damaged
    BY <1>2, <1>4, Zenon
  <2> QED
    BY <1>4, <2>1, Zenon
<1> QED
  BY <1>3, <1>4, Zenon

\* The steps of NameTree: none of them touches a deleted node or aborts.
LEMMA ChainsAlike ==
  ASSUME EntryInv, NEW linked, NEW at, linked = live \cup bare, SoundAmong(linked, at),
         Alike, EraseEmpty \/ EraseUndefined => ~WrongPrev(entry)
  PROVE  FailureChains' /\ FailuresAbortKnown'
<1> DEFINE Goal == FailureChains' /\ FailuresAbortKnown'
<1>1. /\ TypeInv /\ SizeCountsEntries /\ bare' = bare
      /\ pc = "erase" => entry \in live /\ entry \notin bare
  BY AlikeFacts DEF EntryInv, EntryExists
<1>2. ASSUME live' = live, SoundAmong(linked, at)', pc' \notin {"undefined", "abort"}
      PROVE  Goal
  BY <1>1, <1>2, FailureChainsAfter
<1>3. ASSUME NEW n \in ResizeTo, Resize(n) PROVE Goal
  <2>1. live' = live
    BY <1>3 DEF Resize, BeginResize, tree
  <2> QED
    BY <1>1, <1>2, <1>3, <2>1, SizeAssumption, ChainsBeginResize DEF Resize
<1>4. CASE Grow
  <2>1. 2 * m_nBuckets \in Nat \ {0} /\ live' = live
    BY <1>1, <1>4, LinkTypes DEF Grow, BeginResize, tree
  <2> QED
    BY <1>1, <1>2, <1>4, <2>1, ChainsBeginResize DEF Grow
<1>5. CASE EraseEmpty
  <2>1. /\ pc = "erase" /\ entry \in live /\ live' = live \ {entry}
        /\ {m_prev[entry], m_next[entry]} \subseteq linked \cup {Null}
        /\ Unlink /\ Discard /\ EraseParent /\ m_nBuckets' = m_nBuckets
        /\ ~WrongPrev(entry)
    BY <1>1, <1>5 DEF EraseEmpty, Discard
  <2>2. PICK linked2 : linked2 = linked \ {entry}
    OBVIOUS
  <2>3. SoundAmong(linked2, at)' /\ pc' \in {"idle", "erase"}
    BY <1>1, <2>1, <2>2, ChainsUnlink
  <2>4. linked2 = live' \cup bare'
    BY <1>1, <2>1, <2>2
  <2> QED
    BY <2>3, <2>4, FailureChainsAfter
<1>6. ASSUME NEW a \in Free, InsertNew(a) PROVE Goal
  <2>1. a \in Addr \ linked
    BY DEF Free
  <2>2. PICK linked2 : linked2 = linked \cup {a}
    OBVIOUS
  <2>3. /\ \E at2 : SoundAmong(linked2, at2)'
        /\ live' = live \cup {a} /\ pc' = "inserted"
    BY <1>1, <1>6, <2>1, <2>2, ChainsInsertNew
  <2>4. PICK at2 : SoundAmong(linked2, at2)'
    BY <2>3
  <2>5. linked2 = live' \cup bare'
    BY <1>1, <2>2, <2>3
  <2> QED
    BY <2>3, <2>4, <2>5, FailureChainsAfter
<1>7. CASE \/ ResizeWalk \/ ResizeLink \/ ResizeNextBucket
  <2>1. live' = live
    BY <1>7 DEF ResizeWalk, ResizeLink, ResizeNextBucket, tree
  <2> QED
    BY <1>1, <1>2, <1>7, <2>1, ChainsResizeWalk, ChainsResizeLink,
       ChainsResizeNextBucket
<1>8. CASE ResizeEnd
  <2>1. PICK at2 : at2 = BucketIn(newNBuckets)
    OBVIOUS
  <2>2. /\ SoundAmong(linked, at2)' /\ live' = live
        /\ pc' \notin {"undefined", "abort"}
    BY <1>1, <1>8, <2>1, ChainsResizeEnd
  <2> QED
    BY <1>1, <2>2, FailureChainsAfter
<1>9. CASE \/ \E n \in Name : Lookup(n)
           \/ \E a \in live : Erase(a)
           \/ \E a \in live, c \in Content : AddContent(a, c) \/ RemoveContent(a, c)
           \/ InsertFound \/ NextPrefix \/ EraseNotEmpty
  <2>1. live' = live
    BY <1>9 DEF Lookup, Erase, AddContent, RemoveContent, InsertFound, NextPrefix,
                EraseNotEmpty, tree
  <2> QED
    BY <1>1, <1>2, <1>9, <2>1, ChainsQuiet
<1>10. CASE InsertWalk
  <2>1. /\ pc = "insert" /\ pc' = "insert" /\ live' = live /\ node \in linked
        /\ m_prefix[node] # Prefix
        /\ nodePrev' = node /\ node' = m_next[node]
        /\ UNCHANGED <<table, links, tree, pc, name, i>>
    BY <1>10 DEF InsertWalk, tree
  <2> QED
    BY <1>1, <1>2, <2>1, ChainsInsertWalk
<1>11. CASE node \notin bare /\ InsertUndefined
  BY <1>1, <1>11, ChainsDefined DEF InsertUndefined
<1>12. CASE p \notin bare /\ ResizeUndefined
  BY <1>1, <1>12, ChainsDefined DEF ResizeUndefined
<1>13. CASE EraseUndefined /\ {m_prev[entry], m_next[entry]} \ (live \cup bare \cup {Null}) # {}
  <2>1. pc = "erase" /\ ~WrongPrev(entry)
    BY <1>13 DEF EraseUndefined
  <2>2. {m_prev[entry], m_next[entry]} \subseteq linked \cup {Null}
    BY <1>1, <2>1, ChainsDefined
  <2> QED
    BY <1>13, <2>2
<1> QED
  BY <1>3, <1>4, <1>5, <1>6, <1>7, <1>8, <1>9, <1>10, <1>11, <1>12, <1>13 DEF Alike

\* A failed allocation leaves at most a node at the end of its chain.
LEMMA ChainsFailure ==
  ASSUME EntryInv, NEW linked, NEW at, linked = live \cup bare, SoundAmong(linked, at),
         \/ NewNodeFails \/ NewBucketsFail
         \/ \E a \in Free : NewEntryFails(a) \/ PushBackFails(a)
  PROVE  FailureChains' /\ FailuresAbortKnown'
<1>1. TypeInv /\ pc' = "idle"
  BY EntryFailure DEF EntryInv
<1>2. CASE NewNodeFails \/ NewBucketsFail
  <2>1. /\ pc # "resize" /\ bare' = bare
        /\ UNCHANGED <<m_nBuckets, m_buckets, m_next, m_prev, m_prefix, live>>
    BY <1>2 DEF NewNodeFails, NewBucketsFail, table, links, tree
  <2>2. SoundAmong(linked, at)'
    BY <1>1, <2>1, ChainsReturn
  <2> QED
    BY <1>1, <2>1, <2>2, FailureChainsAfter
<1>3. ASSUME NEW a \in Free, NewEntryFails(a) \/ PushBackFails(a)
      PROVE  FailureChains' /\ FailuresAbortKnown'
  <2>1. LinkLast(a)
    BY <1>1, <1>3, LinkNodeFacts DEF NewEntryFails, PushBackFails
  <2>2. PICK linked2 : linked2 = linked \cup {a}
    OBVIOUS
  <2>3. PICK at2 : at2 = [x \in Addr |-> IF x = a THEN Location(Prefix, m_nBuckets)
                                         ELSE at[x]]
    OBVIOUS
  <2>4. \/ /\ live' = live \cup {a} /\ m_prefix' = [m_prefix EXCEPT ![a] = Prefix]
           /\ bare' = bare
        \/ live' = live /\ m_prefix' = m_prefix /\ bare' = bare \cup {a}
    BY <1>3 DEF NewEntryFails, PushBackFails, tree
  <2>5. a \in Addr \ linked
    BY DEF Free
  <2>6. SoundAmong(linked2, at2)'
    BY <1>1, <2>1, <2>2, <2>3, <2>4, <2>5, ChainsLinkLast
  <2>7. linked2 = live' \cup bare'
    BY <2>2, <2>4
  <2> QED
    BY <1>1, <2>6, <2>7, FailureChainsAfter
<1> QED
  BY <1>2, <1>3

\* What meets a bare node or an unlisted entry goes on or fails an assertion.
LEMMA ChainsMeet ==
  ASSUME EntryInv, NEW linked, NEW at, linked = live \cup bare, SoundAmong(linked, at),
         WalkOverBare \/ EraseNextToBare \/ ResizeAborts \/ EraseAborts,
         EraseNextToBare => ~WrongPrev(entry)
  PROVE  FailureChains' /\ FailuresAbortKnown'
<1>1. TypeInv /\ bare \cap live = {}
  BY DEF EntryInv
<1>2. CASE WalkOverBare
  <2>1. /\ pc = "insert" /\ pc' = "insert" /\ node \in linked /\ node \notin live
        /\ nodePrev' = node /\ node' = m_next[node]
        /\ UNCHANGED <<table, links, tree, pc, name, i>>
        /\ live' = live /\ bare' = bare
    BY <1>1, <1>2 DEF WalkOverBare, tree
  <2>2. SoundAmong(linked, at)'
    BY <1>1, <2>1, ChainsInsertWalk
  <2> QED
    BY <2>1, <2>2, FailureChainsAfter
<1>3. CASE EraseNextToBare
  <2>1. /\ pc = "erase" /\ entry \in live /\ live' = live \ {entry} /\ bare' = bare
        /\ {m_prev[entry], m_next[entry]} \subseteq linked \cup {Null}
        /\ Unlink /\ Discard /\ EraseParent /\ m_nBuckets' = m_nBuckets
        /\ ~WrongPrev(entry)
    BY <1>3 DEF EraseNextToBare, Discard, EntryInv, EntryExists
  <2>2. PICK linked2 : linked2 = linked \ {entry}
    OBVIOUS
  <2>3. SoundAmong(linked2, at)' /\ pc' \in {"idle", "erase"}
    BY <1>1, <2>1, <2>2, ChainsUnlink
  <2>4. linked2 = live' \cup bare'
    BY <1>1, <2>1, <2>2
  <2> QED
    BY <2>3, <2>4, FailureChainsAfter
<1>4. CASE ResizeAborts
  <2>1. p \in bare /\ bare' = bare /\ pc' = "abort"
    BY <1>4 DEF ResizeAborts, Stop
  <2> QED
    BY <2>1 DEF FailureChains, FailuresAbortKnown
<1>5. CASE EraseAborts
  <2>1. /\ entry \in live /\ m_parent[entry] # Null
        /\ \A k \in DOMAIN m_children[m_parent[entry]] :
             m_children[m_parent[entry]][k] # entry
        /\ pc' = "abort" /\ UNCHANGED <<live, m_prefix, m_parent, m_children>>
    BY <1>5 DEF EraseAborts, Unlisted, Stop, tree, EntryInv, EntryExists
  <2>2. ~HasParent(entry)
    BY <2>1 DEF HasParent
  <2>3. ~TreeConsistent
    BY <2>1, <2>2 DEF TreeConsistent
  <2>4. TreeConsistent' = TreeConsistent
    BY <2>1 DEF TreeConsistent, HasParent, HasChildren
  <2> QED
    BY <2>1, <2>3, <2>4 DEF FailureChains, FailuresAbortKnown
<1> QED
  BY <1>2, <1>3, <1>4, <1>5

LEMMA SoundAmongStutters ==
  ASSUME NEW at, SoundAmong(live \cup bare, at),
         UNCHANGED <<table, links, live, m_prefix, pc, locals, rehash, bare>>
  PROVE  SoundAmong(live \cup bare, at)'
<1> USE DEF table, links, locals, rehash
<1>1. /\ OldHeads' = OldHeads /\ NewLocation' = NewLocation /\ Prefix' = Prefix
      /\ BucketIn(m_nBuckets)' = BucketIn(m_nBuckets)
      /\ BucketIn(newNBuckets)' = BucketIn(newNBuckets)
  BY DEF OldHeads, NewLocation, Prefix, BucketIn
<1>2. ASSUME NEW moved, HalfwayAmong(live \cup bare, at, moved)
      PROVE  HalfwayAmong(live \cup bare, at, moved)'
  BY <1>1, <1>2 DEF HalfwayAmong
<1>3. Chain(node)' = Chain(node)
  BY DEF Chain
<1>4. Location(Prefix, m_nBuckets)' = Location(Prefix, m_nBuckets)
  BY <1>1 DEF Location
<1>5. PositionAmong(live \cup bare, at) => PositionAmong(live \cup bare, at)'
  BY <1>1, <1>3, <1>4 DEF PositionAmong
<1>6. CASE pc = "resize"
  <2>1. PICK moved \in SUBSET live : HalfwayAmong(live \cup bare, at, moved)
    BY <1>6 DEF SoundAmong
  <2>2. HalfwayAmong(live \cup bare, at, moved)'
    BY <1>2, <2>1
  <2> QED
    BY <1>1, <1>5, <1>6, <2>1, <2>2 DEF SoundAmong
<1>7. CASE pc # "resize"
  BY <1>1, <1>5, <1>7 DEF SoundAmong
<1> QED
  BY <1>6, <1>7

LEMMA FailureInvNext == FailureInv /\ [FailureNext]_failureVars => FailureInv'
<1> SUFFICES ASSUME FailureInv, [FailureNext]_failureVars PROVE FailureInv'
  OBVIOUS
<1>1. EntryInv /\ EntryInv'
  BY EntryNext DEF FailureInv
<1>2. CASE damaged'
  BY <1>1, <1>2 DEF FailureInv, FailureChains, FailuresAbortKnown
<1>3. CASE ~damaged'
  <2>1. ~damaged /\ (EraseEmpty \/ EraseUndefined \/ EraseNextToBare => ~WrongPrev(entry))
    BY <1>3, FailureDamage
  <2>2. CASE FailureNext
    <3>1. pc # "abort"
      <4>1. CASE Alike
        BY <4>1, AlikeFacts
           DEF Next, Call, Step, Lookup, Erase, Resize, AddContent, RemoveContent,
               InsertWalk, InsertFound, InsertUndefined, InsertNew, Grow, NextPrefix,
               ResizeWalk, ResizeLink, ResizeNextBucket, ResizeEnd, ResizeUndefined,
               EraseNotEmpty, EraseUndefined, EraseEmpty
      <4>2. CASE ~Alike
        BY <2>2, <4>2
           DEF FailureNext, WalkOverBare, EraseNextToBare, ResizeAborts, EraseAborts,
               NewNodeFails, NewBucketsFail, NewEntryFails, PushBackFails, LinkNode
      <4> QED
        BY <4>1, <4>2
    <3>2. \E at : SoundAmong(live \cup bare, at)
      BY <2>1, <3>1 DEF FailureInv, FailureChains
    <3>3. PICK linked, at : linked = live \cup bare /\ SoundAmong(linked, at)
      BY <3>2
    <3>4. FailureChains' /\ FailuresAbortKnown'
      BY <1>1, <2>1, <2>2, <3>3, ChainsAlike, ChainsFailure, ChainsMeet DEF FailureNext
    <3> QED
      BY <1>1, <3>4 DEF FailureInv
  <2>3. CASE UNCHANGED failureVars
    <3>1. /\ UNCHANGED <<table, links, live, m_prefix, pc, locals, rehash, bare>>
          /\ UNCHANGED <<m_parent, m_children, damaged>>
      BY <2>3 DEF failureVars, vars, tree
    <3>2. ASSUME NEW at, SoundAmong(live \cup bare, at)
          PROVE  SoundAmong(live \cup bare, at)'
      BY <3>1, <3>2, SoundAmongStutters
    <3>3. FailureChains'
      BY <3>1, <3>2 DEF FailureInv, FailureChains
    <3>4. TreeConsistent' = TreeConsistent
      BY <3>1 DEF TreeConsistent, HasParent, HasChildren
    <3>5. FailuresAbortKnown'
      BY <3>1, <3>4 DEF FailureInv, FailuresAbortKnown
    <3> QED
      BY <1>1, <3>3, <3>5 DEF FailureInv
  <2> QED
    BY <2>2, <2>3
<1> QED
  BY <1>2, <1>3

LEMMA FailureInvariant == FailureSpec => []FailureInv
<1>1. FailureInit => FailureInv
  BY FailureInvInit
<1>2. FailureInv /\ [FailureNext]_failureVars => FailureInv'
  BY FailureInvNext
<1> QED
  BY <1>1, <1>2, PTL DEF FailureSpec

\* Whatever allocations of lookup() have failed before, between calls the entry of
\* every stored name is on the chain of its bucket, once, and the m_prev of all but
\* the first of a chain is right, as long as no node was unlinked through a wrong
\* one: nodes without an entry are in nobody's way.
THEOREM FailuresAreHarmless == FailureSpec => []FailuresKeepChains
<1>1. FailureInv => FailuresKeepChains
  <2> SUFFICES ASSUME FailureInv, pc = "idle", ~damaged
               PROVE  /\ \A a, b \in live : m_prefix[a] = m_prefix[b] => a = b
                      /\ \A a \in live :
                           /\ a \in Chain(Bucket(a))
                           /\ Bucket(a) # a => /\ m_prev[a] \in live \cup bare
                                               /\ m_next[m_prev[a]] = a
    BY DEF FailuresKeepChains
  <2>1. \E at : SoundAmong(live \cup bare, at)
    BY DEF FailureInv, FailureChains
  <2>2. PICK linked, at : linked = live \cup bare /\ SoundAmong(linked, at)
    BY <2>1
  <2>3. TypeInv
    BY DEF FailureInv, EntryInv
  <2>4. \A a \in live : /\ at[a] \in 0 .. m_nBuckets - 1 /\ Bucket(a) = m_buckets[at[a]]
    BY <2>2, <2>3, LinkTypes, PlaceInTable, AmongChain DEF Bucket
  <2>5. \A a \in live : a \in Chain(Bucket(a))
    BY <2>2, <2>3, <2>4, AmongChain
  <2>6. \A a \in live : Bucket(a) # a => m_prev[a] \in linked /\ m_next[m_prev[a]] = a
    BY <2>2, <2>3, <2>4, AmongChain DEF Chained, PrevIn
  <2> QED
    BY <2>2, <2>5, <2>6 DEF SoundAmong
<1> QED
  BY <1>1, FailureInvariant, PTL

\* A failed allocation of lookup() makes an assertion fail later only by a node
\* without an entry, which resize() meets, or by an entry that its parent does not
\* list, which eraseEntryIfEmpty() meets; none leads to a deleted node, as long as
\* no node was unlinked through a wrong m_prev.
THEOREM AbortsAreKnown == FailureSpec => []FailuresAbortKnown
<1>1. FailureInv => FailuresAbortKnown
  BY DEF FailureInv
<1> QED
  BY <1>1, FailureInvariant, PTL

=============================================================================
