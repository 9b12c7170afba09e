-------------------------- MODULE NameTreeLifetime --------------------------
(***************************************************************************)
(* Who keeps the entries of NameTree in memory, and the destructor.        *)
(*                                                                         *)
(* An Entry is kept by shared pointers: m_entry of its Node, the children  *)
(* list of its parent, m_parent of its children, and the handles that      *)
(* clients got from lookup() and the queries.  Its Node belongs to the     *)
(* table alone.  After eraseEntryIfEmpty() an Entry that is still referred *)
(* to lives on without a Node, and its address is not allocated again.     *)
(*                                                                         *)
(* The class of the nodes is not in the repository.  The assertion that    *)
(* m_next is null before a node is deleted (name-tree.cpp:262) makes sense *)
(* when its destructor deletes m_next; that of the older class in          *)
(* name-tree-entry.cpp does not.  NodeFreesNext is either.                  *)
(***************************************************************************)
EXTENDS NameTreeQueries

VARIABLES
  handles,  \* the entries that clients refer to
  entries,  \* all Entry objects that exist, erased ones included
  kept,     \* m_parent of the entries that are erased
  phase,    \* of the table: "open", "destroying", "destroyed", or "undefined"
  NodeFreesNext,  \* ~Node() deletes m_next; nothing reads it before Destroy
  nodes,    \* the nodes that the destructor has not deleted
  atBucket  \* its loop counter

destruction == <<NodeFreesNext, nodes, atBucket>>
lifeVars    == <<handles, entries, kept, phase, destruction>>

LifeInit ==
  /\ Init
  /\ handles = {} /\ entries = {} /\ kept = [a \in Addr |-> Null]
  /\ phase = "open" /\ NodeFreesNext = FALSE /\ nodes = {} /\ atBucket = 0

\* m_entry of the nodes, and the handles.
Roots == handles \cup IF phase = "open" THEN live ELSE nodes

\* The entries that the Entry at a points to.
Refs(a) ==
  {m_children[a][k] : k \in DOMAIN m_children[a]} \cup
  {IF a \in live THEN m_parent[a] ELSE kept[a]}

Supported(K) == \A e \in K : e \in Roots \/ \E f \in K : e \in Refs(f)

\* An Entry is destroyed with the last reference to it; a running call refers to
\* all that it has come across.  Entries that refer to each other stay.
CountReferences ==
  entries' = IF pc' = "idle"
             THEN UNION {K \in SUBSET (entries \cup live') : Supported(K)'}
             ELSE entries \cup live'

-----------------------------------------------------------------------------
(* The table in use.                                                       *)

\* Any step of a lookup(), eraseEntryIfEmpty() or resize().
TableStep ==
  /\ \/ \E n \in Name : Lookup(n)
     \/ \E a \in handles \cap live : Erase(a)
     \/ \E n \in ResizeTo : Resize(n)
     \/ Step
  /\ phase = "open"
  /\ (live' \ live) \cap entries = {}
  /\ kept' = [a \in Addr |-> IF a \in live \ live' THEN m_parent[a]
                            ELSE IF a \in entries \ live THEN kept[a] ELSE Null]
  /\ UNCHANGED <<handles, phase, destruction>>
  /\ CountReferences

\* The client gets the entry of n from a query and keeps it.
Hold(n) ==
  /\ pc = "idle" /\ phase = "open"
  /\ FindExactMatch(n) \in live
  /\ handles' = handles \cup {FindExactMatch(n)}
  /\ UNCHANGED <<vars, entries, kept, phase, destruction>>

\* A setter, on an entry that may be erased.
Use(a, c) ==
  /\ AddContent(a, c) \/ RemoveContent(a, c)
  /\ UNCHANGED lifeVars

Drop(a) ==
  /\ pc = "idle" /\ phase # "undefined"
  /\ handles' = handles \ {a}
  /\ UNCHANGED <<vars, kept, phase, destruction>>
  /\ CountReferences

\* eraseEntryIfEmpty() on an empty entry that is erased already: its parent does
\* not list it, BOOST_ASSERT(isFound == true); the root has no parent, and its
\* m_node is deleted.
EraseAgain(a) ==
  /\ pc = "idle" /\ phase = "open"
  /\ IsEmpty(a)
  /\ Stop(IF kept[a] = Null THEN "undefined" ELSE "abort")
  /\ UNCHANGED lifeVars

-----------------------------------------------------------------------------
(* ~NameTree().                                                            *)

Destroy ==
  /\ pc = "idle" /\ phase = "open"
  /\ phase' = "destroying"
  /\ nodes' = live
  /\ NodeFreesNext' \in BOOLEAN
  /\ UNCHANGED <<vars, handles, entries, kept, atBucket>>

\* The nodes that `delete m_buckets[b]' deletes, and whether it meets one twice.
Deleted(b) ==
  IF NodeFreesNext THEN Chain(m_buckets[b]) ELSE {m_buckets[b]} \ {Null}

Cyclic(b) ==
  NodeFreesNext /\ \E a \in Deleted(b) : a \in Chain(m_next[a])

BucketsLeftEarly == atBucket + 1 < m_nBuckets
BucketsLeft == atBucket < m_nBuckets

DestroyBucket ==
  /\ phase = "destroying" /\ BucketsLeft
  /\ Deleted(atBucket) \subseteq nodes /\ ~Cyclic(atBucket)
  /\ nodes' = nodes \ Deleted(atBucket)
  /\ atBucket' = atBucket + 1
  /\ UNCHANGED <<vars, handles, kept, phase, NodeFreesNext>>
  /\ CountReferences

\* A node is deleted twice.
DestroyUndefined ==
  /\ phase = "destroying" /\ BucketsLeft
  /\ ~(Deleted(atBucket) \subseteq nodes) \/ Cyclic(atBucket)
  /\ phase' = "undefined"
  /\ UNCHANGED <<vars, handles, entries, kept, destruction>>

DestroyEnd ==
  /\ phase = "destroying" /\ ~BucketsLeft
  /\ phase' = "destroyed"
  /\ UNCHANGED <<vars, handles, entries, kept, destruction>>

LifeNext ==
  \/ TableStep
  \/ \E n \in Name : Hold(n)
  \/ \E a \in handles : Drop(a) \/ \E c \in Content : phase = "open" /\ Use(a, c)
  \/ \E a \in handles \ live : EraseAgain(a)
  \/ Destroy \/ DestroyBucket \/ DestroyUndefined \/ DestroyEnd

LifeSpec == LifeInit /\ [][LifeNext]_<<vars, lifeVars>>

-----------------------------------------------------------------------------
(* Properties.                                                             *)

\* While the table is in use nothing leaks: between calls, every entry that was
\* erased and still exists is in the hands of a client or is an ancestor of one
\* that is.  eraseEntryIfEmpty() leaves no two erased entries that only refer
\* to each other, and no stored entry refers to an erased one.
ErasedAreFreed ==
  pc = "idle" /\ phase = "open" =>
    \A a \in entries \ live :
      \A S \in SUBSET entries :
        /\ handles \ live \subseteq S
        /\ \A e \in S \ live : kept[e] \in S \cup {Null}
        => a \in S

\* The code fails an assertion or reads a deleted node only for a client that
\* still has the handle of an erased entry, unless a node was unlinked through a
\* wrong m_prev before.
StopsOnStaleHandle ==
  pc \in {"abort", "undefined"} => damaged \/ ~(handles \subseteq live)

\* The destructor deletes no node twice, unless a node was unlinked through a
\* wrong m_prev before.
DestructorDefined == phase = "undefined" => damaged

\* It deletes every node if ~Node() deletes m_next, and only the first node of
\* each bucket otherwise.
NodesDeleted ==
  phase = "destroyed" /\ ~damaged =>
    nodes = IF NodeFreesNext THEN {} ELSE {a \in live : Bucket(a) # a}

\* The entries of a table survive its destruction: parents and children refer to
\* each other, so that only a root without children is destroyed with it.
DestroyedTableLeaks ==
  phase = "destroyed" /\ ~damaged /\ handles = {} =>
    entries = IF Cardinality(live) = 1 THEN {} ELSE live

=============================================================================
