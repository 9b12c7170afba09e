--------------------------- MODULE NameTreeChains ---------------------------
(***************************************************************************)
(* The hash chains of NameTree in every state of every call: the inductive *)
(* invariant behind TableConsistent, NamesUnique and NeverUndefined.       *)
(*                                                                         *)
(* Between calls every entry is in the chain of its bucket.  In the middle *)
(* of resize() the entries are split in two: those that are already in a   *)
(* chain of the new array, and those that still hang from p or from a      *)
(* later bucket of the old one.  Both halves have the same shape, Chained. *)
(***************************************************************************)
EXTENDS NameTree

-----------------------------------------------------------------------------
(* Doubly linked chains of nodes: heads is the array of their first nodes, *)
(* next and prev are the links and at says which chain a node belongs to.  *)

\* The first node of a chain is one of the nodes and belongs there.
HeadsIn(nodes, heads, at) ==
  \A b \in DOMAIN heads : heads[b] # Null => heads[b] \in nodes /\ at[heads[b]] = b

\* Every node belongs to one of the chains.
NodesIn(nodes, heads, at) == \A a \in nodes : at[a] \in DOMAIN heads

\* next leads to a node of the same chain, which is not its first one and whose
\* prev leads back.
NextIn(nodes, heads, next, prev, at) ==
  \A a \in nodes :
    next[a] # Null =>
      /\ next[a] \in nodes
      /\ at[next[a]] = at[a]
      /\ prev[next[a]] = a
      /\ heads[at[a]] # next[a]

\* prev is right for every node that is not the first one of its chain.
PrevIn(nodes, heads, next, prev, at) ==
  \A a \in nodes :
    heads[at[a]] # a => prev[a] \in nodes /\ next[prev[a]] = a

\* S contains the heads, and with a node the one that follows it.
ClosedUnder(S, heads, next) ==
  /\ \A b \in DOMAIN heads : heads[b] \in S \cup {Null}
  /\ \A a \in S : next[a] \in S \cup {Null}

\* Walks along next from the heads reach every node: there is no cycle.
Reached(nodes, heads, next) ==
  \A S \in SUBSET nodes : ClosedUnder(S, heads, next) => S = nodes

\* The chains hold exactly the nodes.
Chained(nodes, heads, next, prev, at) ==
  /\ HeadsIn(nodes, heads, at)
  /\ NodesIn(nodes, heads, at)
  /\ NextIn(nodes, heads, next, prev, at)
  /\ PrevIn(nodes, heads, next, prev, at)
  /\ Reached(nodes, heads, next)

-----------------------------------------------------------------------------
(* The chains of the table.                                                *)

\* The index of every entry's bucket in an array of n buckets.
BucketIn(n) == [a \in Addr |-> Location(m_prefix[a], n)]

\* What resize() has still to move: p and the nodes after it, and the chains of
\* the old buckets that follow.
OldHeads ==
  [b \in bucket .. m_nBuckets - 1 |-> IF b = bucket THEN p ELSE m_buckets[b]]

\* The entries in moved are in the new chains, all others in the old ones, and
\* the walk over a new chain is in the one where p belongs.
Halfway(moved) ==
  /\ count = Cardinality(moved)
  /\ Chained(moved, newBuckets, m_next, m_prev, BucketIn(newNBuckets))
  /\ Chained(live \ moved, OldHeads, m_next, m_prev, BucketIn(m_nBuckets))
  /\ last # Null =>
       /\ pre = last /\ last \in moved /\ p # Null
       /\ BucketIn(newNBuckets)[last] = NewLocation

\* insert() searches the chain of the prefix: nodePrev is the last node it has
\* passed, and an entry of that name can only be at node or after it.
InsertPosition ==
  /\ node # Null => node \in live
  /\ IF nodePrev = Null
     THEN node = Null /\ m_buckets[Location(Prefix, m_nBuckets)] = Null
     ELSE /\ nodePrev \in live
          /\ BucketIn(m_nBuckets)[nodePrev] = Location(Prefix, m_nBuckets)
          /\ node \in {m_next[nodePrev], nodePrev}
  /\ \A a \in live : m_prefix[a] = Prefix => a \in Chain(node)

\* Deleted nodes name no successor: no stale m_prev is right by accident.
FreeUnlinked == \A a \in Addr \ live : m_next[a] = Null

ChainsHold ==
  IF pc = "resize"
  THEN \E moved \in SUBSET live : Halfway(moved)
  ELSE Chained(live, m_buckets, m_next, m_prev, BucketIn(m_nBuckets))

\* The state of the chains in the middle of any call.
ChainsSound ==
  /\ \A a, b \in live : m_prefix[a] = m_prefix[b] => a = b
  /\ FreeUnlinked
  /\ ChainsHold
  /\ pc = "insert" => InsertPosition

\* As long as no node was unlinked through a wrong m_prev, the chains hold all
\* entries in every state of every call, those in the middle of the search of
\* insert() and of the two loops of resize() included, no name is stored twice,
\* and no call has touched a deleted node or failed an assertion.
ChainsCorrect == ~damaged => ChainsSound /\ pc \notin {"undefined", "abort"}

=============================================================================
