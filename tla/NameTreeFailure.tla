--------------------------- MODULE NameTreeFailure ---------------------------
(***************************************************************************)
(* Allocations that fail in lookup(): bad_alloc leaves insert(), lookup()  *)
(* or resize() where it is thrown, and the client that catches it goes on  *)
(* with the table.  Nothing is rolled back: the shorter prefixes stay.     *)
(*                                                                         *)
(*   "node"     new Node()             nothing is linked yet               *)
(*   "entry"    make_shared<Entry>()   the Node is linked, without m_entry *)
(*   "hook"     m_children.push_back() the entry is stored, but not listed *)
(*   "buckets"  new Node*[n]           the entry is stored and listed      *)
(***************************************************************************)
EXTENDS NameTreeQueries

CONSTANT Failures  \* the allocations that can fail

ASSUME Failures \subseteq {"node", "entry", "hook", "buckets"}

VARIABLE bare  \* the nodes in the table that have no entry

failureVars == <<vars, bare>>

FailureInit == Init /\ bare = {}

NewNodeFailsCounted ==
  /\ "node" \in Failures
  /\ pc = "insert" /\ node = Null
  /\ m_nItems' = m_nItems + 1
  /\ Return
  /\ UNCHANGED <<m_nBuckets, m_resizeThreshold, m_buckets, links, tree, rehash, damaged, bare>>

NewNodeFails ==
  /\ "node" \in Failures
  /\ pc = "insert" /\ node = Null
  /\ Return
  /\ UNCHANGED <<table, links, tree, rehash, damaged, bare>>

\* The new Node a is linked at the end of the chain.
LinkNode(a) ==
  /\ pc = "insert" /\ node = Null
  /\ m_prev' = [m_prev EXCEPT ![a] = nodePrev]
  /\ IF nodePrev = Null
     THEN /\ m_buckets' = [m_buckets EXCEPT ![Location(Prefix, m_nBuckets)] = a]
          /\ m_next' = [m_next EXCEPT ![a] = Null]
     ELSE /\ m_next' = [m_next EXCEPT ![a] = Null, ![nodePrev] = a]
          /\ UNCHANGED m_buckets
  /\ UNCHANGED <<m_nBuckets, m_resizeThreshold>>

NewEntryFails(a) ==
  /\ "entry" \in Failures
  /\ LinkNode(a)
  /\ bare' = bare \cup {a}
  /\ Return
  /\ UNCHANGED <<m_nItems, tree, rehash, damaged>>

\* m_nItems and m_parent are set, the children of the parent are not.
PushBackFails(a) ==
  /\ "hook" \in Failures
  /\ entry # Null
  /\ LinkNode(a)
  /\ live' = live \cup {a}
  /\ m_nItems' = m_nItems + 1
  /\ m_prefix' = [m_prefix EXCEPT ![a] = Prefix]
  /\ m_parent' = [m_parent EXCEPT ![a] = entry]
  /\ m_children' = [m_children EXCEPT ![a] = <<>>]
  /\ content' = [content EXCEPT ![a] = {}]
  /\ Return
  /\ UNCHANGED <<rehash, damaged, bare>>

NewBucketsFail ==
  /\ "buckets" \in Failures
  /\ pc = "inserted" /\ m_nItems > m_resizeThreshold
  /\ Return
  /\ UNCHANGED <<table, links, tree, rehash, damaged, bare>>

WalkEndsAtBare ==
  /\ pc = "insert" /\ node \in bare
  /\ nodePrev' = node /\ node' = Null
  /\ UNCHANGED <<table, links, tree, pc, name, i, entry, rehash, damaged, bare>>

\* The search of insert() steps over a node without an entry.
WalkOverBare ==
  /\ pc = "insert" /\ node \in bare
  /\ nodePrev' = node /\ node' = m_next[node]
  /\ UNCHANGED <<table, links, tree, pc, name, i, entry, rehash, damaged, bare>>

\* BOOST_ASSERT(static_cast<bool>(p->m_entry))
ResizeAborts ==
  /\ pc = "resize" /\ p \in bare
  /\ Stop("abort") /\ UNCHANGED bare

\* The parent of entry does not list it.
Unlisted ==
  /\ m_parent[entry] # Null
  /\ \A k \in DOMAIN m_children[m_parent[entry]] :
       m_children[m_parent[entry]][k] # entry

\* BOOST_ASSERT(isFound == true)
EraseAborts ==
  /\ pc = "erase" /\ IsEmpty(entry) /\ Unlisted
  /\ Stop("abort") /\ UNCHANGED bare

\* EraseEmpty, on a node next to one without an entry.
EraseNextToBare ==
  /\ pc = "erase" /\ IsEmpty(entry)
  /\ {m_prev[entry], m_next[entry]} \cap bare # {}
  /\ {m_prev[entry], m_next[entry]} \subseteq live \cup bare \cup {Null}
  /\ Unparent /\ Unlink /\ Discard /\ EraseParent
  /\ damaged' = (damaged \/ WrongPrev(entry))
  /\ UNCHANGED <<m_nBuckets, m_resizeThreshold, content, rehash, bare>>

\* An address is free when no node has it and no entry holds on to it.
Free == Addr \ (live \cup bare \cup {m_parent[a] : a \in live})

Alike ==
  /\ \/ \E n \in Name : Lookup(n)
     \/ \E n \in ResizeTo : Resize(n)
     \/ \E a \in live, c \in Content : AddContent(a, c) \/ RemoveContent(a, c)
     \/ \E a \in live : Erase(a)
     \/ InsertWalk \/ InsertFound \/ Grow \/ NextPrefix
     \/ \E a \in Free : InsertNew(a)
     \/ node \notin bare /\ InsertUndefined
     \/ ResizeWalk \/ ResizeLink \/ ResizeNextBucket \/ ResizeEnd
     \/ p \notin bare /\ ResizeUndefined
     \/ EraseNotEmpty \/ EraseEmpty
     \/ /\ EraseUndefined /\ ~Unlisted
        /\ {m_prev[entry], m_next[entry]} \ (live \cup bare \cup {Null}) # {}
  /\ UNCHANGED bare

FailureNext ==
  \/ Alike
  \/ WalkOverBare \/ EraseNextToBare \/ ResizeAborts \/ EraseAborts
  \/ NewNodeFails \/ NewBucketsFail
  \/ \E a \in Free : NewEntryFails(a) \/ PushBackFails(a)

FailureSpec == FailureInit /\ [][FailureNext]_failureVars

-----------------------------------------------------------------------------
(* Properties.                                                             *)

\* Between calls the entry of every stored name is on the chain of its hash,
\* once, and the m_prev of all but the first of a chain is right, whatever failed
\* before: nodes without an entry are in nobody's way until the table is resized.
\* As elsewhere, a node unlinked through a wrong m_prev ends that.
FailuresKeepChains ==
  pc = "idle" /\ ~damaged =>
    /\ \A a, b \in live : m_prefix[a] = m_prefix[b] => a = b
    /\ \A a \in live :
         /\ a \in Chain(Bucket(a))
         /\ Bucket(a) # a => m_prev[a] \in live \cup bare /\ m_next[m_prev[a]] = a

\* Only a node without an entry, or an entry that its parent does not list,
\* makes an assertion fail later; no failure leads to a deleted node.
FailuresAbortKnown ==
  ~damaged =>
    /\ pc # "undefined"
    /\ pc = "abort" => bare # {} \/ ~TreeConsistent

=============================================================================
