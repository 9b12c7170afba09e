-------------------------- MODULE NameTreeQueries --------------------------
(***************************************************************************)
(* The queries of NameTree: they read the chains and change nothing.       *)
(* An EntrySelector is the set of names whose entries it accepts.          *)
(***************************************************************************)
EXTENDS NameTree

\* findExactMatch(n): the first entry of that name on the chain, or Null.  In a
\* corrupted table the walk can also end at a deleted node, or nowhere.
FindExactMatch(n) ==
  LET walk[k \in 0 .. Cardinality(Addr)] ==
        IF k = 0 THEN m_buckets[Location(n, m_nBuckets)]
        ELSE LET x == walk[k - 1]
             IN IF x \in live /\ m_prefix[x] # n THEN m_next[x] ELSE x
  IN walk[Cardinality(Addr)]

LongestPrefixMatchFirstStored(n, selector) ==
  LET found == {k \in 0 .. Len(n) : FindExactMatch(GetPrefix(n, k)) # Null}
      longest == CHOOSE k \in found : \A j \in found : j <= k
      match == FindExactMatch(GetPrefix(n, longest))
  IN IF found = {} \/ m_prefix[match] \notin selector THEN Null ELSE match

\* findLongestPrefixMatch(n, selector): the full name first, then one component
\* less each time, until an entry is found that the selector accepts.
FindLongestPrefixMatch(n, selector) ==
  LET found == {k \in 0 .. Len(n) : /\ FindExactMatch(GetPrefix(n, k)) # Null
                                    /\ GetPrefix(n, k) \in selector}
  IN IF found = {} THEN Null
     ELSE FindExactMatch(GetPrefix(n, CHOOSE k \in found : \A j \in found : j <= k))

\* The entries on the chain of bucket b, in order: a walk that lists the nodes
\* it has passed.
ChainEntries(b) ==
  LET walk[k \in 0 .. Cardinality(Addr)] ==
        IF k = 0 THEN [at |-> m_buckets[b], passed |-> <<>>]
        ELSE LET x == walk[k - 1]
             IN IF x.at \in live
                THEN [at |-> m_next[x.at], passed |-> Append(x.passed, x.at)] ELSE x
  IN walk[Cardinality(Addr)].passed

\* What dump() writes of an entry.
Line(a) == [prefix   |-> m_prefix[a],
            parent   |-> IF m_parent[a] = Null THEN {} ELSE {m_prefix[m_parent[a]]},
            children |-> [k \in DOMAIN m_children[a] |-> m_prefix[m_children[a][k]]]]

HeadEntries ==
  LET upTo[b \in 0 .. m_nBuckets] ==
        IF b = 0 THEN <<>>
        ELSE IF m_buckets[b - 1] = Null THEN upTo[b - 1]
        ELSE Append(upTo[b - 1], m_buckets[b - 1])
  IN upTo[m_nBuckets]

\* The entries that dump() goes over, bucket by bucket.
AllEntries ==
  LET upTo[b \in 0 .. m_nBuckets] ==
        IF b = 0 THEN <<>> ELSE upTo[b - 1] \o ChainEntries(b - 1)
  IN upTo[m_nBuckets]

\* dump(): one line for every entry.
Dump == [k \in DOMAIN AllEntries |-> Line(AllEntries[k])]

-----------------------------------------------------------------------------
(* Properties.                                                             *)

\* Between calls, findExactMatch() finds exactly what is stored, and the longest
\* match that a selector accepts has every other match above it, as long as no
\* node was unlinked through a wrong m_prev.
QueriesMatchStored ==
  pc = "idle" /\ ~damaged =>
    \A n \in Name :
      /\ FindExactMatch(n) =
           IF \E a \in live : m_prefix[a] = n
           THEN CHOOSE a \in live : m_prefix[a] = n ELSE Null
      /\ \A selector \in SUBSET Name :
           LET found == FindLongestPrefixMatch(n, selector)
               matches == {a \in live : /\ m_prefix[a] \in selector
                                        /\ IsPrefix(m_prefix[a], n)}
           IN IF matches = {} THEN found = Null
              ELSE /\ found \in matches
                   /\ \A a \in matches : IsPrefix(m_prefix[a], m_prefix[found])

\* Between calls dump() writes as many lines as the total it ends with, one for
\* each name, and the lines show a tree: every child has a line with its parent.
\* This, too, is said of tables in which no wrong m_prev was used.
DumpShowsTree ==
  pc = "idle" /\ ~damaged =>
    LET lines == Dump
        Shown == {lines[k] : k \in DOMAIN lines}
    IN /\ Len(lines) = m_nItems
       /\ Cardinality({l.prefix : l \in Shown}) = m_nItems
       /\ \A l \in Shown :
            /\ \A k \in DOMAIN l.children :
                 \E m \in Shown : m.prefix = l.children[k] /\ m.parent = {l.prefix}
            /\ \A n \in l.parent :
                 \E m \in Shown : m.prefix = n /\ \E k \in DOMAIN m.children : m.children[k] = l.prefix

=============================================================================
