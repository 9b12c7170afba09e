-------------------------- MODULE NameTreeIterator --------------------------
(***************************************************************************)
(* A NameTree::const_iterator next to a table that changes under it.       *)
(*                                                                         *)
(* Between two increments the client may call lookup(), resize() and       *)
(* eraseEntryIfEmpty(); an increment itself is not interrupted.  It runs   *)
(* in steps, one per iteration of its loops: itPc is "rest" when the       *)
(* iterator stands on an entry and the client may act, "end" when it       *)
(* equals end(), and the name of a loop in between.                        *)
(*                                                                         *)
(* A selector is the set of the names that it accepts; the second answer   *)
(* of an EntrySubTreeSelector is a set of names as well.                   *)
(***************************************************************************)
EXTENDS NameTreeQueries

CONSTANTS
  ItType,      \* the kinds of enumerations that clients start
  Selector,    \* the sets of names that clients want accepted
  SubSelector  \* the sets of names whose children they want visited

ASSUME SelectorAssumption ==
  /\ ItType \subseteq {"full", "partial", "all"}
  /\ Selector \subseteq SUBSET Name
  /\ SubSelector \subseteq SUBSET Name

VARIABLES
  \* fields of the iterator: m_type, m_entry, m_subTreeRoot, m_visitChildren,
  \* and what m_entrySelector and m_entrySubTreeSelector answer
  itType, itEntry, itRoot, visitChildren, accepts, visits,
  \* where the increment is; newLocation and node of the loop over the buckets
  itPc, newLocation, itNode,
  \* the argument of partialEnumerate() or findAllMatches()
  itPrefix,
  \* itEntry and its ancestors as far as they are erased: a shared_ptr keeps
  \* each of them in memory, with its m_prefix and its m_parent
  ghosts,
  \* history: the entries arrived at and those stored since the enumeration
  \* began; it arrived twice at an entry; the table was changed in a way that
  \* the iterator does not tolerate
  passed, stayed, twice, disturbed

itArgs   == <<itType, itRoot, accepts, visits, itPrefix>>
itLoop   == <<newLocation, itNode>>
itVars   == <<itArgs, itEntry, visitChildren, itPc, itLoop, ghosts,
              passed, stayed, twice, disturbed>>

NoIterator ==
  /\ itType = "full" /\ itEntry = Null /\ itRoot = Null
  /\ visitChildren = FALSE /\ accepts = {} /\ visits = {}
  /\ itPc = "none" /\ newLocation = 0 /\ itNode = Null /\ itPrefix = <<>>
  /\ ghosts = <<>>
  /\ passed = {} /\ stayed = {} /\ twice = FALSE /\ disturbed = FALSE

ItInit == Init /\ NoIterator

-----------------------------------------------------------------------------
(* Steps that several enumerations share.                                  *)

EntryParent == IF ghosts = <<>> THEN m_parent[itEntry] ELSE ghosts[1].parent

ArriveAtAny(a, prefix, loop) ==
  /\ itEntry' = a
  /\ itPc' = "rest"
  /\ passed' = passed \cup ({a} \cap live)
  /\ twice' = (twice \/ a \in passed)

\* The iterator stands on a, or ignores it and stays in its loop.
ArriveAt(a, prefix, loop) ==
  /\ itEntry' = a
  /\ itPc' = IF prefix \in accepts THEN "rest" ELSE loop
  /\ passed' = passed \cup ({a} \cap live)
  /\ twice' = (twice \/ a \in passed)

\* The iterator becomes equal to end().
ArriveAtEnd ==
  /\ itPc' = "end"
  /\ itEntry' = Null
  /\ UNCHANGED <<passed, twice>>

\* An increment leaves the defined behaviour of the program, or asserts.
ItStop(how) ==
  /\ itPc' = how
  /\ UNCHANGED <<vars, itArgs, itEntry, visitChildren, itLoop, ghosts,
                 passed, stayed, twice, disturbed>>

Begin(type, prefix, S, V) ==
  /\ pc = "idle" /\ itPc = "none"
  /\ itType' = type /\ itPrefix' = prefix
  /\ accepts' = S /\ visits' = V
  /\ stayed' = live
  /\ UNCHANGED <<vars, ghosts, disturbed>>

\* operator++
Increment ==
  /\ pc = "idle" /\ itPc = "rest"
  /\ itPc' = CASE itType = "full" -> "chain"
               [] itType = "partial" -> "tree"
               [] itType = "all" -> "up"
  /\ UNCHANGED <<vars, itArgs, itEntry, visitChildren, itLoop, ghosts,
                 passed, stayed, twice, disturbed>>

-----------------------------------------------------------------------------
(* fullEnumerate(): bucket by bucket, along the chains.                    *)

FirstNode(b) == IF b < m_nBuckets THEN m_buckets[b] ELSE Null

FullEnumerate(S) ==
  /\ Begin("full", <<>>, S, {})
  /\ itPc' = "buckets"
  /\ newLocation' = 0
  /\ itNode' = FirstNode(0)
  /\ UNCHANGED <<itEntry, itRoot, visitChildren, passed, twice>>

NextBucketSame == Location(m_prefix[itEntry], m_nBuckets)
NextBucket == Location(m_prefix[itEntry], m_nBuckets) + 1

\* First the rest of the chain that itEntry is in.  The node of an erased entry
\* is deleted.
ChainStep ==
  /\ itPc = "chain" /\ itEntry \in live
  /\ m_next[itEntry] \in live \cup {Null}
  /\ IF m_next[itEntry] # Null
     THEN /\ ArriveAt(m_next[itEntry], m_prefix[m_next[itEntry]], "chain")
          /\ UNCHANGED itLoop
     ELSE /\ itPc' = "buckets"
          /\ newLocation' = NextBucket
          /\ itNode' = FirstNode(NextBucket)
          /\ UNCHANGED <<itEntry, passed, twice>>
  /\ UNCHANGED <<vars, itArgs, visitChildren, ghosts, stayed, disturbed>>

ChainUndefined ==
  /\ itPc = "chain"
  /\ itEntry \in live => m_next[itEntry] \notin live \cup {Null}
  /\ ItStop("undefined")

\* Then the chains of the buckets behind.
BucketStep ==
  /\ itPc = "buckets" /\ itNode \in live
  /\ ArriveAt(itNode, m_prefix[itNode], "buckets")
  /\ itNode' = IF itPc' = "rest" THEN Null ELSE m_next[itNode]
  /\ newLocation' = IF itPc' = "rest" THEN 0 ELSE newLocation
  /\ UNCHANGED <<vars, itArgs, visitChildren, ghosts, stayed, disturbed>>

NoBucketLeftExact == newLocation + 1 = m_nBuckets
NoBucketLeftEarly == newLocation + 2 >= m_nBuckets
NoBucketLeft == newLocation + 1 >= m_nBuckets

BucketNext ==
  /\ itPc = "buckets" /\ itNode = Null
  /\ IF NoBucketLeft
     THEN /\ ArriveAtEnd
          /\ newLocation' = 0 /\ itNode' = Null
     ELSE /\ newLocation' = newLocation + 1
          /\ itNode' = FirstNode(newLocation + 1)
          /\ UNCHANGED <<itPc, itEntry, passed, twice>>
  /\ UNCHANGED <<vars, itArgs, visitChildren, ghosts, stayed, disturbed>>

BucketUndefined ==
  /\ itPc = "buckets" /\ itNode \notin live \cup {Null}
  /\ ItStop("undefined")

-----------------------------------------------------------------------------
(* partialEnumerate(): the subtree below a name, in pre-order.             *)

VisitIfMany(a, V) == m_prefix[a] \in V /\ Len(m_children[a]) > 1
VisitNotAsked(a, V) == m_children[a] # <<>>

\* .second of the answer of the subtree selector, if there is a child.
Visit(a, V) == m_prefix[a] \in V /\ m_children[a] # <<>>

PartialEnumerate(n, S, V) ==
  LET root == FindExactMatch(n) IN
  /\ Begin("partial", n, S, V)
  /\ \/ /\ root = Null
        /\ ArriveAtEnd
        /\ UNCHANGED <<itRoot, visitChildren>>
     \/ /\ root \in live /\ m_prefix[root] = n
        /\ itEntry' = root /\ itRoot' = root
        /\ visitChildren' = Visit(root, V)
        /\ itPc' = IF n \in S THEN "rest" ELSE "tree"
        /\ passed' = {root} /\ twice' = FALSE
  /\ UNCHANGED itLoop

\* Down to the first child.
TreeDown ==
  /\ itPc = "tree" /\ visitChildren
  /\ ghosts = <<>> /\ m_children[itEntry] # <<>>
  /\ LET child == m_children[itEntry][1] IN
       /\ ArriveAt(child, m_prefix[child], "tree")
       /\ visitChildren' = Visit(child, visits)
  /\ UNCHANGED <<vars, itArgs, itLoop, ghosts, stayed, disturbed>>

\* getChildren()[0] of an entry that has lost its children since.
TreeUndefined ==
  /\ itPc = "tree" /\ visitChildren
  /\ ghosts # <<>> \/ m_children[itEntry] = <<>>
  /\ ItStop("undefined")

PositionsNotLast ==
  IF EntryParent \notin live THEN {}
  ELSE {k \in DOMAIN m_children[EntryParent] :
          /\ m_children[EntryParent][k] = itEntry
          /\ k < Len(m_children[EntryParent])}

\* The positions of itEntry among the children of its parent.
Positions ==
  IF EntryParent \notin live THEN {}
  ELSE {k \in DOMAIN m_children[EntryParent] :
          m_children[EntryParent][k] = itEntry}

SameSibling(k) == m_children[EntryParent][k]
NextSibling(k) == m_children[EntryParent][k + 1]

\* To the next sibling, or from the last one up to the parent.
TreeSibling ==
  /\ itPc = "tree" /\ ~visitChildren /\ itEntry # itRoot
  /\ \E k \in Positions :
       IF k < Len(m_children[EntryParent])
       THEN /\ ArriveAt(NextSibling(k), m_prefix[NextSibling(k)], "tree")
            /\ visitChildren' = Visit(NextSibling(k), visits)
       ELSE /\ itEntry' = EntryParent
            /\ UNCHANGED <<itPc, visitChildren, passed, twice>>
  /\ UNCHANGED <<vars, itArgs, itLoop, ghosts, stayed, disturbed>>

\* BOOST_ASSERT(isFound == true): itEntry is no child of its parent any more.
TreeAborts ==
  /\ itPc = "tree" /\ ~visitChildren /\ itEntry # itRoot
  /\ Positions = {}
  /\ ItStop("abort")

TreeEnd ==
  /\ itPc = "tree" /\ ~visitChildren /\ itEntry = itRoot
  /\ ArriveAtEnd
  /\ ghosts' = <<>>
  /\ UNCHANGED <<vars, itArgs, itLoop, visitChildren, stayed, disturbed>>

-----------------------------------------------------------------------------
(* findAllMatches(): from the longest match up to the root.                *)

FindAllMatches(n, S) ==
  LET match == FindLongestPrefixMatch(n, S) IN
  /\ Begin("all", n, S, {})
  /\ IF match = Null
     THEN ArriveAtEnd
     ELSE /\ match \in live
          /\ itEntry' = match /\ itPc' = "rest"
          /\ passed' = {match} /\ twice' = FALSE
  /\ UNCHANGED <<itRoot, visitChildren, itLoop>>

UpStep ==
  /\ itPc = "up"
  /\ LET up == EntryParent IN
     IF up = Null
     THEN /\ ArriveAtEnd
          /\ ghosts' = <<>>
     ELSE /\ ArriveAt(up, IF up \in live THEN m_prefix[up] ELSE ghosts[2].prefix, "up")
          /\ ghosts' = IF ghosts = <<>> THEN <<>> ELSE Tail(ghosts)
  /\ UNCHANGED <<vars, itArgs, itLoop, visitChildren, stayed, disturbed>>

-----------------------------------------------------------------------------
(* The table changes while the iterator rests.                             *)

Gone == live \ live'

\* A full enumeration survives everything but a resize and the erasure of the
\* entry it stands on.  A partial one finds its way by the positions of the
\* entries behind it and remembers that there are children to visit.
\* findAllMatches() survives everything.
Disturbs ==
  \/ /\ itType = "full"
     /\ pc = "resize" \/ itEntry \in Gone
  \/ /\ itType = "partial"
     /\ \/ passed \cap Gone # {}
        \/ visitChildren /\ m_children'[itEntry] = <<>>

\* The first ancestor of itEntry, or itEntry, that is not erased.
Kept == IF ghosts = <<>> THEN itEntry ELSE ghosts[Len(ghosts)].parent

TableStep ==
  /\ itPc \in {"none", "rest"}
  /\ Next
  /\ \A k \in DOMAIN ghosts : ghosts[k].addr \notin live'
  /\ ghosts' = IF Kept \in Gone
               THEN Append(ghosts, [addr |-> Kept, prefix |-> m_prefix[Kept],
                                    parent |-> m_parent[Kept]])
               ELSE ghosts
  /\ passed' = passed \cap live'
  /\ stayed' = stayed \cap live'
  /\ disturbed' = (disturbed \/ (itPc = "rest" /\ Disturbs))
  /\ UNCHANGED <<itArgs, itEntry, visitChildren, itPc, itLoop, twice>>

\* The client is done with the iterator.
Drop ==
  /\ pc = "idle" /\ itPc \in {"rest", "end"}
  /\ itType' = "full" /\ itEntry' = Null /\ itRoot' = Null
  /\ visitChildren' = FALSE /\ accepts' = {} /\ visits' = {}
  /\ itPc' = "none" /\ itPrefix' = <<>> /\ ghosts' = <<>>
  /\ passed' = {} /\ stayed' = {} /\ twice' = FALSE /\ disturbed' = FALSE
  /\ UNCHANGED <<vars, itLoop>>

ItStep ==
  \/ ChainStep \/ ChainUndefined \/ BucketStep \/ BucketNext \/ BucketUndefined
  \/ TreeDown \/ TreeUndefined \/ TreeSibling \/ TreeAborts \/ TreeEnd
  \/ UpStep

ItNext ==
  \/ TableStep
  \/ \E S \in Selector :
       \/ "full" \in ItType /\ FullEnumerate(S)
       \/ \E n \in Name :
            \/ "partial" \in ItType /\ \E V \in SubSelector : PartialEnumerate(n, S, V)
            \/ "all" \in ItType /\ FindAllMatches(n, S)
  \/ Increment \/ ItStep \/ Drop

ItSpec == ItInit /\ [][ItNext]_<<vars, itVars>>

\* The thread that called operator++ keeps executing it.
FairItSpec == ItSpec /\ WF_<<vars, itVars>>(ItStep)

-----------------------------------------------------------------------------
(* Properties.                                                             *)

\* Types of the variables of the iterator.
ItTypeOK ==
  /\ itType \in {"full", "partial", "all"}
  /\ itEntry \in Pointer /\ itRoot \in Pointer
  /\ visitChildren \in BOOLEAN
  /\ accepts \subseteq Name /\ visits \subseteq Name /\ itPrefix \in Name
  /\ itPc \in {"none", "rest", "end", "chain", "buckets", "tree", "up",
               "undefined", "abort"}
  /\ newLocation \in 0 .. m_nBuckets /\ itNode \in Pointer
  /\ ghosts \in Seq([addr : Addr, prefix : Name, parent : Pointer])
  /\ passed \subseteq live /\ stayed \subseteq live
  /\ twice \in BOOLEAN /\ disturbed \in BOOLEAN

\* What the enumeration was asked for.
Wanted(n) ==
  /\ n \in accepts
  /\ itType = "all" => IsPrefix(n, itPrefix)
  /\ itType = "partial" =>
       /\ IsPrefix(itPrefix, n)
       /\ \A k \in Len(itPrefix) .. Len(n) - 1 : GetPrefix(n, k) \in visits

\* An enumeration that was not disturbed comes to every entry it was asked for
\* that was stored all the time: neither new entries nor erasures elsewhere make
\* it skip one, and what erasures move within a list of children does not either
\* as long as nothing that it has passed is erased.  Here and below, a table in
\* which a node was unlinked through a wrong m_prev is left out.
EnumerationComplete ==
  itPc = "end" /\ ~damaged /\ ~disturbed =>
    \A a \in stayed : Wanted(m_prefix[a]) => a \in passed

\* An enumeration that was not disturbed comes to no entry twice.
EnumeratesOnce == ~damaged /\ ~disturbed => ~twice

\* An iterator stands on nothing that was not asked for, disturbed or not.
EnumeratesWanted ==
  itPc = "rest" /\ itEntry \in live /\ ~damaged => Wanted(m_prefix[itEntry])

\* An increment of an enumeration that was not disturbed reads nothing that is
\* deleted and fails no assertion; findAllMatches() survives all changes.
IncrementDefined ==
  itPc \in {"undefined", "abort"} => damaged \/ disturbed

\* Every increment returns, whatever the client has done to the table since the
\* last one, unless a node was unlinked through a wrong m_prev.
IncrementReturns ==
  itPc \in {"chain", "buckets", "tree", "up"} ~>
    itPc \in {"rest", "end", "undefined", "abort"} \/ damaged

=============================================================================
