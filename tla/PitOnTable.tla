----------------------------- MODULE PitOnTable -----------------------------
(***************************************************************************)
(* The Pending Interest Table and the FIB on the hash table of NameTree.   *)
(*                                                                         *)
(* Pit takes each call of the Name Tree as one step of a dictionary.  Here *)
(* a call of the Pit runs the steps of lookup(), findExactMatch() and      *)
(* eraseEntryIfEmpty() on the chains, the growth of the table in the       *)
(* middle of a lookup() and the damage by a stale m_prev included.         *)
(*                                                                         *)
(* No other client changes the table.  content of NameTree says "pit" for  *)
(* an entry with a non-empty list of PIT entries and "fib" for one with a  *)
(* FIB entry, which is what isEmpty() asks.                                *)
(***************************************************************************)
EXTENDS NameTreeQueries

CONSTANTS
  Interest,    \* records with the fields name, selectors and guiders
  NoInterest,  \* of a PIT entry that does not exist
  MatchesName, \* the pairs of an Interest and the name of Data it accepts
  PitEntry     \* pit::Entry objects (bound on the number that exist)

ASSUME ContentAssumption == Content = {"fib", "pit"} /\ Erasable = Name

ASSUME InterestAssumption ==
  (\A x \in Interest : x.name \in Name) /\ NoInterest \notin Interest

VARIABLES
  pitEntries,     \* the list of PIT entries of each Name Tree entry
  interest,       \* Interest of each pit::Entry
  held,           \* the PIT entries that clients refer to
  call,           \* where the running call of the Pit or the FIB is
  arg,            \* the Interest that insert() is called with
  nameTreeEntry   \* what the Name Tree returned to the call

pitVars == <<pitEntries, interest, held, call, arg, nameTreeEntry>>

Listed(a) == {pitEntries[a][k] : k \in DOMAIN pitEntries[a]}

Pending == UNION {Listed(a) : a \in live}

PitInit ==
  /\ Init
  /\ pitEntries = [a \in Addr |-> <<>>]
  /\ interest = [e \in PitEntry |-> NoInterest]
  /\ held = {}
  /\ call = "ready" /\ arg = NoInterest /\ nameTreeEntry = Null

\* The call returns.
PitReturn == call' = "ready" /\ arg' = NoInterest /\ nameTreeEntry' = Null

-----------------------------------------------------------------------------
FibNames == {m_prefix[a] : a \in {a \in live : "fib" \in content[a]}}

\* What the Pit sees as its dictionary.  Between calls it is what is stored;
\* during a call, the paths to the names that carry something: the lookup() of
\* insert() is seen when its PIT entry is, the erasure when the entry is deleted.
InUseNames == {m_prefix[a] : a \in {a \in live : content[a] # {}}}

Dictionary ==
  IF call \in {"ready", "abort"} THEN StoredNames
  ELSE {n \in Name : \E m \in InUseNames : IsPrefix(n, m)}

ListOf ==
  [n \in Name |->
     IF \E a \in live : m_prefix[a] = n /\ pitEntries[a] # <<>>
     THEN pitEntries[CHOOSE a \in live : m_prefix[a] = n /\ pitEntries[a] # <<>>]
     ELSE <<>>]

PitDictionary == INSTANCE Pit WITH
  stored <- Dictionary, pitEntries <- ListOf, fib <- FibNames,
  aborted <- call = "abort"

-----------------------------------------------------------------------------
(* insert(interest), and setFibEntry() by the FIB: first lookup().         *)

\* Bound: insert() is called when another pit::Entry can be made.
BeginInsertInterest(x) ==
  /\ call = "ready" /\ Lookup(x.name)
  /\ Pending \cup held # PitEntry
  /\ call' = "seek" /\ arg' = x
  /\ UNCHANGED <<pitEntries, interest, held, nameTreeEntry>>

BeginSetFib(n) ==
  /\ call = "ready" /\ Lookup(n)
  /\ call' = "seek"
  /\ UNCHANGED <<pitEntries, interest, held, arg, nameTreeEntry>>

\* The lookup() of the call goes on, or returns its last entry.
SeekStep ==
  /\ call = "seek" /\ Step
  /\ IF pc' = "idle"
     THEN call' = "found" /\ nameTreeEntry' = entry
     ELSE UNCHANGED <<call, nameTreeEntry>>
  /\ UNCHANGED <<pitEntries, interest, held, arg>>

\* Where the list of the entry holds a PIT entry for a similar Interest.
Found == {k \in DOMAIN pitEntries[nameTreeEntry] :
            PitDictionary!Similar(interest[pitEntries[nameTreeEntry][k]], arg)}

ReturnExisting ==
  /\ call = "found" /\ arg # NoInterest
  /\ \E k \in Found : /\ \A j \in Found : k <= j
                      /\ held' = held \cup {pitEntries[nameTreeEntry][k]}
  /\ PitReturn
  /\ UNCHANGED <<vars, pitEntries, interest>>

InsertPitEntry(e) ==
  /\ call = "found" /\ arg # NoInterest /\ Found = {}
  /\ AddContent(nameTreeEntry, "pit")
  /\ pitEntries' = [pitEntries EXCEPT ![nameTreeEntry] = Append(@, e)]
  /\ interest' = [interest EXCEPT ![e] = arg]
  /\ held' = held \cup {e}
  /\ PitReturn

SetFibEntry ==
  /\ call = "found" /\ arg = NoInterest
  /\ AddContent(nameTreeEntry, "fib")
  /\ PitReturn
  /\ UNCHANGED <<pitEntries, interest, held>>

-----------------------------------------------------------------------------
(* remove(pitEntry), and deleteFibEntry() by the FIB.                      *)

\* isEmpty() of a sees the list that deletePitEntry() has left.
UpdateIsEmpty(a, list) ==
  IF list = <<>> THEN RemoveContent(a, "pit") ELSE UNCHANGED vars

\* findExactMatch() comes to a node of that name.
Finds(n, a) == a \in live /\ m_prefix[a] = n

\* PitDictionary!Delete is deletePitEntry() on the list.
Remove(e) ==
  LET n == interest[e].name
      found == FindExactMatch(n)
  IN /\ call = "ready" /\ Finds(n, found)
     /\ pitEntries' = [pitEntries EXCEPT ![found] = PitDictionary!Delete(@, e)]
     /\ UpdateIsEmpty(found, pitEntries'[found])
     /\ call' = "removed" /\ nameTreeEntry' = found
     /\ UNCHANGED <<interest, held, arg>>

\* BOOST_ASSERT(static_cast<bool>(nameTreeEntry)), or the walk along the chain
\* of a corrupted table reads a deleted node.
RemoveStops(e) ==
  LET n == interest[e].name
      found == FindExactMatch(n)
  IN /\ call = "ready" /\ ~Finds(n, found)
     /\ call' = IF found = Null THEN "abort" ELSE "undefined"
     /\ UNCHANGED <<vars, pitEntries, interest, held, arg, nameTreeEntry>>

DeleteFib(n) ==
  LET found == FindExactMatch(n)
  IN /\ call = "ready" /\ Finds(n, found) /\ "fib" \in content[found]
     /\ RemoveContent(found, "fib")
     /\ call' = "removed" /\ nameTreeEntry' = found
     /\ UNCHANGED <<pitEntries, interest, held, arg>>

EraseSkipped ==
  /\ call = "removed"
  /\ PitReturn
  /\ UNCHANGED <<vars, pitEntries, interest, held>>

BeginErase ==
  /\ call = "removed" /\ Erase(nameTreeEntry)
  /\ call' = "erase"
  /\ UNCHANGED <<pitEntries, interest, held, arg, nameTreeEntry>>

EraseStep ==
  /\ call = "erase" /\ Step
  /\ IF pc' = "idle" THEN PitReturn ELSE UNCHANGED <<call, arg, nameTreeEntry>>
  /\ UNCHANGED <<pitEntries, interest, held>>

\* A client forgets a PIT entry; it is destroyed if the table has it no more.
Drop(e) ==
  /\ call = "ready"
  /\ held' = held \ {e}
  /\ interest' = IF e \in Pending THEN interest
                 ELSE [interest EXCEPT ![e] = NoInterest]
  /\ UNCHANGED <<vars, pitEntries, call, arg, nameTreeEntry>>

-----------------------------------------------------------------------------
PitStep ==
  \/ SeekStep \/ ReturnExisting \/ SetFibEntry
  \/ \E e \in PitEntry \ (Pending \cup held) : InsertPitEntry(e)
  \/ BeginErase \/ EraseStep

PitNext ==
  \/ \E x \in Interest : BeginInsertInterest(x)
  \/ \E n \in Name \ FibNames : BeginSetFib(n)
  \/ \E n \in Name : DeleteFib(n)
  \/ \E e \in held : Remove(e) \/ RemoveStops(e) \/ Drop(e)
  \/ PitStep

PitOnTableSpec == PitInit /\ [][PitNext]_<<vars, pitVars>>

-----------------------------------------------------------------------------
(* findAllDataMatches(data), for the name d of the Data.                   *)

ClimbWhileListed(a) == IF pitEntries[a] = <<>> THEN Null ELSE m_parent[a]
Climb(a) == m_parent[a]

\* The entries from the longest prefix match up to the root.
DataPath(d) ==
  LET from[k \in 0 .. Len(d)] ==
        IF k = 0 THEN FindLongestPrefixMatch(d, Name)
        ELSE IF from[k - 1] = Null THEN Null ELSE Climb(from[k - 1])
  IN from

Matching(a, d) == PitDictionary!Accepting(pitEntries[a], d)

FindAllDataMatches(d) ==
  LET path == DataPath(d)
      upTo[k \in -1 .. Len(d)] ==
        IF k = -1 THEN <<>>
        ELSE upTo[k - 1] \o IF path[k] = Null THEN <<>> ELSE Matching(path[k], d)
  IN upTo[Len(d)]

-----------------------------------------------------------------------------
(* Properties.                                                             *)

\* On the pointers of the hash table, each call of the Pit or the FIB does what
\* Pit says of a dictionary, in one step, until a node is unlinked through a
\* wrong m_prev: the chains, the growth of the table inside a lookup() and the
\* cascade of an erasure cannot be observed, and no path is left behind.
ImplementsPit ==
  PitDictionary!Init /\ [][damaged' \/ PitDictionary!Next]_(PitDictionary!vars)

\* The walk of findAllDataMatches() along chains and parent pointers returns the
\* same PIT entries in the same order as the search by names, as long as no node
\* was unlinked through a wrong m_prev.
DataMatchesAgree ==
  call = "ready" /\ ~damaged =>
    \A d \in Name : FindAllDataMatches(d) = PitDictionary!FindAllDataMatches(d)

=============================================================================
