---------------------------- MODULE NameTreeEntry ----------------------------
(***************************************************************************)
(* The classes Entry and Node of name-tree-entry.cpp: plain data whose     *)
(* methods are called by one thread.  Where they are hooked together the   *)
(* way the table does it is modelled from name-tree.cpp.                   *)
(*                                                                         *)
(* The constructor of Entry sets neither m_measurements nor m_node: they   *)
(* start with any value that the memory can hold.                          *)
(*                                                                         *)
(* call and answer record what the last call was asked and what it said,   *)
(* turn tells it from the call before it.                                  *)
(***************************************************************************)
EXTENDS Integers, Sequences, FiniteSets, Functions

CONSTANTS
  EntryObj,      \* the Entry objects, and their Nodes
  Fib,           \* FIB entries
  Pit,           \* PIT entries
  Measurements,  \* Measurements entries
  Null,          \* the null pointer
  MaxPit         \* bound on the lengths of all m_pitList together

ASSUME EntryAssumption == Null \notin EntryObj \cup Fib \cup Pit \cup Measurements

VARIABLES
  alive,  \* the entries that are constructed
  m_hash, m_parent, m_childrenList, m_fib, m_pitList, m_measurements, m_node,
  call,   \* history: the last call, with its arguments
  answer, \* what it returned; TRUE if it returns nothing
  turn    \* flips with every call, so that no call passes for a stutter

hooks    == <<m_hash, m_parent, m_childrenList, m_node>>
contents == <<m_fib, m_pitList, m_measurements>>
vars     == <<alive, hooks, contents, call, answer, turn>>

Init ==
  /\ alive = {} /\ call = <<>> /\ answer = TRUE /\ turn = 0
  /\ m_parent = [e \in EntryObj |-> Null]
  /\ m_childrenList = [e \in EntryObj |-> <<>>]
  /\ m_fib = [e \in EntryObj |-> Null]
  /\ m_pitList = [e \in EntryObj |-> <<>>]
  /\ m_measurements = [e \in EntryObj |-> Null]
  /\ m_node = [e \in EntryObj |-> Null]
  /\ m_hash = [e \in EntryObj |-> 0]

\* The call c returns a.
Returns(c, a) == call' = c /\ answer' = a /\ turn' = 1 - turn

\* new Entry(name)
Construct(e) ==
  /\ e \notin alive
  /\ alive' = alive \cup {e}
  /\ m_hash' = [m_hash EXCEPT ![e] = 0]
  /\ m_parent' = [m_parent EXCEPT ![e] = Null]
  /\ m_childrenList' = [m_childrenList EXCEPT ![e] = <<>>]
  /\ m_fib' = [m_fib EXCEPT ![e] = Null]
  /\ m_pitList' = [m_pitList EXCEPT ![e] = <<>>]
  /\ \E g \in Measurements \cup {Null} :
       m_measurements' = [m_measurements EXCEPT ![e] = g]
  /\ \E n \in {e, Null} : m_node' = [m_node EXCEPT ![e] = n]
  /\ Returns(<<"Entry", e>>, TRUE)

SetHash(e, h) ==
  /\ e \in alive
  /\ m_hash' = [m_hash EXCEPT ![e] = h]
  /\ Returns(<<"setHash", e>>, TRUE)
  /\ UNCHANGED <<alive, m_parent, m_childrenList, m_node, contents>>

\* insert() links the entry to its own Node, and never changes that.
SetNode(e) ==
  /\ e \in alive
  /\ m_node' = [m_node EXCEPT ![e] = e]
  /\ Returns(<<"setNode", e>>, TRUE)
  /\ UNCHANGED <<alive, m_hash, m_parent, m_childrenList, contents>>

SetParent(d, e) == m_parent' = [m_parent EXCEPT ![d] = e]

\* lookup() hooks the new entry d below e; two levels are enough here.
Hook(d, e) ==
  /\ {d, e} \subseteq alive /\ d # e
  /\ m_parent[d] = Null /\ m_parent[e] = Null /\ m_childrenList[d] = <<>>
  /\ SetParent(d, e)
  /\ m_childrenList' = [m_childrenList EXCEPT ![e] = Append(@, d)]
  /\ Returns(<<"setParent", d, e>>, TRUE)
  /\ UNCHANGED <<alive, m_hash, m_node, contents>>

SetFibEntry(e, f) ==
  /\ e \in alive
  /\ m_fib' = [m_fib EXCEPT ![e] = f]
  /\ Returns(<<"setFibEntry", e, f>>, TRUE)
  /\ UNCHANGED <<alive, hooks, m_pitList, m_measurements>>

\* Only the FIB entry that is set can be deleted.
DeleteFibEntry(e, f) ==
  /\ e \in alive
  /\ m_fib' = IF m_fib[e] = f THEN [m_fib EXCEPT ![e] = Null] ELSE m_fib
  /\ Returns(<<"deleteFibEntry", e, f>>, m_fib[e] = f)
  /\ UNCHANGED <<alive, hooks, m_pitList, m_measurements>>

InsertPitEntry(e, p) ==
  /\ e \in alive
  /\ FoldFunction(LAMBDA list, n : Len(list) + n, 0, m_pitList) < MaxPit
  /\ m_pitList' = [m_pitList EXCEPT ![e] = Append(@, p)]
  /\ Returns(<<"insertPitEntry", e, p>>, TRUE)
  /\ UNCHANGED <<alive, hooks, m_fib, m_measurements>>

FillPopped(list, k) ==
  [j \in 1 .. Len(list) - 1 |-> IF j = k THEN list[Len(list) - 1] ELSE list[j]]

\* The last element takes the place of the k-th, and is popped.
Fill(list, k) ==
  [j \in 1 .. Len(list) - 1 |-> IF j = k THEN list[Len(list)] ELSE list[j]]

First(list, p) == {k \in DOMAIN list : list[k] = p /\ \A j \in 1 .. k - 1 : list[j] # p}

DeletePitEntry(e, p) ==
  /\ e \in alive
  /\ \/ \E k \in First(m_pitList[e], p) :
          m_pitList' = [m_pitList EXCEPT ![e] = Fill(@, k)]
     \/ First(m_pitList[e], p) = {} /\ UNCHANGED m_pitList
  /\ Returns(<<"deletePitEntry", e, p>>, First(m_pitList[e], p) # {})
  /\ UNCHANGED <<alive, hooks, m_fib, m_measurements>>

SetMeasurementsEntry(e, m) ==
  /\ e \in alive
  /\ m_measurements' = [m_measurements EXCEPT ![e] = m]
  /\ Returns(<<"setMeasurementsEntry", e, m>>, TRUE)
  /\ UNCHANGED <<alive, hooks, m_fib, m_pitList>>

IsEmpty(e) ==
  /\ m_childrenList[e] = <<>> /\ m_fib[e] = Null /\ m_pitList[e] = <<>>
  /\ m_measurements[e] = Null

\* eraseEntryIfEmpty() and the destructor; nothing that it points to is deleted.
Destroy(e) ==
  /\ e \in alive /\ IsEmpty(e)
  /\ alive' = alive \ {e}
  /\ m_childrenList' =
       [d \in EntryObj |->
          LET at == First(m_childrenList[d], e)
          IN IF at = {} THEN m_childrenList[d]
             ELSE Fill(m_childrenList[d], CHOOSE k \in at : TRUE)]
  /\ Returns(<<"eraseEntryIfEmpty", e>>, TRUE)
  /\ UNCHANGED <<m_hash, m_parent, m_node, contents>>

Next ==
  \E e \in EntryObj :
    \/ Construct(e) \/ Destroy(e) \/ SetHash(e, 1) \/ SetNode(e)
    \/ \E d \in EntryObj : Hook(d, e)
    \/ \E f \in Fib : SetFibEntry(e, f) \/ DeleteFibEntry(e, f)
    \/ \E p \in Pit : InsertPitEntry(e, p) \/ DeletePitEntry(e, p)
    \/ \E m \in Measurements \cup {Null} : SetMeasurementsEntry(e, m)

Spec == Init /\ [][Next]_vars

-----------------------------------------------------------------------------
(* Properties.                                                             *)

Occurrences(e, p) == Cardinality({k \in DOMAIN m_pitList[e] : m_pitList[e][k] = p})
ChildSet(e) == {m_childrenList[e][k] : k \in DOMAIN m_childrenList[e]}

Promise == INSTANCE EntrySpec WITH
  exists <- alive,
  children <- [e \in EntryObj |-> ChildSet(e)],
  fib <- m_fib,
  pending <- [e \in EntryObj |-> [p \in Pit |-> Occurrences(e, p)]],
  measurements <- m_measurements

\* The vectors implement a set of children and a bag of PIT entries: a PIT entry
\* inserted twice must be deleted twice, no other entry than the argument of the
\* call goes, from no other list than that of the entry it is called on, and
\* every call answers whether it found its argument.
ImplementsEntrySpec == Promise!Spec

=============================================================================
