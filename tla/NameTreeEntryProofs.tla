------------------------- MODULE NameTreeEntryProofs -------------------------
(***************************************************************************)
(* Proofs about the lists of a name prefix entry, for every set of entries *)
(* and of what hangs on them, and lists of any length.                     *)
(***************************************************************************)
EXTENDS NameTreeEntry, DataLemmas, FiniteSetTheorems, SequenceTheorems, TLAPS

-----------------------------------------------------------------------------
(* What deletePitEntry() and eraseEntryIfEmpty() do to a list.             *)

\* Where p is in a list.
Places(list, p) == {k \in DOMAIN list : list[k] = p}

Count(list, p) == Cardinality(Places(list, p))

\* The search finds p exactly if it is in the list.
LEMMA FirstFacts ==
  ASSUME NEW S, NEW list \in Seq(S), NEW p
  PROVE  /\ First(list, p) = {} <=> Places(list, p) = {}
         /\ First(list, p) \subseteq Places(list, p)
<1>1. DOMAIN list \subseteq Nat /\ DOMAIN list = 1 .. Len(list) /\ Len(list) \in Nat
  BY LenProperties
<1>2. First(list, p) \subseteq Places(list, p)
  BY DEF First, Places
<1>3. ASSUME Places(list, p) # {} PROVE First(list, p) # {}
  <2>1. Places(list, p) \in SUBSET Nat
    BY <1>1 DEF Places
  <2>2. PICK k \in Places(list, p) : \A m \in Places(list, p) : k <= m
    BY <1>3, <2>1, LeastNat
  <2>3. \A j \in 1 .. k - 1 : list[j] # p
    <3> SUFFICES ASSUME NEW j \in 1 .. k - 1, list[j] = p PROVE FALSE
      OBVIOUS
    <3>1. k \in 1 .. Len(list)
      BY <1>1, <2>2 DEF Places
    <3>2. j \in Places(list, p)
      BY <1>1, <3>1 DEF Places
    <3> QED
      BY <2>2, <3>1, <3>2
  <2> QED
    BY <2>2, <2>3 DEF First, Places
<1> QED
  BY <1>2, <1>3

\* Every list has a finite number of places for p.
LEMMA CountFacts ==
  ASSUME NEW S, NEW list \in Seq(S), NEW p
  PROVE  /\ IsFiniteSet(Places(list, p)) /\ Count(list, p) \in Nat
         /\ Count(list, p) > 0 <=> Places(list, p) # {}
         /\ DOMAIN list = 1 .. Len(list) /\ Len(list) \in Nat
         /\ \A k \in DOMAIN list : list[k] \in S
<1>1. /\ DOMAIN list = 1 .. Len(list) /\ Len(list) \in Nat
      /\ \A k \in DOMAIN list : list[k] \in S
  BY LenProperties, ElementOfSeq
<1>2. IsFiniteSet(1 .. Len(list))
  BY <1>1, FS_Interval
<1>3. IsFiniteSet(Places(list, p))
  BY <1>1, <1>2, FS_Subset, Places(list, p) \in SUBSET (1 .. Len(list)) DEF Places
<1>4. Count(list, p) \in Nat
  BY <1>3, FS_CardinalityType DEF Count
<1>5. Count(list, p) = 0 <=> Places(list, p) = {}
  BY <1>3, FS_EmptySet DEF Count
<1> QED
  BY <1>1, <1>3, <1>4, <1>5

\* push_back() adds one occurrence of its argument.
LEMMA CountAppend ==
  ASSUME NEW S, NEW list \in Seq(S), NEW p \in S
  PROVE  \A q : Count(Append(list, p), q) =
                  IF q = p THEN Count(list, q) + 1 ELSE Count(list, q)
<1> DEFINE l == Append(list, p)
           n == Len(list)
<1>1. n \in Nat /\ DOMAIN list = 1 .. n
  BY LenProperties
<1>2. /\ l \in Seq(S) /\ Len(l) = n + 1
      /\ \A j \in 1 .. n : l[j] = list[j]
      /\ l[n + 1] = p
  BY AppendProperties
<1>3. DOMAIN l = 1 .. n + 1
  BY <1>1, <1>2, LenProperties
<1> HIDE DEF l, n
<1>4. \A j : j \in DOMAIN l <=> j \in DOMAIN list \/ j = n + 1
  BY <1>1, <1>3
<1>5. n + 1 \notin DOMAIN list /\ \A j \in DOMAIN list : l[j] = list[j]
  BY <1>1, <1>2
<1>6. ASSUME NEW q
      PROVE  Count(l, q) = IF q = p THEN Count(list, q) + 1 ELSE Count(list, q)
  <2>1. IsFiniteSet(Places(list, q))
    BY CountFacts
  <2>2. CASE q = p
    <3>1. Places(l, q) = Places(list, q) \cup {n + 1} /\ n + 1 \notin Places(list, q)
      BY <1>2, <1>4, <1>5, <2>2 DEF Places
    <3> QED
      BY <2>1, <2>2, <3>1, FS_AddElement DEF Count
  <2>3. CASE q # p
    <3>1. Places(l, q) = Places(list, q)
      BY <1>2, <1>4, <1>5, <2>3 DEF Places
    <3> QED
      BY <2>3, <3>1 DEF Count
  <2> QED
    BY <2>2, <2>3
<1> QED
  BY <1>6 DEF l

\* The swap with the last element takes out one occurrence of p and nothing
\* else, whether or not the last element is p, or the one at k.
LEMMA FillFacts ==
  ASSUME NEW S, NEW list \in Seq(S), NEW p, NEW k \in Places(list, p)
  PROVE  /\ Fill(list, k) \in Seq(S)
         /\ Injective(list) =>
              /\ Elements(Fill(list, k)) = Elements(list) \ {p}
              /\ Injective(Fill(list, k))
         /\ \A q : Count(Fill(list, k), q) =
              IF q = p THEN Count(list, q) - 1 ELSE Count(list, q)
<1> DEFINE l == Fill(list, k)
           n == Len(list)
<1>1. /\ n \in Nat /\ DOMAIN list = 1 .. n /\ \A j \in 1 .. n : list[j] \in S
      /\ k \in 1 .. n /\ list[k] = p
  BY LenProperties, ElementOfSeq DEF Places
<1>2. /\ DOMAIN l = 1 .. n - 1
      /\ \A j \in 1 .. n - 1 : l[j] = IF j = k THEN list[n] ELSE list[j]
  BY DEF Fill
<1>3. l \in Seq(S)
  <2>1. l \in [1 .. n - 1 -> S] /\ n - 1 \in Nat
    BY <1>1 DEF Fill
  <2> QED
    BY <2>1, SeqDef
<1> HIDE DEF l, n
<1>4. /\ \A j : j \in DOMAIN list <=> j \in DOMAIN l \/ j = n
      /\ n \notin DOMAIN l /\ n \in DOMAIN list
      /\ k = n \/ k \in DOMAIN l
      /\ \A j \in DOMAIN l : l[j] = IF j = k THEN list[n] ELSE list[j]
  BY <1>1, <1>2
<1>5. ASSUME Injective(list)
      PROVE  Elements(l) = Elements(list) \ {p} /\ Injective(l)
  <2>1. Injective(l)
    BY <1>4, <1>5 DEF Injective
  <2>2. \A j \in DOMAIN list : list[j] = p <=> j = k
    BY <1>1, <1>5 DEF Injective
  <2>3. ASSUME NEW j \in DOMAIN l PROVE l[j] \in Elements(list) \ {p}
    BY <1>4, <2>2 DEF Elements
  <2>4. ASSUME NEW j \in DOMAIN list, j # k PROVE list[j] \in Elements(l)
    <3>1. CASE j = n
      <4>1. k \in DOMAIN l /\ l[k] = list[j]
        BY <1>4, <2>4, <3>1
      <4> QED
        BY <4>1 DEF Elements
    <3>2. CASE j # n
      BY <1>4, <2>4, <3>2 DEF Elements
    <3> QED
      BY <3>1, <3>2
  <2> QED
    BY <2>1, <2>2, <2>3, <2>4 DEF Elements
<1>6. ASSUME NEW q
      PROVE  Count(l, q) = IF q = p THEN Count(list, q) - 1 ELSE Count(list, q)
  <2>1. IsFiniteSet(Places(list, q))
    BY CountFacts
  <2>2. CASE q = p /\ list[n] = p
    <3>1. Places(l, q) = Places(list, q) \ {n} /\ n \in Places(list, q)
      BY <1>1, <1>4, <2>2 DEF Places
    <3> QED
      BY <2>1, <2>2, <3>1, FS_RemoveElement DEF Count
  <2>3. CASE q = p /\ list[n] # p
    <3>1. Places(l, q) = Places(list, q) \ {k} /\ k \in Places(list, q)
      BY <1>1, <1>4, <2>3 DEF Places
    <3> QED
      BY <2>1, <2>3, <3>1, FS_RemoveElement DEF Count
  <2>4. CASE q # p /\ list[n] = q
    <3>1. n \in Places(list, q) /\ k \notin Places(list, q) /\ k \in DOMAIN l
      BY <1>1, <1>4, <2>4 DEF Places
    <3>2. Places(l, q) = (Places(list, q) \ {n}) \cup {k}
      BY <1>1, <1>4, <2>4, <3>1 DEF Places
    <3>3. /\ IsFiniteSet(Places(list, q) \ {n})
          /\ Cardinality(Places(list, q) \ {n}) = Count(list, q) - 1
      BY <2>1, <3>1, FS_RemoveElement DEF Count
    <3>4. Count(l, q) = Count(list, q) - 1 + 1
      BY <3>1, <3>2, <3>3, FS_AddElement DEF Count
    <3> QED
      BY <2>4, <3>4, CountFacts
  <2>5. CASE q # p /\ list[n] # q
    <3>1. Places(l, q) = Places(list, q)
      BY <1>1, <1>4, <2>5 DEF Places
    <3> QED
      BY <2>5, <3>1 DEF Count
  <2> QED
    BY <2>2, <2>3, <2>4, <2>5
<1> QED
  BY <1>3, <1>5, <1>6 DEF l

-----------------------------------------------------------------------------
(* The inductive invariant.                                                *)

EntryTypes ==
  /\ alive \subseteq EntryObj
  /\ m_parent \in [EntryObj -> EntryObj \cup {Null}]
  /\ m_childrenList \in [EntryObj -> Seq(EntryObj)]
  /\ m_fib \in [EntryObj -> Fib \cup {Null}]
  /\ m_pitList \in [EntryObj -> Seq(Pit)]
  /\ m_measurements \in [EntryObj -> Measurements \cup {Null}]

\* An entry is in one list of children at most, and once, so that the erasure,
\* which takes out one occurrence, leaves no pointer to it.
Hooked ==
  \A e \in EntryObj :
    /\ Injective(m_childrenList[e])
    /\ \A d \in Elements(m_childrenList[e]) : d \in alive /\ m_parent[d] = e

EntryInv == EntryTypes /\ Hooked

\* The list without e.
Unhook(list, e) ==
  LET at == First(list, e)
  IN IF at = {} THEN list ELSE Fill(list, CHOOSE k \in at : TRUE)

LEMMA UnhookFacts ==
  ASSUME NEW S, NEW list \in Seq(S), NEW e, Injective(list)
  PROVE  /\ Unhook(list, e) \in Seq(S) /\ Injective(Unhook(list, e))
         /\ Elements(Unhook(list, e)) = Elements(list) \ {e}
<1>1. CASE First(list, e) = {}
  <2>1. e \notin Elements(list)
    BY <1>1, FirstFacts DEF Elements, Places
  <2> QED
    BY <1>1, <2>1 DEF Unhook
<1>2. CASE First(list, e) # {}
  <2>1. PICK k \in Places(list, e) : Unhook(list, e) = Fill(list, k)
    BY <1>2, FirstFacts DEF Unhook
  <2> QED
    BY <2>1, FillFacts
<1> QED
  BY <1>1, <1>2

LEMMA EntryInit == Init => EntryInv
<1> SUFFICES ASSUME Init PROVE EntryInv
  OBVIOUS
<1>1. EntryTypes
  BY EmptyList DEF Init, EntryTypes
<1>2. \A e \in EntryObj : m_childrenList[e] = <<>>
  BY DEF Init
<1>3. Hooked
  BY <1>2, EmptyList DEF Hooked
<1> QED
  BY <1>1, <1>3 DEF EntryInv

LEMMA EntryStep ==
  ASSUME EntryInv, [Next]_vars
  PROVE  EntryInv'
<1> USE DEF EntryInv
<1>1. ASSUME UNCHANGED <<alive, m_parent, m_childrenList>> PROVE Hooked'
  BY <1>1 DEF Hooked
<1>2. ASSUME NEW e \in EntryObj, Construct(e) PROVE EntryInv'
  <2>1. EntryTypes'
    BY <1>2, EmptyList DEF EntryTypes, Construct
  <2>2. ASSUME NEW x \in EntryObj
        PROVE  /\ Injective(m_childrenList'[x])
               /\ \A d \in Elements(m_childrenList'[x]) : d \in alive' /\ m_parent'[d] = x
    <3>1. CASE x = e
      <4>1. m_childrenList'[x] = <<>>
        BY <1>2, <3>1 DEF EntryTypes, Construct
      <4> QED
        BY <4>1, EmptyList
    <3>2. CASE x # e
      <4>1. m_childrenList'[x] = m_childrenList[x]
        BY <1>2, <3>2 DEF EntryTypes, Construct
      <4>2. \A d \in Elements(m_childrenList[x]) : d \in EntryObj /\ d # e
        BY <1>2 DEF EntryTypes, Hooked, Construct
      <4> QED
        BY <1>2, <4>1, <4>2 DEF EntryTypes, Hooked, Construct
    <3> QED
      BY <3>1, <3>2
  <2> QED
    BY <2>1, <2>2 DEF Hooked
<1>3. ASSUME NEW e \in EntryObj, Destroy(e) PROVE EntryInv'
  <2>1. \A d \in EntryObj : m_childrenList'[d] = Unhook(m_childrenList[d], e)
    BY <1>3 DEF Destroy, Unhook
  <2>2. \A d \in EntryObj :
          /\ m_childrenList'[d] \in Seq(EntryObj) /\ Injective(m_childrenList'[d])
          /\ Elements(m_childrenList'[d]) = Elements(m_childrenList[d]) \ {e}
    BY <2>1, UnhookFacts DEF EntryTypes, Hooked
  <2>3. EntryTypes'
    <3>1. m_childrenList' = [d \in EntryObj |-> m_childrenList'[d]]
      BY <1>3 DEF Destroy
    <3>2. m_childrenList' \in [EntryObj -> Seq(EntryObj)]
      BY <2>2, <3>1
    <3> QED
      BY <1>3, <3>2 DEF EntryTypes, Destroy, contents
  <2>4. Hooked'
    <3>1. alive' = alive \ {e} /\ m_parent' = m_parent
      BY <1>3 DEF Destroy
    <3>2. ASSUME NEW x \in EntryObj, NEW d \in Elements(m_childrenList'[x])
          PROVE  d \in alive' /\ m_parent'[d] = x
      <4>1. d \in Elements(m_childrenList[x]) /\ d # e
        BY <2>2
      <4> QED
        BY <3>1, <4>1 DEF Hooked
    <3> QED
      BY <2>2, <3>2 DEF Hooked
  <2> QED
    BY <2>3, <2>4
<1>4. ASSUME NEW d \in EntryObj, NEW e \in EntryObj, Hook(d, e) PROVE EntryInv'
  <2>1. d \notin Elements(m_childrenList[e])
    BY <1>4, EntryAssumption DEF Hooked, Hook, SetParent
  <2>2. /\ m_childrenList[e] \in Seq(EntryObj) /\ Injective(m_childrenList[e])
        /\ m_childrenList' = [m_childrenList EXCEPT ![e] = Append(m_childrenList[e], d)]
    BY <1>4 DEF EntryTypes, Hooked, Hook, SetParent
  <2>3. /\ Append(m_childrenList[e], d) \in Seq(EntryObj)
        /\ Elements(Append(m_childrenList[e], d)) = Elements(m_childrenList[e]) \cup {d}
        /\ Injective(Append(m_childrenList[e], d))
    BY <2>1, <2>2, AppendFacts
  <2>4. EntryTypes'
    BY <1>4, <2>2, <2>3 DEF EntryTypes, Hook, SetParent, contents
  <2>5. ASSUME NEW x \in EntryObj
        PROVE  /\ Injective(m_childrenList'[x])
               /\ \A c \in Elements(m_childrenList'[x]) : c \in alive' /\ m_parent'[c] = x
    <3>1. \A c : c # d => m_parent'[c] = m_parent[c]
      BY <1>4 DEF Hook, SetParent, EntryTypes
    <3>2. m_parent'[d] = e /\ alive' = alive /\ d \in alive
      BY <1>4 DEF Hook, SetParent, EntryTypes
    <3>3. CASE x = e
      <4>1. m_childrenList'[x] = Append(m_childrenList[e], d)
        BY <2>2, <3>3 DEF EntryTypes
      <4> QED
        BY <2>3, <3>1, <3>2, <3>3, <4>1 DEF Hooked
    <3>4. CASE x # e
      <4>1. m_childrenList'[x] = m_childrenList[x]
        BY <2>2, <3>4 DEF EntryTypes
      <4>2. d \notin Elements(m_childrenList[x])
        BY <1>4, EntryAssumption DEF Hooked, Hook, SetParent
      <4> QED
        BY <3>1, <3>2, <4>1, <4>2 DEF Hooked
    <3> QED
      BY <3>3, <3>4
  <2> QED
    BY <2>4, <2>5 DEF Hooked
<1>5. ASSUME NEW e \in EntryObj, SetHash(e, 1) \/ SetNode(e) PROVE EntryInv'
  BY <1>1, <1>5 DEF EntryTypes, SetHash, SetNode, contents
<1>6. ASSUME NEW e \in EntryObj, NEW f \in Fib, SetFibEntry(e, f) \/ DeleteFibEntry(e, f)
      PROVE  EntryInv'
  BY <1>1, <1>6 DEF EntryTypes, SetFibEntry, DeleteFibEntry, hooks
<1>7. ASSUME NEW e \in EntryObj, NEW p \in Pit, InsertPitEntry(e, p) PROVE EntryInv'
  <2>1. Append(m_pitList[e], p) \in Seq(Pit)
    BY AppendFacts DEF EntryTypes
  <2>2. /\ m_pitList' = [m_pitList EXCEPT ![e] = Append(m_pitList[e], p)]
        /\ UNCHANGED <<alive, hooks, m_fib, m_measurements>>
    BY <1>7, Zenon DEF InsertPitEntry
  <2> QED
    BY <1>1, <2>1, <2>2 DEF EntryTypes, hooks
<1>8. ASSUME NEW e \in EntryObj, NEW p \in Pit, DeletePitEntry(e, p) PROVE EntryInv'
  <2>1. \A k \in First(m_pitList[e], p) : Fill(m_pitList[e], k) \in Seq(Pit)
    BY FirstFacts, FillFacts DEF EntryTypes
  <2> QED
    BY <1>1, <1>8, <2>1 DEF EntryTypes, DeletePitEntry, hooks
<1>9. ASSUME NEW e \in EntryObj, NEW m \in Measurements \cup {Null},
             SetMeasurementsEntry(e, m)
      PROVE  EntryInv'
  BY <1>1, <1>9 DEF EntryTypes, SetMeasurementsEntry, hooks
<1>10. CASE UNCHANGED vars
  BY <1>1, <1>10 DEF EntryTypes, vars, hooks, contents
<1> QED
  BY <1>2, <1>3, <1>4, <1>5, <1>6, <1>7, <1>8, <1>9, <1>10 DEF Next

\* The inductive invariant holds in every state: types, and who lists whom.
THEOREM EntryInvHolds == Spec => []EntryInv
<1> QED
  BY EntryInit, EntryStep, PTL DEF Spec

-----------------------------------------------------------------------------
(* Every call is a step of EntrySpec.                                      *)

Kids == [e \in EntryObj |-> ChildSet(e)]

PitBag == [e \in EntryObj |-> [p \in Pit |-> Occurrences(e, p)]]

\* The sets and bags that the lists stand for, before and after a step.
LEMMA Abstraction ==
  /\ Kids = [e \in EntryObj |-> Elements(m_childrenList[e])]
  /\ Kids' = [e \in EntryObj |-> Elements(m_childrenList'[e])]
  /\ PitBag = [e \in EntryObj |-> [p \in Pit |-> Count(m_pitList[e], p)]]
  /\ PitBag' = [e \in EntryObj |-> [p \in Pit |-> Count(m_pitList'[e], p)]]
BY DEF Kids, PitBag, ChildSet, Elements, Occurrences, Count, Places

LEMMA EntrySpecInit == Init => Promise!SpecInit
<1> SUFFICES ASSUME Init PROVE Promise!SpecInit
  OBVIOUS
<1>1. ASSUME NEW e \in EntryObj PROVE Elements(m_childrenList[e]) = {}
  BY EmptyList DEF Init
<1>2. ASSUME NEW e \in EntryObj, NEW p \in Pit PROVE Count(m_pitList[e], p) = 0
  <2>1. m_pitList[e] = <<>> /\ <<>> \in Seq(Pit) /\ DOMAIN <<>> = {}
    BY EmptySeq, LenProperties DEF Init
  <2>2. Places(m_pitList[e], p) = {}
    BY <2>1 DEF Places
  <2> QED
    BY <2>2, FS_EmptySet DEF Count
<1>3. Kids = [e \in EntryObj |-> {}]
  BY <1>1, Abstraction
<1>4. PitBag = [e \in EntryObj |-> [p \in Pit |-> 0]]
  BY <1>2, Abstraction
<1> QED
  BY <1>3, <1>4 DEF Promise!SpecInit, Promise!NoPending, Init, Kids, PitBag

\* The calls that change neither list.
LEMMA SetterSteps ==
  ASSUME EntryInv, NEW e \in EntryObj
  PROVE  /\ SetHash(e, 1) \/ SetNode(e) => Promise!Label(e)
         /\ \A f \in Fib : SetFibEntry(e, f) => Promise!SetFib(e, f)
         /\ \A f \in Fib : DeleteFibEntry(e, f) => Promise!DeleteFib(e, f)
         /\ \A m \in Measurements \cup {Null} :
              SetMeasurementsEntry(e, m) => Promise!Measure(e, m)
<1>1. ASSUME UNCHANGED m_childrenList PROVE Kids' = Kids
  BY <1>1, Abstraction
<1>2. ASSUME UNCHANGED m_pitList PROVE PitBag' = PitBag
  BY <1>2, Abstraction
<1>3. ASSUME SetHash(e, 1) \/ SetNode(e) PROVE Promise!Label(e)
  BY <1>1, <1>2, <1>3
  DEF SetHash, SetNode, contents, Promise!Label, Promise!Returns, Returns, Kids, PitBag
<1>4. ASSUME NEW f \in Fib, SetFibEntry(e, f) PROVE Promise!SetFib(e, f)
  BY <1>1, <1>2, <1>4
  DEF SetFibEntry, hooks, Promise!SetFib, Promise!Returns, Returns, Kids, PitBag
<1>5. ASSUME NEW f \in Fib, DeleteFibEntry(e, f) PROVE Promise!DeleteFib(e, f)
  <2>1. m_fib' = [m_fib EXCEPT ![e] = IF m_fib[e] = f THEN Null ELSE m_fib[e]]
    BY <1>5 DEF DeleteFibEntry, EntryInv, EntryTypes
  <2>2. /\ e \in alive /\ Returns(<<"deleteFibEntry", e, f>>, m_fib[e] = f)
        /\ UNCHANGED <<alive, m_childrenList, m_pitList, m_measurements>>
    BY <1>5, Zenon DEF DeleteFibEntry, hooks
  <2>3. Kids' = Kids /\ PitBag' = PitBag
    BY <1>1, <1>2, <2>2
  <2> QED
    BY <2>1, <2>2, <2>3, Zenon
    DEF Promise!DeleteFib, Promise!Returns, Returns, Kids, PitBag
<1>6. ASSUME NEW m \in Measurements \cup {Null}, SetMeasurementsEntry(e, m)
      PROVE  Promise!Measure(e, m)
  BY <1>1, <1>2, <1>6
  DEF SetMeasurementsEntry, hooks, Promise!Measure, Promise!Returns, Returns, Kids, PitBag
<1> QED
  BY <1>3, <1>4, <1>5, <1>6

\* One number of the bags changes.
LEMMA OneCount ==
  ASSUME NEW e \in EntryObj, NEW p \in Pit, NEW v,
         \A x \in EntryObj : \A q \in Pit :
           Count(m_pitList'[x], q) =
             IF x = e /\ q = p THEN v ELSE Count(m_pitList[x], q)
  PROVE  PitBag' = [PitBag EXCEPT ![e] = [PitBag[e] EXCEPT ![p] = v]]
<1> DEFINE new == [PitBag EXCEPT ![e] = [PitBag[e] EXCEPT ![p] = v]]
<1>1. \A x \in EntryObj :
        new[x] = IF x = e THEN [PitBag[e] EXCEPT ![p] = v] ELSE PitBag[x]
  BY Abstraction
<1>2. \A x \in EntryObj : PitBag[x] = [q \in Pit |-> Count(m_pitList[x], q)]
  BY Abstraction
<1>3. ASSUME NEW x \in EntryObj
      PROVE  new[x] = [q \in Pit |-> IF x = e /\ q = p THEN v ELSE Count(m_pitList[x], q)]
  <2> HIDE DEF new
  <2>1. CASE x = e
    <3>1. PitBag[e] = [q \in Pit |-> Count(m_pitList[e], q)]
      BY <1>2
    <3>2. [PitBag[e] EXCEPT ![p] = v] =
            [q \in Pit |-> IF q = p THEN v ELSE Count(m_pitList[e], q)]
      BY ONLY <3>1
    <3>3. new[x] = [PitBag[e] EXCEPT ![p] = v]
      BY <1>1, <2>1
    <3> QED
      BY <2>1, <3>2, <3>3
  <2>2. CASE x # e
    BY <1>1, <1>2, <2>2
  <2> QED
    BY <2>1, <2>2
<1>4. ASSUME NEW x \in EntryObj
      PROVE  new[x] = [q \in Pit |-> Count(m_pitList'[x], q)]
  <2> HIDE DEF new
  <2> QED
    BY <1>3
<1>5. new = [x \in EntryObj |-> new[x]]
  BY Abstraction
<1> HIDE DEF new
<1>6. new = [x \in EntryObj |-> [q \in Pit |-> Count(m_pitList'[x], q)]]
  BY <1>4, <1>5
<1> QED
  BY <1>6, Abstraction DEF new

\* insertPitEntry() adds one occurrence.
LEMMA PutStep ==
  ASSUME EntryInv, NEW e \in EntryObj, NEW p \in Pit, InsertPitEntry(e, p)
  PROVE  Promise!Put(e, p)
<1>1. /\ m_pitList[e] \in Seq(Pit) /\ e \in alive
      /\ Returns(<<"insertPitEntry", e, p>>, TRUE)
      /\ m_pitList' = [m_pitList EXCEPT ![e] = Append(m_pitList[e], p)]
      /\ UNCHANGED <<alive, m_childrenList, m_fib, m_measurements>>
  <2>1. m_pitList[e] \in Seq(Pit)
    BY DEF EntryInv, EntryTypes
  <2> QED
    BY <2>1, Zenon DEF InsertPitEntry, hooks
<1>2. Kids' = Kids
  BY <1>1, Abstraction
<1>3. \A q \in Pit : Count(m_pitList'[e], q) =
        IF q = p THEN Count(m_pitList[e], q) + 1 ELSE Count(m_pitList[e], q)
  BY <1>1, CountAppend DEF EntryInv, EntryTypes
<1>4. \A x \in EntryObj \ {e} : m_pitList'[x] = m_pitList[x]
  BY <1>1 DEF EntryInv, EntryTypes
<1>5. PitBag' = [PitBag EXCEPT ![e] = [PitBag[e] EXCEPT ![p] = PitBag[e][p] + 1]]
  <2>1. PitBag[e][p] = Count(m_pitList[e], p)
    BY Abstraction
  <2> QED
    BY <1>3, <1>4, <2>1, OneCount
<1> QED
  BY <1>1, <1>2, <1>5 DEF Promise!Put, Promise!Returns, Returns, Kids, PitBag

\* deletePitEntry() takes one occurrence out, if there is any, and says so.
LEMMA TakeStep ==
  ASSUME EntryInv, NEW e \in EntryObj, NEW p \in Pit, DeletePitEntry(e, p)
  PROVE  Promise!Take(e, p)
<1> DEFINE list == m_pitList[e]
<1>1. /\ m_pitList \in [EntryObj -> Seq(Pit)] /\ e \in alive
      /\ UNCHANGED <<alive, m_childrenList, m_fib, m_measurements>>
  BY DEF DeletePitEntry, hooks, EntryInv, EntryTypes
<1>2. Kids' = Kids
  BY <1>1, Abstraction
<1>3. /\ Count(list, p) > 0 <=> First(list, p) # {}
      /\ \A q : Count(list, q) \in Nat
  BY <1>1, FirstFacts, CountFacts
<1>4. Returns(<<"deletePitEntry", e, p>>, First(list, p) # {})
  BY Zenon DEF DeletePitEntry
<1>5. PitBag[e][p] = Count(list, p)
  BY Abstraction
<1>6. PitBag' = [PitBag EXCEPT ![e] =
                  [PitBag[e] EXCEPT ![p] = IF PitBag[e][p] > 0 THEN PitBag[e][p] - 1 ELSE 0]]
  <2>1. CASE First(list, p) = {}
    <3>1. m_pitList' = m_pitList /\ Count(list, p) = 0
      BY <1>3, <2>1 DEF DeletePitEntry
    <3> QED
      BY <1>5, <3>1, OneCount
  <2>2. CASE First(list, p) # {}
    <3>1. PICK k \in First(list, p) : m_pitList' = [m_pitList EXCEPT ![e] = Fill(list, k)]
      BY <2>2 DEF DeletePitEntry
    <3>2. k \in Places(list, p)
      BY <1>1, FirstFacts
    <3>3. \A q \in Pit : Count(m_pitList'[e], q) =
            IF q = p THEN Count(list, q) - 1 ELSE Count(list, q)
      BY <1>1, <3>1, <3>2, FillFacts
    <3>4. \A x \in EntryObj \ {e} : m_pitList'[x] = m_pitList[x]
      BY <1>1, <3>1
    <3> QED
      BY <1>3, <1>5, <2>2, <3>3, <3>4, OneCount
  <2> QED
    BY <2>1, <2>2
<1>7. Returns(<<"deletePitEntry", e, p>>, PitBag[e][p] > 0)
  <2>1. PitBag[e][p] = Count(list, p)
    BY <1>5
  <2>2. (First(list, p) # {}) = (Count(list, p) > 0)
    BY <1>3
  <2> QED
    BY <1>4, <2>1, <2>2, Zenon DEF Returns
<1> QED
  BY <1>1, <1>2, <1>6, <1>7, Zenon
  DEF Promise!Take, Promise!Returns, Returns, Kids, PitBag

\* A new entry has empty lists, whatever was left of an earlier one.
LEMMA NewStep ==
  ASSUME EntryInv, NEW e \in EntryObj, Construct(e)
  PROVE  Promise!New(e)
<1>1. /\ e \notin alive /\ alive' = alive \cup {e}
      /\ Returns(<<"Entry", e>>, TRUE)
      /\ m_fib' = [m_fib EXCEPT ![e] = Null]
      /\ \E g \in Measurements \cup {Null} :
           m_measurements' = [m_measurements EXCEPT ![e] = g]
  BY DEF Construct
<1>2. /\ m_childrenList'[e] = <<>> /\ m_pitList'[e] = <<>>
      /\ \A x \in EntryObj \ {e} :
           m_childrenList'[x] = m_childrenList[x] /\ m_pitList'[x] = m_pitList[x]
  BY DEF Construct, EntryInv, EntryTypes
<1>3. Elements(m_childrenList'[e]) = {}
  BY <1>2, EmptyList
<1>4. Kids' = [Kids EXCEPT ![e] = {}]
  BY <1>2, <1>3, Abstraction
<1>5. \A q \in Pit : Count(m_pitList'[e], q) = 0
  <2>1. <<>> \in Seq(Pit) /\ DOMAIN <<>> = {}
    BY EmptySeq, LenProperties
  <2>2. \A q : Places(<<>>, q) = {}
    BY <2>1 DEF Places
  <2> QED
    BY <1>2, <2>2, FS_EmptySet DEF Count
<1>6. PitBag' = [PitBag EXCEPT ![e] = [p \in Pit |-> 0]]
  <2>1. [q \in Pit |-> Count(m_pitList'[e], q)] = [p \in Pit |-> 0]
    BY <1>5
  <2> QED
    BY <1>2, <2>1, Abstraction
<1> QED
  BY <1>1, <1>4, <1>6 DEF Promise!New, Promise!NoPending, Promise!Returns, Returns, Kids, PitBag

\* Only an empty entry is destroyed, and no list of children keeps it.
LEMMA RemoveStep ==
  ASSUME EntryInv, NEW e \in EntryObj, Destroy(e)
  PROVE  Promise!Remove(e)
<1>1. /\ e \in alive /\ alive' = alive \ {e}
      /\ m_childrenList[e] = <<>> /\ m_fib[e] = Null /\ m_pitList[e] = <<>>
      /\ m_measurements[e] = Null
      /\ UNCHANGED <<m_fib, m_pitList, m_measurements>>
      /\ Returns(<<"eraseEntryIfEmpty", e>>, TRUE)
  BY DEF Destroy, IsEmpty, contents
<1>2. \A d \in EntryObj : m_childrenList'[d] = Unhook(m_childrenList[d], e)
  BY DEF Destroy, Unhook
<1>3. \A d \in EntryObj :
        Elements(m_childrenList'[d]) = Elements(m_childrenList[d]) \ {e}
  BY <1>2, UnhookFacts DEF EntryInv, EntryTypes, Hooked
<1>4. Kids' = [d \in EntryObj |-> Kids[d] \ {e}] /\ Kids[e] = {}
  BY <1>1, <1>3, EmptyList, Abstraction
<1>5. \A q \in Pit : Count(m_pitList[e], q) = 0
  <2>1. <<>> \in Seq(Pit) /\ DOMAIN <<>> = {}
    BY EmptySeq, LenProperties
  <2>2. \A q : Places(<<>>, q) = {}
    BY <2>1 DEF Places
  <2> QED
    BY <1>1, <2>2, FS_EmptySet DEF Count
<1>6. PitBag' = PitBag /\ PitBag[e] = [p \in Pit |-> 0]
  BY <1>1, <1>5, Abstraction
<1> QED
  BY <1>1, <1>4, <1>6 DEF Promise!Remove, Promise!NoPending, Promise!Returns, Returns, Kids, PitBag

\* lookup() hooks an entry below another.
LEMMA AdoptStep ==
  ASSUME EntryInv, NEW d \in EntryObj, NEW e \in EntryObj, Hook(d, e)
  PROVE  Promise!Adopt(e, d)
<1>1. /\ {e, d} \subseteq alive
      /\ m_childrenList \in [EntryObj -> Seq(EntryObj)]
      /\ m_childrenList' = [m_childrenList EXCEPT ![e] = Append(m_childrenList[e], d)]
      /\ UNCHANGED <<alive, m_fib, m_pitList, m_measurements>>
      /\ Returns(<<"setParent", d, e>>, TRUE)
  BY DEF Hook, contents, EntryInv, EntryTypes
<1>2. PitBag' = PitBag
  BY <1>1, Abstraction
<1>3. Elements(m_childrenList'[e]) = Elements(m_childrenList[e]) \cup {d}
  BY <1>1, AppendFacts
<1>4. \A x \in EntryObj \ {e} : m_childrenList'[x] = m_childrenList[x]
  BY <1>1
<1>5. Kids' = [Kids EXCEPT ![e] = Kids[e] \cup {d}]
  BY <1>3, <1>4, Abstraction
<1> QED
  BY <1>1, <1>2, <1>5 DEF Promise!Adopt, Promise!Returns, Returns, Kids, PitBag

LEMMA EntrySpecNext ==
  ASSUME EntryInv, [Next]_vars
  PROVE  [Promise!SpecNext]_Promise!specVars
<1>1. CASE UNCHANGED vars
  <2>1. Kids' = Kids /\ PitBag' = PitBag
    BY <1>1, Abstraction DEF vars, hooks, contents
  <2> QED
    BY <1>1, <2>1 DEF vars, contents, Promise!specVars, Kids, PitBag
<1>2. CASE Next
  <2> SUFFICES ASSUME NEW e \in EntryObj,
                      \/ Construct(e) \/ Destroy(e) \/ SetHash(e, 1) \/ SetNode(e)
                      \/ \E d \in EntryObj : Hook(d, e)
                      \/ \E f \in Fib : SetFibEntry(e, f) \/ DeleteFibEntry(e, f)
                      \/ \E p \in Pit : InsertPitEntry(e, p) \/ DeletePitEntry(e, p)
                      \/ \E m \in Measurements \cup {Null} : SetMeasurementsEntry(e, m)
               PROVE  [Promise!SpecNext]_Promise!specVars
    BY <1>2 DEF Next
  <2>1. CASE Construct(e)
    BY <2>1, NewStep DEF Promise!SpecNext
  <2>2. CASE Destroy(e)
    BY <2>2, RemoveStep DEF Promise!SpecNext
  <2>3. CASE SetHash(e, 1) \/ SetNode(e)
    BY <2>3, SetterSteps DEF Promise!SpecNext
  <2>4. ASSUME NEW d \in EntryObj, Hook(d, e) PROVE Promise!SpecNext
    BY <2>4, AdoptStep DEF Promise!SpecNext
  <2>5. ASSUME NEW f \in Fib, SetFibEntry(e, f) \/ DeleteFibEntry(e, f)
        PROVE  Promise!SpecNext
    BY <2>5, SetterSteps DEF Promise!SpecNext
  <2>6. ASSUME NEW p \in Pit, InsertPitEntry(e, p) \/ DeletePitEntry(e, p)
        PROVE  Promise!SpecNext
    BY <2>6, PutStep, TakeStep DEF Promise!SpecNext
  <2>7. ASSUME NEW m \in Measurements \cup {Null}, SetMeasurementsEntry(e, m)
        PROVE  Promise!SpecNext
    BY <2>7, SetterSteps DEF Promise!SpecNext
  <2> QED
    BY <2>1, <2>2, <2>3, <2>4, <2>5, <2>6, <2>7
<1> QED
  BY <1>1, <1>2

\* The vectors of an entry and the swap in them implement a set of children and
\* a bag of PIT entries: deletePitEntry(p) on e takes out one occurrence of that
\* p from that e and answers TRUE, or changes nothing and answers FALSE when
\* there is none; the same of deleteFibEntry(); insertPitEntry() adds one; and
\* no list of children keeps an erased entry.
THEOREM EntryImplementsSpec == Spec => ImplementsEntrySpec
<1>1. EntryInv /\ [Next]_vars => [Promise!SpecNext]_Promise!specVars
  BY EntrySpecNext
<1> QED
  BY <1>1, EntrySpecInit, EntryInvHolds, PTL
  DEF Spec, ImplementsEntrySpec, Promise!Spec

=============================================================================
