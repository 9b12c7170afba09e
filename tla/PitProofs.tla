----------------------------- MODULE PitProofs -----------------------------
(***************************************************************************)
(* Proofs about the Pending Interest Table, for every set of names, of     *)
(* Interests and of PIT entries.                                           *)
(***************************************************************************)
EXTENDS Pit, DataLemmas, SequenceTheorems, TLAPS

-----------------------------------------------------------------------------
(* Names and their prefixes.                                               *)

LEMMA PrefixFacts ==
  ASSUME NEW n \in Name
  PROVE  /\ Len(n) \in Nat
         /\ GetPrefix(n, Len(n)) = n
         /\ \A k \in 0 .. Len(n) :
              /\ GetPrefix(n, k) \in Name
              /\ Len(GetPrefix(n, k)) = k
              /\ k # 0 => GetPrefix(n, k) # <<>>
              /\ \A j \in 0 .. k : GetPrefix(GetPrefix(n, k), j) = GetPrefix(n, j)
<1>1. n \in Seq(Component) /\ \A k \in 0 .. Len(n) : GetPrefix(n, k) \in Name
  BY NameAssumption DEF Prefixes
<1> QED
  BY <1>1, InitialFacts DEF GetPrefix, Initial

LEMMA PrefixReflexive == \A n \in Name : n \in Prefixes(n) /\ Prefixes(n) \subseteq Name
<1> SUFFICES ASSUME NEW n \in Name PROVE n \in Prefixes(n) /\ Prefixes(n) \subseteq Name
  OBVIOUS
<1>1. Len(n) \in 0 .. Len(n) /\ n = GetPrefix(n, Len(n))
  BY PrefixFacts
<1> QED
  BY <1>1, NameAssumption DEF Prefixes

-----------------------------------------------------------------------------
(* The lists of PIT entries.                                               *)

\* deletePitEntry() takes out one element and doubles none.
LEMMA DeleteFacts ==
  ASSUME NEW list \in Seq(PitEntry), NEW e, Injective(list)
  PROVE  /\ Delete(list, e) \in Seq(PitEntry)
         /\ Elements(Delete(list, e)) = Elements(list) \ {e}
         /\ Injective(Delete(list, e))
<1>1. Len(list) \in Nat /\ DOMAIN list = 1 .. Len(list)
  BY LenProperties
<1>2. \A k \in 1 .. Len(list) : list[k] \in PitEntry
  BY ElementOfSeq
<1>3. CASE \A k \in DOMAIN list : list[k] # e
  BY <1>3 DEF Delete, Elements
<1>4. ASSUME NEW k \in DOMAIN list, list[k] = e
      PROVE  /\ Delete(list, e) \in Seq(PitEntry)
             /\ Elements(Delete(list, e)) = Elements(list) \ {e}
             /\ Injective(Delete(list, e))
  <2> DEFINE d == [j \in 1 .. Len(list) - 1 |->
                     IF list[j] = e THEN list[Len(list)] ELSE list[j]]
  <2>1. Delete(list, e) = d
    BY <1>4 DEF Delete
  <2>2. \A j \in DOMAIN list : list[j] = e <=> j = k
    BY <1>4 DEF Injective
  <2>3. Len(list) - 1 \in Nat /\ Len(list) \in DOMAIN list
    BY <1>1
  <2>4. /\ d \in [1 .. Len(list) - 1 -> PitEntry]
        /\ DOMAIN d = 1 .. Len(list) - 1
        /\ \A j \in 1 .. Len(list) - 1 :
             d[j] = IF j = k THEN list[Len(list)] ELSE list[j]
    BY <1>1, <1>2, <2>2, <2>3
  <2> HIDE DEF d
  <2>5. d \in Seq(PitEntry)
    BY <2>3, <2>4, SeqDef
  <2>6. Injective(d)
    BY <1>1, <2>3, <2>4 DEF Injective
  <2>7. Elements(d) \subseteq Elements(list) \ {e}
    <3> SUFFICES ASSUME NEW j \in 1 .. Len(list) - 1
                 PROVE  d[j] \in Elements(list) \ {e}
      BY <2>4 DEF Elements
    <3> QED
      BY <1>1, <2>2, <2>3, <2>4 DEF Elements
  <2>8. ASSUME NEW j \in DOMAIN list, list[j] # e
        PROVE  list[j] \in Elements(d)
    <3>1. CASE j = Len(list)
      <4>1. k \in DOMAIN d /\ d[k] = list[j]
        BY <1>1, <1>4, <2>2, <2>4, <2>8, <3>1
      <4> QED
        BY <4>1 DEF Elements
    <3>2. CASE j # Len(list)
      <4>1. j \in DOMAIN d /\ d[j] = list[j]
        BY <1>1, <1>4, <2>4, <2>8, <3>2
      <4> QED
        BY <4>1 DEF Elements
    <3> QED
      BY <3>1, <3>2
  <2>9. Elements(list) \ {e} \subseteq Elements(d)
    BY <2>8 DEF Elements
  <2> QED
    BY <2>1, <2>5, <2>6, <2>7, <2>9
<1> QED
  BY <1>3, <1>4

-----------------------------------------------------------------------------
(* The inductive invariant.                                                *)

\* PendingOnce, in terms of the sets of the PIT entries of the names.
Once(lists, interests) ==
  \A n \in Name :
    /\ Injective(lists[n])
    /\ \A e \in Elements(lists[n]) :
         /\ interests[e] # NoInterest
         /\ interests[e].name = n
         /\ \A f \in Elements(lists[n]) : Similar(interests[e], interests[f]) => e = f

LEMMA OncePerName ==
  ASSUME NEW lists, NEW interests
  PROVE  Once(lists, interests) <=>
           \A n \in Name : \A k \in DOMAIN lists[n] :
             LET e == lists[n][k] IN
             /\ interests[e] # NoInterest
             /\ interests[e].name = n
             /\ \A j \in DOMAIN lists[n] \ {k} :
                  ~Similar(interests[e], interests[lists[n][j]])
<1>1. \A x : Similar(x, x)
  BY DEF Similar
<1> QED
  BY <1>1 DEF Once, Injective, Elements

\* A PIT entry has an Interest as long as the table or a client refers to it.
InterestKept == \A e \in PitEntry : interest[e] # NoInterest <=> e \in Pending \cup held

PitInv == TypeOK /\ PendingOnce /\ PathsExact /\ InterestKept

\* What the invariant says of the PIT entries of one name, and of all.
LEMMA InvFacts ==
  ASSUME PitInv
  PROVE  /\ pitEntries \in [Name -> Seq(PitEntry)]
         /\ Once(pitEntries, interest)
         /\ \A n \in Name : /\ pitEntries[n] \in Seq(PitEntry)
                             /\ Injective(pitEntries[n])
                             /\ Elements(pitEntries[n]) = Listed(n)
                             /\ Listed(n) \subseteq Pending
         /\ Pending \subseteq PitEntry
         /\ \A e \in Pending \cup held : interest[e] \in Interest
         /\ \A n \in Name : \A e \in Pending : interest[e].name = n <=> e \in Listed(n)
         /\ \A e, f \in Pending : Similar(interest[e], interest[f]) => e = f
<1>1. /\ pitEntries \in [Name -> Seq(PitEntry)] /\ held \subseteq PitEntry
      /\ interest \in [PitEntry -> Interest \cup {NoInterest}]
  BY DEF PitInv, TypeOK
<1>2. Once(pitEntries, interest)
  BY OncePerName DEF PitInv, PendingOnce
<1>3. ASSUME NEW n \in Name
      PROVE  /\ pitEntries[n] \in Seq(PitEntry)
             /\ Injective(pitEntries[n])
             /\ Elements(pitEntries[n]) = Listed(n)
             /\ Listed(n) \subseteq Pending
             /\ Listed(n) \subseteq PitEntry
  <2>1. pitEntries[n] \in Seq(PitEntry)
    BY <1>1
  <2>2. \A k \in DOMAIN pitEntries[n] : pitEntries[n][k] \in PitEntry
    BY <2>1, LenProperties, ElementOfSeq
  <2> QED
    BY <1>2, <2>1, <2>2 DEF Once, Elements, Listed, Pending
<1>4. Pending \subseteq PitEntry
  BY <1>3 DEF Pending
<1>5. \A e \in Pending \cup held : interest[e] \in Interest
  BY <1>1, <1>4 DEF PitInv, InterestKept
<1>6. \A e \in Pending : \E n \in Name : e \in Listed(n)
  BY DEF Pending
<1>7. \A n \in Name : \A e \in Listed(n) :
        /\ interest[e].name = n
        /\ \A f \in Listed(n) : Similar(interest[e], interest[f]) => e = f
  BY <1>2, <1>3 DEF Once
<1>8. \A n \in Name : \A e \in Pending : interest[e].name = n <=> e \in Listed(n)
  BY <1>6, <1>7
<1>9. \A e, f \in Pending : Similar(interest[e], interest[f]) => e = f
  BY <1>6, <1>7 DEF Similar
<1> QED
  BY <1>1, <1>2, <1>3, <1>4, <1>5, <1>8, <1>9

\* No name is stored and no PIT entry exists.
LEMMA InvInit == Init => PitInv
<1> SUFFICES ASSUME Init PROVE PitInv
  OBVIOUS
<1>1. /\ \A n \in Name : pitEntries[n] = <<>>
      /\ \A e \in PitEntry : interest[e] = NoInterest
      /\ stored = {} /\ fib = {} /\ held = {}
  BY DEF Init
<1>2. TypeOK
  <2>1. <<>> \in Seq(PitEntry)
    BY EmptySeq
  <2> QED
    BY <2>1 DEF Init, TypeOK
<1>3. \A n \in Name : DOMAIN pitEntries[n] = {}
  <2>1. Len(<<>>) = 0 /\ <<>> \in Seq(PitEntry)
    BY EmptySeq
  <2>2. DOMAIN <<>> = 1 .. 0
    BY <2>1, LenProperties
  <2> QED
    BY <1>1, <2>2
<1>4. Pending = {}
  BY <1>3 DEF Pending, Listed
<1>5. InUse = {}
  BY <1>1 DEF InUse
<1> QED
  BY <1>1, <1>2, <1>3, <1>4, <1>5 DEF PitInv, PendingOnce, PathsExact, InterestKept

\* PathsExact survives the creation of the path of x in use.
LEMMA PathsCreated ==
  ASSUME PathsExact, NEW n \in Name,
         InUse' = InUse \cup {n}, stored' = stored \cup Prefixes(n)
  PROVE  PathsExact'
BY Zenon DEF PathsExact

\* PathsExact survives an erasure that starts at n.
LEMMA PathsErased ==
  ASSUME PathsExact, NEW n \in Name,
         InUse \subseteq Name, InUse' \subseteq InUse, InUse \ {n} \subseteq InUse',
         stored' = stored \ Erased(n)
  PROVE  PathsExact'
<1>1. stored = UNION {Prefixes(m) : m \in InUse}
  BY DEF PathsExact
<1>2. Erased(n) = Unused(stored, InUse', n)
  BY DEF Erased, Children, Prefixes, GetPrefix, Unused, Initials, Initial
<1>3. \A m : Prefixes(m) = Initials(m)
  BY DEF Prefixes, GetPrefix, Initials, Initial
<1>4. /\ n \in Seq(Component)
      /\ InUse \in SUBSET Seq(Component) /\ InUse' \in SUBSET InUse
  BY NameAssumption
<1>5. stored = UNION {Initials(m) : m \in InUse}
  BY <1>1, <1>3
<1>6. stored \ Erased(n) = UNION {Initials(m) : m \in InUse'}
  BY <1>2, <1>4, <1>5, ErasureExact
<1>7. stored \ Erased(n) = UNION {Prefixes(m) : m \in InUse'}
  BY <1>3, <1>6
<1> QED
  BY <1>7 DEF PathsExact

LEMMA InUseFacts ==
  ASSUME TypeOK
  PROVE  /\ InUse \subseteq Name /\ stored \subseteq Name
         /\ fib \subseteq Name /\ held \subseteq PitEntry
         /\ interest \in [PitEntry -> Interest \cup {NoInterest}]
         /\ aborted \in BOOLEAN
BY Zenon DEF TypeOK, InUse

LEMMA InsertExistingInv ==
  ASSUME PitInv, NEW x \in Interest, InsertExisting(x)
  PROVE  PitInv'
<1>1. x.name \in Name
  BY InterestAssumption
<1>2. PICK k \in DOMAIN pitEntries[x.name] :
        held' = held \cup {pitEntries[x.name][k]}
  BY DEF InsertExisting, Found
<1>3. /\ stored' = stored \cup Prefixes(x.name)
      /\ UNCHANGED <<pitEntries, fib, interest, aborted>>
  BY DEF InsertExisting
<1>4. pitEntries[x.name][k] \in Pending /\ Pending \subseteq PitEntry
  BY <1>1, <1>2, InvFacts DEF Elements
<1>5. TypeOK'
  <2>1. Prefixes(x.name) \subseteq Name
    BY <1>1, PrefixReflexive
  <2> QED
    BY <1>2, <1>3, <1>4, <2>1 DEF PitInv, TypeOK
<1>6. PendingOnce' /\ Pending' = Pending
  BY <1>3 DEF PitInv, PendingOnce, Pending, Listed
<1>7. PathsExact'
  <2>1. pitEntries[x.name] # <<>>
    <3>1. pitEntries[x.name] \in Seq(PitEntry)
      BY <1>1, InvFacts
    <3>2. DOMAIN <<>> = 1 .. 0
      BY EmptySeq, LenProperties
    <3> QED
      BY <1>2, <3>2
  <2>2. InUse' = InUse \cup {x.name}
    BY <1>1, <1>3, <2>1 DEF InUse
  <2> QED
    BY <1>1, <1>3, <2>2, PathsCreated DEF PitInv
<1>8. InterestKept'
  BY <1>2, <1>3, <1>4, <1>6 DEF PitInv, InterestKept
<1> QED
  BY <1>5, <1>6, <1>7, <1>8 DEF PitInv

LEMMA InsertNewInv ==
  ASSUME PitInv, NEW x \in Interest, NEW e \in PitEntry \ (Pending \cup held),
         InsertNew(x, e)
  PROVE  /\ PitInv'
         /\ Pending' = Pending \cup {e}
<1> DEFINE n == x.name
<1>1. n \in Name
  BY InterestAssumption
<1>2. /\ stored' = stored \cup Prefixes(n)
      /\ pitEntries' = [pitEntries EXCEPT ![n] = Append(@, e)]
      /\ interest' = [interest EXCEPT ![e] = x]
      /\ held' = held \cup {e}
      /\ UNCHANGED <<fib, aborted>>
      /\ \A k \in DOMAIN pitEntries[n] : ~Similar(interest[pitEntries[n][k]], x)
  BY DEF InsertNew, Found
<1>3. /\ pitEntries \in [Name -> Seq(PitEntry)]
      /\ interest \in [PitEntry -> Interest \cup {NoInterest}]
      /\ held \subseteq PitEntry /\ stored \subseteq Name /\ fib \subseteq Name
      /\ Pending \subseteq PitEntry /\ x # NoInterest
  BY InvFacts, InUseFacts, InterestAssumption DEF PitInv
<1>4. /\ interest'[e] = x
      /\ \A f \in PitEntry \ {e} : interest'[f] = interest[f]
  BY <1>2, <1>3
<1>5. /\ Elements(pitEntries[n]) = Listed(n) /\ Injective(pitEntries[n])
      /\ pitEntries[n] \in Seq(PitEntry) /\ e \notin Listed(n)
  BY <1>1, InvFacts
<1>6. /\ Append(pitEntries[n], e) \in Seq(PitEntry) /\ Append(pitEntries[n], e) # <<>>
      /\ Elements(Append(pitEntries[n], e)) = Listed(n) \cup {e}
      /\ Injective(Append(pitEntries[n], e))
  BY <1>5, AppendFacts
<1>7. /\ pitEntries'[n] = Append(pitEntries[n], e)
      /\ \A m \in Name \ {n} : pitEntries'[m] = pitEntries[m]
  BY <1>1, <1>2, <1>3
<1> HIDE DEF n
<1>8. TypeOK'
  <2>1. Prefixes(n) \subseteq Name
    BY <1>1, PrefixReflexive
  <2>2. pitEntries' \in [Name -> Seq(PitEntry)]
    BY <1>2, <1>3, <1>6
  <2>3. aborted' \in BOOLEAN
    BY <1>2, InUseFacts, Zenon DEF PitInv
  <2>4. /\ stored' \subseteq Name /\ fib' \subseteq Name /\ held' \subseteq PitEntry
        /\ interest' \in [PitEntry -> Interest \cup {NoInterest}]
    BY <1>2, <1>3, <2>1
  <2> QED
    BY <2>2, <2>3, <2>4 DEF TypeOK
<1>9. Pending' = Pending \cup {e}
  <2>1. Listed(n)' = Listed(n) \cup {e}
    BY <1>6, <1>7 DEF Listed, Elements
  <2>2. \A m \in Name \ {n} : Listed(m)' = Listed(m)
    BY <1>7 DEF Listed
  <2> QED
    BY <1>1, <2>1, <2>2 DEF Pending
<1>10. PendingOnce'
  <2>1. ASSUME NEW m \in Name
        PROVE  /\ Injective(pitEntries'[m])
               /\ \A f \in Elements(pitEntries'[m]) :
                    /\ interest'[f] # NoInterest
                    /\ interest'[f].name = m
                    /\ \A g \in Elements(pitEntries'[m]) :
                         Similar(interest'[f], interest'[g]) => f = g
    <3>1. /\ Injective(pitEntries[m])
          /\ e \notin Elements(pitEntries[m])
          /\ Elements(pitEntries[m]) \subseteq PitEntry
          /\ \A f \in Elements(pitEntries[m]) :
               /\ interest[f] # NoInterest
               /\ interest[f].name = m
               /\ \A g \in Elements(pitEntries[m]) :
                    Similar(interest[f], interest[g]) => f = g
      BY <1>3, InvFacts DEF Once
    <3>2. CASE m # n
      BY <1>4, <1>7, <3>1, <3>2
    <3>3. CASE m = n
      <4>1. \A f \in Elements(pitEntries[m]) : ~Similar(interest[f], x)
        BY <1>2, <3>3 DEF Elements, n
      <4>2. \A f \in Elements(pitEntries[m]) : ~Similar(x, interest[f])
        BY <4>1 DEF Similar
      <4>3. /\ Injective(pitEntries'[m])
            /\ Elements(pitEntries'[m]) = Elements(pitEntries[m]) \cup {e}
        BY <1>5, <1>6, <1>7, <3>3
      <4> QED
        BY <1>3, <1>4, <3>1, <3>3, <4>1, <4>2, <4>3 DEF n
    <3> QED
      BY <3>2, <3>3
  <2>2. Once(pitEntries', interest')
    BY <2>1 DEF Once
  <2> QED
    BY <2>2, OncePerName DEF PendingOnce
<1>11. PathsExact'
  <2>1. InUse' = InUse \cup {n}
    BY <1>1, <1>2, <1>6, <1>7 DEF InUse
  <2> QED
    BY <1>1, <1>2, <2>1, PathsCreated DEF PitInv
<1>12. InterestKept'
  BY <1>2, <1>3, <1>4, <1>9 DEF PitInv, InterestKept
<1> QED
  BY <1>8, <1>9, <1>10, <1>11, <1>12 DEF PitInv

\* remove() takes the PIT entry out of the table if it is there.
LEMMA RemoveInv ==
  ASSUME PitInv, NEW e \in held, Remove(e)
  PROVE  /\ PitInv'
         /\ Pending' = Pending \ {e}
<1> DEFINE n == interest[e].name
<1>1. n \in Name
  BY InvFacts, InterestAssumption
<1>2. /\ stored' = stored \ Erased(n)
      /\ pitEntries' = [pitEntries EXCEPT ![n] = Delete(@, e)]
      /\ UNCHANGED <<fib, interest, held, aborted>>
  BY DEF Remove
<1>3. /\ pitEntries \in [Name -> Seq(PitEntry)]
      /\ held \subseteq PitEntry /\ stored \subseteq Name /\ fib \subseteq Name
      /\ InUse \subseteq Name
  BY InvFacts, InUseFacts DEF PitInv
<1>4. /\ Delete(pitEntries[n], e) \in Seq(PitEntry)
      /\ Elements(Delete(pitEntries[n], e)) = Listed(n) \ {e}
      /\ Injective(Delete(pitEntries[n], e))
  <2>1. /\ pitEntries[n] \in Seq(PitEntry) /\ Injective(pitEntries[n])
        /\ Elements(pitEntries[n]) = Listed(n)
    BY <1>1, InvFacts
  <2> QED
    BY <2>1, DeleteFacts
<1>5. /\ pitEntries'[n] = Delete(pitEntries[n], e)
      /\ \A m \in Name \ {n} : pitEntries'[m] = pitEntries[m]
  BY <1>1, <1>2, <1>3
<1>6. \A m \in Name : e \in Listed(m) => m = n
  BY InvFacts
<1> HIDE DEF n
<1>7. TypeOK'
  <2>1. pitEntries' \in [Name -> Seq(PitEntry)]
    BY <1>2, <1>3, <1>4
  <2>2. aborted' \in BOOLEAN /\ interest' \in [PitEntry -> Interest \cup {NoInterest}]
    BY <1>2, InUseFacts, Zenon DEF PitInv
  <2>3. stored' \subseteq Name /\ fib' \subseteq Name /\ held' \subseteq PitEntry
    BY <1>2, <1>3
  <2> QED
    BY <2>1, <2>2, <2>3 DEF TypeOK
<1>8. Pending' = Pending \ {e}
  <2> SUFFICES ASSUME NEW m \in Name PROVE Listed(m)' = Listed(m) \ {e}
    BY DEF Pending
  <2>1. CASE m = n
    <3>1. Listed(m)' = Elements(pitEntries'[m])
      BY DEF Listed, Elements
    <3>2. Listed(m) = Listed(n)
      BY <2>1
    <3> QED
      BY <1>4, <1>5, <2>1, <3>1, <3>2
  <2>2. CASE m # n
    BY <1>5, <1>6, <2>2 DEF Listed
  <2> QED
    BY <2>1, <2>2
<1>9. PendingOnce'
  <2>1. \A m \in Name : /\ Injective(pitEntries'[m])
                        /\ Elements(pitEntries'[m]) \subseteq Elements(pitEntries[m])
    BY <1>1, <1>4, <1>5, InvFacts
  <2>2. Once(pitEntries', interest')
    BY <1>2, <2>1, InvFacts DEF Once
  <2> QED
    BY <2>2, OncePerName DEF PendingOnce
<1>10. PathsExact'
  <2>1. pitEntries[n] = <<>> => pitEntries'[n] = <<>>
    <3>1. DOMAIN <<>> = 1 .. 0
      BY EmptySeq, LenProperties
    <3> QED
      BY <1>5, <3>1 DEF Delete
  <2>2. InUse' \subseteq InUse /\ InUse \ {n} \subseteq InUse'
    BY <1>2, <1>5, <2>1 DEF InUse
  <2> QED
    BY <1>1, <1>2, <1>3, <2>2, PathsErased DEF PitInv
<1>11. InterestKept'
  BY <1>2, <1>8 DEF PitInv, InterestKept
<1> QED
  BY <1>7, <1>8, <1>9, <1>10, <1>11 DEF PitInv

LEMMA DropInv ==
  ASSUME PitInv, NEW e \in held, Drop(e)
  PROVE  /\ PitInv'
         /\ interest' = IF e \in Pending THEN interest
                         ELSE [interest EXCEPT ![e] = NoInterest]
<1>1. /\ held' = held \ {e}
      /\ UNCHANGED <<stored, pitEntries, fib, aborted>>
      /\ interest' = [f \in PitEntry |->
                        IF f \in Pending' \cup held' THEN interest[f] ELSE NoInterest]
  BY DEF Drop, Release
<1>2. Pending' = Pending
  BY <1>1 DEF Pending, Listed
<1>3. /\ pitEntries \in [Name -> Seq(PitEntry)]
      /\ held \subseteq PitEntry /\ stored \subseteq Name /\ fib \subseteq Name
      /\ interest \in [PitEntry -> Interest \cup {NoInterest}]
      /\ Pending \subseteq PitEntry
  BY InvFacts, InUseFacts DEF PitInv
<1>4. \A f \in PitEntry : interest'[f] =
         IF f \in Pending \cup (held \ {e}) THEN interest[f] ELSE NoInterest
  BY <1>1, <1>2
<1>5. interest' \in [PitEntry -> Interest \cup {NoInterest}]
  BY <1>1, <1>3
<1>6. TypeOK'
  <2>1. aborted' \in BOOLEAN
    BY <1>1, InUseFacts, Zenon DEF PitInv
  <2> QED
    BY <1>1, <1>3, <1>5, <2>1 DEF TypeOK
<1>7. PendingOnce'
  <2>1. \A m \in Name : \A f \in Elements(pitEntries[m]) : interest'[f] = interest[f]
    <3>1. \A m \in Name : Elements(pitEntries[m]) \subseteq Pending
      BY InvFacts
    <3> QED
      BY <1>3, <1>4, <3>1
  <2>2. Once(pitEntries, interest')
    BY <2>1, InvFacts DEF Once
  <2> QED
    BY <1>1, <2>2, OncePerName DEF PendingOnce
<1>8. PathsExact'
  BY <1>1 DEF PitInv, PathsExact, InUse
<1>9. InterestKept'
  BY <1>1, <1>2, <1>3, <1>4 DEF PitInv, InterestKept
<1>10. \A f \in PitEntry : interest'[f] =
         (IF e \in Pending THEN interest ELSE [interest EXCEPT ![e] = NoInterest])[f]
  BY <1>3, <1>4 DEF PitInv, InterestKept
<1>11. interest' = IF e \in Pending THEN interest
                   ELSE [interest EXCEPT ![e] = NoInterest]
  BY <1>3, <1>5, <1>10
<1> QED
  BY <1>6, <1>7, <1>8, <1>9, <1>11 DEF PitInv

\* The FIB creates and erases paths like the PIT and leaves the PIT alone.
LEMMA FibInv ==
  ASSUME PitInv, NEW n \in Name, SetFibEntry(n) \/ DeleteFibEntry(n)
  PROVE  PitInv' /\ Pending' = Pending
<1>1. UNCHANGED <<pitEntries, interest, held, aborted>>
  BY DEF SetFibEntry, DeleteFibEntry
<1>2. Pending' = Pending
  BY <1>1 DEF Pending, Listed
<1>3. PendingOnce' /\ InterestKept'
  BY <1>1, <1>2 DEF PitInv, PendingOnce, InterestKept
<1>4. InUse \subseteq Name /\ stored \subseteq Name /\ fib \subseteq Name
  BY InUseFacts DEF PitInv
<1>5. Prefixes(n) \subseteq Name
  BY PrefixReflexive
<1>6. stored' \subseteq Name /\ fib' \subseteq Name
  BY <1>4, <1>5 DEF SetFibEntry, DeleteFibEntry
<1>7. TypeOK'
  <2>1. /\ pitEntries \in [Name -> Seq(PitEntry)] /\ held \subseteq PitEntry
        /\ interest \in [PitEntry -> Interest \cup {NoInterest}]
        /\ aborted \in BOOLEAN
    BY Zenon DEF PitInv, TypeOK
  <2> QED
    BY <1>1, <1>6, <2>1, Zenon DEF TypeOK
<1>8. CASE SetFibEntry(n)
  <2>1. InUse' = InUse \cup {n} /\ stored' = stored \cup Prefixes(n)
    BY <1>1, <1>8 DEF SetFibEntry, InUse
  <2> QED
    BY <1>2, <1>3, <1>7, <2>1, PathsCreated DEF PitInv
<1>9. CASE DeleteFibEntry(n)
  <2>1. /\ InUse' \subseteq InUse /\ InUse \ {n} \subseteq InUse'
        /\ stored' = stored \ Erased(n)
    BY <1>1, <1>9 DEF DeleteFibEntry, InUse
  <2> QED
    BY <1>2, <1>3, <1>4, <1>7, <2>1, PathsErased DEF PitInv
<1> QED
  BY <1>8, <1>9

\* A step that only fails an assertion.
LEMMA AbortInv ==
  ASSUME PitInv, UNCHANGED <<stored, pitEntries, fib, interest, held>>,
         aborted' \in BOOLEAN
  PROVE  PitInv' /\ Pending' = Pending
<1>1. Pending' = Pending /\ InUse' = InUse
  BY DEF Pending, Listed, InUse
<1>2. TypeOK'
  BY Zenon DEF PitInv, TypeOK
<1> QED
  BY <1>1, <1>2 DEF PitInv, PendingOnce, PathsExact, InterestKept

LEMMA InvNext == PitInv /\ [Next]_vars => PitInv'
<1> SUFFICES ASSUME PitInv, [Next]_vars PROVE PitInv'
  OBVIOUS
<1>1. ASSUME NEW x \in Interest, InsertExisting(x) PROVE PitInv'
  BY <1>1, InsertExistingInv
<1>2. ASSUME NEW x \in Interest, NEW e \in PitEntry \ (Pending \cup held),
             InsertNew(x, e)
      PROVE  PitInv'
  BY <1>2, InsertNewInv
<1>3. ASSUME NEW e \in held, Remove(e) PROVE PitInv'
  BY <1>3, RemoveInv
<1>4. ASSUME NEW e \in held, RemoveAborts(e) PROVE PitInv'
  BY <1>4, AbortInv DEF RemoveAborts
<1>5. ASSUME NEW e \in held, Drop(e) PROVE PitInv'
  BY <1>5, DropInv
<1>6. ASSUME NEW n \in Name, SetFibEntry(n) PROVE PitInv'
  BY <1>6, FibInv
<1>7. ASSUME NEW n \in fib, DeleteFibEntry(n) PROVE PitInv'
  BY <1>7, FibInv, InUseFacts DEF PitInv
<1>8. CASE UNCHANGED vars
  BY <1>8, AbortInv, InUseFacts DEF vars, PitInv
<1> QED
  BY <1>1, <1>2, <1>3, <1>4, <1>5, <1>6, <1>7, <1>8 DEF Next

\* The inductive invariant of the Pit holds in every state of every run.
THEOREM InvHolds == Spec => []PitInv
BY InvInit, InvNext, PTL DEF Spec

\* Types of all variables, through every call of the Pit and of the FIB.
THEOREM PitTypeCorrect == Spec => []TypeOK
<1>1. PitInv => TypeOK
  BY DEF PitInv
<1> QED
  BY <1>1, InvHolds, PTL

\* No two PIT entries of the table stand for similar Interests, and each is
\* listed once, under the name of its Interest, whatever deletePitEntry() has
\* reordered.
THEOREM SimilarPendingOnce == Spec => []PendingOnce
<1>1. PitInv => PendingOnce
  BY DEF PitInv
<1> QED
  BY <1>1, InvHolds, PTL

\* The tree holds the paths to what is used and nothing else: the erasure of
\* eraseEntryIfEmpty() undoes exactly what lookup() has created.
THEOREM PathsAreExact == Spec => []PathsExact
<1>1. PitInv => PathsExact
  BY DEF PitInv
<1> QED
  BY <1>1, InvHolds, PTL

-----------------------------------------------------------------------------
(* The Pit implements PitSpec.                                             *)

LEMMA AbstractInit == Init => Abstract!SpecInit
<1> SUFFICES ASSUME Init PROVE Abstract!SpecInit
  OBVIOUS
<1>1. PitInv
  BY InvInit
<1>2. \A e \in PitEntry : interest[e] = NoInterest
  BY DEF Init
<1>3. Pending = {}
  BY <1>1, <1>2, InvFacts DEF PitInv, InterestKept
<1> QED
  BY <1>3 DEF Init, Abstract!SpecInit

LEMMA AbstractNext ==
  ASSUME PitInv, [Next]_vars
  PROVE  [Abstract!SpecNext]_(Abstract!specVars)
<1> USE DEF Abstract!specVars
<1>1. ASSUME NEW x \in Interest, InsertExisting(x)
      PROVE  Abstract!SpecInsertExisting(x)
  <2>1. x.name \in Name
    BY InterestAssumption
  <2>2. PICK k \in DOMAIN pitEntries[x.name] :
          /\ Similar(interest[pitEntries[x.name][k]], x)
          /\ held' = held \cup {pitEntries[x.name][k]}
    BY <1>1 DEF InsertExisting, Found
  <2>3. pitEntries[x.name][k] \in Pending
    BY <2>1, <2>2, InvFacts DEF Elements
  <2>4. UNCHANGED <<Pending, interest>>
    BY <1>1 DEF InsertExisting, Pending, Listed
  <2> QED
    BY <2>2, <2>3, <2>4 DEF Abstract!SpecInsertExisting, Abstract!Similar, Similar
<1>2. ASSUME NEW x \in Interest, NEW e \in PitEntry \ (Pending \cup held),
             InsertNew(x, e)
      PROVE  Abstract!SpecInsertNew(x, e)
  <2>1. x.name \in Name
    BY InterestAssumption
  <2>2. Pending' = Pending \cup {e}
    BY <1>2, InsertNewInv
  <2>3. \A f \in Listed(x.name) : ~Similar(interest[f], x)
    BY <1>2 DEF InsertNew, Found, Listed
  <2>4. \A f \in Pending : ~Similar(interest[f], x)
    BY <2>1, <2>3, InvFacts DEF Similar
  <2> QED
    BY <1>2, <2>2, <2>4 DEF InsertNew, Abstract!SpecInsertNew, Abstract!Similar, Similar
<1>3. ASSUME NEW e \in held, Remove(e)
      PROVE  Abstract!SpecRemove(e)
  <2>1. Pending' = Pending \ {e}
    BY <1>3, RemoveInv
  <2> QED
    BY <1>3, <2>1 DEF Remove, Abstract!SpecRemove
<1>4. ASSUME NEW e \in held, Drop(e)
      PROVE  Abstract!SpecDrop(e)
  <2>1. UNCHANGED Pending
    BY <1>4 DEF Drop, Pending, Listed
  <2> QED
    BY <1>4, <2>1, DropInv DEF Drop, Abstract!SpecDrop
<1>5. ASSUME NEW e \in held, RemoveAborts(e)
      PROVE  UNCHANGED <<Pending, interest, held>>
  BY <1>5 DEF RemoveAborts, Pending, Listed
<1>6. ASSUME NEW n \in Name, SetFibEntry(n) \/ DeleteFibEntry(n)
      PROVE  UNCHANGED <<Pending, interest, held>>
  BY <1>6, FibInv DEF SetFibEntry, DeleteFibEntry
<1>7. CASE UNCHANGED vars
  BY <1>7 DEF vars, Pending, Listed
<1>8. fib \subseteq Name
  BY InUseFacts DEF PitInv
<1>9. CASE Next
  BY <1>1, <1>2, <1>3, <1>4, <1>5, <1>6, <1>8, <1>9 DEF Next, Abstract!SpecNext
<1> QED
  BY <1>7, <1>9

\* The Pit is a set of PIT entries, one of those that are similar: insert()
\* adds or returns one, remove() takes out its own argument and nothing else,
\* and the tree, the lists and the FIB do not show.
THEOREM PitImplementsSpec == Spec => ImplementsPitSpec
<1>1. PitInv /\ [Next]_vars => [Abstract!SpecNext]_(Abstract!specVars)
  BY AbstractNext
<1> QED
  BY <1>1, AbstractInit, InvHolds, PTL DEF Spec, ImplementsPitSpec, Abstract!PitSpec

-----------------------------------------------------------------------------
(* findAllDataMatches(): a walk over lists, from the longest match up.     *)

\* One round of the inner loop.
AcceptNext(list, d, k, x) ==
  IF <<interest[list[k]], d>> \in MatchesName THEN Append(x, list[k]) ELSE x

\* What the inner loop has collected after k rounds.
LEMMA AcceptingRounds ==
  ASSUME NEW list \in Seq(PitEntry), NEW d
  PROVE  \E w \in [0 .. Len(list) -> Seq(PitEntry)] :
           /\ w[0] = <<>>
           /\ \A k \in 1 .. Len(list) : w[k] = AcceptNext(list, d, k, w[k - 1])
           /\ Accepting(list, d) = w[Len(list)]
<1> DEFINE N == Len(list)
           how == [k \in 1 .. N |->
                     IF <<interest[list[k]], d>> \in MatchesName THEN "push" ELSE "skip"]
           W(w) == [k \in 0 .. N |->
                      IF k = 0 THEN <<>>
                      ELSE IF <<interest[list[k]], d>> \in MatchesName
                           THEN Append(w[k - 1], list[k]) ELSE w[k - 1]]
           V(w) == [k \in 0 .. N |->
                      IF k = 0 THEN <<>> ELSE Round(how[k], w[k - 1], list[k])]
           all == Collected(0, N, how, list)
           upTo == CHOOSE w : w = W(w)
<1>1. N \in Nat /\ \A k \in 1 .. N : list[k] \in PitEntry
  BY LenProperties, ElementOfSeq
<1>2. Accepting(list, d) = upTo[N]
  BY DEF Accepting
<1> HIDE DEF N
<1>3. \A k \in 1 .. N : \A x : Round(how[k], x, list[k]) = AcceptNext(list, d, k, x)
  BY DEF Round, AcceptNext
<1> HIDE DEF how
<1>4. \A w : W(w) = V(w)
  <2> TAKE w
  <2>1. \A k \in 0 .. N : W(w)[k] = V(w)[k]
    BY <1>1, <1>3 DEF AcceptNext
  <2>2. W(w) = [k \in 0 .. N |-> W(w)[k]] /\ V(w) = [k \in 0 .. N |-> V(w)[k]]
    OBVIOUS
  <2> HIDE DEF W, V
  <2> QED
    BY <2>1, <2>2
<1>5. upTo = all
  <2>1. all = CHOOSE w : w = V(w)
    BY DEF Collected
  <2> HIDE DEF W, V, all
  <2> QED
    BY <1>4, <2>1, Zenon
<1> HIDE DEF W, upTo
<1>6. Yield(0, N, how, list, PitEntry)
  <2>1. \A k \in 1 .. N : \A x \in Seq(PitEntry) : AcceptNext(list, d, k, x) \in Seq(PitEntry)
    BY <1>1, AppendProperties DEF AcceptNext
  <2>2. \A k \in 0 + 1 .. N : k \in 1 .. N
    BY <1>1
  <2>3. \A k \in 0 + 1 .. N : \A x \in Seq(PitEntry) : Round(how[k], x, list[k]) \in Seq(PitEntry)
    BY <1>3, <2>1, <2>2
  <2> QED
    BY <1>1, <2>3 DEF Yield
<1> HIDE DEF all
<1>7. /\ all \in [0 .. N -> Seq(PitEntry)] /\ all[0] = <<>>
      /\ \A k \in 0 + 1 .. N : all[k] = Round(how[k], all[k - 1], list[k])
  BY ONLY <1>6, RoundsCollect DEF all
<1> QED
  BY <1>1, <1>2, <1>3, <1>5, <1>7 DEF N

\* The inner loop collects what accepts the Data, each PIT entry once.
LEMMA AcceptingFacts ==
  ASSUME NEW list \in Seq(PitEntry), NEW d, Injective(list)
  PROVE  /\ Accepting(list, d) \in Seq(PitEntry)
         /\ Elements(Accepting(list, d)) =
              {e \in Elements(list) : <<interest[e], d>> \in MatchesName}
         /\ Injective(Accepting(list, d))
<1> DEFINE N == Len(list)
<1>1. PICK w \in [0 .. N -> Seq(PitEntry)] :
           /\ w[0] = <<>>
           /\ \A k \in 1 .. N : w[k] = AcceptNext(list, d, k, w[k - 1])
           /\ Accepting(list, d) = w[N]
  BY AcceptingRounds
<1>2. N \in Nat /\ DOMAIN list = 1 .. N /\ \A k \in 1 .. N : list[k] \in PitEntry
  BY LenProperties, ElementOfSeq
<1> DEFINE Upto(k) == {list[j] : j \in {j \in 1 .. k : <<interest[list[j]], d>> \in MatchesName}}
           A == {k \in 0 .. N : Elements(w[k]) = Upto(k) /\ Injective(w[k])}
<1> HIDE DEF N
<1>3. 0 \in A
  <2>1. DOMAIN w[0] = {}
    BY <1>1, EmptySeq, LenProperties
  <2>2. Elements(w[0]) = {} /\ Injective(w[0])
    BY <2>1 DEF Elements, Injective
  <2>3. Upto(0) = {}
    OBVIOUS
  <2>4. 0 \in 0 .. N
    BY <1>2
  <2> HIDE DEF Upto
  <2> QED
    BY <2>2, <2>3, <2>4
<1>4. ASSUME NEW k \in 0 + 1 .. N, k - 1 \in A PROVE k \in A
  <2>1. /\ w[k - 1] \in Seq(PitEntry) /\ Elements(w[k - 1]) = Upto(k - 1) /\ Injective(w[k - 1])
        /\ k \in 1 .. N /\ list[k] \in PitEntry /\ w[k] = AcceptNext(list, d, k, w[k - 1])
    <3>1. k \in 1 .. N /\ k - 1 \in 0 .. N
      BY <1>2
    <3>2. w[k - 1] \in Seq(PitEntry) /\ w[k] = AcceptNext(list, d, k, w[k - 1])
      BY <1>1, <3>1
    <3> HIDE DEF Upto
    <3> QED
      BY <1>2, <1>4, <3>1, <3>2
  <2>2. list[k] \notin Upto(k - 1)
    <3>1. \A j \in 1 .. k - 1 : j \in 1 .. N /\ j # k
      BY <1>2, <2>1
    <3>2. \A j \in 1 .. k - 1 : list[j] # list[k]
      BY <1>2, <2>1, <3>1 DEF Injective
    <3> QED
      BY <3>2
  <2>3. \A j \in Int : j \in 1 .. k <=> j \in 1 .. k - 1 \/ j = k
    BY <2>1
  <2>4. k \in 0 .. N
    BY <2>1
  <2>5. CASE <<interest[list[k]], d>> \in MatchesName
    <3>1. w[k] = Append(w[k - 1], list[k])
      BY <2>1, <2>5 DEF AcceptNext
    <3>2. Elements(w[k]) = Upto(k - 1) \cup {list[k]} /\ Injective(w[k])
      <4>1. list[k] \notin Elements(w[k - 1])
        BY <2>1, <2>2
      <4> HIDE DEF Upto
      <4> QED
        BY <2>1, <3>1, <4>1, AppendFacts
    <3>3. Upto(k) = Upto(k - 1) \cup {list[k]}
      <4> DEFINE J(i) == {j \in 1 .. i : <<interest[list[j]], d>> \in MatchesName}
      <4>1. J(k) = J(k - 1) \cup {k}
        BY ONLY <2>1, <2>3, <2>5
      <4>2. \A i : Upto(i) = {list[j] : j \in J(i)}
        OBVIOUS
      <4> HIDE DEF J, Upto
      <4> QED
        BY ONLY <4>1, <4>2
    <3> HIDE DEF Upto
    <3> QED
      BY <2>4, <3>2, <3>3
  <2>6. CASE <<interest[list[k]], d>> \notin MatchesName
    <3>1. w[k] = w[k - 1]
      BY <2>1, <2>6 DEF AcceptNext
    <3>2. Upto(k) = Upto(k - 1)
      BY ONLY <2>3, <2>6
    <3> HIDE DEF Upto
    <3> QED
      BY <2>1, <2>4, <3>1, <3>2
  <2> QED
    BY <2>5, <2>6
<1>5. N \in A
  <2> HIDE DEF A
  <2>1. 0 .. N \subseteq A
    <3>1. 0 \in Int /\ N \in Int
      BY <1>2
    <3>2. \A k \in 0 + 1 .. N : k - 1 \in A => k \in A
      BY <1>4
    <3> QED
      BY ONLY <1>3, <3>1, <3>2, FromTheLeast
  <2> QED
    BY <1>2, <2>1
<1>6. Upto(N) = {e \in Elements(list) : <<interest[e], d>> \in MatchesName}
  BY <1>2 DEF Elements
<1> QED
  BY <1>1, <1>2, <1>5, <1>6

\* The greatest length of a prefix that is stored.
LEMMA LongestPrefixFacts ==
  ASSUME NEW d \in Name
  PROVE  /\ LongestPrefixMatch(d) \in -1 .. Len(d)
         /\ \A k \in 0 .. Len(d) :
              GetPrefix(d, k) \in stored => k <= LongestPrefixMatch(d)
<1> DEFINE lengths == {k \in 0 .. Len(d) : GetPrefix(d, k) \in stored}
<1>1. Len(d) \in Nat
  BY PrefixFacts
<1>2. CASE lengths = {}
  BY <1>1, <1>2 DEF LongestPrefixMatch
<1>3. CASE lengths # {}
  <2>1. \E k \in lengths : \A j \in lengths : j <= k
    BY <1>1, <1>3, GreatestNat
  <2>2. /\ LongestPrefixMatch(d) \in lengths
        /\ \A j \in lengths : j <= LongestPrefixMatch(d)
    BY <1>3, <2>1 DEF LongestPrefixMatch
  <2> QED
    BY <1>1, <2>2
<1> QED
  BY <1>2, <1>3

\* The pending PIT entries that accept the Data and whose name has at most k
\* components.
Reached(d, k) ==
  {e \in Pending : <<interest[e], d>> \in MatchesName /\ Len(interest[e].name) <= k}

\* The entry of the prefix of k components contributes those of that length.
LEMMA MatchingFacts ==
  ASSUME PitInv, NEW d \in Name, NEW k \in 0 .. Len(d)
  PROVE  /\ Matching(GetPrefix(d, k), d) \in Seq(PitEntry)
         /\ Injective(Matching(GetPrefix(d, k), d))
         /\ Elements(Matching(GetPrefix(d, k), d)) \cap Reached(d, k - 1) = {}
         /\ Elements(Matching(GetPrefix(d, k), d)) \cup Reached(d, k - 1) = Reached(d, k)
<1> DEFINE n == GetPrefix(d, k)
<1>1. n \in Name /\ Len(n) = k /\ Len(d) \in Nat
  BY PrefixFacts
<1>2. /\ pitEntries[n] \in Seq(PitEntry) /\ Injective(pitEntries[n])
      /\ Elements(pitEntries[n]) = Listed(n) /\ Listed(n) \subseteq Pending
      /\ \A e \in Pending : interest[e].name = n <=> e \in Listed(n)
  BY <1>1, InvFacts
<1>3. /\ Matching(n, d) \in Seq(PitEntry) /\ Injective(Matching(n, d))
      /\ Elements(Matching(n, d)) = {e \in Listed(n) : <<interest[e], d>> \in MatchesName}
  BY <1>2, AcceptingFacts DEF Matching
<1>4. ASSUME NEW e \in Pending, <<interest[e], d>> \in MatchesName
      PROVE  /\ Len(interest[e].name) \in Nat
             /\ interest[e].name = n <=> Len(interest[e].name) = k
  <2>1. interest[e].name \in Prefixes(d)
    BY <1>4, MatchesNameAssumption
  <2>2. PICK j \in 0 .. Len(d) : interest[e].name = GetPrefix(d, j)
    BY <2>1 DEF Prefixes
  <2>3. Len(interest[e].name) = j
    BY <2>2, PrefixFacts
  <2> QED
    BY <1>1, <2>2, <2>3
<1> HIDE DEF n
<1>5. \A e : e \in Elements(Matching(n, d)) <=>
        /\ e \in Pending /\ <<interest[e], d>> \in MatchesName
        /\ Len(interest[e].name) = k
  BY <1>2, <1>3, <1>4
<1>6. \A e : e \in Reached(d, k) <=> e \in Elements(Matching(n, d)) \/ e \in Reached(d, k - 1)
  BY <1>1, <1>4, <1>5 DEF Reached
<1>7. \A e : ~(e \in Elements(Matching(n, d)) /\ e \in Reached(d, k - 1))
  BY <1>1, <1>5 DEF Reached
<1>8. /\ Elements(Matching(n, d)) \cap Reached(d, k - 1) = {}
      /\ Elements(Matching(n, d)) \cup Reached(d, k - 1) = Reached(d, k)
  BY ONLY <1>6, <1>7
<1> QED
  BY <1>3, <1>8 DEF n

\* What the outer loop has collected after the prefixes of up to k components.
LEMMA WalkRounds ==
  ASSUME PitInv, NEW d \in Name
  PROVE  \E w \in [-1 .. Len(d) -> Seq(PitEntry)] :
           /\ w[-1] = <<>>
           /\ \A k \in 0 .. Len(d) : w[k] = Matching(GetPrefix(d, k), d) \o w[k - 1]
           /\ FindAllDataMatches(d) = w[LongestPrefixMatch(d)]
<1> DEFINE N == Len(d)
           found == [k \in 0 .. N |-> Matching(GetPrefix(d, k), d)]
           how == [k \in 0 .. N |-> "before"]
           W(w) == [k \in -1 .. N |->
                      IF k = -1 THEN <<>> ELSE Matching(GetPrefix(d, k), d) \o w[k - 1]]
           V(w) == [k \in -1 .. N |->
                      IF k = -1 THEN <<>> ELSE Round(how[k], w[k - 1], found[k])]
           from == CHOOSE w : w = W(w)
           all == Collected(-1, N, how, found)
<1>1. N \in Nat
  BY PrefixFacts
<1>2. \A k \in 0 .. N : found[k] = Matching(GetPrefix(d, k), d) /\ found[k] \in Seq(PitEntry)
  BY MatchingFacts
<1>3. FindAllDataMatches(d) = from[LongestPrefixMatch(d)]
  BY DEF FindAllDataMatches
<1> HIDE DEF N, found
<1>4. \A k \in 0 .. N : \A x : Round(how[k], x, found[k]) = found[k] \o x
  BY DEF Round
<1> HIDE DEF how
<1>5. \A w : W(w) = V(w)
  <2> TAKE w
  <2>1. ASSUME NEW k \in -1 .. N PROVE W(w)[k] = V(w)[k]
    <3>1. CASE k = -1
      BY <3>1
    <3>2. CASE k # -1
      <4>1. k \in 0 .. N
        BY <1>1, <3>2
      <4>2. Round(how[k], w[k - 1], found[k]) = Matching(GetPrefix(d, k), d) \o w[k - 1]
        BY <1>2, <1>4, <4>1
      <4> QED
        BY <3>2, <4>2
    <3> QED
      BY <3>1, <3>2
  <2>2. W(w) = [k \in -1 .. N |-> W(w)[k]] /\ V(w) = [k \in -1 .. N |-> V(w)[k]]
    OBVIOUS
  <2> HIDE DEF W, V
  <2> QED
    BY <2>1, <2>2
<1>6. from = all
  <2>1. all = CHOOSE w : w = V(w)
    BY DEF Collected
  <2> HIDE DEF W, V, all
  <2> QED
    BY <1>5, <2>1, Zenon
<1> HIDE DEF W, from
<1>7. Yield(-1, N, how, found, PitEntry)
  <2>1. \A k \in 0 .. N : \A x \in Seq(PitEntry) : found[k] \o x \in Seq(PitEntry)
    BY <1>2, ConcatProperties
  <2>2. \A k \in -1 + 1 .. N : k \in 0 .. N
    BY <1>1
  <2>3. \A k \in -1 + 1 .. N : \A x \in Seq(PitEntry) : Round(how[k], x, found[k]) \in Seq(PitEntry)
    BY <1>4, <2>1, <2>2
  <2> QED
    BY <1>1, <2>3 DEF Yield
<1> HIDE DEF all
<1>8. /\ all \in [-1 .. N -> Seq(PitEntry)] /\ all[-1] = <<>>
      /\ \A k \in -1 + 1 .. N : all[k] = Round(how[k], all[k - 1], found[k])
  BY ONLY <1>7, RoundsCollect DEF all
<1>9. ASSUME NEW k \in 0 .. N PROVE all[k] = Matching(GetPrefix(d, k), d) \o all[k - 1]
  <2>1. k \in -1 + 1 .. N
    BY <1>1
  <2> QED
    BY <1>2, <1>4, <1>8, <2>1
<1> QED
  BY <1>3, <1>6, <1>8, <1>9 DEF N

\* The walk collects what it has reached, each PIT entry once.
LEMMA WalkFacts ==
  ASSUME PitInv, NEW d \in Name
  PROVE  /\ FindAllDataMatches(d) \in Seq(PitEntry)
         /\ Elements(FindAllDataMatches(d)) = Reached(d, LongestPrefixMatch(d))
         /\ Injective(FindAllDataMatches(d))
<1> DEFINE N == Len(d)
           found(k) == Matching(GetPrefix(d, k), d)
<1>1. PICK w \in [-1 .. N -> Seq(PitEntry)] :
           /\ w[-1] = <<>>
           /\ \A k \in 0 .. N : w[k] = found(k) \o w[k - 1]
           /\ FindAllDataMatches(d) = w[LongestPrefixMatch(d)]
  BY WalkRounds
<1>2. N \in Nat
  BY PrefixFacts
<1>3. \A k \in 0 .. N :
        /\ found(k) \in Seq(PitEntry) /\ Injective(found(k))
        /\ Elements(found(k)) \cap Reached(d, k - 1) = {}
        /\ Elements(found(k)) \cup Reached(d, k - 1) = Reached(d, k)
  BY MatchingFacts
<1> DEFINE A == {k \in -1 .. N : Elements(w[k]) = Reached(d, k) /\ Injective(w[k])}
<1> HIDE DEF N, found
<1>4. -1 \in A
  <2>1. DOMAIN w[-1] = {}
    BY <1>1, EmptySeq, LenProperties
  <2>2. Elements(w[-1]) = {} /\ Injective(w[-1])
    BY <2>1 DEF Elements, Injective
  <2>3. ASSUME NEW e \in Reached(d, -1) PROVE FALSE
    <3>1. e \in Pending /\ <<interest[e], d>> \in MatchesName /\ Len(interest[e].name) <= -1
      BY DEF Reached
    <3>2. interest[e].name \in Name
      BY <3>1, InvFacts, InterestAssumption
    <3>3. Len(interest[e].name) \in Nat
      BY <3>2, PrefixFacts
    <3> QED
      BY <3>1, <3>3
  <2> QED
    BY <1>2, <2>2, <2>3
<1>5. ASSUME NEW k \in -1 + 1 .. N, k - 1 \in A PROVE k \in A
  <2>1. k \in 0 .. N /\ k - 1 \in -1 .. N /\ k \in -1 .. N
    BY <1>2
  <2>2. /\ w[k - 1] \in Seq(PitEntry) /\ Injective(w[k - 1])
        /\ Elements(w[k - 1]) = Reached(d, k - 1)
    BY <1>1, <1>5, <2>1
  <2>3. w[k] = found(k) \o w[k - 1]
    BY <1>1, <2>1
  <2>4. Elements(w[k]) = Elements(found(k)) \cup Reached(d, k - 1) /\ Injective(w[k])
    BY <1>3, <2>1, <2>2, <2>3, ConcatFacts
  <2> QED
    BY <1>3, <2>1, <2>4
<1> HIDE DEF A
<1>6. -1 .. N \subseteq A
  <2>1. -1 \in Int /\ N \in Int
    BY <1>2
  <2>2. \A k \in -1 + 1 .. N : k - 1 \in A => k \in A
    BY <1>5
  <2> QED
    BY ONLY <1>4, <2>1, <2>2, FromTheLeast
<1>7. LongestPrefixMatch(d) \in -1 .. N
  BY LongestPrefixFacts DEF N
<1> QED
  BY <1>1, <1>6, <1>7 DEF A

\* Whatever accepts the Data is on the stored path of its name.
LEMMA AllReached ==
  ASSUME PitInv, NEW d \in Name
  PROVE  Reached(d, LongestPrefixMatch(d)) =
           {e \in Pending : <<interest[e], d>> \in MatchesName}
<1> SUFFICES ASSUME NEW e \in Pending, <<interest[e], d>> \in MatchesName
             PROVE  Len(interest[e].name) <= LongestPrefixMatch(d)
  BY DEF Reached
<1> DEFINE n == interest[e].name
<1>1. n \in Prefixes(d)
  BY MatchesNameAssumption
<1>2. PICK j \in 0 .. Len(d) : n = GetPrefix(d, j)
  BY <1>1 DEF Prefixes
<1>3. n \in Name /\ Len(n) = j
  BY <1>2, PrefixFacts
<1>4. e \in Listed(n)
  BY <1>3, InvFacts
<1>5. pitEntries[n] # <<>>
  BY <1>4, EmptySeq, LenProperties DEF Listed
<1>6. n \in stored
  BY <1>3, <1>5, PrefixReflexive DEF PitInv, PathsExact, InUse
<1> QED
  BY <1>2, <1>3, <1>6, LongestPrefixFacts

\* For every name of Data, findAllDataMatches() returns each pending PIT entry
\* whose Interest accepts it exactly once, and nothing else: its walk starts at
\* the longest stored prefix and yet misses none.
THEOREM DataMatchesAreComplete == Spec => []DataMatchesComplete
<1>1. PitInv => DataMatchesComplete
  <2> SUFFICES ASSUME PitInv, NEW d \in Name
               PROVE  /\ Elements(FindAllDataMatches(d)) =
                           {e \in Pending : <<interest[e], d>> \in MatchesName}
                      /\ Injective(FindAllDataMatches(d))
    BY DEF DataMatchesComplete, Elements, Injective
  <2> QED
    BY WalkFacts, AllReached
<1> QED
  BY <1>1, InvHolds, PTL

=============================================================================
