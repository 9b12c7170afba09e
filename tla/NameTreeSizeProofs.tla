-------------------------- MODULE NameTreeSizeProofs --------------------------
(***************************************************************************)
(* The arithmetic of NameTree at any width of its integers, in particular  *)
(* at those of the code.                                                   *)
(***************************************************************************)
EXTENDS NameTreeSize, FiniteSetTheorems, TLAPS

\* What every step keeps of the sizes.
SizeInv ==
  /\ m_nBuckets \in 0 .. Memory
  /\ m_resizeThreshold \in Nat
  /\ stored \subseteq HashValues /\ IsFiniteSet(stored)
  /\ pc \in {"idle", "enumerate", "enumerated", "undefined"}
  /\ zero \in BOOLEAN /\ resized \in BOOLEAN /\ thrown \in BOOLEAN
  /\ m_nBuckets = 0 => stored = {} /\ zero
  /\ pc = "undefined" => zero

\* Sizes never overflow: what is doubled had been allocated.
LEMMA DoubledExact == ASSUME NEW n \in 0 .. Memory PROVE Doubled(n) = 2 * n
  BY RangeAssumption DEF Doubled

\* No int is too small to be a size, and none that fits changes its value.
LEMMA ThresholdsAreSizes ==
  ASSUME NEW n \in 0 .. Memory, NEW t \in NewThresholds(n)
  PROVE  t \in Nat /\ (n \div 2 <= IntMax => t = n \div 2)
  BY RangeAssumption DEF NewThresholds, ToSize

LEMMA RehashSizes ==
  ASSUME SizeInv, NEW n \in Nat, NEW S, Rehash(n, S)
  PROVE  /\ m_nBuckets' \in 0 .. Memory
         /\ m_resizeThreshold' \in Nat
         /\ thrown' \in BOOLEAN
         /\ pc' \in {pc, "undefined"}
         /\ pc' # pc => n = 0
         /\ m_nBuckets' = 0 => m_nBuckets = 0 \/ (n = 0 /\ S = {})
  <1>1. CASE n > Memory /\ UNCHANGED <<m_nBuckets, m_resizeThreshold, pc>> /\ thrown' = TRUE
    BY <1>1 DEF SizeInv
  <1>2. CASE n = 0 /\ pc' = "undefined" /\ UNCHANGED <<m_nBuckets, m_resizeThreshold, thrown>>
    BY <1>2 DEF SizeInv
  <1>3. CASE /\ n <= Memory /\ (n # 0 \/ S = {})
             /\ m_nBuckets' = n /\ m_resizeThreshold' \in NewThresholds(n)
             /\ UNCHANGED <<pc, thrown>>
    BY <1>3, ThresholdsAreSizes, RangeAssumption DEF SizeInv
  <1> QED BY <1>1, <1>2, <1>3 DEF Rehash

LEMMA SizeInvHolds == SizeSpec => []SizeInv
  <1>1. SizeInit => SizeInv
    <2> SUFFICES ASSUME SizeInit PROVE SizeInv
      OBVIOUS
    <2>1. zero \in BOOLEAN /\ (m_nBuckets = 0 => zero)
      BY Zenon DEF SizeInit
    <2>2. m_nBuckets \in NBuckets /\ m_resizeThreshold = m_nBuckets \div 2
      BY Zenon DEF SizeInit
    <2>3. stored = {} /\ pc = "idle" /\ resized = FALSE /\ thrown = FALSE
      BY Zenon DEF SizeInit
    <2>4. m_nBuckets \in 0 .. Memory /\ m_resizeThreshold \in Nat
      BY <2>2, RangeAssumption
    <2> QED BY <2>1, <2>3, <2>4, FS_EmptySet DEF SizeInv
  <1>2. SizeInv /\ [SizeNext]_sizeVars => SizeInv'
    <2> SUFFICES ASSUME SizeInv, [SizeNext]_sizeVars PROVE SizeInv'
      OBVIOUS
    <2>1. ASSUME NEW h \in HashValues, Insert(h) PROVE SizeInv'
      <3>1. stored' \subseteq HashValues /\ IsFiniteSet(stored') /\ stored' # {}
        BY <2>1, FS_AddElement DEF SizeInv, Insert
      <3>2. CASE UNCHANGED <<m_nBuckets, m_resizeThreshold, pc, thrown>>
        BY <2>1, <3>1, <3>2 DEF SizeInv, Insert
      <3>3. CASE Rehash(Doubled(m_nBuckets), stored')
        <4>1. m_nBuckets \in 1 .. Memory
          BY <2>1, RangeAssumption DEF SizeInv, Insert
        <4>2. Doubled(m_nBuckets) = 2 * m_nBuckets /\ 2 * m_nBuckets \in Nat \ {0}
          BY <4>1, DoubledExact, RangeAssumption
        <4> QED BY <2>1, <3>1, <3>3, <4>1, <4>2, RehashSizes DEF SizeInv, Insert
      <3> QED BY <2>1, <3>2, <3>3 DEF Insert
    <2>2. ASSUME NEW h \in stored, Erase(h) PROVE SizeInv'
      BY <2>2, FS_RemoveElement DEF SizeInv, Erase
    <2>3. ASSUME NEW n \in ResizeTo, Resize(n) PROVE SizeInv'
      <3>1. n \in Nat
        BY RangeAssumption
      <3> QED BY <2>3, <3>1, RehashSizes DEF SizeInv, Resize
    <2>4. CASE InsertDivides
      BY <2>4 DEF SizeInv, InsertDivides
    <2>5. CASE FullEnumerate \/ NextBucket \/ EnumerationEnds \/ Discard
      BY <2>5 DEF SizeInv, FullEnumerate, NextBucket, EnumerationEnds, Discard
    <2>6. CASE UNCHANGED sizeVars
      BY <2>6 DEF SizeInv, sizeVars
    <2> QED BY <2>1, <2>2, <2>3, <2>4, <2>5, <2>6 DEF SizeNext
  <1> QED BY <1>1, <1>2, PTL DEF SizeSpec

\* The table divides by zero only when a client asked for size 0: resize(2 * n)
\* neither overflows nor truncates, whatever fails and however wide an int is.
THEOREM ZeroSizeOnlyIfAsked == SizeSpec => []ZeroOnlyIfAsked
  <1>1. SizeInv => ZeroOnlyIfAsked
    BY DEF SizeInv, ZeroOnlyIfAsked
  <1> QED BY <1>1, SizeInvHolds, PTL

-----------------------------------------------------------------------------
(* Growth.                                                                 *)

\* The threshold is half the size, and the load below it.
GrowInv ==
  ~resized /\ ~thrown /\ pc # "undefined" /\ m_nBuckets \div 2 <= IntMax =>
    m_resizeThreshold = m_nBuckets \div 2 /\ HalfFull

LEMMA GrowInvHolds == SizeSpec => []GrowInv
  <1>1. SizeInit => GrowInv
    BY FS_EmptySet, RangeAssumption DEF SizeInit, GrowInv, HalfFull
  <1>2. SizeInv /\ GrowInv /\ [SizeNext]_sizeVars => GrowInv'
    <2> SUFFICES ASSUME SizeInv, GrowInv, [SizeNext]_sizeVars,
                        ~resized', ~thrown', pc' # "undefined",
                        m_nBuckets' \div 2 <= IntMax
                 PROVE  (m_resizeThreshold = m_nBuckets \div 2 /\ HalfFull)'
      BY DEF GrowInv
    <2>0. m_nBuckets \in Nat /\ Cardinality(stored) \in Nat
      BY FS_CardinalityType, RangeAssumption DEF SizeInv
    <2>1. ASSUME NEW h \in HashValues, Insert(h)
          PROVE  (m_resizeThreshold = m_nBuckets \div 2 /\ HalfFull)'
      <3>1. /\ Cardinality(stored') \in Nat
            /\ Cardinality(stored') <= Cardinality(stored) + 1
        <4>1. IsFiniteSet(stored) /\ stored' = stored \cup {h}
          BY <2>1 DEF SizeInv, Insert
        <4>2. Cardinality(stored \cup {h}) = IF h \in stored THEN Cardinality(stored)
                                             ELSE Cardinality(stored) + 1
          BY <4>1, FS_AddElement
        <4> QED BY <2>0, <4>1, <4>2
      <3>2. m_nBuckets \in 1 .. Memory /\ ~resized /\ pc = "idle"
        BY <2>1, <2>0, RangeAssumption DEF SizeInv, Insert
      <3>3. CASE ~Overloaded
        BY <2>1, <3>1, <3>2, <3>3, RangeAssumption
        DEF SizeInv, GrowInv, Insert, Overloaded, HalfFull
      <3>4. CASE Overloaded
        <4>1. Rehash(2 * m_nBuckets, stored') /\ 2 * m_nBuckets \in Nat
          BY <2>1, <3>2, <3>4, DoubledExact, RangeAssumption DEF Insert
        <4>2. /\ 2 * m_nBuckets <= Memory
              /\ m_nBuckets' = 2 * m_nBuckets
              /\ m_resizeThreshold' \in NewThresholds(2 * m_nBuckets)
              /\ ~thrown
          BY <4>1 DEF Rehash
        <4>3. m_nBuckets \div 2 <= IntMax /\ (2 * m_nBuckets) \div 2 = m_nBuckets
          BY <3>2, <4>2, RangeAssumption
        <4>4. Cardinality(stored) <= m_nBuckets \div 2
          BY <2>0, <3>2, <4>2, <4>3 DEF GrowInv, HalfFull
        <4>5. m_resizeThreshold' = m_nBuckets' \div 2
          BY <3>2, <4>2, <4>3, ThresholdsAreSizes, RangeAssumption
        <4>6. 2 * Cardinality(stored') <= m_nBuckets'
          BY <2>0, <3>1, <3>2, <4>2, <4>4, RangeAssumption
        <4> QED BY <4>5, <4>6 DEF HalfFull
      <3> QED BY <3>3, <3>4
    <2>2. ASSUME NEW h \in stored, Erase(h)
          PROVE  (m_resizeThreshold = m_nBuckets \div 2 /\ HalfFull)'
      <3>1. Cardinality(stored') <= Cardinality(stored) /\ Cardinality(stored') \in Nat
        <4>1. IsFiniteSet(stored) /\ stored' = stored \ {h}
          BY <2>2 DEF SizeInv, Erase
        <4>2. Cardinality(stored \ {h}) = Cardinality(stored) - 1
          BY <4>1, FS_RemoveElement
        <4>3. Cardinality(stored \ {h}) \in Nat
          BY <4>1, FS_RemoveElement, FS_CardinalityType
        <4> QED BY <2>0, <4>1, <4>2, <4>3
      <3> QED BY <2>2, <2>0, <3>1 DEF Erase, GrowInv, HalfFull
    <2>3. ASSUME NEW n \in ResizeTo, Resize(n)
          PROVE  (m_resizeThreshold = m_nBuckets \div 2 /\ HalfFull)'
      BY <2>3 DEF Resize
    <2>4. CASE \/ InsertDivides \/ FullEnumerate \/ NextBucket \/ EnumerationEnds
               \/ Discard \/ UNCHANGED sizeVars
      BY <2>4 DEF InsertDivides, FullEnumerate, NextBucket, EnumerationEnds, Discard,
                  sizeVars, GrowInv, HalfFull
    <2> QED BY <2>1, <2>2, <2>3, <2>4 DEF SizeNext
  <1> QED BY <1>1, <1>2, SizeInvHolds, PTL DEF SizeSpec

\* lookup() alone keeps the table at most half full as long as half its size is an
\* int, for every width of an int and every size that the memory allows.
THEOREM GrowsAtThresholdWhileInt == SizeSpec => []GrowsWhileInt
  <1>1. GrowInv => GrowsWhileInt
    BY DEF GrowInv, GrowsWhileInt, GrowsAtThreshold
  <1> QED BY <1>1, GrowInvHolds, PTL

-----------------------------------------------------------------------------
(* Enumeration.                                                            *)

\* The enumeration has visited the occupied buckets up to its own.
EnumerationInv ==
  pc \in {"enumerate", "enumerated"} /\ m_nBuckets - 1 <= IntMax =>
    /\ at \in Occupied
    /\ seen = {b \in Occupied : b <= at}
    /\ pc = "enumerated" => seen = Occupied

LEMMA OccupiedBuckets == SizeInv => Occupied \subseteq 0 .. m_nBuckets - 1
  <1> SUFFICES ASSUME SizeInv, NEW h \in stored PROVE h % m_nBuckets \in 0 .. m_nBuckets - 1
    BY DEF Occupied
  <1>1. m_nBuckets \in Nat \ {0} /\ h \in Nat
    BY RangeAssumption DEF SizeInv, IntRange
  <1> QED BY <1>1

\* After the last bucket that an int can number, newLocation is negative and no
\* bucket is ahead; before it, newLocation is the next number.
LEMMA AheadExact ==
  ASSUME SizeInv, at \in Occupied, m_nBuckets - 1 <= IntMax
  PROVE  Ahead = {b \in Occupied : at < b}
  <1>1. at \in 0 .. m_nBuckets - 1 /\ m_nBuckets \in 0 .. Memory
    BY OccupiedBuckets DEF SizeInv
  <1>2. CASE at + 1 <= IntMax
    <2>1. (at + 1) % IntRange = at + 1
      BY <1>1, <1>2, RangeAssumption DEF IntRange
    <2>2. (at + 1) % SizeRange = at + 1
      BY <1>1, <1>2, RangeAssumption
    <2>3. ToSize(Start) = at + 1
      BY <1>2, <2>1, <2>2 DEF ToSize, Start, ToInt
    <2>4. \A b \in Occupied : ToSize(Start) <= b <=> at < b
      BY <1>1, <2>3, OccupiedBuckets
    <2> QED BY <2>4 DEF Ahead
  <1>3. CASE at = IntMax
    <2>1. (at + 1) % IntRange = at + 1
      BY <1>1, <1>3, RangeAssumption DEF IntRange
    <2>2. Start = -IntMax - 1
      BY <1>3, <2>1, RangeAssumption DEF Start, ToInt, IntRange
    <2>3. ToSize(Start) = SizeRange - IntMax - 1
      BY <2>2, RangeAssumption DEF ToSize
    <2> QED BY <1>1, <1>3, <2>3, OccupiedBuckets, RangeAssumption DEF Ahead
  <1> QED BY <1>1, <1>2, <1>3, RangeAssumption

LEMMA EnumerationInvHolds == SizeSpec => []EnumerationInv
  <1>1. SizeInit => EnumerationInv
    BY DEF SizeInit, EnumerationInv
  <1>2. SizeInv /\ EnumerationInv /\ [SizeNext]_sizeVars => EnumerationInv'
    <2> SUFFICES ASSUME SizeInv, EnumerationInv, [SizeNext]_sizeVars
                 PROVE  EnumerationInv'
      OBVIOUS
    <2>1. CASE FullEnumerate
      <3>1. Occupied' = Occupied /\ pc' = "enumerate"
        BY <2>1 DEF FullEnumerate, Occupied
      <3>2. at' \in Occupied /\ seen' = {at'} /\ \A c \in Occupied : at' <= c
        BY <2>1 DEF FullEnumerate, First
      <3>3. {b \in Occupied : b <= at'} = {at'}
        BY <3>2, OccupiedBuckets
      <3> QED BY <3>1, <3>2, <3>3 DEF EnumerationInv
    <2>2. CASE NextBucket
      <3>1. Occupied' = Occupied /\ pc' = "enumerate" /\ m_nBuckets' = m_nBuckets
        BY <2>2 DEF NextBucket, Occupied
      <3> SUFFICES ASSUME m_nBuckets - 1 <= IntMax
                   PROVE  at' \in Occupied /\ seen' = {b \in Occupied : b <= at'}
        BY <3>1 DEF EnumerationInv
      <3>2. at \in Occupied /\ seen = {b \in Occupied : b <= at}
        BY <2>2 DEF NextBucket, EnumerationInv
      <3>3. Ahead = {b \in Occupied : at < b}
        BY <3>2, AheadExact
      <3>4. at' \in Ahead /\ (\A c \in Ahead : at' <= c) /\ seen' = seen \cup {at'}
        BY <2>2 DEF NextBucket, First
      <3> QED BY <3>2, <3>3, <3>4, OccupiedBuckets
    <2>3. CASE EnumerationEnds
      <3>1. Occupied' = Occupied /\ UNCHANGED <<at, seen, m_nBuckets>> /\ pc = "enumerate"
        BY <2>3 DEF EnumerationEnds, Occupied
      <3> SUFFICES ASSUME m_nBuckets - 1 <= IntMax
                   PROVE  /\ at \in Occupied /\ seen = {b \in Occupied : b <= at}
                          /\ seen = Occupied
        BY <3>1 DEF EnumerationInv
      <3>2. at \in Occupied /\ seen = {b \in Occupied : b <= at}
        BY <3>1 DEF EnumerationInv
      <3>3. \A b \in Occupied : at < b => b > IntMax
        BY <2>3, <3>2, AheadExact DEF EnumerationEnds
      <3> QED BY <3>2, <3>3, OccupiedBuckets, RangeAssumption DEF SizeInv
    <2>4. ASSUME pc = "idle", pc' \in {"idle", "undefined"} PROVE EnumerationInv'
      BY <2>4 DEF EnumerationInv
    <2>5. CASE Discard
      BY <2>5 DEF Discard, EnumerationInv
    <2>6. CASE UNCHANGED sizeVars
      BY <2>6 DEF sizeVars, EnumerationInv, Occupied
    <2>7. ASSUME NEW h, Insert(h) \/ Erase(h) \/ Resize(h) \/ InsertDivides
          PROVE  pc = "idle" /\ pc' \in {"idle", "undefined"}
      BY <2>7 DEF Insert, Erase, Resize, Rehash, InsertDivides
    <2> QED BY <2>1, <2>2, <2>3, <2>4, <2>5, <2>6, <2>7 DEF SizeNext
  <1> QED BY <1>1, <1>2, SizeInvHolds, PTL DEF SizeSpec

\* A full enumeration visits every occupied bucket as long as every bucket has an
\* int for its number, for every width of an int.
THEOREM EnumeratesAllWhileInt == SizeSpec => []EnumeratesWhileInt
  <1>1. EnumerationInv => EnumeratesWhileInt
    BY DEF EnumerationInv, EnumeratesWhileInt, EnumeratesAll
  <1> QED BY <1>1, EnumerationInvHolds, PTL

=============================================================================
