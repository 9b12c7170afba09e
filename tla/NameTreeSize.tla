---------------------------- MODULE NameTreeSize ----------------------------
(***************************************************************************)
(* The arithmetic of NameTree: the width of its integers, the size that    *)
(* the client asked for, and the memory for the array of buckets.          *)
(*                                                                         *)
(* An entry is its hash; entries of one hash share a bucket in tables of   *)
(* all sizes, and count as one.  The ranges are parameters so that TLC     *)
(* reaches their limits: the code has SizeRange = 2^64, IntMax = 2^31 - 1, *)
(* and a double holds every size that fits the memory.                     *)
(***************************************************************************)
EXTENDS Integers, FiniteSets

CONSTANTS
  SizeRange,   \* the number of values of size_t
  IntMax,      \* the largest int
  Memory,      \* the most buckets that new can allocate
  HashValues,  \* the hashes of the names
  NBuckets,    \* sizes that clients pass to the constructor
  ResizeTo     \* sizes that clients pass to resize()

\* The number of values of int, and of the hash.
IntRange == 2 * (IntMax + 1)

ASSUME RangeAssumption ==
  /\ IntMax \in Nat /\ Memory \in Nat /\ SizeRange \in Nat
  /\ 2 * Memory + IntMax < SizeRange
  /\ HashValues \subseteq 0 .. IntRange - 1
  /\ NBuckets \subseteq 0 .. Memory
  /\ ResizeTo \subseteq 0 .. SizeRange - 1

VARIABLES
  m_nBuckets, m_resizeThreshold,
  stored,    \* the hashes of the entries
  pc,        \* "idle", "enumerate", "enumerated" or "undefined"
  at, seen,  \* the bucket that a full enumeration has come to, and all it visited
  \* history: a client passed 0, called resize(), caught a bad_alloc
  zero, resized, thrown

sizeVars == <<m_nBuckets, m_resizeThreshold, stored, pc, at, seen, zero, resized, thrown>>

\* int to size_t extends the sign; size_t to int keeps the low bits.
ToSize(k) == k % SizeRange
ToInt(k) == IF k % IntRange <= IntMax THEN k % IntRange ELSE (k % IntRange) - IntRange

SizeInit ==
  /\ m_nBuckets \in NBuckets
  /\ m_resizeThreshold = m_nBuckets \div 2
  /\ stored = {}
  /\ pc = "idle" /\ at = 0 /\ seen = {}
  /\ zero = (m_nBuckets = 0) /\ resized = FALSE /\ thrown = FALSE

DoubledInt(n) == (2 * n) % IntRange
Doubled(n) == (2 * n) % SizeRange

\* (int)(m_loadFactor * (double)m_nBuckets): any int if it does not fit.
NewThresholds(n) ==
  IF n \div 2 <= IntMax THEN {n \div 2} ELSE {ToSize(k) : k \in -IntMax - 1 .. IntMax}

\* resize(n) with the entries of S: new may fail, and h % n is undefined for 0.
Rehash(n, S) ==
  \/ /\ n > Memory
     /\ thrown' = TRUE
     /\ UNCHANGED <<m_nBuckets, m_resizeThreshold, pc>>
  \/ /\ n <= Memory /\ n = 0 /\ S # {}
     /\ pc' = "undefined"
     /\ UNCHANGED <<m_nBuckets, m_resizeThreshold, thrown>>
  \/ /\ n <= Memory /\ (n # 0 \/ S = {})
     /\ m_nBuckets' = n
     /\ m_resizeThreshold' \in NewThresholds(n)
     /\ UNCHANGED <<pc, thrown>>

OverloadedBefore == Cardinality(stored) > m_resizeThreshold
Overloaded == Cardinality(stored') > m_resizeThreshold

\* One prefix of a lookup(): found or inserted, and the table grows.
Insert(h) ==
  /\ pc = "idle" /\ m_nBuckets # 0
  /\ stored' = stored \cup {h}
  /\ IF Overloaded THEN Rehash(Doubled(m_nBuckets), stored')
     ELSE UNCHANGED <<m_nBuckets, m_resizeThreshold, pc, thrown>>
  /\ UNCHANGED <<at, seen, zero, resized>>

\* hashValue % m_nBuckets
InsertDivides ==
  /\ pc = "idle" /\ m_nBuckets = 0
  /\ pc' = "undefined"
  /\ UNCHANGED <<m_nBuckets, m_resizeThreshold, stored, at, seen, zero, resized, thrown>>

Erase(h) ==
  /\ pc = "idle"
  /\ stored' = stored \ {h}
  /\ UNCHANGED <<m_nBuckets, m_resizeThreshold, pc, at, seen, zero, resized, thrown>>

Resize(n) ==
  /\ pc = "idle"
  /\ Rehash(n, stored)
  /\ zero' = (zero \/ n = 0) /\ resized' = TRUE
  /\ UNCHANGED <<stored, at, seen>>

-----------------------------------------------------------------------------
(* A full enumeration, bucket by bucket.                                   *)

Occupied == {h % m_nBuckets : h \in stored}

First(S) == {b \in S : \A c \in S : b <= c}

FullEnumerate ==
  /\ pc = "idle"
  /\ pc' = "enumerate"
  /\ at' \in First(Occupied) /\ seen' = {at'}
  /\ UNCHANGED <<m_nBuckets, m_resizeThreshold, stored, zero, resized, thrown>>

StartSame == ToInt(at)
StartNextButOne == ToInt(at + 2)
\* int newLocation = m_hash % m_nBuckets + 1
Start == ToInt(at + 1)

\* The occupied buckets from newLocation on; a negative one is a large size_t.
Ahead == {b \in Occupied : ToSize(Start) <= b}

\* newLocation++ is undefined at the largest int: it goes on or ends the loop.
NextBucket ==
  /\ pc = "enumerate"
  /\ at' \in First(Ahead) /\ seen' = seen \cup {at'}
  /\ UNCHANGED <<m_nBuckets, m_resizeThreshold, stored, pc, zero, resized, thrown>>

EnumerationEnds ==
  /\ pc = "enumerate"
  /\ \A b \in Ahead : b > IntMax
  /\ pc' = "enumerated"
  /\ UNCHANGED <<m_nBuckets, m_resizeThreshold, stored, at, seen, zero, resized, thrown>>

\* The iterator goes out of scope.
Discard ==
  /\ pc = "enumerated"
  /\ pc' = "idle" /\ at' = 0 /\ seen' = {}
  /\ UNCHANGED <<m_nBuckets, m_resizeThreshold, stored, zero, resized, thrown>>

SizeNext ==
  \/ \E h \in HashValues : Insert(h)
  \/ \E h \in stored : Erase(h)
  \/ \E n \in ResizeTo : Resize(n)
  \/ InsertDivides
  \/ FullEnumerate \/ NextBucket \/ EnumerationEnds \/ Discard

SizeSpec == SizeInit /\ [][SizeNext]_sizeVars

\* The loop of the client goes on until the iterator is end().
FairSizeSpec == SizeSpec /\ WF_sizeVars(NextBucket \/ EnumerationEnds)

-----------------------------------------------------------------------------
(* Properties.                                                             *)

HalfFull == 2 * Cardinality(stored) <= m_nBuckets

\* A table that only lookup() grows is at most half full while new does not fail.
GrowsAtThreshold == ~resized /\ ~thrown /\ pc # "undefined" => HalfFull

\* That holds as long as half its size fits an int; how full it is when the next
\* size does not fit depends on what the conversion gives.
GrowsWhileInt == m_nBuckets \div 2 <= IntMax => GrowsAtThreshold

\* No size becomes 0 by itself: the code divides by zero only if a client asked
\* for a table of size 0, whatever the growth, the failures and the overflows.
ZeroOnlyIfAsked == pc = "undefined" => zero

\* A full enumeration visits every occupied bucket of the table.
EnumeratesAll == pc = "enumerated" => seen = Occupied

\* That holds while every bucket has an int for its number.
EnumeratesWhileInt == m_nBuckets - 1 <= IntMax => EnumeratesAll

\* A full enumeration ends, unless the table has a bucket of number 2^32 - 1, after
\* which newLocation is 0 again.
EnumerationReturns ==
  (pc = "enumerate" /\ m_nBuckets < IntRange) ~> (pc = "enumerated")

=============================================================================
