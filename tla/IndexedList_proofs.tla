-------------------------- MODULE IndexedList_proofs --------------------------
(* Lemmas about collections keyed by an index. *)
EXTENDS IndexedList, TLAPS

\* The highest index of a gapless list is one below its length.
LEMMA NextIndexOfRange ==
  ASSUME NEW f, NEW n \in Nat, DOMAIN f = 0 .. n - 1
  PROVE  NextIndex(f) = n
<1>1. CASE n = 0
  BY <1>1 DEF NextIndex
<1>2. CASE n # 0
  <2>1. IsHighest(f, n - 1)
    BY <1>2 DEF IsHighest
  <2>2. ASSUME NEW i \in DOMAIN f, IsHighest(f, i)
        PROVE  i = n - 1
    <3>1. n - 1 \in DOMAIN f /\ i \in 0 .. n - 1
      BY <1>2
    <3>2. n - 1 <= i
      BY <3>1, <2>2 DEF IsHighest
    <3>3. QED
      BY <3>1, <3>2
  <2> DEFINE h == CHOOSE i \in DOMAIN f : IsHighest(f, i)
  <2>3. h = n - 1
    BY <2>1, <2>2 DEF IsHighest
  <2>4. DOMAIN f # {}
    BY <1>2
  <2>5. NextIndex(f) = 1 + h
    BY <2>4 DEF NextIndex
  <2> HIDE DEF h
  <2>6. QED
    BY <2>3, <2>5
<1>3. QED
  BY <1>1, <1>2

\* What NextIndex means for a gapless list.
LEMMA ContiguousFacts ==
  ASSUME NEW f, Contiguous(f), DOMAIN f \subseteq Nat
  PROVE  /\ NextIndex(f) \in Nat
         /\ DOMAIN f = 0 .. NextIndex(f) - 1
<1>1. PICK n \in {0} \cup {i + 1 : i \in DOMAIN f} : DOMAIN f = 0 .. n - 1
  BY DEF Contiguous
<1>2. n \in Nat
  BY <1>1
<1>3. QED
  BY <1>1, <1>2, NextIndexOfRange

\* A function on an initial segment of the indices is a gapless list.
LEMMA RangeIsContiguous ==
  ASSUME NEW f, NEW n \in Nat, DOMAIN f = 0 .. n - 1
  PROVE  Contiguous(f)
<1>1. CASE n = 0
  BY <1>1 DEF Contiguous
<1>2. CASE n # 0
  <2>1. n - 1 \in DOMAIN f /\ n = (n - 1) + 1
    BY <1>2
  <2>2. n \in {i + 1 : i \in DOMAIN f}
    BY <2>1
  <2>3. QED
    BY <2>2 DEF Contiguous
<1>3. QED
  BY <1>1, <1>2

\* The empty list is gapless, has no entries, and its next index is 0.
LEMMA EmptyFacts ==
  /\ DOMAIN Empty = {} /\ Contiguous(Empty) /\ NextIndex(Empty) = 0
  /\ Entries(Empty) = {}
<1>1. DOMAIN Empty = 0 .. 0 - 1
  BY DEF Empty
<1>2. QED
  BY <1>1, NextIndexOfRange, RangeIsContiguous DEF Entries

\* Inserting keeps every stored value, and stores the new one at a free index.
LEMMA PutFacts ==
  ASSUME NEW f, NEW i, NEW v
  PROVE  /\ DOMAIN Put(f, i, v) = DOMAIN f \cup {i}
         /\ \A k \in DOMAIN f : Put(f, i, v)[k] = f[k]
         /\ i \notin DOMAIN f => Put(f, i, v)[i] = v
         /\ i \in DOMAIN f => Put(f, i, v) = f
BY DEF Put

\* insertOne keeps the indices natural and the entries in their set.
LEMMA PutType ==
  ASSUME NEW f, NEW i, NEW S, NEW v \in S, f \in [DOMAIN f -> S]
  PROVE  Put(f, i, v) \in [DOMAIN Put(f, i, v) -> S]
BY DEF Put

\* Inserting at or below the end of a gapless list leaves it gapless.
LEMMA PutContiguous ==
  ASSUME NEW f, NEW v, Contiguous(f), DOMAIN f \subseteq Nat,
         NEW i \in 0 .. NextIndex(f)
  PROVE  /\ Contiguous(Put(f, i, v))
         /\ DOMAIN Put(f, i, v) \subseteq Nat
         /\ NextIndex(Put(f, i, v)) =
              IF i = NextIndex(f) THEN NextIndex(f) + 1 ELSE NextIndex(f)
<1> DEFINE n == NextIndex(f)
           g == Put(f, i, v)
<1>1. n \in Nat /\ DOMAIN f = 0 .. n - 1
  BY ContiguousFacts
<1>2. DOMAIN g = DOMAIN f \cup {i}
  BY PutFacts
<1> HIDE DEF g, n
<1>3. i \in 0 .. n
  BY DEF n
<1>4. CASE i = n
  <2>1. DOMAIN g = 0 .. (n + 1) - 1
    BY <1>1, <1>2, <1>4
  <2>2. QED
    BY <2>1, <1>1, <1>4, NextIndexOfRange, RangeIsContiguous DEF g, n
<1>5. CASE i # n
  <2>1. DOMAIN g = 0 .. n - 1
    BY <1>1, <1>2, <1>3, <1>5
  <2>2. QED
    BY <2>1, <1>1, <1>5, NextIndexOfRange, RangeIsContiguous DEF g, n
<1>6. QED
  BY <1>4, <1>5

\* The entries grow by the inserted value at most.
LEMMA PutEntries ==
  ASSUME NEW f, NEW i, NEW v
  PROVE  /\ Entries(f) \subseteq Entries(Put(f, i, v))
         /\ Entries(Put(f, i, v)) \subseteq Entries(f) \cup {v}
         /\ i \notin DOMAIN f => v \in Entries(Put(f, i, v))
<1> DEFINE g == Put(f, i, v)
<1>1. /\ DOMAIN g = DOMAIN f \cup {i}
      /\ \A k \in DOMAIN f : g[k] = f[k]
      /\ i \notin DOMAIN f => g[i] = v
  BY PutFacts
<1> HIDE DEF g
<1>2. Entries(f) \subseteq Entries(g)
  BY <1>1 DEF Entries
<1>3. Entries(g) \subseteq Entries(f) \cup {v}
  BY <1>1 DEF Entries
<1>4. i \notin DOMAIN f => v \in Entries(g)
  BY <1>1 DEF Entries
<1>5. QED
  BY <1>2, <1>3, <1>4 DEF g
================================================================================
