--------------------------- MODULE POIMerkletree_proofs ---------------------------
(*****************************************************************************)
(* Proofs about POIMerkletree: for trees of any depth, any leaves at first   *)
(* and any rejected writes, restarts and proofs, leaves are numbered without *)
(* a gap, historical roots commit to the list, and proofs verify.            *)
(*****************************************************************************)
EXTENDS POIMerkletree, FiniteSetTheorems, SequenceTheorems, WellFoundedInduction, TLAPS

--------------------------------------------------------------------------------
(* The invariant of leaves and lengths.                                      *)

\* How many of the first m leaves of the list are in a tree.
Filled(m, t) ==
    IF m <= t * TreeItems THEN 0
    ELSE IF m >= t * TreeItems + TreeItems THEN TreeItems ELSE m - t * TreeItems

Hash(level) == [1 .. 2 ^ level -> Nat]

\* What a collection, the cache or an insertion holds of a node: a hash of its size,
\* and for a leaf the one that was signed for an index of the list.
LeafOK(lim, n, hash) ==
    \E j \in 0 .. lim - 1 : n = Leaf(j) /\ hash \in {LeafHash(j, 1), LeafHash(j, 2)}

EntryOK(lim, n, hash) ==
    /\ n \in Trees \X (0 .. Depth) \X Nat
    /\ hash \in Hash(n[2])
    /\ n[2] = 0 => LeafOK(lim, n, hash)

NodesOK(lim, f) ==
    f = [n \in DOMAIN f |-> f[n]] /\ \A n \in DOMAIN f : EntryOK(lim, n, f[n])

StoresOK ==
    /\ ownList \in BOOLEAN /\ start \in Starts
    /\ NodesOK(Limit, db) /\ NodesOK(Limit, cache) /\ NodesOK(Limit, pending)
    /\ \A w \in stray : w = <<w[1], w[2]>> /\ EntryOK(Limit, w[1], w[2])
    /\ events \subseteq 0 .. Limit - 1
    /\ overwritten \in BOOLEAN /\ torn \in BOOLEAN

\* The leaves of the database are the first m of the list.
Gapless(m) ==
    /\ \A j \in 0 .. m - 1 : Leaf(j) \in DOMAIN db
    /\ \A n \in DOMAIN db : n[2] = 0 => \E j \in 0 .. m - 1 : n = Leaf(j)

LengthsOK(m) ==
    /\ treeLengths \in [Trees -> Nat \union {Unknown}]
    /\ \A t \in Trees : treeLengths[t] = Unknown \/ treeLengths[t] <= Filled(m, t)

\* Nodes to be written are cached, and their leaf is at most the next one.
Unwritten == DOMAIN pending \union {w[1] : w \in stray}
WritesOK(m) ==
    /\ Unwritten \subseteq DOMAIN cache
    /\ \A j \in 0 .. Limit - 1 :
          Leaf(j) \in Unwritten => j <= m /\ treeLengths[TreeOf(j)] # Unknown

\* Between its tests and the merkleroot an insertion is at the end of its tree.
AdderOK ==
    \/ adder = Idle /\ pending = Nothing
    \/ \E i \in 0 .. Limit - 1 : adder = [pc |-> "event", i |-> i] /\ pending = Nothing
    \/ \E i \in 0 .. Limit - 1 :
          /\ adder = [pc |-> "nodes", i |-> i]
          /\ treeLengths[TreeOf(i)] \in 0 .. IndexIn(i)
          /\ DOMAIN pending \subseteq Path(i)
          /\ Leaf(i) \in DOMAIN pending \union DOMAIN db

\* A request for a proof, at each of its awaits.  The length that it carries was right
\* when it was read; nothing can be added to a tree whose length is not known.
LengthRead(m, i, length) ==
    IF treeLengths[TreeOf(i)] = Unknown THEN length = Filled(m, TreeOf(i))
                                        ELSE length <= treeLengths[TreeOf(i)]
ColdNodes(cold) == NodesOK(Limit, cold) /\ DOMAIN cold \subseteq DOMAIN db

ReaderOK(m) ==
    /\ reader.pc \in {"idle", "length", "elements", "root", "proof"}
    /\ reader.pc = "idle" => reader = Idle
    /\ reader.pc # "idle" =>
          /\ {"pc", "i", "quiet", "cold"} \subseteq DOMAIN reader
          /\ reader.i \in Requested /\ Leaf(reader.i) \in DOMAIN db
    /\ reader.pc = "length" =>
          /\ "length" \in DOMAIN reader /\ reader.length \in Nat
          /\ reader.cold => LengthRead(m, reader.i, reader.length)
    /\ reader.pc \in {"elements", "root", "proof"} =>
          "elements" \in DOMAIN reader /\ ColdNodes(reader.cold)
    /\ reader.pc \in {"root", "proof"} => "root" \in DOMAIN reader

\* Unless a late read has put back an old value, cached lengths count the leaves, or
\* all but the last one, and a leaf that is only cached is the next one.
Exact(m) == \A t \in Trees : treeLengths[t] \in {Unknown, Filled(m, t)}
ButOne(m) ==
    /\ m > 0 /\ treeLengths[TreeOf(m - 1)] = Filled(m, TreeOf(m - 1)) - 1
    /\ \A t \in Trees \ {TreeOf(m - 1)} : treeLengths[t] \in {Unknown, Filled(m, t)}

Accurate(m) ==
    /\ Exact(m) \/ ButOne(m)
    /\ \A j \in 0 .. Limit - 1 : Leaf(j) \in DOMAIN cache \ DOMAIN db => j = m /\ Exact(m)
    /\ adder.pc = "nodes" => treeLengths[TreeOf(adder.i)] = IndexIn(adder.i)
    /\ adder.pc = "event" => Leaf(adder.i) \in DOMAIN db
    /\ \A j \in events : Leaf(j) \in DOMAIN db

HasLeaves(m) ==
    /\ Gapless(m) /\ LengthsOK(m) /\ WritesOK(m) /\ AdderOK /\ ReaderOK(m)
    /\ ~overwritten => Accurate(m)

LeavesInv == StoresOK /\ \E m \in 0 .. Limit : HasLeaves(m)

--------------------------------------------------------------------------------
(* The invariant of hashes, while no late read has put back an old value.    *)

\* The hash that the node inserts for an index of the list.
Signed(j, hash) ==
    IF ownList THEN j \in DOMAIN signed /\ hash = LeafHash(j, signed[j])
               ELSE hash = LeafHash(j, 1)

\* A leaf that is cached is the one that is stored, or is going to be; one that the
\* next insertion may insert again is the one that is signed for it.
LeavesSigned ==
    /\ \A j \in 0 .. Limit - 1 :
          /\ Leaf(j) \in DOMAIN pending => Signed(j, pending[Leaf(j)])
          /\ Leaf(j) \in DOMAIN cache \ DOMAIN db => Signed(j, cache[Leaf(j)])
          /\ Leaf(j) \in DOMAIN cache \cap DOMAIN db => cache[Leaf(j)] = db[Leaf(j)]
          /\ Leaf(j) \in DOMAIN db /\ treeLengths[TreeOf(j)] \in 0 .. IndexIn(j) =>
                Signed(j, db[Leaf(j)])
    /\ \A w \in stray : \A j \in 0 .. Limit - 1 : w[1] = Leaf(j) => Signed(j, w[2])

\* What getNodeHash reads is a tree of hashes.
ViewCoherent ==
    \A t \in Trees, l \in 0 .. Depth - 1 : \A k \in 0 .. 2 ^ (Depth - (l + 1)) - 1 :
        GetNodeHash(<<t, l + 1, k>>) =
            HashLeftRight(GetNodeHash(<<t, l, 2 * k>>), GetNodeHash(<<t, l, 2 * k + 1>>))

\* The root that came with the event is still the one that getNodeHash reads.
RootAccepted ==
    ~ownList /\ adder.pc = "nodes" => GetNodeHash(Root(TreeOf(adder.i))) = ListRoot(adder.i)

RootsOfLeaves ==
    \A r \in merkleroots : r[1] \in 0 .. Limit - 1 /\ Leaf(r[1]) \in DOMAIN db

\* What a request has read is still what it would read, if no insertion came between.
QuietReads ==
    reader.pc \in {"elements", "root", "proof"} /\ reader.quiet =>
        /\ reader.elements =
              [n \in Elements(reader.i) \union {Leaf(reader.i)} |-> GetNodeHash(n)]
        /\ reader.pc # "elements" => reader.root = GetNodeHash(Root(TreeOf(reader.i)))

ColdReadsStored ==
    reader.pc \in {"elements", "root"} =>
        \A n \in DOMAIN reader.cold \ DOMAIN cache : reader.cold[n] = db[n]

HashesInv ==
    /\ RootsOfLeaves /\ StoredRootsAreListRoots /\ ColdReadsStored
    /\ ~overwritten => LeavesSigned /\ RootAccepted /\ QuietReads /\ (~torn => ViewCoherent)


--------------------------------------------------------------------------------
(* Least elements, powers of two and division.                               *)

\* A set of natural numbers that is not empty has a least element.
LEMMA LeastElement ==
  ASSUME NEW S, S \subseteq Nat, S # {}
  PROVE  \E m \in S : \A i \in S : m <= i
<1> DEFINE R == {ss \in Nat \X Nat : ss[1] < ss[2]}
<1>1. PICK m \in S : \A i \in S : <<i, m>> \notin R
  <2>1. IsWellFoundedOn(R, Nat)
    BY NatLessThanWellFounded, Zenon DEF OpToRel
  <2> HIDE DEF R
  <2>2. QED
    BY <2>1, WFMin
<1>2. ASSUME NEW i \in S PROVE m <= i
  <2>1. i \in Nat /\ m \in Nat
    OBVIOUS
  <2>2. i < m => <<i, m>> \in R
    BY <2>1
  <2>3. ~ (i < m)
    BY <1>1, <2>2
  <2>4. QED
    BY <2>1, <2>3
<1>3. QED
  BY <1>2

\* 2 ^ n counts the subsets of n things: two for each subset of n - 1 of them.
LEMMA PowerOfTwo ==
  ASSUME NEW n \in Nat
  PROVE  2 ^ n \in Nat \ {0} /\ 2 ^ (n + 1) = 2 * 2 ^ n
<1> DEFINE A == SUBSET (1 .. n)
           B == {S \cup {n + 1} : S \in A}
           f == [S \in A |-> S \cup {n + 1}]
<1>1. IsFiniteSet(1 .. n) /\ Cardinality(1 .. n) = n
  BY FS_Interval
<1>2. IsFiniteSet(1 .. n + 1) /\ Cardinality(1 .. n + 1) = n + 1
  BY FS_Interval
<1>3. IsFiniteSet(A) /\ Cardinality(A) = 2 ^ n
  BY <1>1, FS_SUBSET
<1>4. Cardinality(SUBSET (1 .. n + 1)) = 2 ^ (n + 1)
  BY <1>2, FS_SUBSET
<1>5. f \in Bijection(A, B)
  <2>1. f \in [A -> B] /\ \A y \in B : \E x \in A : f[x] = y
    OBVIOUS
  <2>2. ASSUME NEW x \in A, NEW y \in A, f[x] = f[y] PROVE x = y
    <3>1. n + 1 \notin x /\ n + 1 \notin y
      OBVIOUS
    <3>2. QED
      BY <2>2, <3>1
  <2> HIDE DEF f, A, B
  <2>3. QED
    BY <2>1, <2>2 DEF Bijection, Injection, Surjection, IsInjective
<1>6. IsFiniteSet(B) /\ Cardinality(B) = 2 ^ n
  BY <1>3, <1>5, FS_Bijection, Zenon DEF ExistsBijection
<1>7. SUBSET (1 .. n + 1) = A \cup B
  <2>1. ASSUME NEW S \in SUBSET (1 .. n + 1), n + 1 \in S PROVE S \in B
    <3>1. S \ {n + 1} \in A /\ S = (S \ {n + 1}) \cup {n + 1}
      BY <2>1
    <3>2. QED
      BY <3>1
  <2>2. ASSUME NEW S \in SUBSET (1 .. n + 1), n + 1 \notin S PROVE S \in A
    BY <2>2
  <2>3. A \subseteq SUBSET (1 .. n + 1)
    OBVIOUS
  <2>4. ASSUME NEW S \in A PROVE S \cup {n + 1} \in SUBSET (1 .. n + 1)
    OBVIOUS
  <2>5. B \subseteq SUBSET (1 .. n + 1)
    BY <2>4
  <2> HIDE DEF A, B
  <2>6. QED
    BY <2>1, <2>2, <2>3, <2>5
<1>8. A \cap B = {}
  OBVIOUS
<1>9. 2 ^ n \in Nat
  BY <1>3, FS_CardinalityType
<1>10. Cardinality(A \cup B) = 2 * 2 ^ n
  <2>1. Cardinality(A \cap B) = 0
    BY <1>8, FS_EmptySet
  <2> HIDE DEF A, B
  <2>2. Cardinality(A \cup B) = Cardinality(A) + Cardinality(B) - Cardinality(A \cap B)
    BY <1>3, <1>6, FS_Union
  <2>3. QED
    BY <1>3, <1>6, <1>9, <2>1, <2>2
<1>11. 2 ^ n # 0
  BY <1>3, FS_EmptySet
<1>12. QED
  BY <1>4, <1>7, <1>9, <1>10, <1>11, Zenon

\* Quotient and remainder.
LEMMA DivMod ==
  ASSUME NEW x \in Nat, NEW p \in Nat \ {0}
  PROVE  /\ x \div p \in Nat /\ x % p \in 0 .. p - 1
         /\ x = (x \div p) * p + (x % p)
OBVIOUS

LEMMA DivUnique ==
  ASSUME NEW t \in Nat, NEW p \in Nat \ {0}, NEW r \in 0 .. p - 1
  PROVE  (t * p + r) \div p = t /\ (t * p + r) % p = r
OBVIOUS

LEMMA Halving ==
  ASSUME NEW x \in Nat, NEW p \in Nat \ {0}
  PROVE  x \div (2 * p) = (x \div p) \div 2
OBVIOUS

--------------------------------------------------------------------------------
(* Trees, indices and nodes.                                                 *)

LEMMA TreeItemsType ==
  TreeItems \in Nat /\ TreeItems >= 2
<1>1. Depth \in Nat /\ Depth # 0 /\ Depth - 1 \in Nat
  BY ConstantsAssumption
<1>2. 2 ^ (Depth - 1) \in Nat \ {0} /\ 2 ^ ((Depth - 1) + 1) = 2 * 2 ^ (Depth - 1)
  BY <1>1, PowerOfTwo
<1>3. (Depth - 1) + 1 = Depth
  BY <1>1
<1>4. QED
  BY <1>2, <1>3 DEF TreeItems

LEMMA TreeDivision ==
  ASSUME NEW x \in Nat
  PROVE  /\ x \div TreeItems \in Nat /\ x % TreeItems \in 0 .. TreeItems - 1
         /\ x = (x \div TreeItems) * TreeItems + (x % TreeItems)
<1>1. TreeItems \in Nat \ {0}
  BY TreeItemsType
<1>2. QED
  BY <1>1, DivMod

\* A global index is a tree and an index in it.
LEMMA IndexParts ==
  ASSUME NEW j \in Nat
  PROVE  /\ TreeOf(j) \in Nat /\ IndexIn(j) \in 0 .. TreeItems - 1
         /\ j = TreeOf(j) * TreeItems + IndexIn(j)
         /\ GlobalIndex(TreeOf(j), IndexIn(j)) = j
BY TreeItemsType, TreeDivision DEF TreeOf, IndexIn, GlobalIndex

LEMMA PartsIndex ==
  ASSUME NEW t \in Nat, NEW k \in 0 .. TreeItems - 1
  PROVE  /\ GlobalIndex(t, k) \in Nat
         /\ TreeOf(GlobalIndex(t, k)) = t /\ IndexIn(GlobalIndex(t, k)) = k
BY TreeItemsType, DivUnique DEF TreeOf, IndexIn, GlobalIndex

LEMMA LeafInjective ==
  ASSUME NEW i \in Nat, NEW j \in Nat, Leaf(i) = Leaf(j)
  PROVE  i = j
<1>1. TreeOf(i) = TreeOf(j) /\ IndexIn(i) = IndexIn(j)
  BY DEF Leaf, NodeAt
<1>2. QED
  BY <1>1, IndexParts

\* Trees are numbered without a gap, and an index that is reached has its tree and the
\* one after it among them.
LEMMA TreesOfIndices ==
  /\ Index \subseteq Nat /\ Trees \subseteq Nat /\ 0 \in Trees
  /\ \A t \in Trees : 0 .. t \subseteq Trees
  /\ \A i \in Index : TreeOf(i) \in Trees /\ TreeOf(i) + 1 \in Trees
<1>1. Index \subseteq Nat
  BY ConstantsAssumption DEF Index
<1>2. ASSUME NEW i \in Index, NEW j \in 0 .. i PROVE j \in Index
  BY ConstantsAssumption DEF Index
<1>3. Trees \subseteq Nat /\ 0 \in Trees
  BY <1>1, TreeDivision DEF Trees
<1>4. ASSUME NEW t \in Trees, NEW u \in 0 .. t PROVE u \in Trees
  <2>1. CASE u = 0
    BY <2>1, <1>3
  <2>2. CASE u # 0
    <3>1. PICK i \in Index : t = 1 + i \div TreeItems
      BY <2>2, <1>3 DEF Trees
    <3>2. i \in Nat /\ i \div TreeItems \in Nat /\ i >= (i \div TreeItems) * TreeItems
      BY <1>1, TreeItemsType, TreeDivision
    <3>3. u - 1 \in Nat /\ u - 1 <= i \div TreeItems
      BY <2>2, <3>1, <3>2
    <3>4. (u - 1) * TreeItems \in Nat /\ (u - 1) * TreeItems <= (i \div TreeItems) * TreeItems
      BY <3>2, <3>3, TreeItemsType
    <3>5. (u - 1) * TreeItems \in Index
      BY <1>2, <3>2, <3>4, TreeItemsType
    <3>6. ((u - 1) * TreeItems + 0) \div TreeItems = u - 1
      BY <3>3, TreeItemsType, DivUnique
    <3>7. u = 1 + ((u - 1) * TreeItems) \div TreeItems
      BY <3>3, <3>4, <3>6
    <3>8. QED
      BY <3>5, <3>7 DEF Trees
  <2>3. QED
    BY <2>1, <2>2
<1>5. ASSUME NEW i \in Index PROVE TreeOf(i) \in Trees /\ TreeOf(i) + 1 \in Trees
  <2>1. TreeOf(i) \in Nat
    BY <1>1, IndexParts
  <2>2. TreeOf(i) + 1 \in Trees
    BY <2>1 DEF Trees, TreeOf
  <2>3. QED
    BY <1>4, <2>1, <2>2
<1>6. QED
  BY <1>1, <1>3, <1>4, <1>5

LEMMA LimitType ==
  ASSUME start \in Starts
  PROVE  /\ Limit \in Nat
         /\ 0 .. Limit - 1 \subseteq Index
         /\ \E t \in Trees : t * TreeItems >= Limit
<1>1. Limit \in Nat /\ 0 .. Limit - 1 \subseteq Index
  BY ConstantsAssumption DEF Limit, Index
<1>2. CASE Limit = 0
  BY <1>2, TreesOfIndices, TreeItemsType
<1>3. CASE Limit # 0
  <2>1. Limit - 1 \in Index /\ Limit - 1 \in Nat
    BY <1>1, <1>3
  <2>2. TreeOf(Limit - 1) + 1 \in Trees
    BY <2>1, TreesOfIndices
  <2>3. (TreeOf(Limit - 1) + 1) * TreeItems = TreeOf(Limit - 1) * TreeItems + TreeItems
    BY <2>1, IndexParts, TreeItemsType
  <2>4. (TreeOf(Limit - 1) + 1) * TreeItems >= Limit
    BY <1>1, <2>1, <2>3, IndexParts, TreeItemsType
  <2>5. QED
    BY <1>1, <2>2, <2>4
<1>4. QED
  BY <1>1, <1>2, <1>3

\* The path of an index has one node at each level, its leaf at the lowest and the root
\* of its tree at the highest one.
LEMMA PathNodes ==
  ASSUME NEW i \in Index
  PROVE  /\ Path(i) \subseteq Trees \X (0 .. Depth) \X Nat
         /\ \A n \in Path(i) : n[2] = 0 => n = Leaf(i)
         /\ Leaf(i) \in Path(i) /\ Root(TreeOf(i)) \in Path(i)
<1>1. i \in Nat /\ TreeOf(i) \in Trees /\ IndexIn(i) \in Nat /\ IndexIn(i) < TreeItems
  <2>1. i \in Nat /\ TreeOf(i) \in Trees
    BY TreesOfIndices
  <2>2. QED
    BY <2>1, IndexParts, TreeItemsType
<1>2. \A l \in 0 .. Depth : 2 ^ l \in Nat \ {0}
  BY PowerOfTwo, ConstantsAssumption
<1>3. \A l \in 0 .. Depth : IndexIn(i) \div 2 ^ l \in Nat
  BY <1>1, <1>2, DivMod
<1>4. IndexIn(i) \div 2 ^ 0 = IndexIn(i)
  <2>1. 2 ^ 0 = 1
    OBVIOUS
  <2>2. QED
    BY <1>1, <2>1
<1>5. IndexIn(i) \div 2 ^ Depth = 0
  <2>1. (0 * TreeItems + IndexIn(i)) \div TreeItems = 0
    BY <1>1, TreeItemsType, DivUnique
  <2>2. QED
    BY <1>1, <2>1, TreeItemsType DEF TreeItems
<1>6. 0 \in 0 .. Depth /\ Depth \in 0 .. Depth
  BY ConstantsAssumption
<1>7. Path(i) \subseteq Trees \X (0 .. Depth) \X Nat
  BY <1>1, <1>3 DEF Path, NodeAt
<1>8. ASSUME NEW n \in Path(i), n[2] = 0 PROVE n = Leaf(i)
  <2>1. PICK l \in 0 .. Depth : n = <<TreeOf(i), l, IndexIn(i) \div 2 ^ l>>
    BY DEF Path, NodeAt
  <2>2. l = 0
    BY <1>8, <2>1
  <2>3. QED
    BY <1>4, <2>1, <2>2 DEF Leaf, NodeAt
<1>9. Leaf(i) \in Path(i)
  BY <1>4, <1>6 DEF Path, NodeAt, Leaf
<1>10. Root(TreeOf(i)) \in Path(i)
  BY <1>5, <1>6 DEF Path, NodeAt, Root
<1>11. QED
  BY <1>7, <1>8, <1>9, <1>10

--------------------------------------------------------------------------------
(* Counting leaves.                                                          *)

LEMMA FilledType ==
  ASSUME NEW m \in Nat, NEW t \in Nat
  PROVE  /\ t * TreeItems \in Nat
         /\ Filled(m, t) \in 0 .. TreeItems /\ Filled(m, t) \in Nat
         /\ Filled(m, t) > 0 => t * TreeItems + Filled(m, t) <= m
         /\ Filled(m, t) < TreeItems => m <= t * TreeItems + Filled(m, t)
BY TreeItemsType DEF Filled

\* Leaf j is one of the first m exactly if its tree has that many of them.
LEMMA FilledIndex ==
  ASSUME NEW m \in Nat, NEW j \in Nat
  PROVE  j < m <=> IndexIn(j) < Filled(m, TreeOf(j))
<1> DEFINE t == TreeOf(j)
           k == IndexIn(j)
<1>1. t \in Nat /\ k \in 0 .. TreeItems - 1 /\ j = t * TreeItems + k
  BY IndexParts
<1>2. t * TreeItems \in Nat
  BY <1>1, TreeItemsType
<1> HIDE DEF t, k
<1>3. j < m <=> k < Filled(m, t)
  BY <1>1, <1>2, TreeItemsType DEF Filled
<1>4. QED
  BY <1>3 DEF t, k

\* One leaf more is one leaf more in its tree.
LEMMA FilledNext ==
  ASSUME NEW m \in Nat, NEW t \in Nat
  PROVE  Filled(m + 1, t) = IF t = TreeOf(m) THEN Filled(m, t) + 1 ELSE Filled(m, t)
<1> DEFINE u == TreeOf(m)
           k == IndexIn(m)
<1>1. u \in Nat /\ k \in 0 .. TreeItems - 1 /\ m = u * TreeItems + k
  BY IndexParts
<1>2. u * TreeItems \in Nat /\ t * TreeItems \in Nat
  BY <1>1, TreeItemsType
<1>3. CASE t = u
  BY <1>1, <1>2, <1>3, TreeItemsType DEF Filled
<1>4. CASE t < u
  <2>1. t * TreeItems + TreeItems <= u * TreeItems
    <3>1. u - t \in Nat /\ u - t >= 1
      BY <1>1, <1>4
    <3>2. (u - t) * TreeItems >= TreeItems
      BY <3>1, TreeItemsType
    <3>3. QED
      BY <1>1, <3>2, TreeItemsType
  <2> HIDE DEF u, k
  <2>2. QED
    BY <1>1, <1>2, <1>4, <2>1, TreeItemsType DEF Filled, u
<1>5. CASE u < t
  <2>1. u * TreeItems + TreeItems <= t * TreeItems
    <3>1. t - u \in Nat /\ t - u >= 1
      BY <1>1, <1>5
    <3>2. (t - u) * TreeItems >= TreeItems
      BY <3>1, TreeItemsType
    <3>3. QED
      BY <1>1, <3>2, TreeItemsType
  <2>2. m + 1 <= t * TreeItems
    BY <1>1, <1>2, <2>1, TreeItemsType
  <2>3. QED
    BY <1>1, <1>5, <2>2, <1>2, TreeItemsType DEF Filled
<1>6. t = u \/ t < u \/ u < t
  BY <1>1
<1>7. QED
  BY <1>3, <1>4, <1>5, <1>6, Zenon

LEMMA FilledHere ==
  ASSUME NEW m \in Nat
  PROVE  Filled(m, TreeOf(m)) = IndexIn(m)
<1> DEFINE u == TreeOf(m)
           k == IndexIn(m)
<1>1. u \in Nat /\ k \in 0 .. TreeItems - 1 /\ m = u * TreeItems + k
  BY IndexParts
<1>2. u * TreeItems \in Nat
  BY <1>1, TreeItemsType
<1> HIDE DEF u, k
<1>3. Filled(m, u) = k
  BY <1>1, <1>2, TreeItemsType DEF Filled
<1>4. QED
  BY <1>3 DEF u, k

\* countLeavesInTree finds in each tree its part of the first m leaves.
LEMMA CountedLeaves ==
  ASSUME NEW m \in Nat, Gapless(m), NodesOK(Limit, db), NEW t \in Nat
  PROVE  CountLeaves(t) = Filled(m, t)
<1> DEFINE F == Filled(m, t)
           S == {n \in DOMAIN db : n[1] = t /\ n[2] = 0}
           f == [k \in 0 .. F - 1 |-> <<t, 0, k>>]
<1>1. F \in 0 .. TreeItems
  BY FilledType
<1>2. ASSUME NEW n \in S PROVE \E k \in 0 .. F - 1 : n = <<t, 0, k>>
  <2>1. PICK j \in 0 .. m - 1 : n = Leaf(j)
    BY DEF Gapless
  <2>2. TreeOf(j) = t /\ n = <<t, 0, IndexIn(j)>>
    BY <2>1 DEF Leaf, NodeAt
  <2>3. IndexIn(j) < F
    BY <2>2, FilledIndex
  <2>4. IndexIn(j) \in 0 .. F - 1
    BY <1>1, <2>3, IndexParts, TreeItemsType
  <2>5. QED
    BY <2>2, <2>4
<1>3. ASSUME NEW k \in 0 .. F - 1 PROVE <<t, 0, k>> \in S
  <2> DEFINE j == GlobalIndex(t, k)
  <2>1. k \in 0 .. TreeItems - 1
    BY <1>1, TreeItemsType
  <2>2. j \in Nat /\ TreeOf(j) = t /\ IndexIn(j) = k
    BY <2>1, PartsIndex
  <2> HIDE DEF j
  <2>3. j < m
    BY <1>1, <2>2, FilledIndex
  <2>4. Leaf(j) \in DOMAIN db
    BY <2>2, <2>3 DEF Gapless
  <2>5. QED
    BY <2>2, <2>4 DEF Leaf, NodeAt
<1>4. f \in Bijection(0 .. F - 1, S)
  <2>1. f \in [0 .. F - 1 -> S]
    BY <1>3
  <2>2. \A x \in 0 .. F - 1, y \in 0 .. F - 1 : f[x] = f[y] => x = y
    OBVIOUS
  <2>3. \A n \in S : \E k \in 0 .. F - 1 : f[k] = n
    BY <1>2
  <2> HIDE DEF f, F, S
  <2>4. QED
    BY <2>1, <2>2, <2>3 DEF Bijection, Injection, Surjection, IsInjective
<1>5. IsFiniteSet(0 .. F - 1) /\ Cardinality(0 .. F - 1) = F
  <2>1. F \in Nat
    BY <1>1, TreeItemsType
  <2> HIDE DEF F
  <2>2. QED
    BY <2>1, FS_Interval
<1>6. Cardinality(S) = F
  BY <1>4, <1>5, FS_Bijection, Zenon DEF ExistsBijection
<1>7. QED
  BY <1>6 DEF CountLeaves

--------------------------------------------------------------------------------
(* The next index.                                                           *)

NextIndex == GlobalIndex(NextTreeAndIndex[1], NextTreeAndIndex[2])

\* The tree that latestTree ends at is the first empty one.
LEMMA LatestTreeIsBeforeEmpty ==
  ASSUME start \in Starts, NEW m \in 0 .. Limit,
         \A t \in Trees : TreeLength(t) \in 0 .. Filled(m, t)
  PROVE  \E e \in Trees :
            /\ TreeLength(e) = 0
            /\ \A u \in 0 .. e - 1 : TreeLength(u) > 0
            /\ LatestTree = IF e = 0 THEN 0 ELSE e - 1
<1> DEFINE Empty == {t \in Trees : TreeLength(t) = 0}
           First(t) == TreeLength(t) = 0 /\ \A u \in 0 .. t - 1 : TreeLength(u) > 0
<1>1. Limit \in Nat /\ Trees \subseteq Nat
  BY LimitType, TreesOfIndices
<1>2. Empty # {}
  <2>1. PICK t \in Trees : t * TreeItems >= Limit
    BY LimitType
  <2>2. t \in Nat /\ m <= t * TreeItems
    BY <1>1, <2>1, TreeItemsType
  <2>3. Filled(m, t) = 0
    BY <2>2 DEF Filled
  <2>4. TreeLength(t) \in 0 .. Filled(m, t)
    BY <2>1
  <2>5. TreeLength(t) = 0
    BY <2>3, <2>4
  <2>6. QED
    BY <2>1, <2>5
<1>3. PICK e \in Empty : \A t \in Empty : e <= t
  <2>1. Empty \subseteq Nat
    BY <1>1
  <2> HIDE DEF Empty
  <2>2. QED
    BY <1>2, <2>1, LeastElement
<1>4. First(e)
  <2>1. ASSUME NEW u \in 0 .. e - 1 PROVE TreeLength(u) > 0
    <3>1. e \in Nat /\ u \in Nat /\ u < e
      BY <1>1
    <3>2. u \in Trees
      BY <3>1, TreesOfIndices
    <3>3. TreeLength(u) \in 0 .. Filled(m, u)
      BY <3>2
    <3>4. TreeLength(u) # 0
      BY <1>3, <3>1, <3>2
    <3>5. Filled(m, u) \in Nat
      <4>1. m \in Nat
        BY <1>1
      <4>2. QED
        BY <4>1, <3>1, FilledType, Zenon
    <3>6. \A x, y : x \in 0 .. y /\ x # 0 /\ y \in Nat => x > 0
      OBVIOUS
    <3>7. QED
      BY <3>3, <3>4, <3>5, <3>6, Zenon
  <2>2. QED
    BY <2>1
<1> DEFINE empty == CHOOSE t \in Trees : First(t)
<1>5. empty \in Trees /\ First(empty)
  <2> HIDE DEF First
  <2>1. \E t \in Trees : First(t)
    BY <1>4
  <2>2. QED
    BY <2>1
<1>6. LatestTree = IF empty = 0 THEN 0 ELSE empty - 1
  BY Zenon DEF LatestTree
<1> HIDE DEF empty
<1>7. QED
  BY <1>5, <1>6

\* getNextTreeAndIndex is at the end of its tree and at most after the last leaf.
LEMMA NextIndexBound ==
  ASSUME start \in Starts, NEW m \in 0 .. Limit,
         \A t \in Trees : TreeLength(t) \in 0 .. Filled(m, t)
  PROVE  /\ LatestTree \in Trees
         /\ NextIndex \in 0 .. m
         /\ TreeOf(NextIndex) = NextTreeAndIndex[1] /\ TreeOf(NextIndex) \in Trees
         /\ TreeOf(NextIndex) <= LatestTree + 1
         /\ TreeLength(TreeOf(NextIndex)) = IndexIn(NextIndex)
<1>1. PICK e \in Trees :
         /\ TreeLength(e) = 0
         /\ \A u \in 0 .. e - 1 : TreeLength(u) > 0
         /\ LatestTree = IF e = 0 THEN 0 ELSE e - 1
  BY LatestTreeIsBeforeEmpty
<1>2. e \in Nat /\ LatestTree \in Nat /\ LatestTree <= e
  BY <1>1, TreesOfIndices
<1>3. LatestTree \in Trees
  BY <1>2, TreesOfIndices
<1>4. m \in Nat /\ TreeItems \in Nat /\ TreeItems >= 2
  BY LimitType, TreeItemsType
<1> DEFINE L == LatestTree
           k == TreeLength(L)
           F == Filled(m, L)
<1>5. k \in 0 .. F /\ F \in 0 .. TreeItems /\ L * TreeItems \in Nat
      /\ (F > 0 => L * TreeItems + F <= m)
  BY <1>2, <1>3, <1>4, FilledType
<1>6. CASE k >= TreeItems
  <2>1. NextTreeAndIndex = <<L + 1, 0>>
    BY <1>6 DEF NextTreeAndIndex
  <2>2. k = TreeItems /\ F = TreeItems /\ L * TreeItems + TreeItems <= m
    BY <1>4, <1>5, <1>6
  <2>3. e # 0 /\ L + 1 = e
    <3>1. L # e
      BY <1>1, <1>4, <2>2
    <3>2. QED
      BY <1>1, <1>2, <3>1
  <2>4. /\ GlobalIndex(e, 0) \in Nat
        /\ TreeOf(GlobalIndex(e, 0)) = e /\ IndexIn(GlobalIndex(e, 0)) = 0
    BY <1>2, <1>4, PartsIndex
  <2>5. NextIndex = GlobalIndex(e, 0)
    BY <2>1, <2>3 DEF NextIndex
  <2>6. GlobalIndex(e, 0) = L * TreeItems + TreeItems
    BY <1>2, <1>4, <2>3 DEF GlobalIndex
  <2>7. NextIndex \in 0 .. m
    BY <1>4, <2>2, <2>4, <2>5, <2>6
  <2>8. TreeOf(NextIndex) = e /\ IndexIn(NextIndex) = 0 /\ NextTreeAndIndex[1] = e
    BY <2>1, <2>3, <2>4, <2>5
  <2>9. QED
    BY <1>1, <1>2, <1>3, <2>3, <2>7, <2>8
<1>7. CASE ~(k >= TreeItems)
  <2>1. NextTreeAndIndex = <<L, k>>
    BY <1>7 DEF NextTreeAndIndex
  <2>2. k \in 0 .. TreeItems - 1
    BY <1>4, <1>5, <1>7
  <2>3. /\ GlobalIndex(L, k) \in Nat
        /\ TreeOf(GlobalIndex(L, k)) = L /\ IndexIn(GlobalIndex(L, k)) = k
    BY <1>2, <2>2, PartsIndex
  <2>4. NextIndex = GlobalIndex(L, k) /\ GlobalIndex(L, k) = L * TreeItems + k
    BY <2>1 DEF NextIndex, GlobalIndex
  <2>5. L * TreeItems + k <= m
    <3>1. CASE k > 0
      BY <1>4, <1>5, <2>2, <3>1
    <3>2. CASE k = 0
      <4>1. e = 0
        <5>1. e # 0 => L \in 0 .. e - 1
          BY <1>1, <1>2
        <5>2. QED
          BY <1>1, <3>2, <5>1
      <4>2. QED
        BY <1>1, <1>4, <3>2, <4>1
    <3>3. QED
      BY <2>2, <1>4, <3>1, <3>2
  <2>6. QED
    BY <1>2, <1>3, <1>4, <2>1, <2>3, <2>4, <2>5
<1>8. QED
  BY <1>6, <1>7

\* If every tree has its part of the first m leaves, index m is next.
LEMMA NextIndexIsExact ==
  ASSUME start \in Starts, NEW m \in 0 .. Limit,
         \A t \in Trees : TreeLength(t) = Filled(m, t)
  PROVE  NextIndex = m
<1>1. m \in Nat /\ Trees \subseteq Nat
  BY LimitType, TreesOfIndices
<1>2. ASSUME NEW t \in Trees PROVE TreeLength(t) \in 0 .. Filled(m, t)
  BY <1>1, FilledType, TreeItemsType
<1>3. /\ NextIndex \in 0 .. m /\ TreeOf(NextIndex) \in Trees
      /\ TreeLength(TreeOf(NextIndex)) = IndexIn(NextIndex)
  BY <1>2, NextIndexBound
<1>4. NextIndex \in Nat /\ Filled(m, TreeOf(NextIndex)) = IndexIn(NextIndex)
  <2>1. NextIndex \in Nat
    BY <1>1, <1>3
  <2>2. TreeLength(TreeOf(NextIndex)) = Filled(m, TreeOf(NextIndex))
    BY <1>3
  <2>3. QED
    BY <1>3, <2>1, <2>2
<1>5. IndexIn(NextIndex) \in Nat
  BY <1>4, IndexParts, TreeItemsType
<1>6. ~(NextIndex < m)
  BY <1>1, <1>4, <1>5, FilledIndex
<1>7. QED
  BY <1>1, <1>3, <1>6

--------------------------------------------------------------------------------
(* Hashes.                                                                   *)

LEMMA ZerosAreAHash ==
  ASSUME NEW level \in Nat
  PROVE  Zeros(level) \in Hash(level)
BY DEF Zeros, Hash, Zero

\* A leaf's hash is of size one, tells its index, and is not zero.
LEMMA LeafHashes ==
  ASSUME NEW j \in Nat, NEW a \in {1, 2}
  PROVE  /\ LeafHash(j, a) \in Hash(0) /\ LeafHash(j, a) # Zeros(0)
         /\ \A i \in Nat, b \in {1, 2} : LeafHash(i, b) = LeafHash(j, a) => i = j
<1>1. 2 ^ 0 = 1
  OBVIOUS
<1>2. LeafHash(j, a) = [k \in 1 .. 1 |-> 2 * j + a]
  BY DEF LeafHash
<1>3. LeafHash(j, a) \in Hash(0)
  BY <1>1, <1>2 DEF Hash
<1>4. LeafHash(j, a)[1] = 2 * j + a /\ Zeros(0)[1] = 0
  BY <1>1, <1>2 DEF Zeros, Zero
<1>5. LeafHash(j, a) # Zeros(0)
  BY <1>4
<1>6. ASSUME NEW i \in Nat, NEW b \in {1, 2}, LeafHash(i, b) = LeafHash(j, a)
      PROVE  i = j
  <2>1. LeafHash(i, b)[1] = 2 * i + b
    BY DEF LeafHash
  <2>2. QED
    BY <1>4, <1>6, <2>1
<1>7. QED
  BY <1>3, <1>5, <1>6

\* hashLeftRight puts the leaves of the right child behind those of the left one.
LEMMA Concatenation ==
  ASSUME NEW p \in Nat, NEW a \in [1 .. p -> Nat], NEW b \in [1 .. p -> Nat]
  PROVE  HashLeftRight(a, b) = [k \in 1 .. 2 * p |-> IF k <= p THEN a[k] ELSE b[k - p]]
<1>1. a \in Seq(Nat) /\ Len(a) = p /\ b \in Seq(Nat) /\ Len(b) = p
  <2>1. ASSUME NEW s \in [1 .. p -> Nat] PROVE s \in Seq(Nat) /\ Len(s) = p
    <3>1. s \in Seq(Nat) /\ DOMAIN s = 1 .. p
      BY SeqDef
    <3>2. Len(s) \in Nat /\ DOMAIN s = 1 .. Len(s)
      BY <3>1, LenProperties
    <3>3. \A x, y \in Nat : 1 .. x = 1 .. y => x = y
      OBVIOUS
    <3>4. QED
      BY <3>1, <3>2, <3>3
  <2>2. QED
    BY <2>1
<1>2. DOMAIN (a \o b) = 1 .. 2 * p
  BY <1>1
<1>3. ASSUME NEW k \in 1 .. 2 * p
      PROVE  (a \o b)[k] = IF k <= p THEN a[k] ELSE b[k - p]
  <2>1. k \in 1 .. Len(a) + Len(b)
    BY <1>1
  <2>2. (a \o b)[k] = IF k <= Len(a) THEN a[k] ELSE b[k - Len(a)]
    BY <1>1, <2>1, ConcatProperties
  <2>3. QED
    BY <1>1, <2>2
<1>4. a \o b \in Seq(Nat)
  BY <1>1, ConcatProperties
<1>5. a \o b = [k \in 1 .. 2 * p |-> (a \o b)[k]]
  <2>1. \A s \in Seq(Nat) : s = [k \in DOMAIN s |-> s[k]]
    OBVIOUS
  <2>2. QED
    BY <1>2, <1>4, <2>1
<1>6. QED
  BY <1>3, <1>5 DEF HashLeftRight

LEMMA HashesOfChildren ==
  ASSUME NEW level \in Nat, NEW a \in Hash(level), NEW b \in Hash(level)
  PROVE  HashLeftRight(a, b) \in Hash(level + 1)
<1> DEFINE p == 2 ^ level
<1>1. p \in Nat /\ 2 ^ (level + 1) = 2 * p
  BY PowerOfTwo
<1>2. a \in [1 .. p -> Nat] /\ b \in [1 .. p -> Nat]
  BY DEF Hash
<1> HIDE DEF p
<1>3. HashLeftRight(a, b) = [k \in 1 .. 2 * p |-> IF k <= p THEN a[k] ELSE b[k - p]]
  BY <1>1, <1>2, Concatenation
<1>4. HashLeftRight(a, b) \in [1 .. 2 * p -> Nat]
  BY <1>1, <1>2, <1>3
<1>5. QED
  BY <1>1, <1>4 DEF Hash

LEMMA LengthOfHash ==
  ASSUME NEW level \in Nat, NEW hash \in Hash(level)
  PROVE  Len(hash) = 2 ^ level
<1>1. 2 ^ level \in Nat
  BY PowerOfTwo
<1>2. hash \in [1 .. 2 ^ level -> Nat]
  BY DEF Hash
<1>3. QED
  BY <1>1, <1>2

--------------------------------------------------------------------------------
(* The hashes of a path.                                                     *)

\* The equation of PathHashes, up to a level.
Climbs(up, i, hash, elements, top) ==
    up = [l \in 0 .. top |->
            IF l = 0 THEN hash
            ELSE LET below == IndexIn(i) \div 2 ^ (l - 1)
                     sibling == elements[NodeAt(TreeOf(i), l - 1, Sibling(below))]
                 IN  IF below % 2 = 0 THEN HashLeftRight(up[l - 1], sibling)
                                      ELSE HashLeftRight(sibling, up[l - 1])]

LEMMA ClimbExists ==
  ASSUME NEW i, NEW hash, NEW elements, NEW top \in Nat
  PROVE  \E up : Climbs(up, i, hash, elements, top)
<1> DEFINE Bad == {k \in Nat : ~ \E up : Climbs(up, i, hash, elements, k)}
<1>1. SUFFICES ASSUME Bad # {} PROVE FALSE
  OBVIOUS
<1>2. PICK m \in Bad : \A k \in Bad : m <= k
  <2> HIDE DEF Bad
  <2>1. Bad \subseteq Nat
    BY DEF Bad
  <2>2. QED
    BY <1>1, <2>1, LeastElement
<1>3. CASE m = 0
  <2>1. Climbs([l \in 0 .. 0 |-> hash], i, hash, elements, 0)
    BY DEF Climbs
  <2>2. QED
    BY <1>2, <1>3, <2>1
<1>4. CASE m # 0
  <2>1. PICK up : Climbs(up, i, hash, elements, m - 1)
    BY <1>2, <1>4
  <2> DEFINE below == IndexIn(i) \div 2 ^ (m - 1)
             sibling == elements[NodeAt(TreeOf(i), m - 1, Sibling(below))]
             last == IF below % 2 = 0 THEN HashLeftRight(up[m - 1], sibling)
                                      ELSE HashLeftRight(sibling, up[m - 1])
             longer == [l \in 0 .. m |-> IF l = m THEN last ELSE up[l]]
  <2>2. \A l \in 0 .. m : l # m => longer[l] = up[l]
    OBVIOUS
  <2>3. longer[m] = last
    BY <1>4
  <2>4. longer[m - 1] = up[m - 1]
    BY <1>4
  <2>5. ASSUME NEW l \in 1 .. m - 1
        PROVE  up[l] = LET b == IndexIn(i) \div 2 ^ (l - 1)
                           s == elements[NodeAt(TreeOf(i), l - 1, Sibling(b))]
                       IN  IF b % 2 = 0 THEN HashLeftRight(longer[l - 1], s)
                                        ELSE HashLeftRight(s, longer[l - 1])
    <3>1. longer[l - 1] = up[l - 1]
      BY <2>2
    <3>2. l \in 0 .. m - 1 /\ l # 0
      OBVIOUS
    <3> HIDE DEF longer
    <3>3. QED
      BY <2>1, <3>1, <3>2 DEF Climbs
  <2>6. up[0] = hash
    BY <2>1, <1>4 DEF Climbs
  <2>7. longer = [l \in 0 .. m |-> longer[l]]
    OBVIOUS
  <2>8. ASSUME NEW l \in 0 .. m
        PROVE  longer[l] = IF l = 0 THEN hash
                           ELSE LET b == IndexIn(i) \div 2 ^ (l - 1)
                                    s == elements[NodeAt(TreeOf(i), l - 1, Sibling(b))]
                                IN  IF b % 2 = 0 THEN HashLeftRight(longer[l - 1], s)
                                                 ELSE HashLeftRight(s, longer[l - 1])
    <3>1. CASE l = 0
      BY <3>1, <1>4, <2>2, <2>6
    <3>2. CASE l = m
      <4> HIDE DEF longer
      <4>1. QED
        BY <3>2, <1>4, <2>3, <2>4
    <3>3. CASE l \in 1 .. m - 1
      <4>1. longer[l] = up[l]
        BY <3>3, <2>2
      <4> HIDE DEF longer
      <4>2. QED
        BY <3>3, <4>1, <2>5
    <3>4. QED
      BY <3>1, <3>2, <3>3
  <2>9. Climbs(longer, i, hash, elements, m)
    <3> HIDE DEF longer
    <3>1. QED
      BY <2>7, <2>8 DEF Climbs
  <2>10. QED
    BY <2>9, <1>2
<1>5. QED
  BY <1>3, <1>4

LEMMA PathHashesClimb ==
  ASSUME NEW i, NEW hash, NEW elements
  PROVE  Climbs(PathHashes(i, hash, elements), i, hash, elements, Depth)
<1>1. PathHashes(i, hash, elements) = CHOOSE up : Climbs(up, i, hash, elements, Depth)
  BY Zenon DEF PathHashes, Climbs
<1>2. \E up : Climbs(up, i, hash, elements, Depth)
  BY ClimbExists, ConstantsAssumption
<1>3. QED
  BY <1>1, <1>2

\* Beside the path of an index there is one node at each level below the root.
Beside(i, l) == NodeAt(TreeOf(i), l, Sibling(IndexIn(i) \div 2 ^ l))

LEMMA BesideIsElement ==
  ASSUME NEW i \in Index, NEW l \in 0 .. Depth - 1
  PROVE  Beside(i, l) \in Elements(i) /\ Beside(i, l)[2] = l
<1> DEFINE n == NodeAt(TreeOf(i), l, IndexIn(i) \div 2 ^ l)
<1>1. n \in Path(i) /\ n # Root(TreeOf(i))
  BY ConstantsAssumption DEF Path, Root, NodeAt
<1>2. Beside(i, l) = NodeAt(n[1], n[2], Sibling(n[3]))
  BY DEF Beside, NodeAt
<1> HIDE DEF n
<1>3. QED
  BY <1>1, <1>2 DEF Elements, Beside, NodeAt

\* From one level to the next, the hash is put before or behind the one beside it.
LEMMA PathHashesStep ==
  ASSUME NEW i, NEW hash, NEW elements
  PROVE  /\ PathHashes(i, hash, elements)[0] = hash
         /\ \A l \in 0 .. Depth - 1 :
               PathHashes(i, hash, elements)[l + 1] =
                  IF (IndexIn(i) \div 2 ^ l) % 2 = 0
                    THEN HashLeftRight(PathHashes(i, hash, elements)[l], elements[Beside(i, l)])
                    ELSE HashLeftRight(elements[Beside(i, l)], PathHashes(i, hash, elements)[l])
<1> DEFINE up == PathHashes(i, hash, elements)
<1>1. Climbs(up, i, hash, elements, Depth)
  BY PathHashesClimb
<1>2. Depth \in Nat
  BY ConstantsAssumption
<1> HIDE DEF up
<1>3. up[0] = hash
  BY <1>1, <1>2 DEF Climbs
<1>4. ASSUME NEW l \in 0 .. Depth - 1
      PROVE  up[l + 1] = IF (IndexIn(i) \div 2 ^ l) % 2 = 0
                           THEN HashLeftRight(up[l], elements[Beside(i, l)])
                           ELSE HashLeftRight(elements[Beside(i, l)], up[l])
  <2>1. l + 1 \in 0 .. Depth /\ l + 1 # 0 /\ (l + 1) - 1 = l
    BY <1>2
  <2>2. up[l + 1] = LET below == IndexIn(i) \div 2 ^ ((l + 1) - 1)
                        sibling == elements[NodeAt(TreeOf(i), (l + 1) - 1, Sibling(below))]
                    IN  IF below % 2 = 0 THEN HashLeftRight(up[(l + 1) - 1], sibling)
                                         ELSE HashLeftRight(sibling, up[(l + 1) - 1])
    BY <1>1, <2>1 DEF Climbs
  <2>3. QED
    BY <2>1, <2>2 DEF Beside
<1>5. QED
  BY <1>3, <1>4 DEF up

LEMMA PathHashesType ==
  ASSUME NEW i \in Index, NEW hash \in Hash(0), NEW elements,
         \A l \in 0 .. Depth - 1 : elements[Beside(i, l)] \in Hash(l)
  PROVE  \A l \in 0 .. Depth : PathHashes(i, hash, elements)[l] \in Hash(l)
<1> DEFINE up == PathHashes(i, hash, elements)
           Bad == {l \in 0 .. Depth : up[l] \notin Hash(l)}
<1>1. Depth \in Nat
  BY ConstantsAssumption
<1>2. SUFFICES ASSUME Bad # {} PROVE FALSE
  OBVIOUS
<1>3. PICK m \in Bad : \A k \in Bad : m <= k
  <2>1. Bad \subseteq Nat
    BY <1>1
  <2> HIDE DEF Bad
  <2>2. QED
    BY <1>2, <2>1, LeastElement
<1>4. m # 0
  <2>1. up[0] = hash
    BY PathHashesStep
  <2>2. up[0] \in Hash(0)
    BY <2>1
  <2> HIDE DEF up
  <2>3. QED
    BY <2>2
<1>5. m - 1 \in 0 .. Depth - 1 /\ (m - 1) + 1 = m
  BY <1>1, <1>4
<1>6. up[m - 1] \in Hash(m - 1)
  <2>1. m - 1 \notin Bad
    BY <1>1, <1>3
  <2>2. m - 1 \in 0 .. Depth
    BY <1>1, <1>5
  <2> HIDE DEF up
  <2>3. QED
    BY <2>1, <2>2
<1>7. elements[Beside(i, m - 1)] \in Hash(m - 1)
  BY <1>5
<1>8. up[m] \in {HashLeftRight(up[m - 1], elements[Beside(i, m - 1)]),
                 HashLeftRight(elements[Beside(i, m - 1)], up[m - 1])}
  <2>1. up[(m - 1) + 1] \in {HashLeftRight(up[m - 1], elements[Beside(i, m - 1)]),
                             HashLeftRight(elements[Beside(i, m - 1)], up[m - 1])}
    BY <1>5, PathHashesStep
  <2>2. QED
    BY <1>5, <2>1
<1>9. up[m] \in Hash((m - 1) + 1)
  <2>1. m - 1 \in Nat
    BY <1>5
  <2> HIDE DEF up
  <2>2. QED
    BY <1>6, <1>7, <1>8, <2>1, HashesOfChildren
<1>10. QED
  <2> HIDE DEF up
  <2>1. QED
    BY <1>5, <1>9

--------------------------------------------------------------------------------
(* Stores of nodes.                                                          *)

LEMMA WrittenNodes ==
  ASSUME NEW lim, NEW f, NEW g, NodesOK(lim, f), NodesOK(lim, g)
  PROVE  /\ NodesOK(lim, Write(f, g))
         /\ DOMAIN Write(f, g) = DOMAIN f \cup DOMAIN g
         /\ \A n \in DOMAIN g : Write(f, g)[n] = g[n]
         /\ \A n \in DOMAIN f \ DOMAIN g : Write(f, g)[n] = f[n]
BY DEF NodesOK, Write

LEMMA WrittenNode ==
  ASSUME NEW lim, NEW f, NodesOK(lim, f), NEW n, NEW hash, EntryOK(lim, n, hash)
  PROVE  NodesOK(lim, Write(f, [m \in {n} |-> hash]))
BY DEF NodesOK, Write

LEMMA RestrictedNodes ==
  ASSUME NEW lim, NEW f, NodesOK(lim, f), NEW S, S \subseteq DOMAIN f
  PROVE  /\ NodesOK(lim, Restrict(f, S)) /\ DOMAIN Restrict(f, S) = S
         /\ \A n \in S : Restrict(f, S)[n] = f[n]
BY DEF NodesOK, Restrict

LEMMA NothingIsNodes == \A lim : NodesOK(lim, Nothing) /\ DOMAIN Nothing = {}
BY DEF NodesOK, Nothing

\* Reads that miss the cache bring home what the database has.
LEMMA ReadNodes ==
  ASSUME NEW lim, NodesOK(lim, db), NEW S
  PROVE  /\ NodesOK(lim, ColdReads(S))
         /\ DOMAIN ColdReads(S) = (S \cap DOMAIN db) \ DOMAIN cache
         /\ \A n \in DOMAIN ColdReads(S) : ColdReads(S)[n] = db[n]
BY RestrictedNodes DEF ColdReads

LEMMA NodeHashType ==
  ASSUME NEW lim, NodesOK(lim, db), NodesOK(lim, cache), NEW n, n[2] \in Nat
  PROVE  GetNodeHash(n) \in Hash(n[2])
<1>1. CASE n \in DOMAIN cache
  BY <1>1 DEF GetNodeHash, NodesOK, EntryOK
<1>2. CASE n \in DOMAIN db \ DOMAIN cache
  BY <1>2 DEF GetNodeHash, NodesOK, EntryOK
<1>3. CASE n \notin DOMAIN db /\ n \notin DOMAIN cache
  <2>1. GetNodeHash(n) = Zeros(n[2])
    BY <1>3 DEF GetNodeHash
  <2>2. QED
    BY <2>1, ZerosAreAHash
<1>4. QED
  BY <1>1, <1>2, <1>3

\* The hashes that an insertion caches and stores.
LEMMA FilledPath ==
  ASSUME start \in Starts, NodesOK(Limit, db), NodesOK(Limit, cache),
         NEW i \in 0 .. Limit - 1, NEW a \in {1, 2}
  PROVE  /\ NodesOK(Limit, FillHashWriteGroup(i, LeafHash(i, a)))
         /\ DOMAIN FillHashWriteGroup(i, LeafHash(i, a)) = Path(i)
         /\ FillHashWriteGroup(i, LeafHash(i, a))[Leaf(i)] = LeafHash(i, a)
<1> DEFINE elements == [n \in Elements(i) |-> GetNodeHash(n)]
           up == PathHashes(i, LeafHash(i, a), elements)
           hashes == FillHashWriteGroup(i, LeafHash(i, a))
<1>1. i \in Index /\ i \in Nat
  BY LimitType, TreesOfIndices
<1>2. LeafHash(i, a) \in Hash(0)
  BY <1>1, LeafHashes
<1>3. ASSUME NEW l \in 0 .. Depth - 1 PROVE elements[Beside(i, l)] \in Hash(l)
  <2>1. Beside(i, l) \in Elements(i) /\ Beside(i, l)[2] = l
    BY <1>1, BesideIsElement
  <2>2. l \in Nat
    BY ConstantsAssumption
  <2>3. GetNodeHash(Beside(i, l)) \in Hash(l)
    BY <2>1, <2>2, NodeHashType
  <2>4. QED
    BY <2>1, <2>3
<1>4. \A l \in 0 .. Depth : up[l] \in Hash(l)
  <2> HIDE DEF elements
  <2>1. QED
    BY <1>1, <1>2, <1>3, PathHashesType
<1>5. up[0] = LeafHash(i, a)
  BY PathHashesStep
<1>6. hashes = [n \in Path(i) |-> up[n[2]]]
  BY DEF FillHashWriteGroup
<1>7. /\ Path(i) \subseteq Trees \X (0 .. Depth) \X Nat
      /\ \A n \in Path(i) : n[2] = 0 => n = Leaf(i)
      /\ Leaf(i) \in Path(i) /\ Leaf(i)[2] = 0
  BY <1>1, PathNodes DEF Leaf, NodeAt
<1> HIDE DEF up, hashes
<1>8. ASSUME NEW n \in Path(i) PROVE EntryOK(Limit, n, hashes[n])
  <2>1. n \in Trees \X (0 .. Depth) \X Nat /\ n[2] \in 0 .. Depth
    BY <1>7
  <2>2. hashes[n] = up[n[2]]
    BY <1>6
  <2>3. hashes[n] \in Hash(n[2])
    BY <1>4, <2>1, <2>2
  <2>4. n[2] = 0 => LeafOK(Limit, n, hashes[n])
    BY <1>5, <1>7, <2>2 DEF LeafOK
  <2>5. QED
    BY <2>1, <2>3, <2>4 DEF EntryOK
<1>9. DOMAIN hashes = Path(i) /\ hashes = [n \in DOMAIN hashes |-> hashes[n]]
  BY <1>6
<1>10. NodesOK(Limit, hashes)
  BY <1>8, <1>9 DEF NodesOK
<1>11. hashes[Leaf(i)] = LeafHash(i, a)
  BY <1>5, <1>6, <1>7
<1>12. QED
  BY <1>9, <1>10, <1>11 DEF hashes

--------------------------------------------------------------------------------
(* Lengths.                                                                  *)

LEMMA KnownLengths ==
  ASSUME StoresOK, NEW m \in 0 .. Limit, Gapless(m), LengthsOK(m)
  PROVE  /\ m \in Nat /\ Limit \in Nat /\ Trees \subseteq Nat
         /\ \A t \in Trees :
               /\ Filled(m, t) \in Nat
               /\ TreeLength(t) = IF treeLengths[t] = Unknown THEN Filled(m, t)
                                                              ELSE treeLengths[t]
               /\ TreeLength(t) \in 0 .. Filled(m, t)
<1>1. m \in Nat /\ Limit \in Nat /\ Trees \subseteq Nat
  BY LimitType, TreesOfIndices DEF StoresOK
<1>2. ASSUME NEW t \in Trees
      PROVE  /\ Filled(m, t) \in Nat
             /\ TreeLength(t) = IF treeLengths[t] = Unknown THEN Filled(m, t) ELSE treeLengths[t]
             /\ TreeLength(t) \in 0 .. Filled(m, t)
  <2>1. t \in Nat
    BY <1>1
  <2>2. Filled(m, t) \in Nat
    BY <1>1, <2>1, FilledType, Zenon
  <2>3. CountLeaves(t) = Filled(m, t)
    BY <1>1, <2>1, CountedLeaves DEF StoresOK
  <2>4. treeLengths[t] = Unknown \/ treeLengths[t] \in 0 .. Filled(m, t)
    BY <2>2 DEF LengthsOK
  <2>5. TreeLength(t) = IF treeLengths[t] = Unknown THEN Filled(m, t) ELSE treeLengths[t]
    BY <2>3 DEF TreeLength
  <2>6. QED
    BY <2>2, <2>4, <2>5
<1>3. QED
  BY <1>1, <1>2

\* Lengths that are known stay and others become what the database counts.
Refines(m, new) ==
    /\ new \in [Trees -> Nat \union {Unknown}]
    /\ \A t \in Trees : \/ new[t] = treeLengths[t]
                        \/ treeLengths[t] = Unknown /\ new[t] = Filled(m, t)

LEMMA ReadLengthsRefine ==
  ASSUME StoresOK, NEW m \in 0 .. Limit, Gapless(m), LengthsOK(m)
  PROVE  /\ Refines(m, LengthsRead)
         /\ \A t \in Trees : t <= LatestTree + 1 => LengthsRead[t] = TreeLength(t)
<1>1. ASSUME NEW t \in Trees
      PROVE  /\ LengthsRead[t] \in Nat \union {Unknown}
             /\ \/ LengthsRead[t] = treeLengths[t]
                \/ treeLengths[t] = Unknown /\ LengthsRead[t] = Filled(m, t)
  <2>1. LengthsRead[t] \in {TreeLength(t), treeLengths[t]}
    BY DEF LengthsRead
  <2>2. TreeLength(t) = IF treeLengths[t] = Unknown THEN Filled(m, t) ELSE treeLengths[t]
    BY KnownLengths
  <2>3. Filled(m, t) \in Nat /\ treeLengths[t] \in Nat \union {Unknown}
    BY KnownLengths DEF LengthsOK
  <2>4. QED
    BY <2>1, <2>2, <2>3
<1>2. LengthsRead = [t \in Trees |-> LengthsRead[t]]
  BY DEF LengthsRead
<1>3. \A t \in Trees : t <= LatestTree + 1 => LengthsRead[t] = TreeLength(t)
  BY DEF LengthsRead
<1>4. LengthsRead \in [Trees -> Nat \union {Unknown}]
  BY <1>1, <1>2
<1>5. QED
  BY <1>1, <1>3, <1>4 DEF Refines

\* If the cached lengths are accurate, the next index is the first one without a leaf,
\* or that of the last leaf.
LEMMA NextIndexAccurate ==
  ASSUME StoresOK, NEW m \in 0 .. Limit, Gapless(m), LengthsOK(m)
  PROVE  /\ Exact(m) => NextIndex = m
         /\ ButOne(m) => NextIndex = m - 1
<1>1. start \in Starts /\ m \in Nat /\ Limit \in Nat /\ Trees \subseteq Nat
  BY KnownLengths DEF StoresOK
<1>2. ASSUME Exact(m) PROVE NextIndex = m
  <2>1. ASSUME NEW t \in Trees PROVE TreeLength(t) = Filled(m, t)
    BY <1>2, KnownLengths DEF Exact
  <2>2. QED
    BY <1>1, <2>1, NextIndexIsExact
<1>3. ASSUME ButOne(m) PROVE NextIndex = m - 1
  <2>1. m - 1 \in Nat /\ (m - 1) + 1 = m /\ m - 1 \in 0 .. Limit
    BY <1>1, <1>3 DEF ButOne
  <2>2. ASSUME NEW t \in Trees PROVE TreeLength(t) = Filled(m - 1, t)
    <3>1. t \in Nat
      BY <1>1
    <3>2. Filled((m - 1) + 1, t) = IF t = TreeOf(m - 1) THEN Filled(m - 1, t) + 1
                                                        ELSE Filled(m - 1, t)
      BY <2>1, <3>1, FilledNext
    <3>3. Filled(m - 1, t) \in Nat
      BY <2>1, <3>1, FilledType, Zenon
    <3>4. TreeLength(t) = IF treeLengths[t] = Unknown THEN Filled(m, t) ELSE treeLengths[t]
      BY KnownLengths
    <3>5. CASE t = TreeOf(m - 1)
      <4>1. treeLengths[t] = Filled(m - 1, t)
        BY <1>3, <2>1, <3>2, <3>3, <3>5 DEF ButOne
      <4>2. QED
        BY <3>3, <3>4, <4>1 DEF Unknown
    <3>6. CASE t # TreeOf(m - 1)
      BY <1>3, <2>1, <3>2, <3>4, <3>6 DEF ButOne
    <3>7. QED
      BY <3>5, <3>6
  <2>3. QED
    BY <1>1, <2>1, <2>2, NextIndexIsExact
<1>4. QED
  BY <1>2, <1>3

--------------------------------------------------------------------------------
(* Steps.                                                                    *)

\* Leaves that a collection or the cache holds are of the list.
LEMMA HeldLeaf ==
  ASSUME StoresOK, NEW f, NodesOK(Limit, f), NEW j \in Nat, Leaf(j) \in DOMAIN f
  PROVE  j \in 0 .. Limit - 1 /\ TreeOf(j) \in Trees
<1>1. LeafOK(Limit, Leaf(j), f[Leaf(j)])
  BY DEF NodesOK, EntryOK, Leaf, NodeAt
<1>2. PICK k \in 0 .. Limit - 1 : Leaf(j) = Leaf(k)
  BY <1>1 DEF LeafOK
<1>3. k \in Nat /\ k \in Index
  BY LimitType, TreesOfIndices DEF StoresOK
<1>4. j = k
  BY <1>2, <1>3, LeafInjective
<1>5. QED
  BY <1>3, <1>4, TreesOfIndices

\* A node that was to be written is in the database, and with the next leaf the list
\* has one more.
LEMMA NodeWritten ==
  ASSUME StoresOK, NEW m \in 0 .. Limit, HasLeaves(m),
         NEW n \in Unwritten, NEW hash, EntryOK(Limit, n, hash),
         InsertMerkletreeNode(n, hash),
         NodesOK(Limit, pending)', DOMAIN pending' \subseteq DOMAIN pending,
         DOMAIN pending \subseteq DOMAIN pending' \union {n}, stray' \subseteq stray,
         pending = Nothing => pending' = Nothing,
         UNCHANGED <<ownList, start, events, memory, adder, reader, overwritten, torn>>
  PROVE  StoresOK' /\ \E k \in 0 .. Limit' : HasLeaves(k)'
<1> USE DEF memory
<1>1. Limit' = Limit /\ m \in Nat /\ Limit \in Nat
  BY KnownLengths DEF Limit, HasLeaves
<1>2. /\ DOMAIN db \subseteq DOMAIN db' /\ n \in DOMAIN db'
      /\ DOMAIN db' \subseteq DOMAIN db \union {n} /\ NodesOK(Limit, db')
  BY WrittenNode DEF InsertMerkletreeNode, Write, StoresOK
<1>3. StoresOK'
  BY <1>1, <1>2 DEF StoresOK
<1>4. Unwritten' \subseteq Unwritten
  BY DEF Unwritten
<1>5. AdderOK'
  BY <1>1, <1>2 DEF HasLeaves, AdderOK
<1>6. CASE n[2] # 0 \/ n \in DOMAIN db
  <2>1. \A x \in DOMAIN db' : x[2] = 0 => x \in DOMAIN db
    BY <1>2, <1>6
  <2>2. \A j : Leaf(j)[2] = 0
    BY DEF Leaf, NodeAt
  <2>3. Gapless(m)'
    BY <1>2, <2>1 DEF HasLeaves, Gapless
  <2>4. LengthsOK(m)'
    BY DEF HasLeaves, LengthsOK
  <2>5. WritesOK(m)'
    BY <1>1, <1>4 DEF HasLeaves, WritesOK
  <2>6. ReaderOK(m)'
    BY <1>1, <1>2 DEF HasLeaves, ReaderOK, LengthRead, ColdNodes
  <2>7. ~overwritten' => Accurate(m)'
    BY <1>1, <1>2, <2>1, <2>2 DEF HasLeaves, Accurate, Exact, ButOne
  <2>8. QED
    BY <1>1, <1>3, <1>5, <2>3, <2>4, <2>5, <2>6, <2>7 DEF HasLeaves
<1>7. CASE n[2] = 0 /\ n \notin DOMAIN db
  <2>1. PICK j \in 0 .. Limit - 1 : n = Leaf(j)
    BY <1>7 DEF EntryOK, LeafOK
  <2>2. j = m /\ m < Limit
    <3>1. j <= m /\ j \in Nat
      BY <1>1, <2>1 DEF HasLeaves, WritesOK
    <3>2. ~(j < m)
      BY <1>1, <1>7, <2>1, <3>1 DEF HasLeaves, Gapless
    <3>3. QED
      BY <1>1, <2>1, <3>1, <3>2
  <2>3. m \in Index /\ TreeOf(m) \in Trees /\ treeLengths[TreeOf(m)] # Unknown
    BY <1>1, <2>1, <2>2, LimitType, TreesOfIndices DEF HasLeaves, WritesOK, StoresOK
  <2>4. ASSUME NEW t \in Trees
        PROVE  /\ Filled(m, t) \in Nat /\ Filled(m, t) <= Filled(m + 1, t)
               /\ Filled(m + 1, t) = IF t = TreeOf(m) THEN Filled(m, t) + 1 ELSE Filled(m, t)
    <3>1. Filled(m, t) \in Nat /\ t \in Nat
      BY KnownLengths DEF HasLeaves
    <3>2. Filled(m + 1, t) = IF t = TreeOf(m) THEN Filled(m, t) + 1 ELSE Filled(m, t)
      BY <1>1, <3>1, FilledNext
    <3>3. QED
      BY <3>1, <3>2
  <2>5. m + 1 \in 0 .. Limit /\ (m + 1) - 1 = m /\ m + 1 > 0
    BY <1>1, <2>2
  <2>6. Gapless(m + 1)'
    <3>1. \A i \in 0 .. m : i = m \/ i \in 0 .. m - 1
      BY <1>1
    <3>2. \A i \in 0 .. m - 1 : i \in 0 .. m
      BY <1>1
    <3>3. QED
      BY <1>1, <1>2, <2>1, <2>2, <2>5, <3>1, <3>2 DEF HasLeaves, Gapless
  <2>7. LengthsOK(m + 1)'
    <3>1. ASSUME NEW t \in Trees
          PROVE  treeLengths[t] = Unknown \/ treeLengths[t] <= Filled(m + 1, t)
      BY <2>4 DEF HasLeaves, LengthsOK
    <3>2. QED
      BY <3>1 DEF HasLeaves, LengthsOK
  <2>8. WritesOK(m + 1)'
    BY <1>1, <1>4 DEF HasLeaves, WritesOK
  <2>9. ReaderOK(m + 1)'
    <3>1. ASSUME NEW i \in Requested, Leaf(i) \in DOMAIN db, NEW length \in Nat,
                 LengthRead(m, i, length)
          PROVE  LengthRead(m + 1, i, length)'
      <4>1. i \in Nat
        BY ConstantsAssumption
      <4>2. TreeOf(i) \in Trees
        BY <3>1, <4>1, HeldLeaf DEF StoresOK
      <4>3. QED
        BY <2>3, <2>4, <3>1, <4>2 DEF LengthRead
    <3>2. QED
      BY <1>1, <1>2, <3>1 DEF HasLeaves, ReaderOK, ColdNodes
  <2>10. ASSUME ~overwritten' PROVE Accurate(m + 1)'
    <3>1. Accurate(m) /\ Leaf(m) \in DOMAIN cache
      BY <2>1, <2>2, <2>10 DEF HasLeaves, WritesOK
    <3>2. Exact(m)
      BY <1>7, <2>1, <2>2, <3>1 DEF Accurate
    <3>3. treeLengths[TreeOf(m)] = Filled(m + 1, TreeOf(m)) - 1
      BY <2>3, <2>4, <3>2 DEF Exact
    <3>4. ASSUME NEW t \in Trees \ {TreeOf(m)}
          PROVE  treeLengths[t] \in {Unknown, Filled(m + 1, t)}
      BY <2>4, <3>2 DEF Exact
    <3>5. ButOne(m + 1)'
      BY <2>5, <3>3, <3>4 DEF ButOne
    <3>6. \A i \in 0 .. Limit - 1 : Leaf(i) \notin DOMAIN cache \ DOMAIN db'
      BY <1>2, <2>1, <2>2, <3>1 DEF Accurate
    <3>7. QED
      BY <1>1, <1>2, <3>1, <3>5, <3>6 DEF Accurate
  <2>11. HasLeaves(m + 1)'
    BY <1>5, <2>6, <2>7, <2>8, <2>9, <2>10 DEF HasLeaves
  <2>12. QED
    BY <1>1, <1>3, <2>5, <2>11
<1>8. QED
  BY <1>6, <1>7

\* Looking for the next index refines the lengths; nothing else depends on them.
LEMMA LengthsRefined ==
  ASSUME StoresOK, NEW m \in 0 .. Limit, HasLeaves(m),
         Refines(m, treeLengths'), UNCHANGED <<start, db>>
  PROVE  /\ Gapless(m)' /\ LengthsOK(m)'
         /\ \A j \in 0 .. Limit - 1 :
               treeLengths[TreeOf(j)] # Unknown => treeLengths'[TreeOf(j)] # Unknown
         /\ Exact(m) => Exact(m)'
         /\ ButOne(m) => ButOne(m)'
         /\ \A i \in Requested, length \in Nat :
               Leaf(i) \in DOMAIN db /\ LengthRead(m, i, length) => LengthRead(m, i, length)'
<1>1. Limit' = Limit /\ m \in Nat /\ Limit \in Nat
  BY KnownLengths DEF Limit, HasLeaves
<1>2. ASSUME NEW t \in Trees
      PROVE  /\ Filled(m, t) \in Nat
             /\ treeLengths[t] \in Nat \union {Unknown}
             /\ \/ treeLengths'[t] = treeLengths[t]
                \/ treeLengths[t] = Unknown /\ treeLengths'[t] = Filled(m, t)
             /\ treeLengths'[t] \in Nat \union {Unknown}
  BY KnownLengths DEF Refines, HasLeaves, LengthsOK
<1>3. Gapless(m)'
  BY DEF HasLeaves, Gapless
<1>4. LengthsOK(m)'
  BY <1>2 DEF HasLeaves, LengthsOK, Refines
<1>5. \A j \in 0 .. Limit - 1 : TreeOf(j) \in Trees
  BY LimitType, TreesOfIndices DEF StoresOK
<1>6. \A j \in 0 .. Limit - 1 :
         treeLengths[TreeOf(j)] # Unknown => treeLengths'[TreeOf(j)] # Unknown
  BY <1>2, <1>5
<1>7. Exact(m) => Exact(m)'
  BY <1>2 DEF Exact
<1>8. ButOne(m) => ButOne(m)'
  <2>1. SUFFICES ASSUME ButOne(m) PROVE ButOne(m)'
    OBVIOUS
  <2>2. m - 1 \in Nat /\ m - 1 \in 0 .. Limit - 1 /\ m - 1 < m
    BY <1>1, <2>1 DEF ButOne
  <2>3. TreeOf(m - 1) \in Trees
    BY <1>5, <2>2
  <2>4. treeLengths[TreeOf(m - 1)] # Unknown
    <3>1. IndexIn(m - 1) < Filled(m, TreeOf(m - 1)) /\ IndexIn(m - 1) \in Nat
      BY <1>1, <2>2, FilledIndex, IndexParts, TreeItemsType
    <3>2. QED
      BY <1>2, <2>1, <2>3, <3>1 DEF ButOne, Unknown
  <2>5. QED
    BY <1>2, <2>1, <2>3, <2>4 DEF ButOne
<1>9. ASSUME NEW i \in Requested, NEW length \in Nat, Leaf(i) \in DOMAIN db,
             LengthRead(m, i, length)
      PROVE  LengthRead(m, i, length)'
  <2>1. i \in Nat
    BY ConstantsAssumption
  <2>2. TreeOf(i) \in Trees
    BY <1>9, <2>1, HeldLeaf DEF StoresOK
  <2>3. QED
    BY <1>2, <1>9, <2>2 DEF LengthRead, Unknown
<1>10. QED
  BY <1>3, <1>4, <1>6, <1>7, <1>8, <1>9

\* insertLeaf takes an event for one that exists only if its leaf is stored.
LEMMA SkippedLeafIsStored ==
  ASSUME StoresOK, NEW m \in 0 .. Limit, HasLeaves(m), Accurate(m),
         NEW i \in 0 .. Limit - 1, NEW a \in {1, 2},
         ~IsNextIndex(i), EventExistsInTree(i, LeafHash(i, a))
  PROVE  Leaf(i) \in DOMAIN db
<1> DEFINE x == NodeAt(NextTreeAndIndex[1], 0, i)
           hash == LeafHash(i, a)
<1>1. i \in Nat /\ x[2] = 0 /\ GetNodeHash(x) = hash
  BY LimitType DEF StoresOK, EventExistsInTree, NodeAt
<1>2. ASSUME NEW f, NodesOK(Limit, f), x \in DOMAIN f, f[x] = hash
      PROVE  x = Leaf(i)
  <2>1. LeafOK(Limit, x, hash)
    BY <1>1, <1>2 DEF NodesOK, EntryOK
  <2>2. PICK j \in 0 .. Limit - 1 : x = Leaf(j) /\ hash \in {LeafHash(j, 1), LeafHash(j, 2)}
    BY <2>1 DEF LeafOK
  <2>3. j \in Nat
    OBVIOUS
  <2>4. j = i
    BY <1>1, <2>2, <2>3, LeafHashes
  <2>5. QED
    BY <2>2, <2>4
<1>3. CASE x \in DOMAIN cache
  <2>1. cache[x] = hash
    BY <1>1, <1>3 DEF GetNodeHash
  <2>2. x = Leaf(i)
    BY <1>2, <1>3, <2>1 DEF StoresOK
  <2>3. SUFFICES ASSUME Leaf(i) \notin DOMAIN db PROVE FALSE
    OBVIOUS
  <2>4. i = m /\ Exact(m)
    BY <1>3, <2>2, <2>3 DEF Accurate
  <2>5. NextIndex = m
    BY <2>4, NextIndexAccurate DEF HasLeaves
  <2>6. QED
    BY <2>4, <2>5 DEF IsNextIndex, NextIndex
<1>4. CASE x \in DOMAIN db \ DOMAIN cache
  <2>1. db[x] = hash
    BY <1>1, <1>4 DEF GetNodeHash
  <2>2. x = Leaf(i)
    BY <1>2, <1>4, <2>1 DEF StoresOK
  <2>3. QED
    BY <1>4, <2>2
<1>5. CASE x \notin DOMAIN db /\ x \notin DOMAIN cache
  <2>1. GetNodeHash(x) = Zeros(0)
    BY <1>1, <1>5 DEF GetNodeHash
  <2>2. QED
    BY <1>1, <2>1, LeafHashes
<1>6. QED
  BY <1>3, <1>4, <1>5

\* What insertLeaf does: the leaf is inserted, or nothing but reads and tests.
Inserts(i, a, read) ==
    LET hashes == FillHashWriteGroup(i, LeafHash(i, a))
    IN  /\ IsNextIndex(i) /\ RootIsAccepted(i, hashes)
        /\ cache' = Write(Write(cache, ColdReads(read)), hashes)
        /\ adder' = [pc |-> "nodes", i |-> i] /\ pending' = hashes
        /\ reader' = IF reader = Idle THEN Idle ELSE [reader EXCEPT !.quiet = FALSE]

InsertsNothing(i, a, read) ==
    /\ cache' = Write(Write(cache, ColdReads(read)), Nothing)
    /\ \/ adder' = Idle
       \/ /\ ~IsNextIndex(i) /\ EventExistsInTree(i, LeafHash(i, a))
          /\ adder' = [pc |-> "event", i |-> i]
    /\ UNCHANGED <<pending, reader>>

LEMMA InsertLeafCases ==
  ASSUME NEW i, NEW a, InsertLeaf(i, a)
  PROVE  /\ adder.pc = "idle" /\ Offered(i, a)
         /\ treeLengths' = LengthsRead
         /\ signed' = IF ownList THEN Write(signed, [j \in {i} |-> a]) ELSE signed
         /\ UNCHANGED <<ownList, start, database, stray, overwritten, torn, bounds>>
         /\ \E read : Inserts(i, a, read) \/ InsertsNothing(i, a, read)
<1> DEFINE read == {NodeAt(LatestTree, 0, TreeLength(LatestTree) - 1)} \union Elements(i)
<1>1. Inserts(i, a, read) \/ InsertsNothing(i, a, read)
  BY Zenon DEF InsertLeaf, Inserts, InsertsNothing
<1> HIDE DEF read
<1>2. \E r : Inserts(i, a, r) \/ InsertsNothing(i, a, r)
  BY <1>1
<1>3. /\ adder.pc = "idle" /\ Offered(i, a)
      /\ treeLengths' = LengthsRead
      /\ signed' = IF ownList THEN Write(signed, [j \in {i} |-> a]) ELSE signed
      /\ UNCHANGED <<ownList, start, database, stray, overwritten, torn, bounds>>
  BY Zenon DEF InsertLeaf
<1>4. QED
  BY <1>2, <1>3

LEMMA LeavesInsertLeaf ==
  ASSUME StoresOK, NEW m \in 0 .. Limit, HasLeaves(m),
         NEW i \in Index, NEW a \in {1, 2}, InsertLeaf(i, a)
  PROVE  StoresOK' /\ HasLeaves(m)'
<1> DEFINE hashes == FillHashWriteGroup(i, LeafHash(i, a))
<1>1. /\ adder.pc = "idle" /\ i \in 0 .. Limit - 1
      /\ treeLengths' = LengthsRead
      /\ UNCHANGED <<ownList, start, db, events, stray, overwritten, torn>>
  BY InsertLeafCases DEF Offered, database
<1>2. Limit' = Limit /\ m \in Nat /\ Limit \in Nat /\ start \in Starts
  BY <1>1, KnownLengths DEF Limit, HasLeaves, StoresOK
<1>3. adder = Idle /\ pending = Nothing
  BY <1>1 DEF HasLeaves, AdderOK
<1>4. Refines(m, treeLengths')
      /\ \A t \in Trees : t <= LatestTree + 1 => treeLengths'[t] = TreeLength(t)
  BY <1>1, ReadLengthsRefine DEF HasLeaves
<1>5. PICK read : Inserts(i, a, read) \/ InsertsNothing(i, a, read)
  BY InsertLeafCases
<1> DEFINE warm == Write(cache, ColdReads(read))
<1>6. /\ NodesOK(Limit, warm) /\ DOMAIN cache \subseteq DOMAIN warm
      /\ DOMAIN warm \subseteq DOMAIN cache \union DOMAIN db
  <2>1. NodesOK(Limit, ColdReads(read)) /\ DOMAIN ColdReads(read) \subseteq DOMAIN db
    BY ReadNodes DEF StoresOK
  <2>2. NodesOK(Limit, cache)
    BY DEF StoresOK
  <2>3. NodesOK(Limit, warm)
    BY <2>1, <2>2, WrittenNodes, Zenon
  <2>4. DOMAIN warm = DOMAIN cache \union DOMAIN ColdReads(read)
    BY Zenon DEF Write
  <2> HIDE DEF warm
  <2>5. QED
    BY <2>1, <2>3, <2>4
<1>7. CASE Inserts(i, a, read)
  <2>1. /\ IsNextIndex(i) /\ cache' = Write(warm, hashes)
        /\ adder' = [pc |-> "nodes", i |-> i] /\ pending' = hashes
        /\ reader' = IF reader = Idle THEN Idle ELSE [reader EXCEPT !.quiet = FALSE]
    BY <1>7 DEF Inserts
  <2>2. NodesOK(Limit, hashes) /\ DOMAIN hashes = Path(i)
    BY <1>1, <1>2, FilledPath DEF StoresOK
  <2> HIDE DEF hashes, warm
  <2>3. NodesOK(Limit, cache') /\ DOMAIN cache' = DOMAIN warm \union Path(i)
    <3>1. NodesOK(Limit, cache')
      BY <1>6, <2>1, <2>2, WrittenNodes, Zenon
    <3>2. DOMAIN cache' = DOMAIN warm \union DOMAIN hashes
      BY <2>1, Zenon DEF Write
    <3>3. QED
      BY <2>2, <3>1, <3>2
  <2>4. StoresOK'
    BY <1>1, <1>2, <2>1, <2>2, <2>3 DEF StoresOK
  <2>5. i = NextIndex
    BY <2>1 DEF IsNextIndex, NextIndex
  <2>6. /\ i \in 0 .. m /\ TreeOf(i) \in Trees
        /\ treeLengths'[TreeOf(i)] = IndexIn(i) /\ IndexIn(i) \in Nat
    <3>1. \A t \in Trees : TreeLength(t) \in 0 .. Filled(m, t)
      BY KnownLengths DEF HasLeaves
    <3>2. /\ i \in 0 .. m /\ TreeOf(i) \in Trees /\ TreeOf(i) <= LatestTree + 1
          /\ TreeLength(TreeOf(i)) = IndexIn(i)
      BY <1>2, <2>5, <3>1, NextIndexBound
    <3>3. IndexIn(i) \in Nat
      BY <1>2, <3>2, IndexParts, TreeItemsType
    <3>4. QED
      BY <1>4, <3>2, <3>3
  <2>7. /\ Leaf(i) \in Path(i)
        /\ \A j \in 0 .. Limit - 1 : Leaf(j) \in Path(i) => j = i
    <3>1. \A n \in Path(i) : n[2] = 0 => n = Leaf(i)
      BY PathNodes
    <3>2. Leaf(i) \in Path(i)
      BY PathNodes
    <3>3. ASSUME NEW j \in 0 .. Limit - 1, Leaf(j) \in Path(i) PROVE j = i
      <4>1. Leaf(j)[2] = 0
        BY DEF Leaf, NodeAt
      <4>2. Leaf(j) = Leaf(i)
        BY <3>1, <3>3, <4>1
      <4>3. j \in Nat /\ i \in Nat
        BY <1>1, <1>2
      <4>4. QED
        BY <4>2, <4>3, LeafInjective
    <3>4. QED
      BY <3>2, <3>3
  <2>8. /\ Gapless(m)' /\ LengthsOK(m)'
        /\ (Exact(m) => Exact(m)') /\ (ButOne(m) => ButOne(m)')
        /\ \A j \in 0 .. Limit - 1 :
              treeLengths[TreeOf(j)] # Unknown => treeLengths'[TreeOf(j)] # Unknown
        /\ \A k \in Requested, length \in Nat :
              Leaf(k) \in DOMAIN db /\ LengthRead(m, k, length) => LengthRead(m, k, length)'
    BY <1>1, <1>4, LengthsRefined
  <2>9. WritesOK(m)'
    <3>1. Unwritten' = Path(i) \union {w[1] : w \in stray}
      BY <1>1, <2>1, <2>2 DEF Unwritten
    <3>2. Unwritten' \subseteq DOMAIN cache'
      BY <1>6, <2>3, <3>1 DEF HasLeaves, WritesOK, Unwritten
    <3>3. ASSUME NEW j \in 0 .. Limit - 1, Leaf(j) \in Unwritten'
          PROVE  j <= m /\ treeLengths'[TreeOf(j)] # Unknown
      <4>1. CASE Leaf(j) \in Path(i)
        BY <1>2, <2>6, <2>7, <4>1 DEF Unknown
      <4>2. CASE Leaf(j) \in {w[1] : w \in stray}
        BY <2>8, <4>2 DEF HasLeaves, WritesOK, Unwritten
      <4>3. QED
        BY <3>1, <3>3, <4>1, <4>2
    <3>4. QED
      BY <1>2, <3>2, <3>3 DEF WritesOK
  <2>10. AdderOK'
    BY <1>1, <1>2, <2>1, <2>2, <2>6, <2>7 DEF AdderOK
  <2>11. ReaderOK(m)'
    <3>1. CASE reader = Idle
      BY <2>1, <3>1 DEF ReaderOK, Idle
    <3>2. CASE reader # Idle
      <4>1. reader.pc # "idle" /\ {"pc", "i", "quiet", "cold"} \subseteq DOMAIN reader
        BY <3>2 DEF HasLeaves, ReaderOK
      <4>2. reader' = [reader EXCEPT !.quiet = FALSE]
        BY <2>1, <3>2
      <4>3. /\ DOMAIN reader' = DOMAIN reader
            /\ \A x \in DOMAIN reader \ {"quiet"} : reader'[x] = reader[x]
        BY <4>2
      <4>4. QED
        BY <1>1, <1>2, <2>8, <4>1, <4>3 DEF HasLeaves, ReaderOK, ColdNodes
    <3>3. QED
      BY <3>1, <3>2
  <2>12. ASSUME ~overwritten' PROVE Accurate(m)'
    <3>1. Accurate(m)
      BY <1>1, <2>12 DEF HasLeaves
    <3>2. (Exact(m) => i = m) /\ (ButOne(m) => i = m - 1)
      BY <2>5, NextIndexAccurate DEF HasLeaves
    <3>3. ASSUME NEW j \in 0 .. Limit - 1, Leaf(j) \in DOMAIN cache' \ DOMAIN db'
          PROVE  j = m /\ Exact(m)'
      <4>1. CASE Leaf(j) \in DOMAIN cache \ DOMAIN db
        BY <2>8, <3>1, <4>1 DEF Accurate
      <4>2. CASE Leaf(j) \in Path(i)
        <5>1. j = i /\ Leaf(i) \notin DOMAIN db
          BY <1>1, <2>7, <3>3, <4>2
        <5>2. ~(i < m)
          BY <1>1, <1>2, <5>1 DEF HasLeaves, Gapless
        <5>3. Exact(m)
          BY <1>2, <3>1, <3>2, <5>2 DEF Accurate
        <5>4. QED
          BY <2>8, <3>2, <5>1, <5>3
      <4>3. QED
        BY <1>1, <1>6, <2>3, <3>3, <4>1, <4>2
    <3>4. adder'.pc = "nodes" /\ adder'.i = i
      BY <2>1
    <3>5. QED
      BY <1>1, <1>2, <2>6, <2>8, <3>1, <3>3, <3>4 DEF Accurate
  <2>13. QED
    BY <2>4, <2>8, <2>9, <2>10, <2>11, <2>12 DEF HasLeaves
<1>8. CASE InsertsNothing(i, a, read)
  <2>1. /\ cache' = Write(warm, Nothing) /\ UNCHANGED <<pending, reader>>
        /\ \/ adder' = Idle
           \/ /\ ~IsNextIndex(i) /\ EventExistsInTree(i, LeafHash(i, a))
              /\ adder' = [pc |-> "event", i |-> i]
    BY <1>8 DEF InsertsNothing
  <2> HIDE DEF hashes, warm
  <2>2. NodesOK(Limit, cache') /\ DOMAIN cache' = DOMAIN warm
    <3>1. NodesOK(Limit, Nothing) /\ DOMAIN Nothing = {}
      BY NothingIsNodes
    <3>2. NodesOK(Limit, cache')
      BY <1>6, <2>1, <3>1, WrittenNodes, Zenon
    <3>3. DOMAIN cache' = DOMAIN warm \union DOMAIN Nothing
      BY <2>1, Zenon DEF Write
    <3>4. QED
      BY <3>1, <3>2, <3>3
  <2>3. StoresOK'
    BY <1>1, <1>2, <2>1, <2>2 DEF StoresOK
  <2>4. /\ Gapless(m)' /\ LengthsOK(m)'
        /\ (Exact(m) => Exact(m)') /\ (ButOne(m) => ButOne(m)')
        /\ \A j \in 0 .. Limit - 1 :
              treeLengths[TreeOf(j)] # Unknown => treeLengths'[TreeOf(j)] # Unknown
        /\ \A k \in Requested, length \in Nat :
              Leaf(k) \in DOMAIN db /\ LengthRead(m, k, length) => LengthRead(m, k, length)'
    BY <1>1, <1>4, LengthsRefined
  <2>5. WritesOK(m)'
    BY <1>1, <1>2, <1>6, <2>1, <2>2, <2>4 DEF HasLeaves, WritesOK, Unwritten
  <2>6. AdderOK'
    BY <1>1, <1>2, <1>3, <2>1 DEF AdderOK
  <2>7. ReaderOK(m)'
    BY <1>1, <1>2, <2>1, <2>4 DEF HasLeaves, ReaderOK, ColdNodes
  <2>8. ASSUME ~overwritten' PROVE Accurate(m)'
    <3>1. Accurate(m)
      BY <1>1, <2>8 DEF HasLeaves
    <3>2. \A j \in 0 .. Limit - 1 : Leaf(j) \in DOMAIN cache' \ DOMAIN db' => j = m /\ Exact(m)'
      BY <1>1, <1>6, <2>2, <2>4, <3>1 DEF Accurate
    <3>3. adder'.pc # "nodes" /\ (adder'.pc = "event" => Leaf(adder'.i) \in DOMAIN db)
      <4>1. CASE adder' = Idle
        BY <4>1 DEF Idle
      <4>2. CASE adder' # Idle
        <5>1. Leaf(i) \in DOMAIN db
          BY <1>1, <2>1, <3>1, <4>2, SkippedLeafIsStored
        <5>2. QED
          BY <2>1, <4>2, <5>1
      <4>3. QED
        BY <4>1, <4>2
    <3>4. QED
      BY <1>1, <1>2, <2>4, <3>1, <3>2, <3>3 DEF Accurate
  <2>9. QED
    BY <2>3, <2>4, <2>5, <2>6, <2>7, <2>8 DEF HasLeaves
<1>9. QED
  BY <1>5, <1>7, <1>8

LEMMA LeavesWriteNode ==
  ASSUME StoresOK, NEW m \in 0 .. Limit, HasLeaves(m),
         NEW n \in DOMAIN pending, WriteNode(n)
  PROVE  LeavesInv'
<1>1. /\ InsertMerkletreeNode(n, pending[n])
      /\ pending' = Restrict(pending, DOMAIN pending \ {n})
      /\ UNCHANGED <<ownList, start, events, memory, adder, stray, reader, overwritten, torn>>
  BY Zenon DEF WriteNode
<1>2. Limit' = Limit
  BY <1>1 DEF Limit
<1>3. NodesOK(Limit, pending) /\ n \in Unwritten
  BY DEF StoresOK, Unwritten
<1>4. NodesOK(Limit, pending') /\ DOMAIN pending' = DOMAIN pending \ {n}
  BY <1>1, <1>3, RestrictedNodes
<1>5. EntryOK(Limit, n, pending[n])
  BY <1>3 DEF NodesOK
<1>6. NodesOK(Limit, pending)'
  BY <1>2, <1>4
<1>7. pending # Nothing
  BY DEF Nothing
<1>8. /\ DOMAIN pending' \subseteq DOMAIN pending
      /\ DOMAIN pending \subseteq DOMAIN pending' \union {n}
      /\ stray' \subseteq stray
  BY <1>1, <1>4
<1>9. QED
  BY <1>1, <1>3, <1>5, <1>6, <1>7, <1>8, NodeWritten, Zenon DEF LeavesInv

LEMMA LeavesStrayWrite ==
  ASSUME StoresOK, NEW m \in 0 .. Limit, HasLeaves(m),
         NEW w \in stray, StrayWrite(w)
  PROVE  LeavesInv'
<1>1. /\ InsertMerkletreeNode(w[1], w[2])
      /\ stray' = stray \ {w}
      /\ UNCHANGED <<ownList, start, events, memory, adder, pending, reader, overwritten, torn>>
  BY Zenon DEF StrayWrite
<1>2. Limit' = Limit
  BY <1>1 DEF Limit
<1>3. w[1] \in Unwritten /\ EntryOK(Limit, w[1], w[2])
  BY DEF StoresOK, Unwritten
<1>4. NodesOK(Limit, pending)'
  BY <1>1, <1>2 DEF StoresOK
<1>5. /\ DOMAIN pending' \subseteq DOMAIN pending
      /\ DOMAIN pending \subseteq DOMAIN pending' \union {w[1]}
      /\ stray' \subseteq stray /\ (pending = Nothing => pending' = Nothing)
  BY <1>1
<1>6. QED
  BY <1>1, <1>3, <1>4, <1>5, NodeWritten, Zenon DEF LeavesInv

LEMMA LeavesRejectWrite ==
  ASSUME StoresOK, NEW m \in 0 .. Limit, HasLeaves(m),
         NEW n \in DOMAIN pending, RejectWrite(n)
  PROVE  LeavesInv'
<1>1. /\ stray' = stray \union {<<x, pending[x]>> : x \in DOMAIN pending \ {n}}
      /\ pending' = Nothing /\ adder' = Idle
      /\ UNCHANGED <<ownList, start, db, events, cache, treeLengths, reader, overwritten, torn>>
  BY DEF RejectWrite, database, memory
<1>2. Limit' = Limit /\ m \in Nat /\ Limit \in Nat
  BY <1>1, KnownLengths DEF Limit, HasLeaves
<1>3. NodesOK(Limit, Nothing) /\ DOMAIN Nothing = {}
  BY NothingIsNodes
<1>4. \A w \in stray' : w = <<w[1], w[2]>> /\ EntryOK(Limit, w[1], w[2])
  BY <1>1 DEF StoresOK, NodesOK
<1>5. StoresOK'
  BY <1>1, <1>2, <1>3, <1>4 DEF StoresOK
<1>6. Unwritten' \subseteq Unwritten
  BY <1>1, <1>3 DEF Unwritten
<1>7. WritesOK(m)'
  BY <1>1, <1>2, <1>6 DEF HasLeaves, WritesOK
<1>8. Gapless(m)' /\ LengthsOK(m)' /\ AdderOK' /\ ReaderOK(m)'
  BY <1>1, <1>2 DEF HasLeaves, Gapless, LengthsOK, AdderOK, ReaderOK, LengthRead, ColdNodes
<1>9. ~overwritten' => Accurate(m)'
  BY <1>1, <1>2 DEF HasLeaves, Accurate, Exact, ButOne, Idle
<1>10. QED
  BY <1>1, <1>2, <1>5, <1>7, <1>8, <1>9 DEF HasLeaves, LeavesInv

\* The merkleroot is inserted and the cached length of its tree is one more.
LEMMA LeavesInsertMerkleroot ==
  ASSUME StoresOK, NEW m \in 0 .. Limit, HasLeaves(m), InsertMerkleroot
  PROVE  LeavesInv'
<1> DEFINE i == adder.i
           T == TreeOf(i)
<1>1. /\ adder.pc = "nodes" /\ pending = Nothing
      /\ treeLengths' = [treeLengths EXCEPT ![T] = @ + 1]
      /\ adder' = [adder EXCEPT !.pc = "event"]
      /\ UNCHANGED <<ownList, start, db, events, cache, pending, stray, reader, overwritten, torn>>
  BY DEF InsertMerkleroot
<1>2. Limit' = Limit /\ m \in Nat /\ Limit \in Nat
  BY <1>1, KnownLengths DEF Limit, HasLeaves
<1>3. /\ i \in 0 .. Limit - 1 /\ adder = [pc |-> "nodes", i |-> i]
      /\ treeLengths[T] \in 0 .. IndexIn(i) /\ Leaf(i) \in DOMAIN db
  BY <1>1 DEF HasLeaves, AdderOK, Idle, Nothing
<1> HIDE DEF i
<1>4. i \in Nat /\ T \in Trees /\ IndexIn(i) \in Nat
  BY <1>3, LimitType, TreesOfIndices, IndexParts, TreeItemsType DEF StoresOK
<1>5. i < m
  <2>1. Leaf(i)[2] = 0
    BY DEF Leaf, NodeAt
  <2>2. PICK j \in 0 .. m - 1 : Leaf(i) = Leaf(j)
    BY <1>3, <2>1 DEF HasLeaves, Gapless
  <2>3. j \in Nat /\ j < m
    BY <1>2
  <2>4. QED
    BY <1>4, <2>2, <2>3, LeafInjective
<1>6. IndexIn(i) < Filled(m, T) /\ Filled(m, T) \in Nat
  BY <1>2, <1>4, <1>5, FilledIndex, KnownLengths DEF HasLeaves
<1> HIDE DEF T
<1>7. /\ treeLengths'[T] = treeLengths[T] + 1
      /\ treeLengths'[T] \in Nat /\ treeLengths'[T] <= Filled(m, T)
      /\ treeLengths[T] # Unknown /\ treeLengths'[T] # Unknown
      /\ \A t \in Trees \ {T} : treeLengths'[t] = treeLengths[t]
      /\ treeLengths' \in [Trees -> Nat \union {Unknown}]
  BY <1>1, <1>3, <1>4, <1>6 DEF HasLeaves, LengthsOK, Unknown
<1>8. adder' = [pc |-> "event", i |-> i]
  BY <1>1, <1>3
<1>9. StoresOK'
  BY <1>1, <1>2 DEF StoresOK
<1>10. Gapless(m)' /\ AdderOK'
  BY <1>1, <1>2, <1>3, <1>8 DEF HasLeaves, Gapless, AdderOK
<1>11. LengthsOK(m)'
  BY <1>1, <1>7 DEF HasLeaves, LengthsOK
<1>12. \A j \in 0 .. Limit - 1 : TreeOf(j) \in Trees
  BY LimitType, TreesOfIndices DEF StoresOK
<1>13. WritesOK(m)'
  BY <1>1, <1>2, <1>7, <1>12 DEF HasLeaves, WritesOK, Unwritten
<1>14. ReaderOK(m)'
  <2>1. ASSUME NEW k \in Requested, Leaf(k) \in DOMAIN db, NEW length \in Nat,
               LengthRead(m, k, length)
        PROVE  LengthRead(m, k, length)'
    <3>1. k \in Nat
      BY ConstantsAssumption
    <3>2. TreeOf(k) \in Trees
      BY <2>1, <3>1, HeldLeaf DEF StoresOK
    <3>3. CASE TreeOf(k) = T
      BY <1>7, <1>3, <2>1, <3>3 DEF LengthRead
    <3>4. CASE TreeOf(k) # T
      BY <1>7, <2>1, <3>2, <3>4 DEF LengthRead
    <3>5. QED
      BY <3>3, <3>4
  <2>2. QED
    BY <1>1, <1>2, <2>1 DEF HasLeaves, ReaderOK, ColdNodes
<1>15. ASSUME ~overwritten' PROVE Accurate(m)'
  <2>1. Accurate(m) /\ treeLengths[T] = IndexIn(i)
    BY <1>1, <1>15 DEF HasLeaves, Accurate, i, T
  <2>2. ~Exact(m)
    BY <1>4, <1>6, <1>7, <2>1 DEF Exact
  <2>3. ButOne(m) /\ T = TreeOf(m - 1)
    BY <1>4, <1>6, <1>7, <2>1, <2>2 DEF Accurate, ButOne
  <2>4. Exact(m)'
    BY <1>6, <1>7, <2>3 DEF ButOne, Exact
  <2>5. QED
    BY <1>1, <1>2, <1>3, <1>8, <2>1, <2>2, <2>4 DEF Accurate
<1>16. HasLeaves(m)'
  BY <1>10, <1>11, <1>13, <1>14, <1>15 DEF HasLeaves
<1>17. QED
  BY <1>2, <1>9, <1>16 DEF LeavesInv

LEMMA LeavesRejectMerkleroot ==
  ASSUME StoresOK, NEW m \in 0 .. Limit, HasLeaves(m), RejectMerkleroot
  PROVE  LeavesInv'
<1>1. /\ pending = Nothing /\ adder' = Idle
      /\ UNCHANGED <<ownList, start, db, events, cache, treeLengths, pending, stray, reader,
                     overwritten, torn>>
  BY DEF RejectMerkleroot, database, memory
<1>2. Limit' = Limit
  BY <1>1 DEF Limit
<1>3. StoresOK'
  BY <1>1, <1>2 DEF StoresOK
<1>4. Gapless(m)' /\ LengthsOK(m)' /\ WritesOK(m)' /\ AdderOK' /\ ReaderOK(m)'
  BY <1>1, <1>2 DEF HasLeaves, Gapless, LengthsOK, WritesOK, Unwritten, AdderOK, ReaderOK,
                    LengthRead, ColdNodes
<1>5. ~overwritten' => Accurate(m)'
  BY <1>1, <1>2 DEF HasLeaves, Accurate, Exact, ButOne, Idle
<1>6. QED
  BY <1>2, <1>3, <1>4, <1>5 DEF HasLeaves, LeavesInv

LEMMA LeavesStoreEvent ==
  ASSUME StoresOK, NEW m \in 0 .. Limit, HasLeaves(m), StoreEvent
  PROVE  LeavesInv'
<1>1. /\ adder.pc = "event" /\ events' = events \union {adder.i} /\ adder' = Idle
      /\ UNCHANGED <<ownList, start, db, cache, treeLengths, pending, stray, reader,
                     overwritten, torn>>
  BY DEF StoreEvent, memory
<1>2. Limit' = Limit
  BY <1>1 DEF Limit
<1>3. adder.i \in 0 .. Limit - 1 /\ pending = Nothing
  BY <1>1 DEF HasLeaves, AdderOK, Idle
<1>4. StoresOK'
  BY <1>1, <1>2, <1>3 DEF StoresOK
<1>5. Gapless(m)' /\ LengthsOK(m)' /\ WritesOK(m)' /\ AdderOK' /\ ReaderOK(m)'
  BY <1>1, <1>2, <1>3 DEF HasLeaves, Gapless, LengthsOK, WritesOK, Unwritten, AdderOK,
                          ReaderOK, LengthRead, ColdNodes
<1>6. ~overwritten' => Accurate(m)'
  BY <1>1, <1>2 DEF HasLeaves, Accurate, Exact, ButOne, Idle
<1>7. QED
  BY <1>2, <1>4, <1>5, <1>6 DEF HasLeaves, LeavesInv

--------------------------------------------------------------------------------
(* Steps of a request for a proof, restarts.                                 *)

\* Steps of a reader that leave the lengths alone: what they bring home is stored.
LEMMA ReaderStep ==
  ASSUME StoresOK, NEW m \in 0 .. Limit, HasLeaves(m),
         UNCHANGED <<ownList, start, db, events, treeLengths, adder, pending, stray, torn>>,
         overwritten' \in BOOLEAN, overwritten => overwritten',
         NodesOK(Limit, cache'), DOMAIN cache \subseteq DOMAIN cache',
         DOMAIN cache' \subseteq DOMAIN cache \union DOMAIN db,
         ReaderOK(m)'
  PROVE  LeavesInv'
<1>1. Limit' = Limit
  BY DEF Limit
<1>2. StoresOK'
  BY <1>1 DEF StoresOK
<1>3. Gapless(m)' /\ LengthsOK(m)' /\ WritesOK(m)' /\ AdderOK'
  BY <1>1 DEF HasLeaves, Gapless, LengthsOK, WritesOK, Unwritten, AdderOK
<1>4. ~overwritten' => Accurate(m)'
  BY <1>1 DEF HasLeaves, Accurate, Exact, ButOne
<1>5. QED
  BY <1>1, <1>2, <1>3, <1>4 DEF HasLeaves, LeavesInv

LEMMA LeavesRequestProof ==
  ASSUME StoresOK, NEW m \in 0 .. Limit, HasLeaves(m), NEW i \in Requested, RequestProof(i)
  PROVE  LeavesInv'
<1> DEFINE T == TreeOf(i)
<1>1. /\ Leaf(i) \in DOMAIN db
      /\ reader' = [pc |-> "length", i |-> i, quiet |-> TRUE, length |-> TreeLength(T),
                    cold |-> treeLengths[T] = Unknown]
      /\ UNCHANGED <<ownList, start, db, events, cache, treeLengths, adder, pending, stray,
                     overwritten, torn>>
  BY DEF RequestProof, database, memory, inserting
<1>2. T \in Trees /\ Limit' = Limit
  <2>1. i \in Nat
    BY ConstantsAssumption
  <2>2. QED
    BY <1>1, <2>1, HeldLeaf DEF StoresOK, Limit
<1>3. /\ TreeLength(T) = IF treeLengths[T] = Unknown THEN Filled(m, T) ELSE treeLengths[T]
      /\ TreeLength(T) \in 0 .. Filled(m, T) /\ Filled(m, T) \in Nat
  BY <1>2, KnownLengths DEF HasLeaves
<1>4. PICK length \in Nat : length = TreeLength(T)
  BY <1>3
<1>5. ReaderOK(m)'
  <2>1. /\ reader'.pc = "length" /\ DOMAIN reader' = {"pc", "i", "quiet", "length", "cold"}
        /\ reader'.i = i /\ reader'.length = length
        /\ reader'.cold = (treeLengths[T] = Unknown)
    BY <1>1, <1>4
  <2>2. treeLengths[T] = Unknown => LengthRead(m, i, length)
    BY <1>3, <1>4 DEF LengthRead
  <2>3. LengthRead(m, i, length)' <=> LengthRead(m, i, length)
    BY <1>1 DEF LengthRead
  <2> HIDE DEF T
  <2>4. reader'.cold => LengthRead(m, i, length)'
    BY <2>1, <2>2, <2>3
  <2>5. QED
    BY <1>1, <2>1, <2>4 DEF ReaderOK
<1>6. overwritten' \in BOOLEAN /\ NodesOK(Limit, cache')
  BY <1>1 DEF StoresOK
<1>7. QED
  BY <1>1, <1>5, <1>6, ReaderStep

\* What FetchRoot and ReturnProof cache was read from the database.
LEMMA CachedReads ==
  ASSUME StoresOK, NEW m, HasLeaves(m),
         reader.pc \in {"elements", "root"}, Cache(reader.cold)
  PROVE  /\ NodesOK(Limit, cache')
         /\ DOMAIN cache' = DOMAIN cache \union DOMAIN reader.cold
         /\ DOMAIN reader.cold \subseteq DOMAIN db
         /\ overwritten' \in BOOLEAN /\ (overwritten => overwritten')
<1> DEFINE cold == reader.cold
<1>1. NodesOK(Limit, cold) /\ DOMAIN cold \subseteq DOMAIN db
  BY DEF HasLeaves, ReaderOK, ColdNodes
<1>2. cache' = Write(cache, cold)
  BY DEF Cache
<1>3. overwritten' \in BOOLEAN /\ (overwritten => overwritten')
  BY DEF Cache, StoresOK
<1>4. NodesOK(Limit, cache)
  BY DEF StoresOK
<1> HIDE DEF cold
<1>5. NodesOK(Limit, cache')
  BY <1>1, <1>2, <1>4, WrittenNodes, Zenon
<1>6. DOMAIN cache' = DOMAIN cache \union DOMAIN cold
  BY <1>2, Zenon DEF Write
<1>7. QED
  BY <1>1, <1>3, <1>5, <1>6 DEF cold

LEMMA LeavesFetchRoot ==
  ASSUME StoresOK, NEW m \in 0 .. Limit, HasLeaves(m), FetchRoot
  PROVE  LeavesInv'
<1> DEFINE root == Root(TreeOf(reader.i))
           cold == ColdReads({root})
<1>1. /\ reader.pc = "elements" /\ Cache(reader.cold)
      /\ reader' = [pc |-> "root", i |-> reader.i, quiet |-> reader.quiet,
                    elements |-> reader.elements, root |-> GetNodeHash(root), cold |-> cold]
      /\ UNCHANGED <<ownList, start, db, events, treeLengths, adder, pending, stray, torn>>
  BY DEF FetchRoot, database, inserting
<1>2. Limit' = Limit
  BY <1>1 DEF Limit
<1>3. NodesOK(Limit, cold) /\ DOMAIN cold \subseteq DOMAIN db
  BY ReadNodes DEF StoresOK
<1> HIDE DEF root, cold
<1>4. reader.i \in Requested /\ Leaf(reader.i) \in DOMAIN db
  BY <1>1 DEF HasLeaves, ReaderOK
<1>5. ReaderOK(m)'
  <2>1. /\ reader'.pc = "root" /\ reader'.i = reader.i /\ reader'.cold = cold
        /\ DOMAIN reader' = {"pc", "i", "quiet", "elements", "root", "cold"}
    BY <1>1
  <2>2. QED
    BY <1>1, <1>2, <1>3, <1>4, <2>1 DEF ReaderOK, ColdNodes
<1>6. QED
  BY <1>1, <1>5, CachedReads, ReaderStep

LEMMA LeavesReturnProof ==
  ASSUME StoresOK, NEW m \in 0 .. Limit, HasLeaves(m), ReturnProof
  PROVE  LeavesInv'
<1>1. /\ reader.pc = "root" /\ Cache(reader.cold)
      /\ reader' = [reader EXCEPT !.pc = "proof", !.cold = Nothing]
      /\ UNCHANGED <<ownList, start, db, events, treeLengths, adder, pending, stray, torn>>
  BY DEF ReturnProof, database, inserting
<1>2. Limit' = Limit
  BY <1>1 DEF Limit
<1>3. NodesOK(Limit, Nothing) /\ DOMAIN Nothing = {}
  BY NothingIsNodes
<1>4. /\ reader.i \in Requested /\ Leaf(reader.i) \in DOMAIN db
      /\ {"pc", "i", "quiet", "elements", "root", "cold"} \subseteq DOMAIN reader
  BY <1>1 DEF HasLeaves, ReaderOK
<1>5. ReaderOK(m)'
  <2>1. /\ reader'.pc = "proof" /\ reader'.i = reader.i /\ reader'.cold = Nothing
        /\ DOMAIN reader' = DOMAIN reader
    BY <1>1, <1>4
  <2>2. QED
    BY <1>1, <1>2, <1>3, <1>4, <2>1 DEF ReaderOK, ColdNodes
<1>6. QED
  BY <1>1, <1>5, CachedReads, ReaderStep

LEMMA LeavesAnswer ==
  ASSUME StoresOK, NEW m \in 0 .. Limit, HasLeaves(m), Answer
  PROVE  LeavesInv'
<1>1. /\ reader' = Idle
      /\ UNCHANGED <<ownList, start, db, events, cache, treeLengths, adder, pending, stray,
                     overwritten, torn>>
  BY DEF Answer, database, memory, inserting
<1>2. ReaderOK(m)' /\ overwritten' \in BOOLEAN /\ NodesOK(Limit, cache')
  BY <1>1 DEF ReaderOK, Idle, StoresOK
<1>3. QED
  BY <1>1, <1>2, ReaderStep

\* A length that was read before an insertion goes into the cache: it is no longer
\* than what is there, or counts the leaves of a tree that nothing was added to.
LEMMA LeavesFetchElements ==
  ASSUME StoresOK, NEW m \in 0 .. Limit, HasLeaves(m), FetchElements
  PROVE  LeavesInv'
<1> DEFINE T == TreeOf(reader.i)
           nodes == Elements(reader.i) \union {Leaf(reader.i)}
           cold == ColdReads(nodes)
<1>1. /\ reader.pc = "length"
      /\ treeLengths' = IF reader.cold THEN [treeLengths EXCEPT ![T] = reader.length]
                                       ELSE treeLengths
      /\ overwritten' = (overwritten \/ treeLengths'[T] < treeLengths[T])
      /\ reader' = IF IndexIn(reader.i) >= reader.length THEN Idle
                   ELSE [pc |-> "elements", i |-> reader.i, quiet |-> TRUE,
                         elements |-> [n \in nodes |-> GetNodeHash(n)], cold |-> cold]
      /\ UNCHANGED <<ownList, start, db, events, cache, adder, pending, stray, torn>>
  BY DEF FetchElements, database, inserting
<1>2. Limit' = Limit /\ m \in Nat /\ Limit \in Nat
  BY <1>1, KnownLengths DEF Limit, HasLeaves
<1>3. /\ reader.i \in Requested /\ Leaf(reader.i) \in DOMAIN db /\ reader.length \in Nat
      /\ reader.cold => LengthRead(m, reader.i, reader.length)
  BY <1>1 DEF HasLeaves, ReaderOK
<1>4. T \in Trees
  <2>1. reader.i \in Nat
    BY <1>3, ConstantsAssumption
  <2>2. QED
    BY <1>3, <2>1, HeldLeaf DEF StoresOK
<1>5. NodesOK(Limit, cold) /\ DOMAIN cold \subseteq DOMAIN db
  BY ReadNodes DEF StoresOK
<1> HIDE DEF nodes, cold
<1>6. ReaderOK(m)'
  <2>1. CASE IndexIn(reader.i) >= reader.length
    BY <1>1, <2>1 DEF ReaderOK, Idle
  <2>2. CASE ~(IndexIn(reader.i) >= reader.length)
    <3>1. /\ reader'.pc = "elements" /\ reader'.i = reader.i /\ reader'.cold = cold
          /\ DOMAIN reader' = {"pc", "i", "quiet", "elements", "cold"}
      BY <1>1, <2>2
    <3>2. QED
      BY <1>1, <1>2, <1>3, <1>5, <3>1 DEF ReaderOK, ColdNodes
  <2>3. QED
    BY <2>1, <2>2
<1>7. overwritten' \in BOOLEAN
  BY <1>1 DEF StoresOK
<1>8. treeLengths \in [Trees -> Nat \union {Unknown}] /\ treeLengths[T] \in Nat \union {Unknown}
  BY <1>4 DEF HasLeaves, LengthsOK
<1>9. CASE treeLengths' = treeLengths
  <2>1. StoresOK'
    BY <1>1, <1>2, <1>7 DEF StoresOK
  <2>2. Gapless(m)' /\ LengthsOK(m)' /\ WritesOK(m)' /\ AdderOK'
    BY <1>1, <1>2, <1>9 DEF HasLeaves, Gapless, LengthsOK, WritesOK, Unwritten, AdderOK
  <2>3. ~overwritten' => Accurate(m)'
    BY <1>1, <1>2, <1>9 DEF HasLeaves, Accurate, Exact, ButOne
  <2>4. QED
    BY <1>2, <1>6, <2>1, <2>2, <2>3 DEF HasLeaves, LeavesInv
<1>10. CASE treeLengths' # treeLengths
  <2> HIDE DEF T
  <2>1. /\ reader.cold /\ treeLengths' = [treeLengths EXCEPT ![T] = reader.length]
        /\ treeLengths'[T] = reader.length
        /\ \A t \in Trees \ {T} : treeLengths'[t] = treeLengths[t]
        /\ treeLengths' \in [Trees -> Nat \union {Unknown}]
    BY <1>1, <1>3, <1>4, <1>8, <1>10
  <2>2. IF treeLengths[T] = Unknown THEN reader.length = Filled(m, T)
                                    ELSE reader.length <= treeLengths[T]
    BY <1>3, <2>1 DEF LengthRead, T
  <2>3. Filled(m, T) \in Nat
    BY <1>4, KnownLengths DEF HasLeaves
  <2>4. StoresOK'
    BY <1>1, <1>2, <1>7 DEF StoresOK
  <2>5. Gapless(m)'
    BY <1>1 DEF HasLeaves, Gapless
  <2>6. LengthsOK(m)'
    <3>1. ASSUME NEW t \in Trees
          PROVE  treeLengths'[t] = Unknown \/ treeLengths'[t] <= Filled(m, t)
      <4>1. treeLengths[t] = Unknown \/ treeLengths[t] <= Filled(m, t)
        BY DEF HasLeaves, LengthsOK
      <4>2. CASE t # T
        BY <2>1, <4>1, <4>2
      <4>3. CASE t = T
        BY <1>3, <1>8, <2>1, <2>2, <2>3, <4>1, <4>3
      <4>4. QED
        BY <4>2, <4>3
    <3>2. QED
      BY <2>1, <3>1 DEF LengthsOK
  <2>7. \A j \in 0 .. Limit - 1 :
           treeLengths[TreeOf(j)] # Unknown => treeLengths'[TreeOf(j)] # Unknown
    <3>1. \A j \in 0 .. Limit - 1 : TreeOf(j) \in Trees
      BY LimitType, TreesOfIndices DEF StoresOK
    <3>2. treeLengths'[T] # Unknown
      BY <1>3, <2>1 DEF Unknown
    <3>3. QED
      BY <2>1, <3>1, <3>2
  <2>8. WritesOK(m)'
    BY <1>1, <1>2, <2>7 DEF HasLeaves, WritesOK, Unwritten
  <2>9. AdderOK'
    <3>1. ASSUME NEW i \in 0 .. Limit - 1, treeLengths[TreeOf(i)] \in 0 .. IndexIn(i)
          PROVE  treeLengths'[TreeOf(i)] \in 0 .. IndexIn(i)
      <4>1. TreeOf(i) \in Trees /\ IndexIn(i) \in Nat
        BY LimitType, TreesOfIndices, IndexParts, TreeItemsType DEF StoresOK
      <4>2. CASE TreeOf(i) # T
        BY <2>1, <3>1, <4>1, <4>2
      <4>3. CASE TreeOf(i) = T
        BY <1>3, <2>1, <2>2, <3>1, <4>1, <4>3 DEF Unknown
      <4>4. QED
        BY <4>2, <4>3
    <3>2. QED
      BY <1>1, <1>2, <3>1 DEF HasLeaves, AdderOK
  <2>10. ASSUME ~overwritten' PROVE Accurate(m)'
    <3>1. Accurate(m) /\ ~(treeLengths'[T] < treeLengths[T])
      BY <1>1, <2>10 DEF HasLeaves, T
    <3>2. treeLengths[T] = Unknown
      <4>1. SUFFICES ASSUME treeLengths[T] # Unknown PROVE FALSE
        OBVIOUS
      <4>2. reader.length = treeLengths[T]
        BY <1>3, <1>8, <2>1, <2>2, <3>1, <4>1
      <4>3. treeLengths' = treeLengths
        BY <1>8, <2>1, <4>2
      <4>4. QED
        BY <1>10, <4>3
    <3>3. Refines(m, treeLengths')
      BY <2>1, <2>2, <3>2 DEF Refines
    <3>4. (Exact(m) => Exact(m)') /\ (ButOne(m) => ButOne(m)')
      BY <1>1, <3>3, LengthsRefined
    <3>5. adder.pc = "nodes" => treeLengths'[TreeOf(adder.i)] = IndexIn(adder.i)
      <4>1. SUFFICES ASSUME adder.pc = "nodes"
                     PROVE  treeLengths'[TreeOf(adder.i)] = IndexIn(adder.i)
        OBVIOUS
      <4>2. adder.i \in 0 .. Limit - 1
        BY <4>1 DEF HasLeaves, AdderOK, Idle
      <4>3. TreeOf(adder.i) \in Trees /\ IndexIn(adder.i) \in Nat
        BY <4>2, LimitType, TreesOfIndices, IndexParts, TreeItemsType DEF StoresOK
      <4>4. treeLengths[TreeOf(adder.i)] = IndexIn(adder.i)
        BY <3>1, <4>1 DEF Accurate
      <4>5. TreeOf(adder.i) # T
        BY <3>2, <4>3, <4>4 DEF Unknown
      <4>6. QED
        BY <2>1, <4>3, <4>4, <4>5
    <3>6. QED
      BY <1>1, <1>2, <3>1, <3>4, <3>5 DEF Accurate
  <2>11. QED
    BY <1>2, <1>6, <2>4, <2>5, <2>6, <2>8, <2>9, <2>10 DEF HasLeaves, LeavesInv
<1>11. QED
  BY <1>9, <1>10

\* A restart forgets what is not stored.
LEMMA LeavesCrash ==
  ASSUME StoresOK, NEW m \in 0 .. Limit, HasLeaves(m), Crash
  PROVE  LeavesInv'
<1>1. /\ cache' = Nothing /\ treeLengths' = [t \in Trees |-> Unknown]
      /\ adder' = Idle /\ pending' = Nothing /\ stray' = {} /\ reader' = Idle
      /\ torn' = (torn \/ ~Coherent)
      /\ UNCHANGED <<ownList, start, db, events, overwritten>>
  BY DEF Crash, database
<1>2. Limit' = Limit
  BY <1>1 DEF Limit
<1>3. NodesOK(Limit, Nothing) /\ DOMAIN Nothing = {}
  BY NothingIsNodes
<1>4. torn' \in BOOLEAN
  BY <1>1, Zenon
<1>5. StoresOK'
  BY <1>1, <1>2, <1>3, <1>4 DEF StoresOK
<1>6. Gapless(m)' /\ LengthsOK(m)' /\ WritesOK(m)' /\ AdderOK' /\ ReaderOK(m)'
  BY <1>1, <1>2, <1>3 DEF HasLeaves, Gapless, LengthsOK, WritesOK, Unwritten, AdderOK,
                          ReaderOK, Idle
<1>7. ~overwritten' => Accurate(m)'
  BY <1>1, <1>2, <1>3 DEF HasLeaves, Accurate, Exact, Idle
<1>8. QED
  BY <1>2, <1>5, <1>6, <1>7 DEF HasLeaves, LeavesInv

--------------------------------------------------------------------------------
(* The leaves at first and after every step.                                 *)

\* The hashes of whole trees over the first m leaves.
FullHash(m, t, l, k) ==
    [j \in 1 .. 2 ^ l |-> IF GlobalIndex(t, k * 2 ^ l + j - 1) < m
                             THEN LeafHash(GlobalIndex(t, k * 2 ^ l + j - 1), 1)[1] ELSE Zero]

LEMMA FullTreesNodes ==
  ASSUME NEW m \in Nat, NEW t \in Trees, NEW l \in 0 .. Depth, NEW k \in 0 .. TreeItems - 1
  PROVE  FullTrees(m)[<<t, l, k>>] = FullHash(m, t, l, k) /\ FullHash(m, t, l, k) \in Hash(l)
<1> DEFINE n == <<t, l, k>>
           hash == [j \in 1 .. 2 ^ l |->
                      IF GlobalIndex(t, k * 2 ^ l + j - 1) < m
                        THEN LeafHash(GlobalIndex(t, k * 2 ^ l + j - 1), 1)[1] ELSE Zero]
           All == {NodeAt(u, x, y) : u \in Trees, x \in 0 .. Depth, y \in 0 .. TreeItems - 1}
<1>1. n \in All /\ n[1] = t /\ n[2] = l /\ n[3] = k
  BY DEF NodeAt
<1>2. FullTrees(m)[n] = hash
  <2>1. FullTrees(m)[n] =
           [j \in 1 .. 2 ^ n[2] |->
                LET i == GlobalIndex(n[1], n[3] * 2 ^ n[2] + j - 1)
                IN  IF i < m THEN LeafHash(i, 1)[1] ELSE Zero]
    <3> DEFINE Value(x) ==
                 [j \in 1 .. 2 ^ x[2] |->
                    LET i == GlobalIndex(x[1], x[3] * 2 ^ x[2] + j - 1)
                    IN  IF i < m THEN LeafHash(i, 1)[1] ELSE Zero]
    <3>1. FullTrees(m) = [x \in All |-> Value(x)]
      BY DEF FullTrees
    <3> HIDE DEF Value, n, All
    <3>2. FullTrees(m)[n] = Value(n)
      BY <1>1, <3>1
    <3>3. QED
      BY <3>2 DEF Value
  <2>2. QED
    BY <2>1
<1>3. /\ t \in Nat /\ l \in Nat /\ k \in Nat /\ TreeItems \in Nat /\ 2 ^ l \in Nat
      /\ t * TreeItems \in Nat /\ k * 2 ^ l \in Nat
  <2>1. t \in Nat /\ l \in Nat /\ TreeItems \in Nat
    BY TreesOfIndices, TreeItemsType, ConstantsAssumption
  <2>2. k \in Nat /\ 2 ^ l \in Nat
    BY <2>1, PowerOfTwo
  <2>3. QED
    BY <2>1, <2>2
<1>4. ASSUME NEW j \in 1 .. 2 ^ l PROVE hash[j] \in Nat
  <2> DEFINE i == GlobalIndex(t, k * 2 ^ l + j - 1)
  <2>1. i \in Nat
    BY <1>3 DEF GlobalIndex
  <2> HIDE DEF i
  <2>2. LeafHash(i, 1)[1] = 2 * i + 1
    BY DEF LeafHash
  <2>3. hash[j] = IF i < m THEN LeafHash(i, 1)[1] ELSE Zero
    BY DEF i
  <2>4. QED
    BY <2>1, <2>2, <2>3 DEF Zero
<1>5. hash \in Hash(l)
  BY <1>4 DEF Hash
<1>6. hash = FullHash(m, t, l, k)
  BY DEF FullHash
<1> HIDE DEF hash
<1>7. QED
  BY <1>2, <1>5, <1>6

LEMMA LeavesInit == Init => LeavesInv
<1> SUFFICES ASSUME Init PROVE LeavesInv
  OBVIOUS
<1>1. /\ ownList \in OwnList /\ start \in Starts
      /\ db = Restrict(FullTrees(start), UNION {Path(i) : i \in 0 .. start - 1})
      /\ events = 0 .. start - 1
      /\ cache = Nothing /\ treeLengths = [t \in Trees |-> Unknown]
      /\ adder = Idle /\ pending = Nothing /\ stray = {} /\ reader = Idle
      /\ overwritten = FALSE /\ torn = FALSE
  BY DEF Init
<1>2. start \in Nat /\ Limit \in Nat /\ start <= Limit /\ ownList \in BOOLEAN
  BY <1>1, ConstantsAssumption DEF Limit
<1>3. 0 .. start - 1 \subseteq 0 .. Limit - 1 /\ 0 .. start - 1 \subseteq Index
  BY <1>1, <1>2, LimitType
<1>4. /\ DOMAIN db = UNION {Path(i) : i \in 0 .. start - 1}
      /\ db = [n \in DOMAIN db |-> db[n]]
      /\ \A n \in DOMAIN db : db[n] = FullTrees(start)[n]
  BY <1>1 DEF Restrict
<1>5. ASSUME NEW n \in DOMAIN db
      PROVE  EntryOK(Limit, n, db[n]) /\ (n[2] = 0 => \E j \in 0 .. start - 1 : n = Leaf(j))
  <2>1. PICK i \in 0 .. start - 1 : n \in Path(i)
    BY <1>4
  <2>2. PICK l \in 0 .. Depth : n = <<TreeOf(i), l, IndexIn(i) \div 2 ^ l>>
    BY <2>1 DEF Path, NodeAt
  <2>3. i \in Index /\ i \in Nat /\ TreeOf(i) \in Trees /\ l \in Nat
    BY <1>3, TreesOfIndices, ConstantsAssumption
  <2>4. IndexIn(i) \in Nat /\ IndexIn(i) < TreeItems /\ TreeItems \in Nat
        /\ GlobalIndex(TreeOf(i), IndexIn(i)) = i
    BY <2>3, IndexParts, TreeItemsType
  <2>5. IndexIn(i) \div 2 ^ l \in 0 .. TreeItems - 1
    <3>1. 2 ^ l \in Nat \ {0}
      BY <2>3, PowerOfTwo
    <3>2. \A x \in Nat, p \in Nat \ {0} : x \div p \in Nat /\ x \div p <= x
      OBVIOUS
    <3>3. QED
      BY <2>4, <3>1, <3>2
  <2> DEFINE k == IndexIn(i) \div 2 ^ l
             hash == FullTrees(start)[<<TreeOf(i), l, k>>]
  <2>6. db[n] = hash
    BY <1>4, <2>2
  <2>7. hash = FullHash(start, TreeOf(i), l, k) /\ hash \in Hash(l)
    <3> HIDE DEF k
    <3>1. k \in 0 .. TreeItems - 1
      BY <2>5 DEF k
    <3>2. QED
      BY <1>2, <2>3, <3>1, FullTreesNodes
  <2> HIDE DEF k
  <2>8. n \in Trees \X (0 .. Depth) \X Nat /\ n[2] = l
    <3>1. k \in Nat
      BY <2>4, <2>5 DEF k
    <3>2. QED
      BY <2>2, <2>3, <3>1 DEF k
  <2>9. ASSUME n[2] = 0 PROVE n = Leaf(i) /\ db[n] = LeafHash(i, 1)
    <3>1. n = Leaf(i)
      BY <2>1, <2>3, <2>9, PathNodes
    <3>2. l = 0 /\ 2 ^ l = 1 /\ k = IndexIn(i)
      BY <2>2, <2>8, <2>9, <3>1 DEF Leaf, NodeAt, k
    <3>3. k * 2 ^ l + 1 - 1 = IndexIn(i)
      BY <2>4, <3>2
    <3>4. i < start
      BY <1>2
    <3>5. hash = [j \in 1 .. 1 |->
                     IF GlobalIndex(TreeOf(i), k * 2 ^ l + j - 1) < start
                       THEN LeafHash(GlobalIndex(TreeOf(i), k * 2 ^ l + j - 1), 1)[1]
                       ELSE Zero]
      BY <2>7, <3>2 DEF FullHash
    <3> HIDE DEF hash
    <3>6. hash[1] = LeafHash(i, 1)[1] /\ hash = [j \in 1 .. 1 |-> hash[j]]
      BY <2>4, <3>3, <3>4, <3>5
    <3>7. LeafHash(i, 1) = [j \in 1 .. 1 |-> LeafHash(i, 1)[j]]
      BY DEF LeafHash
    <3>8. hash = LeafHash(i, 1)
      BY <3>6, <3>7
    <3>9. QED
      BY <2>6, <3>1, <3>8
  <2>10. i \in 0 .. Limit - 1
    BY <1>3
  <2>11. QED
    BY <2>6, <2>7, <2>8, <2>9, <2>10 DEF EntryOK, LeafOK
<1>6. NodesOK(Limit, db)
  BY <1>4, <1>5 DEF NodesOK
<1>7. NodesOK(Limit, Nothing) /\ DOMAIN Nothing = {}
  BY NothingIsNodes
<1>8. StoresOK
  BY <1>1, <1>2, <1>3, <1>6, <1>7 DEF StoresOK
<1>9. ASSUME NEW j \in 0 .. start - 1 PROVE Leaf(j) \in DOMAIN db
  BY <1>3, <1>4, PathNodes
<1>10. Gapless(start)
  BY <1>5, <1>9 DEF Gapless
<1>11. LengthsOK(start) /\ WritesOK(start) /\ AdderOK /\ ReaderOK(start)
  BY <1>1, <1>7 DEF LengthsOK, WritesOK, Unwritten, AdderOK, ReaderOK, Idle
<1>12. Accurate(start)
  BY <1>1, <1>2, <1>7, <1>9 DEF Accurate, Exact, Idle
<1>13. QED
  BY <1>2, <1>8, <1>10, <1>11, <1>12 DEF HasLeaves, LeavesInv

LEMMA LeavesNext == LeavesInv /\ [Next]_vars => LeavesInv'
<1> SUFFICES ASSUME LeavesInv, [Next]_vars PROVE LeavesInv'
  OBVIOUS
<1>1. StoresOK
  BY DEF LeavesInv
<1>2. PICK m \in 0 .. Limit : HasLeaves(m)
  BY DEF LeavesInv
<1>3. ASSUME NEW i \in Index, NEW a \in {1, 2}, InsertLeaf(i, a) PROVE LeavesInv'
  <2>1. StoresOK' /\ HasLeaves(m)'
    BY <1>1, <1>2, <1>3, LeavesInsertLeaf
  <2>2. Limit' = Limit
    BY <1>3, InsertLeafCases DEF Limit
  <2>3. QED
    BY <1>2, <2>1, <2>2 DEF LeavesInv
<1>4. CASE \E i \in Requested : RequestProof(i)
  BY <1>1, <1>2, <1>4, LeavesRequestProof
<1>5. CASE Insertion
  BY <1>1, <1>2, <1>5, LeavesWriteNode, LeavesInsertMerkleroot, LeavesStoreEvent DEF Insertion
<1>6. CASE Proof
  BY <1>1, <1>2, <1>6, LeavesFetchElements, LeavesFetchRoot, LeavesReturnProof, LeavesAnswer
     DEF Proof
<1>7. CASE \E n \in DOMAIN pending : RejectWrite(n)
  BY <1>1, <1>2, <1>7, LeavesRejectWrite
<1>8. CASE \E w \in stray : StrayWrite(w)
  BY <1>1, <1>2, <1>8, LeavesStrayWrite
<1>9. CASE RejectMerkleroot
  BY <1>1, <1>2, <1>9, LeavesRejectMerkleroot
<1>10. CASE Crash
  BY <1>1, <1>2, <1>10, LeavesCrash
<1>11. CASE UNCHANGED vars
  <2>1. UNCHANGED <<ownList, start, db, events, cache, treeLengths, adder, pending, stray,
                    reader, overwritten, torn>>
    BY <1>11 DEF vars, database, memory, inserting
  <2>2. Limit' = Limit /\ Unwritten' = Unwritten
    BY <2>1 DEF Limit, Unwritten
  <2>3. StoresOK'
    BY <1>1, <2>1, <2>2 DEF StoresOK
  <2>4. HasLeaves(m)'
    BY <1>2, <2>1, <2>2 DEF HasLeaves, Gapless, LengthsOK, WritesOK, AdderOK, ReaderOK,
       LengthRead, ColdNodes, Accurate, Exact, ButOne
  <2>5. QED
    BY <1>2, <2>2, <2>3, <2>4 DEF LeavesInv
<1>12. QED
  BY <1>3, <1>4, <1>5, <1>6, <1>7, <1>8, <1>9, <1>10, <1>11 DEF Next

\* In every state the leaves that are stored are the first ones of the list, whatever
\* insertLeaf and the writes it has left behind do, and cached lengths never count more.
THEOREM MerkletreeInvariance == Spec => []LeavesInv
<1>1. LeavesInv /\ [Next]_vars => LeavesInv'
  BY LeavesNext
<1>2. QED
  BY LeavesInit, <1>1, PTL DEF Spec

\* The state of POIMerkletree keeps its shape: hashes have the size of their level.
THEOREM MerkletreeTypeOK == Spec => []TypeOK
<1>1. LeavesInv => TypeOK
  <2> SUFFICES ASSUME LeavesInv PROVE TypeOK
    OBVIOUS
  <2>1. PICK m \in 0 .. Limit : HasLeaves(m)
    BY DEF LeavesInv
  <2>2. StoresOK
    BY DEF LeavesInv
  <2>3. ASSUME NEW f, NodesOK(Limit, f), NEW n \in DOMAIN f
        PROVE  n[1] \in Trees /\ n[2] \in 0 .. Depth /\ Len(f[n]) = 2 ^ n[2]
    <3>1. n[1] \in Trees /\ n[2] \in 0 .. Depth /\ f[n] \in Hash(n[2])
      BY <2>3 DEF NodesOK, EntryOK
    <3>2. n[2] \in Nat
      BY <3>1, ConstantsAssumption
    <3>3. QED
      BY <3>1, <3>2, LengthOfHash
  <2>4. NodesOK(Limit, db) /\ NodesOK(Limit, cache)
    BY <2>2 DEF StoresOK
  <2>5. start \in Nat /\ ownList \in BOOLEAN /\ overwritten \in BOOLEAN /\ torn \in BOOLEAN
    BY <2>2, ConstantsAssumption DEF StoresOK
  <2>6. treeLengths \in [Trees -> Nat \union {Unknown}]
    BY <2>1 DEF HasLeaves, LengthsOK
  <2>7. adder.pc \in {"idle", "nodes", "event"}
    BY <2>1 DEF HasLeaves, AdderOK, Idle
  <2>8. reader.pc \in {"idle", "length", "elements", "root", "proof"}
    BY <2>1 DEF HasLeaves, ReaderOK
  <2>9. QED
    BY <2>3, <2>4, <2>5, <2>6, <2>7, <2>8 DEF TypeOK
<1>2. QED
  BY MerkletreeInvariance, <1>1, PTL

\* Leaves are numbered through the trees without a gap, and an event is stored only
\* when its leaf is, unless a late read has put back an old length.
THEOREM EventsHaveLeaves == Spec => []EventsHaveGaplessLeaves
<1>1. LeavesInv => EventsHaveGaplessLeaves
  <2> SUFFICES ASSUME LeavesInv PROVE EventsHaveGaplessLeaves
    OBVIOUS
  <2>1. PICK m \in 0 .. Limit : HasLeaves(m)
    BY DEF LeavesInv
  <2>2. StoresOK
    BY DEF LeavesInv
  <2>3. m \in Nat /\ Limit \in Nat /\ m <= Limit
    BY <2>1, <2>2, KnownLengths DEF HasLeaves
  <2>4. Leaves = 0 .. m - 1
    <3>1. ASSUME NEW i \in 0 .. m - 1 PROVE i \in Leaves
      BY <2>1, <2>3 DEF HasLeaves, Gapless, Leaves
    <3>2. ASSUME NEW i \in Leaves PROVE i \in 0 .. m - 1
      <4>1. i \in Nat /\ Leaf(i) \in DOMAIN db /\ Leaf(i)[2] = 0
        BY <2>3 DEF Leaves, Leaf, NodeAt
      <4>2. PICK j \in 0 .. m - 1 : Leaf(i) = Leaf(j)
        BY <2>1, <4>1 DEF HasLeaves, Gapless
      <4>3. j \in Nat
        BY <2>3
      <4>4. QED
        BY <4>1, <4>2, <4>3, LeafInjective
    <3>3. QED
      BY <3>1, <3>2
  <2>5. Cardinality(Leaves) = m
    BY <2>3, <2>4, FS_Interval
  <2>6. ~overwritten => events \subseteq Leaves
    BY <2>1, <2>2 DEF HasLeaves, Accurate, StoresOK, Leaves
  <2>7. QED
    BY <2>4, <2>5, <2>6 DEF EventsHaveGaplessLeaves
<1>2. QED
  BY MerkletreeInvariance, <1>1, PTL

--------------------------------------------------------------------------------
(* Nodes above and below each other.                                         *)

LEMMA PowerSplit ==
  ASSUME NEW l \in 0 .. Depth
  PROVE  /\ 2 ^ l \in Nat \ {0} /\ 2 ^ (Depth - l) \in Nat \ {0}
         /\ 2 ^ (Depth - l) * 2 ^ l = TreeItems
<1> DEFINE Bad == {k \in 0 .. Depth : 2 ^ (Depth - k) * 2 ^ k # TreeItems}
<1>1. Depth \in Nat
  BY ConstantsAssumption
<1>2. \A k \in 0 .. Depth : 2 ^ k \in Nat \ {0} /\ 2 ^ (Depth - k) \in Nat \ {0}
  <2>1. \A k \in 0 .. Depth : k \in Nat /\ Depth - k \in Nat
    BY <1>1
  <2>2. QED
    BY <2>1, PowerOfTwo
<1>3. ASSUME Bad # {} PROVE FALSE
  <2>1. PICK m \in Bad : \A k \in Bad : m <= k
    <3>1. Bad \subseteq Nat
      BY <1>1
    <3> HIDE DEF Bad
    <3>2. QED
      BY <1>3, <3>1, LeastElement
  <2>2. m # 0
    <3>1. 2 ^ 0 = 1 /\ Depth - 0 = Depth
      BY <1>1
    <3>2. 2 ^ (Depth - 0) * 2 ^ 0 = TreeItems
      BY <1>1, <1>2, <3>1 DEF TreeItems
    <3>3. QED
      BY <3>2
  <2>3. m - 1 \in 0 .. Depth /\ m - 1 \in Nat /\ Depth - m \in Nat /\ m \in 0 .. Depth
        /\ (m - 1) + 1 = m /\ (Depth - m) + 1 = Depth - (m - 1)
    BY <1>1, <2>1, <2>2
  <2>4. 2 ^ (Depth - (m - 1)) * 2 ^ (m - 1) = TreeItems
    <3>1. m - 1 \notin Bad
      BY <2>1, <2>3
    <3>2. QED
      BY <2>3, <3>1
  <2>5. 2 ^ m = 2 * 2 ^ (m - 1) /\ 2 ^ (Depth - (m - 1)) = 2 * 2 ^ (Depth - m)
    <3>1. 2 ^ ((m - 1) + 1) = 2 * 2 ^ (m - 1)
      BY <2>3, PowerOfTwo
    <3>2. 2 ^ ((Depth - m) + 1) = 2 * 2 ^ (Depth - m)
      BY <2>3, PowerOfTwo
    <3>3. QED
      BY <2>3, <3>1, <3>2
  <2>6. 2 ^ (Depth - m) * 2 ^ m = TreeItems
    <3>1. \A a \in Nat, b \in Nat : a * (2 * b) = (2 * a) * b
      OBVIOUS
    <3>2. 2 ^ (Depth - m) \in Nat /\ 2 ^ (m - 1) \in Nat
      BY <1>2, <2>3
    <3>3. QED
      BY <2>4, <2>5, <3>1, <3>2
  <2>7. QED
    BY <2>1, <2>6
<1>4. QED
  <2>1. 2 ^ (Depth - l) * 2 ^ l = TreeItems
    BY <1>3
  <2>2. QED
    BY <1>2, <2>1

\* The indices of nodes at each level of a tree: of its leaves' parents.
LEMMA NodeIndices ==
  ASSUME NEW l \in 0 .. Depth - 1, NEW k \in 0 .. 2 ^ (Depth - (l + 1)) - 1
  PROVE  /\ l \in 0 .. Depth /\ l + 1 \in 0 .. Depth /\ l \in Nat
         /\ k \in Nat /\ {2 * k, 2 * k + 1} \subseteq 0 .. 2 ^ (Depth - l) - 1
         /\ 2 ^ (l + 1) = 2 * 2 ^ l /\ 2 ^ l \in Nat \ {0}
<1>1. Depth \in Nat /\ l \in Nat /\ Depth - (l + 1) \in Nat
      /\ (Depth - (l + 1)) + 1 = Depth - l
  BY ConstantsAssumption
<1>2. 2 ^ (Depth - l) = 2 * 2 ^ (Depth - (l + 1)) /\ 2 ^ (Depth - (l + 1)) \in Nat
  <2>1. 2 ^ ((Depth - (l + 1)) + 1) = 2 * 2 ^ (Depth - (l + 1))
        /\ 2 ^ (Depth - (l + 1)) \in Nat
    BY <1>1, PowerOfTwo
  <2>2. QED
    BY <1>1, <2>1
<1>3. 2 ^ (l + 1) = 2 * 2 ^ l /\ 2 ^ l \in Nat \ {0}
  BY <1>1, PowerOfTwo
<1>4. QED
  BY <1>1, <1>2, <1>3

\* The leaves below a node are in its tree.
LEMMA LeavesBelow ==
  ASSUME NEW l \in 0 .. Depth, NEW k \in 0 .. 2 ^ (Depth - l) - 1, NEW j \in 1 .. 2 ^ l
  PROVE  /\ k \in 0 .. TreeItems - 1
         /\ k * 2 ^ l + j - 1 \in 0 .. TreeItems - 1
         /\ (k * 2 ^ l + j - 1) \div 2 ^ l = k
<1> DEFINE p == 2 ^ l
           q == 2 ^ (Depth - l)
<1>1. p \in Nat \ {0} /\ q \in Nat \ {0} /\ q * p = TreeItems
  BY PowerSplit
<1> HIDE DEF p, q
<1>2. k \in 0 .. q - 1 /\ j \in 1 .. p
  BY DEF p, q
<1>3. k \in Nat /\ j - 1 \in 0 .. p - 1 /\ k + 1 <= q
  BY <1>1, <1>2
<1>4. (k + 1) * p <= q * p /\ k * p \in Nat /\ (k + 1) * p = k * p + p /\ k <= k * p
  BY <1>1, <1>3
<1>5. (k * p + (j - 1)) \div p = k /\ k * p + (j - 1) = k * p + j - 1
  BY <1>1, <1>2, <1>3, <1>4, DivUnique
<1>6. k * p + j - 1 \in 0 .. TreeItems - 1 /\ k \in 0 .. TreeItems - 1
  BY <1>1, <1>2, <1>3, <1>4, TreeItemsType
<1>7. QED
  BY <1>5, <1>6 DEF p

\* Each node of a path but its leaf is above the one before and the one beside that.
LEMMA PathParent ==
  ASSUME NEW i \in Index, NEW l \in 0 .. Depth - 1
  PROVE  LET below == IndexIn(i) \div 2 ^ l
             k == IndexIn(i) \div 2 ^ (l + 1)
         IN  /\ below \in Nat /\ k \in 0 .. 2 ^ (Depth - (l + 1)) - 1
             /\ k = below \div 2 /\ Sibling(below) # below
             /\ IF below % 2 = 0 THEN below = 2 * k /\ Sibling(below) = 2 * k + 1
                                 ELSE below = 2 * k + 1 /\ Sibling(below) = 2 * k
<1> DEFINE x == IndexIn(i)
           p == 2 ^ l
           r == 2 ^ (l + 1)
           q == 2 ^ (Depth - (l + 1))
           below == x \div p
           k == x \div r
<1>1. x \in Nat /\ x < TreeItems /\ TreeItems \in Nat
  BY TreesOfIndices, IndexParts, TreeItemsType
<1>2. l \in Nat /\ l + 1 \in 0 .. Depth
  BY ConstantsAssumption
<1>3. p \in Nat \ {0} /\ r = 2 * p
  BY <1>2, PowerOfTwo
<1>4. r \in Nat \ {0} /\ q \in Nat \ {0} /\ q * r = TreeItems
  BY <1>2, PowerSplit
<1> HIDE DEF x, p, r, q
<1>5. below \in Nat /\ k \in Nat /\ k * r <= x
  <2>1. below \in Nat
    BY <1>1, <1>3, DivMod
  <2>2. k \in Nat /\ x % r \in 0 .. r - 1 /\ x = k * r + (x % r)
    BY <1>1, <1>4, DivMod
  <2> HIDE DEF below, k
  <2>3. k * r \in Nat /\ x % r \in Nat
    BY <1>4, <2>2
  <2>4. QED
    BY <2>1, <2>2, <2>3
<1>6. k < q
  <2>1. SUFFICES ASSUME k >= q PROVE FALSE
    BY <1>4, <1>5
  <2>2. k * r >= q * r
    BY <1>4, <1>5, <2>1
  <2>3. QED
    BY <1>1, <1>4, <1>5, <2>2
<1>7. k = below \div 2
  BY <1>1, <1>3, Halving
<1> HIDE DEF below, k
<1>8. /\ Sibling(below) # below
      /\ IF below % 2 = 0 THEN below = 2 * k /\ Sibling(below) = 2 * k + 1
                          ELSE below = 2 * k + 1 /\ Sibling(below) = 2 * k
  BY <1>5, <1>7 DEF Sibling
<1>9. QED
  BY <1>4, <1>5, <1>6, <1>7, <1>8 DEF below, k, x, p, r, q

\* The nodes of a path, by level, and that the one beside is not among them.
LEMMA OnPath ==
  ASSUME NEW i \in Index, NEW t, NEW l \in 0 .. Depth, NEW k
  PROVE  <<t, l, k>> \in Path(i) <=> t = TreeOf(i) /\ k = IndexIn(i) \div 2 ^ l
<1>1. ASSUME <<t, l, k>> \in Path(i) PROVE t = TreeOf(i) /\ k = IndexIn(i) \div 2 ^ l
  <2>1. PICK x \in 0 .. Depth : <<t, l, k>> = <<TreeOf(i), x, IndexIn(i) \div 2 ^ x>>
    BY <1>1 DEF Path, NodeAt
  <2>2. x = l /\ t = TreeOf(i) /\ k = IndexIn(i) \div 2 ^ x
    BY <2>1
  <2>3. QED
    BY <2>2
<1>2. ASSUME t = TreeOf(i), k = IndexIn(i) \div 2 ^ l PROVE <<t, l, k>> \in Path(i)
  BY <1>2 DEF Path, NodeAt
<1>3. QED
  BY <1>1, <1>2

\* The leaves below a node are those below its two children.
LEMMA LeavesOfChildren ==
  ASSUME NEW p \in Nat \ {0}, NEW k \in Nat, NEW v \in [Nat -> Nat]
  PROVE  HashLeftRight([j \in 1 .. p |-> v[(2 * k) * p + j - 1]],
                       [j \in 1 .. p |-> v[(2 * k + 1) * p + j - 1]])
            = [j \in 1 .. 2 * p |-> v[k * (2 * p) + j - 1]]
<1> DEFINE a == [j \in 1 .. p |-> v[(2 * k) * p + j - 1]]
           b == [j \in 1 .. p |-> v[(2 * k + 1) * p + j - 1]]
           c == [j \in 1 .. 2 * p |-> v[k * (2 * p) + j - 1]]
           both == [j \in 1 .. 2 * p |-> IF j <= p THEN a[j] ELSE b[j - p]]
<1>1. k * p \in Nat /\ k * (2 * p) = 2 * (k * p) /\ (2 * k) * p = 2 * (k * p)
      /\ (2 * k + 1) * p = 2 * (k * p) + p
  OBVIOUS
<1>2. a \in [1 .. p -> Nat] /\ b \in [1 .. p -> Nat]
  <2> DEFINE z == k * p
  <2>1. z \in Nat /\ (2 * k) * p = 2 * z /\ (2 * k + 1) * p = 2 * z + p
    BY <1>1
  <2> HIDE DEF z
  <2>2. \A j \in 1 .. p : (2 * k) * p + j - 1 \in Nat /\ (2 * k + 1) * p + j - 1 \in Nat
    BY <2>1
  <2>3. QED
    BY <2>2
<1>3. HashLeftRight(a, b) = both
  <2> HIDE DEF a, b
  <2>1. QED
    BY <1>2, Concatenation
<1>4. ASSUME NEW j \in 1 .. 2 * p PROVE both[j] = c[j]
  <2> DEFINE z == k * p
  <2>1. z \in Nat /\ (2 * k) * p = 2 * z /\ (2 * k + 1) * p = 2 * z + p /\ k * (2 * p) = 2 * z
    BY <1>1
  <2>2. c[j] = v[k * (2 * p) + j - 1]
    OBVIOUS
  <2>3. CASE j <= p
    <3>1. j \in 1 .. p /\ both[j] = a[j]
      BY <2>3
    <3>2. a[j] = v[(2 * k) * p + j - 1]
      BY <3>1
    <3>3. QED
      BY <2>1, <2>2, <3>1, <3>2
  <2>4. CASE ~(j <= p)
    <3>1. j - p \in 1 .. p /\ both[j] = b[j - p]
      BY <2>4
    <3>2. b[j - p] = v[(2 * k + 1) * p + (j - p) - 1]
      BY <3>1
    <3> HIDE DEF z, a, b, c, both
    <3>3. (2 * k + 1) * p + (j - p) - 1 = k * (2 * p) + j - 1
      BY <2>1
    <3>4. QED
      BY <2>2, <3>1, <3>2, <3>3
  <2>5. QED
    BY <2>3, <2>4
<1>5. both = c
  <2>1. both = [j \in 1 .. 2 * p |-> both[j]] /\ c = [j \in 1 .. 2 * p |-> c[j]]
    OBVIOUS
  <2> HIDE DEF both, c
  <2>2. QED
    BY <1>4, <2>1
<1>6. QED
  BY <1>3, <1>5

\* In a tree of hashes each node commits to the leaves below it.
LEMMA WholeTrees ==
  ASSUME NodesOK(Limit, db), NodesOK(Limit, cache), ViewCoherent, NEW t \in Trees
  PROVE  \A l \in 0 .. Depth : \A k \in 0 .. 2 ^ (Depth - l) - 1 :
            GetNodeHash(<<t, l, k>>) =
               [j \in 1 .. 2 ^ l |-> GetNodeHash(<<t, 0, k * 2 ^ l + j - 1>>)[1]]
<1> DEFINE v == [x \in Nat |-> GetNodeHash(<<t, 0, x>>)[1]]
           Whole(l, k) == GetNodeHash(<<t, l, k>>) = [j \in 1 .. 2 ^ l |-> v[k * 2 ^ l + j - 1]]
           Bad == {l \in 0 .. Depth : \E k \in 0 .. 2 ^ (Depth - l) - 1 : ~Whole(l, k)}
<1>1. Depth \in Nat
  BY ConstantsAssumption
<1>2. ASSUME NEW x \in Nat
      PROVE  GetNodeHash(<<t, 0, x>>) = [j \in 1 .. 1 |-> v[x]] /\ v[x] \in Nat
  <2> DEFINE n == <<t, 0, x>>
  <2>1. n[2] = 0 /\ 2 ^ 0 = 1
    OBVIOUS
  <2> HIDE DEF n
  <2>2. GetNodeHash(n) \in Hash(n[2])
    BY <2>1, NodeHashType
  <2>3. GetNodeHash(n) \in [1 .. 1 -> Nat]
    BY <2>1, <2>2 DEF Hash
  <2>4. v[x] = GetNodeHash(n)[1]
    BY DEF n
  <2> HIDE DEF v
  <2>5. GetNodeHash(n) = [j \in 1 .. 1 |-> v[x]] /\ v[x] \in Nat
    BY <2>3, <2>4
  <2>6. QED
    BY <2>5 DEF n
<1>3. v \in [Nat -> Nat]
  <2>1. \A x \in Nat : v[x] \in Nat
    BY <1>2
  <2>2. v = [x \in Nat |-> v[x]]
    OBVIOUS
  <2> HIDE DEF v
  <2>3. QED
    BY <2>1, <2>2
<1> HIDE DEF v
<1>4. ASSUME Bad # {} PROVE FALSE
  <2>1. PICK m \in Bad : \A l \in Bad : m <= l
    <3>1. Bad \subseteq Nat
      BY <1>1
    <3> HIDE DEF Bad
    <3>2. QED
      BY <1>4, <3>1, LeastElement
  <2>2. PICK k \in 0 .. 2 ^ (Depth - m) - 1 : ~Whole(m, k)
    BY <2>1
  <2>3. k \in Nat
    <3>1. m \in 0 .. Depth
      BY <2>1
    <3>2. 2 ^ (Depth - m) \in Nat
      BY <3>1, PowerSplit
    <3>3. QED
      BY <2>2, <3>2
  <2>4. CASE m = 0
    <3>1. 2 ^ 0 = 1 /\ \A j \in 1 .. 1 : k * 1 + j - 1 = k
      BY <2>3
    <3>2. GetNodeHash(<<t, 0, k>>) = [j \in 1 .. 1 |-> v[k]]
      BY <1>2, <2>3
    <3>3. [j \in 1 .. 1 |-> v[k]] = [j \in 1 .. 1 |-> v[k * 1 + j - 1]]
      BY <3>1
    <3>4. Whole(0, k)
      BY <3>1, <3>2, <3>3
    <3>5. QED
      BY <2>2, <2>4, <3>4
  <2>5. CASE m # 0
    <3> DEFINE l == m - 1
               p == 2 ^ l
    <3>1. l \in 0 .. Depth - 1 /\ l + 1 = m /\ l \notin Bad
      <4>1. m \in 0 .. Depth
        BY <2>1
      <4> HIDE DEF Bad
      <4>2. l \in 0 .. Depth - 1 /\ l + 1 = m /\ ~(m <= l)
        BY <1>1, <2>5, <4>1
      <4>3. QED
        BY <2>1, <4>2
    <3> HIDE DEF l, Bad
    <3>2. k \in 0 .. 2 ^ (Depth - (l + 1)) - 1
      BY <2>2, <3>1
    <3>3. /\ l \in 0 .. Depth /\ {2 * k, 2 * k + 1} \subseteq 0 .. 2 ^ (Depth - l) - 1
          /\ 2 ^ (l + 1) = 2 * p /\ p \in Nat \ {0}
      BY <3>1, <3>2, NodeIndices
    <3>4. Whole(l, 2 * k) /\ Whole(l, 2 * k + 1)
      BY <3>1, <3>3 DEF Bad
    <3>5. GetNodeHash(<<t, l + 1, k>>) =
             HashLeftRight(GetNodeHash(<<t, l, 2 * k>>), GetNodeHash(<<t, l, 2 * k + 1>>))
      BY <3>1, <3>2 DEF ViewCoherent
    <3> HIDE DEF p
    <3>6. GetNodeHash(<<t, l + 1, k>>) = [j \in 1 .. 2 * p |-> v[k * (2 * p) + j - 1]]
      <4>1. /\ GetNodeHash(<<t, l, 2 * k>>) = [j \in 1 .. p |-> v[(2 * k) * p + j - 1]]
            /\ GetNodeHash(<<t, l, 2 * k + 1>>) = [j \in 1 .. p |-> v[(2 * k + 1) * p + j - 1]]
        BY <3>4 DEF p
      <4>2. HashLeftRight([j \in 1 .. p |-> v[(2 * k) * p + j - 1]],
                          [j \in 1 .. p |-> v[(2 * k + 1) * p + j - 1]])
               = [j \in 1 .. 2 * p |-> v[k * (2 * p) + j - 1]]
        BY <1>3, <2>3, <3>3, LeavesOfChildren
      <4>3. QED
        BY <3>5, <4>1, <4>2
    <3>7. Whole(m, k)
      BY <3>1, <3>3, <3>6
    <3>8. QED
      BY <2>2, <3>7
  <2>6. QED
    BY <2>4, <2>5
<1>5. ASSUME NEW l \in 0 .. Depth, NEW k \in 0 .. 2 ^ (Depth - l) - 1
      PROVE  GetNodeHash(<<t, l, k>>) =
                [j \in 1 .. 2 ^ l |-> GetNodeHash(<<t, 0, k * 2 ^ l + j - 1>>)[1]]
  <2>1. Whole(l, k)
    BY <1>4
  <2>2. ASSUME NEW j \in 1 .. 2 ^ l
        PROVE  v[k * 2 ^ l + j - 1] = GetNodeHash(<<t, 0, k * 2 ^ l + j - 1>>)[1]
    <3>1. k * 2 ^ l + j - 1 \in Nat
      BY LeavesBelow, TreeItemsType
    <3>2. QED
      BY <3>1 DEF v
  <2>3. QED
    BY <2>1, <2>2
<1>6. QED
  BY <1>5

\* Hashing the elements of a proof together climbs the nodes of the path.
LEMMA PathVerifies ==
  ASSUME ViewCoherent, NEW i \in Index, NEW elements,
         \A l \in 0 .. Depth - 1 : elements[Beside(i, l)] = GetNodeHash(Beside(i, l))
  PROVE  PathHashes(i, GetNodeHash(Leaf(i)), elements)[Depth] = GetNodeHash(Root(TreeOf(i)))
<1> DEFINE up == PathHashes(i, GetNodeHash(Leaf(i)), elements)
           On(l) == <<TreeOf(i), l, IndexIn(i) \div 2 ^ l>>
           Bad == {l \in 0 .. Depth : up[l] # GetNodeHash(On(l))}
<1>1. Depth \in Nat /\ TreeOf(i) \in Trees
  BY ConstantsAssumption, TreesOfIndices
<1>2. up[0] = GetNodeHash(Leaf(i))
  BY PathHashesStep
<1>3. On(0) = Leaf(i) /\ On(Depth) = Root(TreeOf(i))
  <2>1. 0 \in 0 .. Depth /\ Depth \in 0 .. Depth
    BY <1>1
  <2>2. Leaf(i) \in Path(i) /\ Root(TreeOf(i)) \in Path(i)
    BY PathNodes
  <2>3. Leaf(i) = <<TreeOf(i), 0, IndexIn(i)>> /\ Root(TreeOf(i)) = <<TreeOf(i), Depth, 0>>
    BY DEF Leaf, Root, NodeAt
  <2>4. IndexIn(i) = IndexIn(i) \div 2 ^ 0 /\ 0 = IndexIn(i) \div 2 ^ Depth
    BY <2>1, <2>2, <2>3, OnPath
  <2>5. QED
    BY <2>3, <2>4
<1> HIDE DEF up
<1>4. ASSUME NEW l \in 0 .. Depth - 1, up[l] = GetNodeHash(On(l))
      PROVE  up[l + 1] = GetNodeHash(On(l + 1))
  <2> DEFINE below == IndexIn(i) \div 2 ^ l
             k == IndexIn(i) \div 2 ^ (l + 1)
  <2>1. up[l + 1] = IF below % 2 = 0 THEN HashLeftRight(up[l], elements[Beside(i, l)])
                                     ELSE HashLeftRight(elements[Beside(i, l)], up[l])
    BY PathHashesStep DEF up
  <2>2. /\ k \in 0 .. 2 ^ (Depth - (l + 1)) - 1
        /\ IF below % 2 = 0 THEN below = 2 * k /\ Sibling(below) = 2 * k + 1
                            ELSE below = 2 * k + 1 /\ Sibling(below) = 2 * k
    BY PathParent
  <2>3. elements[Beside(i, l)] = GetNodeHash(<<TreeOf(i), l, Sibling(below)>>)
    BY DEF Beside, NodeAt
  <2>4. up[l] = GetNodeHash(<<TreeOf(i), l, below>>)
    BY <1>4
  <2> HIDE DEF below, k
  <2>5. GetNodeHash(<<TreeOf(i), l + 1, k>>) =
           HashLeftRight(GetNodeHash(<<TreeOf(i), l, 2 * k>>),
                         GetNodeHash(<<TreeOf(i), l, 2 * k + 1>>))
    BY <1>1, <2>2 DEF ViewCoherent
  <2>6. up[l + 1] = GetNodeHash(<<TreeOf(i), l + 1, k>>)
    <3>1. CASE below % 2 = 0
      BY <2>1, <2>2, <2>3, <2>4, <2>5, <3>1
    <3>2. CASE below % 2 # 0
      BY <2>1, <2>2, <2>3, <2>4, <2>5, <3>2
    <3>3. QED
      BY <3>1, <3>2
  <2>7. QED
    BY <2>6 DEF k
<1>5. ASSUME Bad # {} PROVE FALSE
  <2>1. PICK m \in Bad : \A l \in Bad : m <= l
    <3>1. Bad \subseteq Nat
      BY <1>1
    <3> HIDE DEF Bad
    <3>2. QED
      BY <1>5, <3>1, LeastElement
  <2>2. m # 0
    <3>1. up[0] = GetNodeHash(On(0))
      BY <1>2, <1>3
    <3> HIDE DEF On
    <3>2. QED
      BY <2>1, <3>1
  <2>3. m - 1 \in 0 .. Depth - 1 /\ (m - 1) + 1 = m /\ m - 1 \in 0 .. Depth
    BY <1>1, <2>1, <2>2
  <2> HIDE DEF On
  <2>4. up[m - 1] = GetNodeHash(On(m - 1))
    BY <1>1, <2>1, <2>3
  <2>5. up[(m - 1) + 1] = GetNodeHash(On((m - 1) + 1))
    BY <1>4, <2>3, <2>4
  <2>6. QED
    BY <2>1, <2>3, <2>5
<1>6. up[Depth] = GetNodeHash(On(Depth))
  <2> HIDE DEF On
  <2>1. QED
    BY <1>1, <1>5
<1>7. QED
  BY <1>3, <1>6 DEF up

--------------------------------------------------------------------------------
(* What a step leaves of the hashes.                                         *)

\* A leaf that is stored is one of the first m.
LEMMA StoredIndex ==
  ASSUME StoresOK, NEW m \in 0 .. Limit, HasLeaves(m), NEW i \in Nat, Leaf(i) \in DOMAIN db
  PROVE  i < m /\ i \in 0 .. Limit - 1
<1>1. m \in Nat /\ Limit \in Nat
  BY KnownLengths DEF HasLeaves
<1>2. Leaf(i)[2] = 0
  BY DEF Leaf, NodeAt
<1>3. PICK j \in 0 .. m - 1 : Leaf(i) = Leaf(j)
  BY <1>2 DEF HasLeaves, Gapless
<1>4. i = j
  <2>1. j \in Nat
    BY <1>1
  <2>2. QED
    BY <1>3, <2>1, LeafInjective
<1>5. QED
  BY <1>1, <1>4

\* Storing a node that is cached, or caching what is stored, changes no hash that
\* getNodeHash reads.
LEMMA WrittenView ==
  ASSUME StoresOK, NEW n \in DOMAIN cache, NEW hash, InsertMerkletreeNode(n, hash),
         UNCHANGED cache
  PROVE  /\ \A x : GetNodeHash(x)' = GetNodeHash(x)
         /\ \A x \in DOMAIN db \ {n} : x \in DOMAIN db' /\ db'[x] = db[x]
         /\ \A x \in DOMAIN db : x[2] = 0 => x \in DOMAIN db' /\ db'[x] = db[x]
         /\ DOMAIN db' = DOMAIN db \union {n}
         /\ n \notin DOMAIN db => db'[n] = hash
<1>1. \/ db' = db /\ n \in DOMAIN db
      \/ db' = Write(db, [m \in {n} |-> hash]) /\ ~(n[2] = 0 /\ n \in DOMAIN db)
  BY DEF InsertMerkletreeNode
<1>2. CASE db' = db /\ n \in DOMAIN db
  BY <1>2 DEF GetNodeHash
<1>3. CASE db' = Write(db, [m \in {n} |-> hash]) /\ ~(n[2] = 0 /\ n \in DOMAIN db)
  <2>1. /\ DOMAIN db' = DOMAIN db \union {n} /\ db'[n] = hash
        /\ \A x \in DOMAIN db \ {n} : db'[x] = db[x]
    BY <1>3 DEF Write
  <2>2. ASSUME NEW x PROVE GetNodeHash(x)' = GetNodeHash(x)
    <3>1. CASE x = n
      BY <3>1 DEF GetNodeHash
    <3>2. CASE x # n
      <4>1. x \in DOMAIN db' <=> x \in DOMAIN db
        BY <2>1, <3>2
      <4>2. x \in DOMAIN db => db'[x] = db[x]
        BY <2>1, <3>2
      <4>3. QED
        BY <4>1, <4>2 DEF GetNodeHash
    <3>3. QED
      BY <3>1, <3>2
  <2>3. QED
    BY <1>3, <2>1, <2>2
<1>4. QED
  BY <1>1, <1>2, <1>3

LEMMA CachedView ==
  ASSUME UNCHANGED db,
         \A n \in DOMAIN cache : n \in DOMAIN cache' /\ cache'[n] = cache[n],
         \A n \in DOMAIN cache' \ DOMAIN cache : n \in DOMAIN db /\ cache'[n] = db[n]
  PROVE  \A n : GetNodeHash(n)' = GetNodeHash(n)
<1>1. ASSUME NEW n PROVE GetNodeHash(n)' = GetNodeHash(n)
  <2>1. CASE n \in DOMAIN cache
    BY <2>1 DEF GetNodeHash
  <2>2. CASE n \notin DOMAIN cache /\ n \in DOMAIN cache'
    BY <2>2 DEF GetNodeHash
  <2>3. CASE n \notin DOMAIN cache /\ n \notin DOMAIN cache'
    BY <2>3 DEF GetNodeHash
  <2>4. QED
    BY <2>1, <2>2, <2>3
<1>2. QED
  BY <1>1

\* The roots of the list stay what they are: leaves are only inserted.
LeavesKept ==
    \A j \in 0 .. Limit - 1 :
        Leaf(j) \in DOMAIN db => Leaf(j) \in DOMAIN db' /\ db'[Leaf(j)] = db[Leaf(j)]

LEMMA ListRootKept ==
  ASSUME StoresOK, NEW m \in 0 .. Limit, HasLeaves(m), UNCHANGED <<ownList, start>>, LeavesKept,
         NEW i \in 0 .. Limit - 1, ~ownList \/ Leaf(i) \in DOMAIN db
  PROVE  ListRoot(i)' = ListRoot(i)
<1>1. i \in Nat /\ m \in Nat /\ Limit \in Nat
  BY KnownLengths DEF HasLeaves
<1>2. ASSUME ownList, NEW j \in Nat, j <= i PROVE db'[Leaf(j)] = db[Leaf(j)]
  <2>1. i < m
    BY <1>1, <1>2, StoredIndex
  <2>2. j \in 0 .. m - 1 /\ j \in 0 .. Limit - 1
    BY <1>1, <1>2, <2>1
  <2>3. Leaf(j) \in DOMAIN db
    BY <2>2 DEF HasLeaves, Gapless
  <2>4. QED
    BY <2>2, <2>3 DEF LeavesKept
<1>3. ASSUME NEW k \in 1 .. TreeItems PROVE GlobalIndex(TreeOf(i), k - 1) \in Nat
  <2>1. TreeOf(i) \in Nat /\ k - 1 \in 0 .. TreeItems - 1
    BY <1>1, IndexParts, TreeItemsType
  <2>2. QED
    BY <2>1, PartsIndex
<1>4. CASE ownList
  BY <1>2, <1>3, <1>4 DEF ListRoot
<1>5. CASE ~ownList
  BY <1>5 DEF ListRoot
<1>6. QED
  BY <1>4, <1>5

LEMMA QuietReadsKept ==
  ASSUME QuietReads, reader' = reader \/ reader' = Idle \/ reader'.pc = "idle",
         \A n : GetNodeHash(n)' = GetNodeHash(n)
  PROVE  QuietReads'
<1>1. CASE reader' = reader
  <2>1. PICK i : i = reader.i
    OBVIOUS
  <2>2. /\ [n \in Elements(i) \union {Leaf(i)} |-> GetNodeHash(n)']
             = [n \in Elements(i) \union {Leaf(i)} |-> GetNodeHash(n)]
        /\ GetNodeHash(Root(TreeOf(i)))' = GetNodeHash(Root(TreeOf(i)))
    OBVIOUS
  <2>3. reader'.i = i /\ reader' = reader
    BY <1>1, <2>1
  <2>4. reader.pc \in {"elements", "root", "proof"} /\ reader.quiet =>
           /\ reader.elements = [n \in Elements(i) \union {Leaf(i)} |-> GetNodeHash(n)]
           /\ reader.pc # "elements" => reader.root = GetNodeHash(Root(TreeOf(i)))
    BY <2>1 DEF QuietReads
  <2>5. reader'.pc \in {"elements", "root", "proof"} /\ reader'.quiet =>
           /\ reader'.elements = [n \in Elements(i) \union {Leaf(i)} |-> GetNodeHash(n)']
           /\ reader'.pc # "elements" => reader'.root = GetNodeHash(Root(TreeOf(i)))'
    BY <2>2, <2>3, <2>4
  <2>6. QED
    BY <2>3, <2>5 DEF QuietReads
<1>2. CASE reader' = Idle \/ reader'.pc = "idle"
  BY <1>2 DEF QuietReads, Idle
<1>3. QED
  BY <1>1, <1>2

LEMMA ColdReadsKept ==
  ASSUME NEW m, HasLeaves(m), ColdReadsStored, UNCHANGED reader,
         DOMAIN cache \subseteq DOMAIN cache',
         \A n \in DOMAIN db \ DOMAIN cache : db'[n] = db[n]
  PROVE  ColdReadsStored'
<1>1. reader.pc \in {"elements", "root"} => DOMAIN reader.cold \subseteq DOMAIN db
  BY DEF HasLeaves, ReaderOK, ColdNodes
<1>2. QED
  BY <1>1 DEF ColdReadsStored

\* A step that stores no node, nor signs or caches a leaf anew.
LEMMA LeavesSignedKept ==
  ASSUME LeavesSigned, UNCHANGED <<start, db>>,
         \A j \in 0 .. Limit - 1 : \A hash : Signed(j, hash) => Signed(j, hash)',
         \A n \in DOMAIN pending' : n \in DOMAIN pending /\ pending'[n] = pending[n],
         \A n \in DOMAIN cache' : \/ n \in DOMAIN cache /\ cache'[n] = cache[n]
                                  \/ n \in DOMAIN db /\ cache'[n] = db[n],
         \A j \in 0 .. Limit - 1 : Leaf(j) \in DOMAIN db =>
            (treeLengths'[TreeOf(j)] \in 0 .. IndexIn(j) =>
                treeLengths[TreeOf(j)] \in 0 .. IndexIn(j)),
         \A w \in stray' : w \in stray \/ \E n \in DOMAIN pending : w = <<n, pending[n]>>
  PROVE  LeavesSigned'
<1>1. Limit' = Limit
  BY DEF Limit
<1>2. ASSUME NEW j \in 0 .. Limit - 1
      PROVE  /\ Leaf(j) \in DOMAIN pending' => Signed(j, pending[Leaf(j)])' 
             /\ Leaf(j) \in DOMAIN cache' \ DOMAIN db' => Signed(j, cache[Leaf(j)])'
             /\ Leaf(j) \in DOMAIN cache' \cap DOMAIN db' => cache'[Leaf(j)] = db'[Leaf(j)]
             /\ Leaf(j) \in DOMAIN db' /\ treeLengths'[TreeOf(j)] \in 0 .. IndexIn(j) =>
                   Signed(j, db[Leaf(j)])'
             /\ \A w \in stray' : w[1] = Leaf(j) => Signed(j, w[2])'
  <2>1. /\ Leaf(j) \in DOMAIN pending => Signed(j, pending[Leaf(j)])
        /\ Leaf(j) \in DOMAIN cache \ DOMAIN db => Signed(j, cache[Leaf(j)])
        /\ Leaf(j) \in DOMAIN cache \cap DOMAIN db => cache[Leaf(j)] = db[Leaf(j)]
        /\ Leaf(j) \in DOMAIN db /\ treeLengths[TreeOf(j)] \in 0 .. IndexIn(j) =>
              Signed(j, db[Leaf(j)])
        /\ \A w \in stray : w[1] = Leaf(j) => Signed(j, w[2])
    BY DEF LeavesSigned
  <2>2. \A hash : Signed(j, hash) => Signed(j, hash)'
    OBVIOUS
  <2>3. ASSUME NEW w \in stray', w[1] = Leaf(j) PROVE Signed(j, w[2])
    BY <2>1, <2>3
  <2>4. Leaf(j) \in DOMAIN pending' => Signed(j, pending'[Leaf(j)])
    BY <2>1
  <2>5. Leaf(j) \in DOMAIN cache' \ DOMAIN db' => Signed(j, cache'[Leaf(j)])
    BY <2>1
  <2>6. Leaf(j) \in DOMAIN cache' \cap DOMAIN db' => cache'[Leaf(j)] = db'[Leaf(j)]
    BY <2>1
  <2>7. Leaf(j) \in DOMAIN db' /\ treeLengths'[TreeOf(j)] \in 0 .. IndexIn(j) =>
           Signed(j, db'[Leaf(j)])
    BY <2>1
  <2>8. QED
    BY <2>2, <2>3, <2>4, <2>5, <2>6, <2>7 DEF Signed
<1>3. QED
  BY <1>1, <1>2 DEF LeavesSigned

\* The roots that were stored, and the one that a step stores.
LEMMA RootsKept ==
  ASSUME StoresOK, NEW m \in 0 .. Limit, HasLeaves(m), HashesInv,
         UNCHANGED <<ownList, start>>, overwritten => overwritten', torn => torn', LeavesKept,
         \A r \in merkleroots' : r \in merkleroots \/
             /\ r[1] \in 0 .. Limit - 1 /\ Leaf(r[1]) \in DOMAIN db
             /\ overwritten \/ (torn /\ ownList) \/ r[2] = ListRoot(r[1])
  PROVE  RootsOfLeaves' /\ StoredRootsAreListRoots'
<1>1. Limit' = Limit
  BY DEF Limit
<1>2. \A r \in merkleroots' : r[1] \in 0 .. Limit - 1 /\ Leaf(r[1]) \in DOMAIN db
  BY DEF HashesInv, RootsOfLeaves
<1>3. RootsOfLeaves'
  BY <1>1, <1>2 DEF RootsOfLeaves, LeavesKept
<1>4. StoredRootsAreListRoots'
  <2>1. SUFFICES ASSUME ~overwritten', ~(torn' /\ ownList'), NEW r \in merkleroots'
                 PROVE  r[2] = ListRoot(r[1])'
    BY DEF StoredRootsAreListRoots
  <2>2. r[2] = ListRoot(r[1]) /\ r[1] \in 0 .. Limit - 1 /\ Leaf(r[1]) \in DOMAIN db
    BY <1>2, <2>1 DEF HashesInv, StoredRootsAreListRoots
  <2>3. PICK i \in 0 .. Limit - 1 : i = r[1]
    BY <2>2
  <2>4. ListRoot(i)' = ListRoot(i)
    BY <2>2, <2>3, ListRootKept
  <2>5. QED
    BY <2>2, <2>3, <2>4
<1>5. QED
  BY <1>3, <1>4

\* A step after which getNodeHash reads the same keeps what roots commit to.
LEMMA HashesKept ==
  ASSUME StoresOK, NEW m \in 0 .. Limit, HasLeaves(m), HashesInv,
         UNCHANGED <<ownList, start, torn>>, overwritten => overwritten',
         \A r \in merkleroots' : r \in merkleroots \/
             /\ r[1] \in 0 .. Limit - 1 /\ Leaf(r[1]) \in DOMAIN db
             /\ overwritten \/ (torn /\ ownList) \/ r[2] = ListRoot(r[1]),
         LeavesKept, adder' = adder \/ adder'.pc # "nodes",
         ~overwritten' => /\ \A n : GetNodeHash(n)' = GetNodeHash(n)
                          /\ LeavesSigned' /\ QuietReads',
         ColdReadsStored'
  PROVE  HashesInv'
<1>1. Limit' = Limit
  BY DEF Limit
<1>2. RootsOfLeaves' /\ StoredRootsAreListRoots'
  BY RootsKept
<1>4. ASSUME ~overwritten' PROVE RootAccepted' /\ (~torn' => ViewCoherent')
  <2>1. \A n : GetNodeHash(n)' = GetNodeHash(n)
    BY <1>4
  <2>2. RootAccepted /\ (~torn => ViewCoherent)
    BY <1>4 DEF HashesInv
  <2>3. ~torn' => ViewCoherent'
    BY <2>1, <2>2 DEF ViewCoherent
  <2>4. RootAccepted'
    <3>1. SUFFICES ASSUME ~ownList', adder'.pc = "nodes"
                   PROVE  GetNodeHash(Root(TreeOf(adder.i)))' = ListRoot(adder.i)'
      BY DEF RootAccepted
    <3>2. adder' = adder /\ ~ownList
      BY <3>1
    <3>3. PICK i \in 0 .. Limit - 1 : i = adder.i
      BY <3>1, <3>2 DEF HasLeaves, AdderOK, Idle
    <3>4. GetNodeHash(Root(TreeOf(i))) = ListRoot(i)
      BY <2>2, <3>1, <3>2, <3>3 DEF RootAccepted
    <3>5. ListRoot(i)' = ListRoot(i)
      BY <3>2, ListRootKept
    <3>6. GetNodeHash(Root(TreeOf(i)))' = ListRoot(i)'
      BY <2>1, <3>4, <3>5
    <3>7. i = adder'.i
      BY <3>2, <3>3
    <3>8. QED
      BY <3>6, <3>7
  <2>5. QED
    BY <2>3, <2>4
<1>5. QED
  BY <1>2, <1>4 DEF HashesInv

\* A node of this or of an earlier insertion is stored.
LEMMA HashesNodeWritten ==
  ASSUME StoresOK, NEW m \in 0 .. Limit, HasLeaves(m), HashesInv,
         NEW n \in Unwritten, NEW hash, InsertMerkletreeNode(n, hash),
         LeavesSigned => \A j \in 0 .. Limit - 1 : n = Leaf(j) => Signed(j, hash),
         \A x \in DOMAIN pending' : x \in DOMAIN pending /\ pending'[x] = pending[x],
         stray' \subseteq stray,
         UNCHANGED <<ownList, start, merkleroots, memory, adder, signed, reader, overwritten, torn>>
  PROVE  HashesInv'
<1>1. Limit' = Limit /\ UNCHANGED <<cache, treeLengths>>
  BY DEF Limit, memory
<1>2. n \in DOMAIN cache
  BY DEF HasLeaves, WritesOK
<1>3. /\ \A x : GetNodeHash(x)' = GetNodeHash(x)
      /\ \A x \in DOMAIN db \ {n} : x \in DOMAIN db' /\ db'[x] = db[x]
      /\ \A x \in DOMAIN db : x[2] = 0 => x \in DOMAIN db' /\ db'[x] = db[x]
      /\ DOMAIN db' = DOMAIN db \union {n}
      /\ n \notin DOMAIN db => db'[n] = hash
  BY <1>1, <1>2, WrittenView
<1>4. \A j : Leaf(j)[2] = 0
  BY DEF Leaf, NodeAt
<1>5. LeavesKept
  BY <1>3, <1>4 DEF LeavesKept
<1>6. ColdReadsStored'
  <2>1. \A x \in DOMAIN db \ DOMAIN cache : db'[x] = db[x]
    BY <1>2, <1>3
  <2>2. QED
    BY <1>1, <2>1, ColdReadsKept DEF HashesInv
<1>7. ASSUME ~overwritten' PROVE LeavesSigned' /\ QuietReads'
  <2>1. LeavesSigned /\ QuietReads
    BY <1>7 DEF HashesInv
  <2>2. QuietReads'
    BY <1>3, <2>1, QuietReadsKept
  <2>3. \A j, h : Signed(j, h)' <=> Signed(j, h)
    BY DEF Signed
  <2>4. ASSUME NEW j \in 0 .. Limit - 1
        PROVE  /\ Leaf(j) \in DOMAIN pending' => Signed(j, pending'[Leaf(j)])
               /\ Leaf(j) \in DOMAIN cache \ DOMAIN db' => Signed(j, cache[Leaf(j)])
               /\ Leaf(j) \in DOMAIN cache \cap DOMAIN db' => cache[Leaf(j)] = db'[Leaf(j)]
               /\ Leaf(j) \in DOMAIN db' /\ treeLengths[TreeOf(j)] \in 0 .. IndexIn(j) =>
                     Signed(j, db'[Leaf(j)])
               /\ \A w \in stray' : w[1] = Leaf(j) => Signed(j, w[2])
    <3>1. /\ Leaf(j) \in DOMAIN pending => Signed(j, pending[Leaf(j)])
          /\ Leaf(j) \in DOMAIN cache \ DOMAIN db => Signed(j, cache[Leaf(j)])
          /\ Leaf(j) \in DOMAIN cache \cap DOMAIN db => cache[Leaf(j)] = db[Leaf(j)]
          /\ Leaf(j) \in DOMAIN db /\ treeLengths[TreeOf(j)] \in 0 .. IndexIn(j) =>
                Signed(j, db[Leaf(j)])
          /\ \A w \in stray : w[1] = Leaf(j) => Signed(j, w[2])
      BY <2>1 DEF LeavesSigned
    <3>2. CASE Leaf(j) # n \/ Leaf(j) \in DOMAIN db
      BY <1>3, <1>4, <3>1, <3>2
    <3>3. CASE Leaf(j) = n /\ Leaf(j) \notin DOMAIN db
      <4>1. Signed(j, hash) /\ Signed(j, cache[Leaf(j)]) /\ db'[Leaf(j)] = hash
        BY <1>2, <1>3, <2>1, <3>1, <3>3
      <4>2. cache[Leaf(j)] = hash
        BY <4>1 DEF Signed
      <4>3. QED
        BY <1>3, <3>1, <3>3, <4>1, <4>2
    <3>4. QED
      BY <3>2, <3>3
  <2>5. LeavesSigned'
    BY <1>1, <2>3, <2>4 DEF LeavesSigned
  <2>6. QED
    BY <2>2, <2>5
<1>8. QED
  BY <1>3, <1>5, <1>6, <1>7, HashesKept

LEMMA HashesWriteNode ==
  ASSUME StoresOK, NEW m \in 0 .. Limit, HasLeaves(m), HashesInv,
         NEW n \in DOMAIN pending, WriteNode(n)
  PROVE  HashesInv'
<1>1. /\ InsertMerkletreeNode(n, pending[n])
      /\ pending' = Restrict(pending, DOMAIN pending \ {n})
      /\ UNCHANGED <<ownList, start, merkleroots, memory, adder, stray, signed, reader,
                     overwritten, torn>>
  BY Zenon DEF WriteNode
<1>2. \A x \in DOMAIN pending' : x \in DOMAIN pending /\ pending'[x] = pending[x]
  BY <1>1 DEF Restrict
<1>3. n \in Unwritten
  BY DEF Unwritten
<1>4. LeavesSigned => \A j \in 0 .. Limit - 1 : n = Leaf(j) => Signed(j, pending[n])
  BY DEF LeavesSigned
<1>5. stray' \subseteq stray
  BY <1>1
<1>6. QED
  BY <1>1, <1>2, <1>3, <1>4, <1>5, HashesNodeWritten, Zenon

LEMMA HashesStrayWrite ==
  ASSUME StoresOK, NEW m \in 0 .. Limit, HasLeaves(m), HashesInv,
         NEW w \in stray, StrayWrite(w)
  PROVE  HashesInv'
<1>1. /\ InsertMerkletreeNode(w[1], w[2])
      /\ stray' = stray \ {w}
      /\ UNCHANGED <<ownList, start, merkleroots, memory, adder, pending, signed, reader,
                     overwritten, torn>>
  BY Zenon DEF StrayWrite
<1>2. \A x \in DOMAIN pending' : x \in DOMAIN pending /\ pending'[x] = pending[x]
  BY <1>1
<1>3. w[1] \in Unwritten
  BY DEF Unwritten
<1>4. LeavesSigned => \A j \in 0 .. Limit - 1 : w[1] = Leaf(j) => Signed(j, w[2])
  BY DEF LeavesSigned
<1>5. stray' \subseteq stray
  BY <1>1
<1>6. QED
  BY <1>1, <1>2, <1>3, <1>4, <1>5, HashesNodeWritten, Zenon

\* Steps that store, cache and sign nothing.
LEMMA HashesSameStores ==
  ASSUME StoresOK, NEW m \in 0 .. Limit, HasLeaves(m), HashesInv,
         UNCHANGED <<ownList, start, db, cache, signed, torn>>, overwritten => overwritten',
         \A r \in merkleroots' : r \in merkleroots \/
             /\ r[1] \in 0 .. Limit - 1 /\ Leaf(r[1]) \in DOMAIN db
             /\ overwritten \/ (torn /\ ownList) \/ r[2] = ListRoot(r[1]),
         adder' = adder \/ adder'.pc # "nodes",
         \A n \in DOMAIN pending' : n \in DOMAIN pending /\ pending'[n] = pending[n],
         \A w \in stray' : w \in stray \/ \E n \in DOMAIN pending : w = <<n, pending[n]>>,
         ~overwritten' => \A j \in 0 .. Limit - 1 : Leaf(j) \in DOMAIN db =>
            (treeLengths'[TreeOf(j)] \in 0 .. IndexIn(j) =>
                treeLengths[TreeOf(j)] \in 0 .. IndexIn(j)),
         ~overwritten' => QuietReads', ColdReadsStored'
  PROVE  HashesInv'
<1>1. \A n : GetNodeHash(n)' = GetNodeHash(n)
  BY DEF GetNodeHash
<1>2. LeavesKept
  BY DEF LeavesKept
<1>3. ASSUME ~overwritten' PROVE LeavesSigned'
  <2>1. LeavesSigned
    BY <1>3 DEF HashesInv
  <2>2. \A j \in 0 .. Limit - 1 : \A hash : Signed(j, hash) => Signed(j, hash)'
    BY DEF Signed
  <2>3. \A n \in DOMAIN cache' : \/ n \in DOMAIN cache /\ cache'[n] = cache[n]
                                 \/ n \in DOMAIN db /\ cache'[n] = db[n]
    OBVIOUS
  <2>4. \A j \in 0 .. Limit - 1 : Leaf(j) \in DOMAIN db =>
            (treeLengths'[TreeOf(j)] \in 0 .. IndexIn(j) =>
                treeLengths[TreeOf(j)] \in 0 .. IndexIn(j))
    BY <1>3
  <2>5. QED
    BY <2>1, <2>2, <2>3, <2>4, LeavesSignedKept
<1>4. QED
  BY <1>1, <1>2, <1>3, HashesKept

--------------------------------------------------------------------------------
(* Roots commit to the list at every step.                                   *)

LEMMA HashesRejectWrite ==
  ASSUME StoresOK, NEW m \in 0 .. Limit, HasLeaves(m), HashesInv,
         NEW n \in DOMAIN pending, RejectWrite(n)
  PROVE  HashesInv'
<1>1. /\ stray' = stray \union {<<x, pending[x]>> : x \in DOMAIN pending \ {n}}
      /\ pending' = Nothing /\ adder' = Idle
      /\ UNCHANGED <<ownList, start, db, merkleroots, cache, treeLengths, signed, reader,
                     overwritten, torn>>
  BY DEF RejectWrite, database, memory
<1>2. DOMAIN pending' = {} /\ adder'.pc # "nodes"
  BY <1>1 DEF Nothing, Idle
<1>3. ColdReadsStored'
  BY <1>1, ColdReadsKept DEF HashesInv
<1>4. ~overwritten' => QuietReads'
  <2>1. \A x : GetNodeHash(x)' = GetNodeHash(x)
    BY <1>1 DEF GetNodeHash
  <2>2. QED
    BY <1>1, <2>1, QuietReadsKept DEF HashesInv
<1>5. \A w \in stray' : w \in stray \/ \E x \in DOMAIN pending : w = <<x, pending[x]>>
  BY <1>1
<1>6. QED
  BY <1>1, <1>2, <1>3, <1>4, <1>5, HashesSameStores

\* When all nodes are stored, the root of a tree of hashes commits to the list up to
\* the event: its leaf is the last one.
LEMMA RootIsListRoot ==
  ASSUME StoresOK, NEW m \in 0 .. Limit, HasLeaves(m), LeavesSigned, ViewCoherent,
         ~overwritten, ownList, adder.pc = "nodes", pending = Nothing
  PROVE  GetNodeHash(Root(TreeOf(adder.i))) = ListRoot(adder.i)
<1>1. PICK i \in 0 .. Limit - 1 : i = adder.i /\ Leaf(i) \in DOMAIN db
  BY DEF HasLeaves, AdderOK, Idle, Nothing
<1> DEFINE T == TreeOf(i)
<1>2. /\ i \in Nat /\ m \in Nat /\ Limit \in Nat /\ T \in Trees /\ T \in Nat
      /\ i < m /\ TreeItems \in Nat /\ IndexIn(i) \in Nat
  BY <1>1, KnownLengths, StoredIndex, LimitType, TreesOfIndices, TreeItemsType, IndexParts
     DEF HasLeaves, StoresOK
<1>3. Accurate(m) /\ treeLengths[T] = IndexIn(i)
  BY <1>1 DEF HasLeaves, Accurate
<1>4. IndexIn(i) < Filled(m, T) /\ Filled(m, T) \in Nat
  BY <1>2, FilledIndex, KnownLengths DEF HasLeaves
<1>5. ~Exact(m)
  BY <1>2, <1>3, <1>4 DEF Exact, Unknown
<1>6. i = m - 1
  <2>1. ButOne(m) /\ T = TreeOf(m - 1)
    BY <1>2, <1>3, <1>4, <1>5 DEF Accurate, ButOne, Unknown
  <2>2. m - 1 \in Nat /\ (m - 1) + 1 = m
    BY <1>2, <2>1 DEF ButOne
  <2>3. Filled((m - 1) + 1, TreeOf(m - 1)) = IndexIn(m - 1) + 1
    <3>1. TreeOf(m - 1) \in Nat
      BY <2>2, IndexParts
    <3>2. QED
      BY <2>2, <3>1, FilledNext, FilledHere
  <2>4. IndexIn(i) = IndexIn(m - 1)
    <3>1. IndexIn(m - 1) \in Nat
      BY <2>2, IndexParts, TreeItemsType
    <3>2. treeLengths[T] = Filled(m, T) - 1
      BY <2>1 DEF ButOne
    <3>3. QED
      BY <1>3, <2>1, <2>2, <2>3, <3>1, <3>2
  <2>5. QED
    BY <1>2, <2>1, <2>2, <2>4, IndexParts
<1> HIDE DEF T
<1>7. ASSUME NEW k \in 1 .. TreeItems
      PROVE  GetNodeHash(<<T, 0, k - 1>>)[1] = ListRoot(i)[k]
  <2> DEFINE j == GlobalIndex(T, k - 1)
  <2>1. /\ j \in Nat /\ Leaf(j) = <<T, 0, k - 1>>
    <3>1. k - 1 \in 0 .. TreeItems - 1
      BY <1>2
    <3>2. QED
      BY <1>2, <3>1, PartsIndex DEF Leaf, NodeAt
  <2>2. ListRoot(i)[k] = IF j > i THEN Zero ELSE db[Leaf(j)][1]
    BY DEF ListRoot, T
  <2> HIDE DEF j
  <2>3. CASE j <= i
    <3>1. j \in 0 .. m - 1 /\ j \in 0 .. Limit - 1
      BY <1>2, <2>1, <2>3
    <3>2. Leaf(j) \in DOMAIN db
      BY <3>1 DEF HasLeaves, Gapless
    <3>3. GetNodeHash(Leaf(j)) = db[Leaf(j)]
      BY <3>1, <3>2 DEF LeavesSigned, GetNodeHash
    <3>4. QED
      BY <1>2, <2>1, <2>2, <2>3, <3>3
  <2>4. CASE j > i
    <3>1. Leaf(j) \notin DOMAIN db
      <4>1. ~(j < m)
        BY <1>2, <1>6, <2>1, <2>4
      <4>2. QED
        BY <2>1, <4>1, StoredIndex
    <3>2. Leaf(j) \notin DOMAIN cache
      <4>1. SUFFICES ASSUME Leaf(j) \in DOMAIN cache PROVE FALSE
        OBVIOUS
      <4>2. j \in 0 .. Limit - 1
        BY <2>1, <4>1, HeldLeaf DEF StoresOK
      <4>3. QED
        BY <1>3, <1>5, <3>1, <4>1, <4>2 DEF Accurate
    <3>3. GetNodeHash(Leaf(j)) = Zeros(0)
      BY <3>1, <3>2 DEF GetNodeHash, Leaf, NodeAt
    <3>4. Zeros(0)[1] = Zero
      <4>1. 2 ^ 0 = 1
        OBVIOUS
      <4>2. QED
        BY <4>1 DEF Zeros
    <3>5. QED
      BY <1>2, <2>1, <2>2, <2>4, <3>3, <3>4
  <2>5. QED
    BY <1>2, <2>1, <2>3, <2>4
<1>8. GetNodeHash(Root(T)) = [k \in 1 .. TreeItems |-> GetNodeHash(<<T, 0, k - 1>>)[1]]
  <2>1. Depth \in 0 .. Depth /\ 0 \in 0 .. 2 ^ (Depth - Depth) - 1
    <3>1. Depth \in Nat /\ Depth - Depth = 0 /\ 2 ^ 0 = 1
      BY ConstantsAssumption
    <3>2. QED
      BY <3>1
  <2>2. GetNodeHash(<<T, Depth, 0>>) =
           [j \in 1 .. 2 ^ Depth |-> GetNodeHash(<<T, 0, 0 * 2 ^ Depth + j - 1>>)[1]]
    BY <1>2, <2>1, WholeTrees DEF StoresOK
  <2>3. \A j \in 1 .. TreeItems : 0 * TreeItems + j - 1 = j - 1
    BY <1>2
  <2>4. GetNodeHash(<<T, Depth, 0>>) =
           [j \in 1 .. TreeItems |-> GetNodeHash(<<T, 0, 0 * TreeItems + j - 1>>)[1]]
    BY <2>2 DEF TreeItems
  <2>5. QED
    BY <2>3, <2>4 DEF Root, NodeAt
<1>9. ListRoot(i) = [k \in 1 .. TreeItems |-> ListRoot(i)[k]]
  BY DEF ListRoot
<1>10. QED
  BY <1>1, <1>7, <1>8, <1>9 DEF T

LEMMA HashesInsertMerkleroot ==
  ASSUME StoresOK, NEW m \in 0 .. Limit, HasLeaves(m), HashesInv, InsertMerkleroot
  PROVE  HashesInv'
<1>1. /\ adder.pc = "nodes" /\ pending = Nothing
      /\ merkleroots' = merkleroots \union {<<adder.i, GetNodeHash(Root(TreeOf(adder.i)))>>}
      /\ treeLengths' = [treeLengths EXCEPT ![TreeOf(adder.i)] = @ + 1]
      /\ adder' = [adder EXCEPT !.pc = "event"]
      /\ UNCHANGED <<ownList, start, db, cache, pending, stray, signed, reader, overwritten, torn>>
  BY DEF InsertMerkleroot
<1>2. PICK i \in 0 .. Limit - 1 :
         /\ adder = [pc |-> "nodes", i |-> i] /\ Leaf(i) \in DOMAIN db
         /\ treeLengths[TreeOf(i)] \in 0 .. IndexIn(i)
  BY <1>1 DEF HasLeaves, AdderOK, Idle, Nothing
<1>3. overwritten \/ (torn /\ ownList) \/ GetNodeHash(Root(TreeOf(i))) = ListRoot(i)
  <2>1. adder.i = i
    BY <1>2
  <2>2. CASE overwritten
    BY <2>2
  <2>3. CASE ~overwritten /\ ownList
    BY <1>1, <2>1, <2>3, RootIsListRoot DEF HashesInv
  <2>4. CASE ~overwritten /\ ~ownList
    BY <1>1, <2>1, <2>4 DEF HashesInv, RootAccepted
  <2>5. QED
    BY <2>2, <2>3, <2>4
<1>4. \A r \in merkleroots' : r \in merkleroots \/
             /\ r[1] \in 0 .. Limit - 1 /\ Leaf(r[1]) \in DOMAIN db
             /\ overwritten \/ (torn /\ ownList) \/ r[2] = ListRoot(r[1])
  BY <1>1, <1>2, <1>3
<1>5. adder'.pc # "nodes"
  BY <1>1, <1>2
<1>6. \A j \in 0 .. Limit - 1 :
         treeLengths'[TreeOf(j)] \in 0 .. IndexIn(j) => treeLengths[TreeOf(j)] \in 0 .. IndexIn(j)
  <2>1. ASSUME NEW j \in 0 .. Limit - 1
        PROVE  TreeOf(j) \in Trees /\ IndexIn(j) \in Nat
               /\ treeLengths[TreeOf(j)] \in Nat \union {Unknown}
    BY LimitType, TreesOfIndices, IndexParts, TreeItemsType DEF StoresOK, HasLeaves, LengthsOK
  <2>2. ASSUME NEW j \in 0 .. Limit - 1, treeLengths'[TreeOf(j)] \in 0 .. IndexIn(j)
        PROVE  treeLengths[TreeOf(j)] \in 0 .. IndexIn(j)
    <3>1. CASE TreeOf(j) = TreeOf(i)
      <4>1. treeLengths'[TreeOf(i)] = treeLengths[TreeOf(i)] + 1
        BY <1>1, <1>2, <2>1 DEF HasLeaves, LengthsOK
      <4>2. treeLengths[TreeOf(i)] \in Nat
        BY <1>2, <2>1
      <4>3. QED
        BY <2>1, <2>2, <3>1, <4>1, <4>2
    <3>2. CASE TreeOf(j) # TreeOf(i)
      BY <1>1, <1>2, <2>1, <2>2, <3>2 DEF HasLeaves, LengthsOK
    <3>3. QED
      BY <3>1, <3>2
  <2>3. QED
    BY <2>2
<1>7. ColdReadsStored'
  BY <1>1, ColdReadsKept DEF HashesInv
<1>8. ~overwritten' => QuietReads'
  <2>1. \A x : GetNodeHash(x)' = GetNodeHash(x)
    BY <1>1 DEF GetNodeHash
  <2>2. QED
    BY <1>1, <2>1, QuietReadsKept DEF HashesInv
<1>9. /\ \A n \in DOMAIN pending' : n \in DOMAIN pending /\ pending'[n] = pending[n]
      /\ \A w \in stray' : w \in stray
  BY <1>1
<1>10. QED
  BY <1>1, <1>4, <1>5, <1>6, <1>7, <1>8, <1>9, HashesSameStores

LEMMA HashesAdderEnds ==
  ASSUME StoresOK, NEW m \in 0 .. Limit, HasLeaves(m), HashesInv,
         RejectMerkleroot \/ StoreEvent
  PROVE  HashesInv'
<1>1. /\ adder' = Idle
      /\ UNCHANGED <<ownList, start, db, merkleroots, cache, treeLengths, pending, stray,
                     signed, reader, overwritten, torn>>
  BY DEF RejectMerkleroot, StoreEvent, database, memory
<1>2. adder'.pc # "nodes"
  BY <1>1 DEF Idle
<1>3. ColdReadsStored'
  BY <1>1, ColdReadsKept DEF HashesInv
<1>4. ~overwritten' => QuietReads'
  <2>1. \A x : GetNodeHash(x)' = GetNodeHash(x)
    BY <1>1 DEF GetNodeHash
  <2>2. QED
    BY <1>1, <2>1, QuietReadsKept DEF HashesInv
<1>5. QED
  BY <1>1, <1>2, <1>3, <1>4, HashesSameStores

LEMMA HashesRequestProof ==
  ASSUME StoresOK, NEW m \in 0 .. Limit, HasLeaves(m), HashesInv,
         NEW i \in Requested, RequestProof(i)
  PROVE  HashesInv'
<1>1. /\ reader'.pc = "length"
      /\ UNCHANGED <<ownList, start, db, merkleroots, cache, treeLengths, adder, pending, stray,
                     signed, overwritten, torn>>
  BY DEF RequestProof, database, memory, inserting
<1>2. QuietReads' /\ ColdReadsStored'
  BY <1>1 DEF QuietReads, ColdReadsStored
<1>3. QED
  BY <1>1, <1>2, HashesSameStores

LEMMA HashesAnswer ==
  ASSUME StoresOK, NEW m \in 0 .. Limit, HasLeaves(m), HashesInv, Answer
  PROVE  HashesInv'
<1>1. /\ reader' = Idle
      /\ UNCHANGED <<ownList, start, db, merkleroots, cache, treeLengths, adder, pending, stray,
                     signed, overwritten, torn>>
  BY DEF Answer, database, memory, inserting
<1>2. QuietReads' /\ ColdReadsStored'
  BY <1>1 DEF QuietReads, ColdReadsStored, Idle
<1>3. QED
  BY <1>1, <1>2, HashesSameStores

LEMMA HashesFetchElements ==
  ASSUME StoresOK, NEW m \in 0 .. Limit, HasLeaves(m), HashesInv, FetchElements
  PROVE  HashesInv'
<1> DEFINE T == TreeOf(reader.i)
           nodes == Elements(reader.i) \union {Leaf(reader.i)}
<1>1. /\ reader.pc = "length"
      /\ treeLengths' = IF reader.cold THEN [treeLengths EXCEPT ![T] = reader.length]
                                       ELSE treeLengths
      /\ overwritten' = (overwritten \/ treeLengths'[T] < treeLengths[T])
      /\ reader' = IF IndexIn(reader.i) >= reader.length THEN Idle
                   ELSE [pc |-> "elements", i |-> reader.i, quiet |-> TRUE,
                         elements |-> [n \in nodes |-> GetNodeHash(n)],
                         cold |-> ColdReads(nodes)]
      /\ UNCHANGED <<ownList, start, db, merkleroots, cache, adder, pending, stray, signed, torn>>
  BY DEF FetchElements, database, inserting
<1>2. /\ reader.i \in Requested /\ reader.i \in Nat /\ Leaf(reader.i) \in DOMAIN db
      /\ reader.length \in Nat
      /\ reader.cold => LengthRead(m, reader.i, reader.length)
  BY <1>1, ConstantsAssumption DEF HasLeaves, ReaderOK
<1>3. \A n : GetNodeHash(n)' = GetNodeHash(n)
  BY <1>1 DEF GetNodeHash
<1>4. QuietReads' /\ ColdReadsStored'
  <2>1. CASE reader' = Idle
    BY <2>1 DEF QuietReads, ColdReadsStored, Idle
  <2>2. CASE reader' # Idle
    <3> DEFINE elements == [n \in nodes |-> GetNodeHash(n)]
               cold == ColdReads(nodes)
    <3>1. \A n \in DOMAIN cold : cold[n] = db[n]
      BY ReadNodes DEF StoresOK
    <3>2. PICK i : i = reader.i
      OBVIOUS
    <3>3. elements = [n \in Elements(i) \union {Leaf(i)} |-> GetNodeHash(n)']
      BY <1>3, <3>2
    <3> HIDE DEF elements, cold
    <3>4. /\ reader'.pc = "elements" /\ reader'.i = i /\ reader'.elements = elements
          /\ reader'.cold = cold
      BY <1>1, <2>2, <3>2 DEF elements, cold
    <3>5. QuietReads'
      BY <3>3, <3>4 DEF QuietReads
    <3>6. ColdReadsStored'
      BY <1>1, <3>1, <3>4 DEF ColdReadsStored
    <3>7. QED
      BY <3>5, <3>6
  <2>3. QED
    BY <2>1, <2>2
<1>5. ASSUME ~overwritten', NEW j \in 0 .. Limit - 1, Leaf(j) \in DOMAIN db,
             treeLengths'[TreeOf(j)] \in 0 .. IndexIn(j)
      PROVE  treeLengths[TreeOf(j)] \in 0 .. IndexIn(j)
  <2>1. /\ m \in Nat /\ j \in Nat /\ j < m /\ TreeOf(j) \in Trees /\ TreeOf(j) \in Nat
        /\ IndexIn(j) \in Nat
    BY <1>5, KnownLengths, StoredIndex, LimitType, TreesOfIndices, IndexParts, TreeItemsType
       DEF HasLeaves, StoresOK
  <2>2. IndexIn(j) < Filled(m, TreeOf(j)) /\ Filled(m, TreeOf(j)) \in Nat
    BY <2>1, FilledIndex, KnownLengths DEF HasLeaves
  <2>3. treeLengths[TreeOf(j)] \in Nat \union {Unknown} /\ DOMAIN treeLengths = Trees
    BY <2>1 DEF HasLeaves, LengthsOK
  <2>4. CASE reader.cold /\ TreeOf(j) = T
    <3>1. treeLengths'[T] = reader.length
      BY <1>1, <2>1, <2>3, <2>4
    <3>2. ~(treeLengths'[T] < treeLengths[T])
      BY <1>1, <1>5
    <3>3. treeLengths[T] # Unknown
      BY <1>2, <1>5, <2>1, <2>2, <2>4, <3>1 DEF LengthRead
    <3>4. QED
      BY <1>2, <1>5, <2>1, <2>3, <2>4, <3>1, <3>2, <3>3 DEF Unknown
  <2>5. CASE ~(reader.cold /\ TreeOf(j) = T)
    BY <1>1, <1>5, <2>3, <2>5
  <2>6. QED
    BY <2>4, <2>5
<1>6. /\ overwritten => overwritten'
      /\ \A n \in DOMAIN pending' : n \in DOMAIN pending /\ pending'[n] = pending[n]
      /\ \A w \in stray' : w \in stray
  BY <1>1
<1>7. QED
  BY <1>1, <1>4, <1>5, <1>6, HashesSameStores


\* What the reads of a proof bring home goes into the cache: it is what is there or
\* what is stored, or else it overwrites a newer value.
LEMMA HashesCached ==
  ASSUME StoresOK, NEW m \in 0 .. Limit, HasLeaves(m), HashesInv,
         reader.pc \in {"elements", "root"}, Cache(reader.cold),
         UNCHANGED <<ownList, start, db, merkleroots, treeLengths, adder, pending, stray, signed,
                     torn>>,
         ~overwritten /\ (\A n : GetNodeHash(n)' = GetNodeHash(n)) => QuietReads',
         ColdReadsStored'
  PROVE  HashesInv'
<1> DEFINE cold == reader.cold
<1>1. /\ DOMAIN cold \subseteq DOMAIN db
      /\ \A n \in DOMAIN cold \ DOMAIN cache : cold[n] = db[n]
  BY DEF HasLeaves, ReaderOK, ColdNodes, HashesInv, ColdReadsStored
<1>2. /\ cache' = Write(cache, cold)
      /\ overwritten' =
            (overwritten \/ \E n \in DOMAIN cold \intersect DOMAIN cache : cache[n] # cold[n])
  BY DEF Cache
<1> HIDE DEF cold
<1>3. DOMAIN cache' = DOMAIN cache \union DOMAIN cold
  BY <1>2, Zenon DEF Write
<1>4. /\ \A n \in DOMAIN cold : cache'[n] = cold[n]
      /\ \A n \in DOMAIN cache \ DOMAIN cold : cache'[n] = cache[n]
  BY <1>2 DEF Write
<1>5. ASSUME ~overwritten'
      PROVE  (\A n : GetNodeHash(n)' = GetNodeHash(n)) /\ LeavesSigned' /\ QuietReads'
  <2>1. ~overwritten /\ \A n \in DOMAIN cold \intersect DOMAIN cache : cache[n] = cold[n]
    BY <1>2, <1>5
  <2>2. \A n \in DOMAIN cache : n \in DOMAIN cache' /\ cache'[n] = cache[n]
    BY <1>3, <1>4, <2>1
  <2>3. \A n \in DOMAIN cache' \ DOMAIN cache : n \in DOMAIN db /\ cache'[n] = db[n]
    BY <1>1, <1>3, <1>4
  <2>4. \A n : GetNodeHash(n)' = GetNodeHash(n)
    BY <2>2, <2>3, CachedView
  <2>5. LeavesSigned'
    <3>1. LeavesSigned
      BY <2>1 DEF HashesInv
    <3>2. \A j \in 0 .. Limit - 1 : \A hash : Signed(j, hash) => Signed(j, hash)'
      BY DEF Signed
    <3>3. \A n \in DOMAIN cache' : \/ n \in DOMAIN cache /\ cache'[n] = cache[n]
                                   \/ n \in DOMAIN db /\ cache'[n] = db[n]
      BY <2>2, <2>3
    <3>4. QED
      BY <3>1, <3>2, <3>3, LeavesSignedKept
  <2>6. QED
    BY <2>1, <2>4, <2>5
<1>6. LeavesKept /\ (overwritten => overwritten')
  BY <1>2 DEF LeavesKept
<1>7. QED
  BY <1>5, <1>6, HashesKept

LEMMA HashesFetchRoot ==
  ASSUME StoresOK, NEW m \in 0 .. Limit, HasLeaves(m), HashesInv, FetchRoot
  PROVE  HashesInv'
<1>1. PICK i : i = reader.i
  OBVIOUS
<1> DEFINE root == Root(TreeOf(i))
           hash == GetNodeHash(root)
           cold == ColdReads({root})
<1>2. /\ reader.pc = "elements" /\ Cache(reader.cold)
      /\ reader' = [pc |-> "root", i |-> i, quiet |-> reader.quiet,
                    elements |-> reader.elements, root |-> hash, cold |-> cold]
      /\ UNCHANGED <<ownList, start, db, merkleroots, treeLengths, adder, pending, stray, signed,
                     torn>>
  BY <1>1 DEF FetchRoot, database, inserting
<1>3. \A n \in DOMAIN cold : cold[n] = db[n]
  BY ReadNodes DEF StoresOK
<1>4. ASSUME ~overwritten, \A n : GetNodeHash(n)' = GetNodeHash(n)
      PROVE  QuietReads'
  <2>1. reader.quiet =>
           reader.elements = [n \in Elements(i) \union {Leaf(i)} |-> GetNodeHash(n)]
    BY <1>1, <1>2, <1>4 DEF HashesInv, QuietReads
  <2>2. /\ [n \in Elements(i) \union {Leaf(i)} |-> GetNodeHash(n)']
             = [n \in Elements(i) \union {Leaf(i)} |-> GetNodeHash(n)]
        /\ hash = GetNodeHash(root)'
    BY <1>4
  <2>3. /\ reader'.i = i /\ reader'.quiet = reader.quiet /\ reader'.root = hash
        /\ reader'.elements = reader.elements
    BY <1>2
  <2> HIDE DEF hash
  <2>4. QED
    BY <2>1, <2>2, <2>3 DEF QuietReads
<1> HIDE DEF hash, cold
<1>5. ColdReadsStored'
  <2>1. reader'.cold = cold /\ db' = db
    BY <1>2
  <2>2. QED
    BY <1>3, <2>1 DEF ColdReadsStored
<1>6. QED
  BY <1>2, <1>4, <1>5, HashesCached

LEMMA HashesReturnProof ==
  ASSUME StoresOK, NEW m \in 0 .. Limit, HasLeaves(m), HashesInv, ReturnProof
  PROVE  HashesInv'
<1>1. /\ reader.pc = "root" /\ Cache(reader.cold)
      /\ reader' = [reader EXCEPT !.pc = "proof", !.cold = Nothing]
      /\ UNCHANGED <<ownList, start, db, merkleroots, treeLengths, adder, pending, stray, signed,
                     torn>>
  BY DEF ReturnProof, database, inserting
<1>2. {"pc", "i", "quiet", "cold", "elements", "root"} \subseteq DOMAIN reader
  BY <1>1 DEF HasLeaves, ReaderOK
<1>3. /\ reader'.pc = "proof" /\ reader'.i = reader.i /\ reader'.quiet = reader.quiet
      /\ reader'.elements = reader.elements /\ reader'.root = reader.root
  BY <1>1, <1>2
<1>4. ColdReadsStored'
  BY <1>3 DEF ColdReadsStored
<1>5. ASSUME ~overwritten, \A n : GetNodeHash(n)' = GetNodeHash(n)
      PROVE  QuietReads'
  <2>1. PICK i : i = reader.i
    OBVIOUS
  <2>2. reader.quiet =>
           /\ reader.elements = [n \in Elements(i) \union {Leaf(i)} |-> GetNodeHash(n)]
           /\ reader.root = GetNodeHash(Root(TreeOf(i)))
    BY <1>1, <1>5, <2>1 DEF HashesInv, QuietReads
  <2>3. /\ [n \in Elements(i) \union {Leaf(i)} |-> GetNodeHash(n)']
             = [n \in Elements(i) \union {Leaf(i)} |-> GetNodeHash(n)]
        /\ GetNodeHash(Root(TreeOf(i)))' = GetNodeHash(Root(TreeOf(i)))
    BY <1>5
  <2>4. reader'.i = i
    BY <1>3, <2>1
  <2>5. QED
    BY <1>3, <2>2, <2>3, <2>4 DEF QuietReads
<1>6. QED
  BY <1>1, <1>4, <1>5, HashesCached

LEMMA HashesCrash ==
  ASSUME StoresOK, NEW m \in 0 .. Limit, HasLeaves(m), HashesInv, Crash
  PROVE  HashesInv'
<1>1. /\ cache' = Nothing /\ treeLengths' = [t \in Trees |-> Unknown]
      /\ adder' = Idle /\ pending' = Nothing /\ stray' = {} /\ signed' = Nothing /\ reader' = Idle
      /\ torn' = (torn \/ ~Coherent)
      /\ UNCHANGED <<ownList, start, db, merkleroots, overwritten>>
  BY DEF Crash, database
<1>2. Limit' = Limit /\ DOMAIN cache' = {} /\ DOMAIN pending' = {}
  BY <1>1 DEF Limit, Nothing
<1>3. RootsOfLeaves' /\ StoredRootsAreListRoots'
  <2>1. LeavesKept /\ (torn => torn')
    BY <1>1 DEF LeavesKept
  <2>2. QED
    BY <1>1, <2>1, RootsKept
<1>4. ColdReadsStored' /\ RootAccepted' /\ QuietReads'
  BY <1>1 DEF ColdReadsStored, RootAccepted, QuietReads, Idle
<1>5. LeavesSigned'
  <2>1. ASSUME NEW j \in 0 .. Limit - 1 PROVE treeLengths'[TreeOf(j)] \notin 0 .. IndexIn(j)
    <3>1. TreeOf(j) \in Trees
      BY LimitType, TreesOfIndices DEF StoresOK
    <3>2. QED
      BY <1>1, <3>1 DEF Unknown
  <2>2. QED
    BY <1>1, <1>2, <2>1 DEF LeavesSigned
<1>6. ASSUME ~torn' PROVE ViewCoherent'
  <2>1. Coherent
    BY <1>1, <1>6
  <2>2. \A n : GetNodeHash(n)' = Stored(n)
    BY <1>1, <1>2 DEF GetNodeHash, Stored
  <2>3. ASSUME NEW t \in Trees, NEW l \in 0 .. Depth - 1,
               NEW k \in 0 .. 2 ^ (Depth - (l + 1)) - 1
        PROVE  Stored(<<t, l + 1, k>>) =
                  HashLeftRight(Stored(<<t, l, 2 * k>>), Stored(<<t, l, 2 * k + 1>>))
    <3>1. l + 1 \in 1 .. Depth /\ (l + 1) - 1 = l
      BY ConstantsAssumption
    <3>2. PICK h \in 1 .. Depth : h = l + 1 /\ h - 1 = l
      BY <3>1
    <3>3. \A x \in 0 .. 2 ^ (Depth - h) - 1 :
             Stored(NodeAt(t, h, x)) = HashLeftRight(Stored(NodeAt(t, h - 1, 2 * x)),
                                                     Stored(NodeAt(t, h - 1, 2 * x + 1)))
      BY <2>1 DEF Coherent
    <3>4. QED
      BY <3>2, <3>3 DEF NodeAt
  <2>4. QED
    BY <2>2, <2>3 DEF ViewCoherent
<1>7. QED
  BY <1>3, <1>4, <1>5, <1>6 DEF HashesInv

\* Signing again and reading lengths change neither what is signed nor which stored
\* leaf may be inserted again.
LEMMA InsertLeafSigns ==
  ASSUME StoresOK, NEW m \in 0 .. Limit, HasLeaves(m),
         NEW i \in Index, NEW a \in {1, 2}, InsertLeaf(i, a)
  PROVE  /\ \A j, hash : Signed(j, hash) => Signed(j, hash)'
         /\ Signed(i, LeafHash(i, a))'
         /\ \A j \in 0 .. Limit - 1 : Leaf(j) \in DOMAIN db =>
               (treeLengths'[TreeOf(j)] \in 0 .. IndexIn(j) =>
                   treeLengths[TreeOf(j)] \in 0 .. IndexIn(j))
<1>1. /\ Offered(i, a) /\ treeLengths' = LengthsRead
      /\ signed' = IF ownList THEN Write(signed, [j \in {i} |-> a]) ELSE signed
      /\ UNCHANGED <<ownList, db>>
  BY InsertLeafCases DEF database
<1>2. ASSUME ownList
      PROVE  /\ DOMAIN signed' = DOMAIN signed \union {i} /\ signed'[i] = a
             /\ \A j \in DOMAIN signed : signed'[j] = signed[j]
  <2>1. signed' = Write(signed, [j \in {i} |-> a])
    BY <1>1, <1>2
  <2>2. i \in DOMAIN signed => a = signed[i]
    BY <1>1, <1>2 DEF Offered
  <2>3. QED
    BY <2>1, <2>2 DEF Write
<1>3. ASSUME NEW j, NEW hash, Signed(j, hash) PROVE Signed(j, hash)'
  <2>1. CASE ownList
    <3>1. j \in DOMAIN signed /\ hash = LeafHash(j, signed[j])
      BY <1>3, <2>1 DEF Signed
    <3>2. j \in DOMAIN signed' /\ signed'[j] = signed[j]
      BY <1>2, <2>1, <3>1
    <3>3. QED
      BY <1>1, <2>1, <3>1, <3>2 DEF Signed
  <2>2. CASE ~ownList
    BY <1>1, <1>3, <2>2 DEF Signed
  <2>3. QED
    BY <2>1, <2>2
<1>4. Signed(i, LeafHash(i, a))'
  <2>1. CASE ownList
    BY <1>1, <1>2, <2>1 DEF Signed, LeafHash
  <2>2. CASE ~ownList
    <3>1. a = 1
      BY <1>1, <2>2 DEF Offered
    <3>2. QED
      BY <1>1, <2>2, <3>1 DEF Signed, LeafHash
  <2>3. QED
    BY <2>1, <2>2
<1>5. ASSUME NEW j \in 0 .. Limit - 1, Leaf(j) \in DOMAIN db,
             treeLengths'[TreeOf(j)] \in 0 .. IndexIn(j)
      PROVE  treeLengths[TreeOf(j)] \in 0 .. IndexIn(j)
  <2>1. Refines(m, treeLengths')
    BY <1>1, ReadLengthsRefine DEF HasLeaves
  <2>2. /\ m \in Nat /\ j \in Nat /\ j < m /\ TreeOf(j) \in Trees /\ TreeOf(j) \in Nat
        /\ IndexIn(j) \in Nat
    BY <1>5, KnownLengths, StoredIndex, LimitType, TreesOfIndices, IndexParts, TreeItemsType
       DEF HasLeaves, StoresOK
  <2>3. IndexIn(j) < Filled(m, TreeOf(j)) /\ Filled(m, TreeOf(j)) \in Nat
    BY <2>2, FilledIndex, KnownLengths DEF HasLeaves
  <2>4. treeLengths'[TreeOf(j)] # Filled(m, TreeOf(j))
    BY <1>5, <2>2, <2>3
  <2>5. treeLengths'[TreeOf(j)] = treeLengths[TreeOf(j)]
    BY <2>1, <2>2, <2>4 DEF Refines
  <2>6. QED
    BY <1>5, <2>5
<1>6. QED
  BY <1>3, <1>4, <1>5

\* What the reads of an insertion put into the cache is what is stored.
LEMMA WarmCache ==
  ASSUME StoresOK, NEW read, NEW warm, warm = Write(cache, ColdReads(read))
  PROVE  /\ \A n \in DOMAIN cache : n \in DOMAIN warm /\ warm[n] = cache[n]
         /\ \A n \in DOMAIN warm \ DOMAIN cache : n \in DOMAIN db /\ warm[n] = db[n]
<1> DEFINE cold == ColdReads(read)
<1>1. /\ DOMAIN cold = (read \cap DOMAIN db) \ DOMAIN cache
      /\ \A n \in DOMAIN cold : cold[n] = db[n]
  BY ReadNodes DEF StoresOK
<1> HIDE DEF cold
<1>2. warm = Write(cache, cold)
  BY DEF cold
<1>3. DOMAIN warm = DOMAIN cache \union DOMAIN cold
  BY <1>2, Zenon DEF Write
<1>4. \A n \in DOMAIN warm : warm[n] = IF n \in DOMAIN cold THEN cold[n] ELSE cache[n]
  BY <1>2 DEF Write
<1>5. QED
  BY <1>1, <1>3, <1>4

LEMMA HashesInsertsNothing ==
  ASSUME StoresOK, NEW m \in 0 .. Limit, HasLeaves(m), HashesInv,
         NEW i \in Index, NEW a \in {1, 2}, InsertLeaf(i, a),
         NEW read, InsertsNothing(i, a, read)
  PROVE  HashesInv'
<1>1. /\ UNCHANGED <<ownList, start, db, merkleroots, pending, stray, reader, overwritten, torn>>
      /\ adder'.pc # "nodes"
  <2>1. UNCHANGED <<ownList, start, db, merkleroots, stray, overwritten, torn>>
    BY InsertLeafCases DEF database
  <2>2. /\ UNCHANGED <<pending, reader>>
        /\ adder' = Idle \/ adder' = [pc |-> "event", i |-> i]
    BY DEF InsertsNothing
  <2>3. QED
    BY <2>1, <2>2 DEF Idle
<1> DEFINE warm == Write(cache, ColdReads(read))
<1>2. cache' = Write(warm, Nothing)
  BY DEF InsertsNothing
<1>3. /\ \A n \in DOMAIN cache : n \in DOMAIN warm /\ warm[n] = cache[n]
      /\ \A n \in DOMAIN warm \ DOMAIN cache : n \in DOMAIN db /\ warm[n] = db[n]
  <2>1. PICK w : w = warm
    OBVIOUS
  <2> HIDE DEF warm
  <2>2. /\ \A n \in DOMAIN cache : n \in DOMAIN w /\ w[n] = cache[n]
        /\ \A n \in DOMAIN w \ DOMAIN cache : n \in DOMAIN db /\ w[n] = db[n]
    <3>1. w = Write(cache, ColdReads(read))
      BY <2>1 DEF warm
    <3>2. QED
      BY <3>1, WarmCache
  <2>3. QED
    BY <2>1, <2>2
<1> HIDE DEF warm
<1>4. DOMAIN cache' = DOMAIN warm /\ \A n \in DOMAIN warm : cache'[n] = warm[n]
  <2>1. DOMAIN Nothing = {}
    BY NothingIsNodes
  <2>2. DOMAIN cache' = DOMAIN warm \union DOMAIN Nothing
    BY <1>2, Zenon DEF Write
  <2>3. \A n \in DOMAIN cache' : cache'[n] = IF n \in DOMAIN Nothing THEN Nothing[n] ELSE warm[n]
    BY <1>2 DEF Write
  <2>4. QED
    BY <2>1, <2>2, <2>3
<1>5. /\ \A n \in DOMAIN cache : n \in DOMAIN cache' /\ cache'[n] = cache[n]
      /\ \A n \in DOMAIN cache' \ DOMAIN cache : n \in DOMAIN db /\ cache'[n] = db[n]
  BY <1>3, <1>4
<1>6. \A n : GetNodeHash(n)' = GetNodeHash(n)
  BY <1>1, <1>5, CachedView
<1>7. ColdReadsStored'
  <2>1. DOMAIN cache \subseteq DOMAIN cache'
    BY <1>5
  <2>2. QED
    BY <1>1, <2>1, ColdReadsKept DEF HashesInv
<1>8. ASSUME ~overwritten' PROVE LeavesSigned' /\ QuietReads'
  <2>1. LeavesSigned /\ QuietReads
    BY <1>1, <1>8 DEF HashesInv
  <2>2. QuietReads'
    BY <1>1, <1>6, <2>1, QuietReadsKept
  <2>3. /\ \A j \in 0 .. Limit - 1 : \A hash : Signed(j, hash) => Signed(j, hash)'
        /\ \A j \in 0 .. Limit - 1 : Leaf(j) \in DOMAIN db =>
               (treeLengths'[TreeOf(j)] \in 0 .. IndexIn(j) =>
                   treeLengths[TreeOf(j)] \in 0 .. IndexIn(j))
    BY InsertLeafSigns
  <2>4. /\ \A n \in DOMAIN pending' : n \in DOMAIN pending /\ pending'[n] = pending[n]
        /\ \A w \in stray' : w \in stray
    BY <1>1
  <2>5. \A n \in DOMAIN cache' : \/ n \in DOMAIN cache /\ cache'[n] = cache[n]
                                 \/ n \in DOMAIN db /\ cache'[n] = db[n]
    BY <1>5
  <2>6. QED
    BY <1>1, <2>1, <2>2, <2>3, <2>4, <2>5, LeavesSignedKept
<1>9. LeavesKept
  BY <1>1 DEF LeavesKept
<1>10. QED
  BY <1>1, <1>6, <1>7, <1>8, <1>9, HashesKept

\* An insertion caches the hashes of its path over everything else.
LEMMA InsertedCache ==
  ASSUME StoresOK, NEW i \in 0 .. Limit - 1, NEW a \in {1, 2}, NEW read, Inserts(i, a, read),
         UNCHANGED db, NEW hashes, hashes = FillHashWriteGroup(i, LeafHash(i, a))
  PROVE  /\ DOMAIN hashes = Path(i) /\ hashes[Leaf(i)] = LeafHash(i, a)
         /\ \A n \in Path(i) : n \in DOMAIN cache' /\ cache'[n] = hashes[n]
         /\ \A n \in DOMAIN cache \ Path(i) : n \in DOMAIN cache' /\ cache'[n] = cache[n]
         /\ \A n \in DOMAIN cache' \ (DOMAIN cache \union Path(i)) :
               n \in DOMAIN db /\ cache'[n] = db[n]
<1>1. PICK warm : warm = Write(cache, ColdReads(read))
  OBVIOUS
<1>2. /\ \A n \in DOMAIN cache : n \in DOMAIN warm /\ warm[n] = cache[n]
      /\ \A n \in DOMAIN warm \ DOMAIN cache : n \in DOMAIN db /\ warm[n] = db[n]
  BY <1>1, WarmCache
<1>3. DOMAIN hashes = Path(i) /\ hashes[Leaf(i)] = LeafHash(i, a)
  BY FilledPath DEF StoresOK
<1>4. cache' = Write(warm, hashes)
  BY <1>1 DEF Inserts
<1>5. DOMAIN cache' = DOMAIN warm \union DOMAIN hashes
  BY <1>4, Zenon DEF Write
<1>6. \A n \in DOMAIN cache' : cache'[n] = IF n \in DOMAIN hashes THEN hashes[n] ELSE warm[n]
  BY <1>4 DEF Write
<1>7. QED
  BY <1>2, <1>3, <1>5, <1>6

\* A tree of hashes stays one: above the path nothing changes, on the path each hash is
\* that of the node below with the one beside it.
LEMMA InsertedView ==
  ASSUME StoresOK, NEW i \in 0 .. Limit - 1, NEW a \in {1, 2}, NEW read, Inserts(i, a, read),
         UNCHANGED db, NEW hashes, hashes = FillHashWriteGroup(i, LeafHash(i, a))
  PROVE  /\ \A n \in Path(i) : GetNodeHash(n)' = hashes[n]
         /\ \A n : n \notin Path(i) => GetNodeHash(n)' = GetNodeHash(n)
         /\ ViewCoherent => ViewCoherent'
<1>1. /\ \A n \in Path(i) : n \in DOMAIN cache' /\ cache'[n] = hashes[n]
      /\ \A n \in DOMAIN cache \ Path(i) : n \in DOMAIN cache' /\ cache'[n] = cache[n]
      /\ \A n \in DOMAIN cache' \ (DOMAIN cache \union Path(i)) :
            n \in DOMAIN db /\ cache'[n] = db[n]
  BY InsertedCache
<1>2. \A n \in Path(i) : GetNodeHash(n)' = hashes[n]
  BY <1>1 DEF GetNodeHash
<1>3. ASSUME NEW n, n \notin Path(i) PROVE GetNodeHash(n)' = GetNodeHash(n)
  <2>1. CASE n \in DOMAIN cache
    BY <1>1, <1>3, <2>1 DEF GetNodeHash
  <2>2. CASE n \notin DOMAIN cache /\ n \in DOMAIN cache'
    BY <1>1, <1>3, <2>2 DEF GetNodeHash
  <2>3. CASE n \notin DOMAIN cache /\ n \notin DOMAIN cache'
    BY <2>3 DEF GetNodeHash
  <2>4. QED
    BY <2>1, <2>2, <2>3
<1>4. i \in Index
  BY LimitType DEF StoresOK
<1> DEFINE elements == [n \in Elements(i) |-> GetNodeHash(n)]
           up == PathHashes(i, LeafHash(i, a), elements)
<1>5. \A n \in Path(i) : hashes[n] = up[n[2]]
  BY DEF FillHashWriteGroup
<1>6. ASSUME NEW l \in 0 .. Depth - 1
      PROVE  /\ Beside(i, l) \notin Path(i)
             /\ up[l + 1] = IF (IndexIn(i) \div 2 ^ l) % 2 = 0
                              THEN HashLeftRight(up[l], GetNodeHash(Beside(i, l)))
                              ELSE HashLeftRight(GetNodeHash(Beside(i, l)), up[l])
  <2>1. elements[Beside(i, l)] = GetNodeHash(Beside(i, l))
    BY <1>4, BesideIsElement
  <2> HIDE DEF elements
  <2>2. up[l + 1] = IF (IndexIn(i) \div 2 ^ l) % 2 = 0
                      THEN HashLeftRight(up[l], elements[Beside(i, l)])
                      ELSE HashLeftRight(elements[Beside(i, l)], up[l])
    BY PathHashesStep
  <2>3. Beside(i, l) \notin Path(i)
    <3>1. l \in 0 .. Depth
      BY ConstantsAssumption
    <3>2. Sibling(IndexIn(i) \div 2 ^ l) # IndexIn(i) \div 2 ^ l
      BY <1>4, PathParent
    <3>3. QED
      BY <1>4, <3>1, <3>2, OnPath DEF Beside, NodeAt
  <2> HIDE DEF up
  <2>4. QED
    BY <2>1, <2>2, <2>3
<1> HIDE DEF elements, up
<1>7. ASSUME ViewCoherent, NEW t \in Trees, NEW l \in 0 .. Depth - 1,
             NEW k \in 0 .. 2 ^ (Depth - (l + 1)) - 1
      PROVE  GetNodeHash(<<t, l + 1, k>>)' =
                HashLeftRight(GetNodeHash(<<t, l, 2 * k>>)', GetNodeHash(<<t, l, 2 * k + 1>>)')
  <2> DEFINE below == IndexIn(i) \div 2 ^ l
             above == IndexIn(i) \div 2 ^ (l + 1)
  <2>1. /\ above = below \div 2 /\ below \in Nat
        /\ IF below % 2 = 0 THEN below = 2 * above /\ Sibling(below) = 2 * above + 1
                            ELSE below = 2 * above + 1 /\ Sibling(below) = 2 * above
    BY <1>4, PathParent
  <2>2. l \in 0 .. Depth /\ l + 1 \in 0 .. Depth /\ k \in Nat
    BY NodeIndices
  <2>3. CASE <<t, l + 1, k>> \in Path(i)
    <3>1. t = TreeOf(i) /\ k = above
      BY <1>4, <2>2, <2>3, OnPath
    <3>2. <<t, l, below>> \in Path(i)
      BY <1>4, <2>2, <3>1, OnPath
    <3>3. GetNodeHash(<<t, l, below>>)' = up[l] /\ GetNodeHash(<<t, l + 1, k>>)' = up[l + 1]
      <4>1. <<t, l, below>>[2] = l /\ <<t, l + 1, k>>[2] = l + 1
        OBVIOUS
      <4> HIDE DEF below
      <4>2. QED
        BY <1>2, <1>5, <2>3, <3>2, <4>1
    <3>4. Beside(i, l) = <<t, l, Sibling(below)>>
      BY <3>1 DEF Beside, NodeAt
    <3>5. GetNodeHash(Beside(i, l))' = GetNodeHash(Beside(i, l))
      BY <1>3, <1>6
    <3> DEFINE other == GetNodeHash(Beside(i, l))
    <3>6. up[l + 1] = IF below % 2 = 0 THEN HashLeftRight(up[l], other)
                                       ELSE HashLeftRight(other, up[l])
      BY <1>6
    <3>7. GetNodeHash(<<t, l, Sibling(below)>>)' = other
      BY <3>4, <3>5
    <3> HIDE DEF below, above, other
    <3>8. CASE below % 2 = 0
      <4>1. 2 * k = below /\ 2 * k + 1 = Sibling(below)
        BY <2>1, <3>1, <3>8
      <4>2. QED
        BY <3>3, <3>6, <3>7, <3>8, <4>1
    <3>9. CASE below % 2 # 0
      <4>1. 2 * k + 1 = below /\ 2 * k = Sibling(below)
        BY <2>1, <3>1, <3>9
      <4>2. QED
        BY <3>3, <3>6, <3>7, <3>9, <4>1
    <3>10. QED
      BY <3>8, <3>9
  <2>4. CASE <<t, l + 1, k>> \notin Path(i)
    <3>1. ASSUME NEW x \in {2 * k, 2 * k + 1} PROVE <<t, l, x>> \notin Path(i)
      <4>1. SUFFICES ASSUME <<t, l, x>> \in Path(i) PROVE FALSE
        OBVIOUS
      <4>2. t = TreeOf(i) /\ x = below
        BY <1>4, <2>2, <4>1, OnPath
      <4>3. k = above
        <5> HIDE DEF below, above
        <5>1. QED
          BY <2>1, <2>2, <4>2
      <4>4. QED
        BY <1>4, <2>2, <2>4, <4>2, <4>3, OnPath
    <3>2. GetNodeHash(<<t, l + 1, k>>) =
             HashLeftRight(GetNodeHash(<<t, l, 2 * k>>), GetNodeHash(<<t, l, 2 * k + 1>>))
      BY <1>7 DEF ViewCoherent
    <3>3. /\ GetNodeHash(<<t, l + 1, k>>)' = GetNodeHash(<<t, l + 1, k>>)
          /\ GetNodeHash(<<t, l, 2 * k>>)' = GetNodeHash(<<t, l, 2 * k>>)
          /\ GetNodeHash(<<t, l, 2 * k + 1>>)' = GetNodeHash(<<t, l, 2 * k + 1>>)
      BY <1>3, <2>4, <3>1
    <3>4. QED
      BY <3>2, <3>3
  <2>5. QED
    BY <2>3, <2>4
<1>8. ViewCoherent => ViewCoherent'
  BY <1>7 DEF ViewCoherent
<1>9. QED
  BY <1>2, <1>3, <1>8

LEMMA HashesInserts ==
  ASSUME StoresOK, NEW m \in 0 .. Limit, HasLeaves(m), HashesInv,
         NEW i \in Index, NEW a \in {1, 2}, InsertLeaf(i, a),
         NEW read, Inserts(i, a, read)
  PROVE  HashesInv'
<1>1. PICK hashes : hashes = FillHashWriteGroup(i, LeafHash(i, a))
  OBVIOUS
<1>2. UNCHANGED <<ownList, start, db, merkleroots, stray, overwritten, torn>>
  BY InsertLeafCases DEF database
<1>3. i \in 0 .. Limit - 1
  BY InsertLeafCases DEF Offered
<1>4. /\ RootIsAccepted(i, hashes)
      /\ adder' = [pc |-> "nodes", i |-> i] /\ pending' = hashes
      /\ reader' = IF reader = Idle THEN Idle ELSE [reader EXCEPT !.quiet = FALSE]
  BY <1>1 DEF Inserts
<1>5. Limit' = Limit
  BY <1>2 DEF Limit
<1>6. /\ DOMAIN hashes = Path(i) /\ hashes[Leaf(i)] = LeafHash(i, a)
      /\ \A n \in Path(i) : n \in DOMAIN cache' /\ cache'[n] = hashes[n]
      /\ \A n \in DOMAIN cache \ Path(i) : n \in DOMAIN cache' /\ cache'[n] = cache[n]
      /\ \A n \in DOMAIN cache' \ (DOMAIN cache \union Path(i)) :
            n \in DOMAIN db /\ cache'[n] = db[n]
  BY <1>1, <1>2, <1>3, InsertedCache
<1>7. /\ \A n \in Path(i) : GetNodeHash(n)' = hashes[n]
      /\ ViewCoherent => ViewCoherent'
  BY <1>1, <1>2, <1>3, InsertedView
<1>8. LeavesKept
  BY <1>2 DEF LeavesKept
<1>9. RootsOfLeaves' /\ StoredRootsAreListRoots'
  BY <1>2, <1>8, RootsKept
<1>10. RootAccepted'
  <2>1. SUFFICES ASSUME ~ownList' PROVE GetNodeHash(Root(TreeOf(i)))' = ListRoot(i)'
    BY <1>4 DEF RootAccepted
  <2>2. ListRoot(i)' = ListRoot(i)
    BY <1>2, <1>3, <1>8, <2>1, ListRootKept
  <2>3. hashes[Root(TreeOf(i))] = ListRoot(i)
    BY <1>2, <1>4, <2>1 DEF RootIsAccepted
  <2>4. GetNodeHash(Root(TreeOf(i)))' = hashes[Root(TreeOf(i))]
    BY <1>7, PathNodes
  <2>5. QED
    BY <2>2, <2>3, <2>4
<1>11. QuietReads' /\ ColdReadsStored'
  <2>1. CASE reader = Idle
    BY <1>4, <2>1 DEF QuietReads, ColdReadsStored, Idle
  <2>2. CASE reader # Idle
    <3>1. {"pc", "i", "quiet", "cold"} \subseteq DOMAIN reader
      BY <2>2 DEF HasLeaves, ReaderOK
    <3>2. reader' = [reader EXCEPT !.quiet = FALSE]
      BY <1>4, <2>2
    <3>3. reader'.quiet = FALSE /\ reader'.pc = reader.pc /\ reader'.cold = reader.cold
      BY <3>1, <3>2
    <3>4. DOMAIN cache \subseteq DOMAIN cache'
      BY <1>6
    <3>5. QED
      BY <1>2, <3>3, <3>4 DEF QuietReads, ColdReadsStored, HashesInv
  <2>3. QED
    BY <2>1, <2>2
<1>12. ASSUME ~overwritten' PROVE LeavesSigned'
  <2>1. LeavesSigned
    BY <1>2, <1>12 DEF HashesInv
  <2>2. /\ \A j, hash : Signed(j, hash) => Signed(j, hash)'
        /\ Signed(i, LeafHash(i, a))'
        /\ \A j \in 0 .. Limit - 1 : Leaf(j) \in DOMAIN db =>
               (treeLengths'[TreeOf(j)] \in 0 .. IndexIn(j) =>
                   treeLengths[TreeOf(j)] \in 0 .. IndexIn(j))
    BY InsertLeafSigns
  <2>3. Leaf(i) \in Path(i) /\ \A j \in 0 .. Limit - 1 : Leaf(j) \in Path(i) => j = i
    <3>1. Leaf(i) \in Path(i) /\ \A n \in Path(i) : n[2] = 0 => n = Leaf(i)
      BY PathNodes
    <3>2. ASSUME NEW j \in 0 .. Limit - 1, Leaf(j) \in Path(i) PROVE j = i
      <4>1. Leaf(j)[2] = 0
        BY DEF Leaf, NodeAt
      <4>2. Leaf(j) = Leaf(i)
        BY <3>1, <3>2, <4>1
      <4>3. Limit \in Nat
        BY LimitType DEF StoresOK
      <4>4. j \in Nat /\ i \in Nat
        BY <1>3, <4>3
      <4>5. QED
        BY <4>2, <4>4, LeafInjective
    <3>3. QED
      BY <3>1, <3>2
  <2>4. ASSUME NEW j \in 0 .. Limit - 1
        PROVE  /\ Leaf(j) \in DOMAIN pending => Signed(j, pending[Leaf(j)])
               /\ Leaf(j) \in DOMAIN cache \ DOMAIN db => Signed(j, cache[Leaf(j)])
               /\ Leaf(j) \in DOMAIN cache \cap DOMAIN db => cache[Leaf(j)] = db[Leaf(j)]
               /\ Leaf(j) \in DOMAIN db /\ treeLengths[TreeOf(j)] \in 0 .. IndexIn(j) =>
                     Signed(j, db[Leaf(j)])
               /\ \A w \in stray : w[1] = Leaf(j) => Signed(j, w[2])
    BY <2>1 DEF LeavesSigned
  <2>5. ASSUME Leaf(i) \in DOMAIN db PROVE db[Leaf(i)] = LeafHash(i, a)
    <3>1. treeLengths'[TreeOf(i)] \in 0 .. IndexIn(i)
      <4>1. AdderOK'
        BY LeavesInsertLeaf DEF HasLeaves
      <4>2. adder'.pc = "nodes" /\ adder'.i = i
        BY <1>4
      <4>3. QED
        BY <4>1, <4>2 DEF AdderOK, Idle
    <3>2. Signed(i, db[Leaf(i)])
      BY <1>3, <2>2, <2>4, <2>5, <3>1
    <3>3. Signed(i, db[Leaf(i)])'
      <4>1. PICK hash : hash = db[Leaf(i)]
        OBVIOUS
      <4>2. Signed(i, hash)'
        BY <2>2, <3>2, <4>1
      <4>3. QED
        BY <1>2, <4>1, <4>2
    <3>4. QED
      BY <1>2, <2>2, <3>3 DEF Signed
  <2>6. ASSUME NEW j \in 0 .. Limit - 1
        PROVE  /\ Leaf(j) \in DOMAIN pending' => Signed(j, pending[Leaf(j)])'
               /\ Leaf(j) \in DOMAIN cache' \ DOMAIN db' => Signed(j, cache[Leaf(j)])'
               /\ Leaf(j) \in DOMAIN cache' \cap DOMAIN db' => cache'[Leaf(j)] = db'[Leaf(j)]
    <3>1. CASE Leaf(j) \in Path(i)
      <4>1. j = i /\ cache'[Leaf(j)] = LeafHash(i, a) /\ pending'[Leaf(j)] = LeafHash(i, a)
        BY <1>4, <1>6, <2>3, <3>1
      <4>2. Signed(j, pending[Leaf(j)])' /\ Signed(j, cache[Leaf(j)])'
        BY <2>2, <4>1 DEF Signed
      <4>3. Leaf(j) \in DOMAIN db' => cache'[Leaf(j)] = db'[Leaf(j)]
        BY <1>2, <2>5, <4>1
      <4>4. QED
        BY <4>2, <4>3
    <3>2. CASE Leaf(j) \notin Path(i)
      <4>1. Leaf(j) \notin DOMAIN pending'
        BY <1>4, <1>6, <3>2
      <4>2. CASE Leaf(j) \in DOMAIN cache
        <5>1. cache'[Leaf(j)] = cache[Leaf(j)]
          BY <1>6, <3>2, <4>2
        <5>2. ASSUME Leaf(j) \notin DOMAIN db' PROVE Signed(j, cache[Leaf(j)])'
          <6>1. Signed(j, cache[Leaf(j)])
            BY <1>2, <2>4, <4>2, <5>2
          <6>2. PICK hash : hash = cache[Leaf(j)]
            OBVIOUS
          <6>3. Signed(j, hash)'
            BY <2>2, <6>1, <6>2
          <6>4. QED
            BY <5>1, <6>2, <6>3 DEF Signed
        <5>3. Leaf(j) \in DOMAIN db' => cache'[Leaf(j)] = db'[Leaf(j)]
          BY <1>2, <2>4, <4>2, <5>1
        <5>4. QED
          BY <4>1, <5>2, <5>3
      <4>3. CASE Leaf(j) \notin DOMAIN cache
        BY <1>2, <1>6, <3>2, <4>1, <4>3
      <4>4. QED
        BY <4>2, <4>3
    <3>3. QED
      BY <3>1, <3>2
  <2>7. ASSUME NEW j \in 0 .. Limit - 1
        PROVE  /\ Leaf(j) \in DOMAIN db' /\ treeLengths'[TreeOf(j)] \in 0 .. IndexIn(j) =>
                     Signed(j, db[Leaf(j)])'
               /\ \A w \in stray' : w[1] = Leaf(j) => Signed(j, w[2])'
    <3>1. \A w \in stray' : w[1] = Leaf(j) => Signed(j, w[2])'
      BY <1>2, <2>2, <2>4
    <3>2. ASSUME Leaf(j) \in DOMAIN db', treeLengths'[TreeOf(j)] \in 0 .. IndexIn(j)
          PROVE  Signed(j, db[Leaf(j)])'
      <4>1. PICK hash : hash = db[Leaf(j)]
        OBVIOUS
      <4>2. Signed(j, hash)
        BY <1>2, <2>2, <2>4, <3>2, <4>1
      <4>3. Signed(j, hash)'
        BY <2>2, <4>2
      <4>4. QED
        BY <1>2, <4>1, <4>3
    <3>3. QED
      BY <3>1, <3>2
  <2>8. QED
    BY <1>5, <2>6, <2>7 DEF LeavesSigned
<1>13. QED
  BY <1>2, <1>7, <1>9, <1>10, <1>11, <1>12 DEF HashesInv

LEMMA HashesInsertLeaf ==
  ASSUME StoresOK, NEW m \in 0 .. Limit, HasLeaves(m), HashesInv,
         NEW i \in Index, NEW a \in {1, 2}, InsertLeaf(i, a)
  PROVE  HashesInv'
<1>1. PICK read : Inserts(i, a, read) \/ InsertsNothing(i, a, read)
  BY InsertLeafCases
<1>2. QED
  BY <1>1, HashesInserts, HashesInsertsNothing

\* At first the stored nodes are those of whole trees over the first leaves, and a node
\* that is not stored has no leaf below it.
LEMMA InitialHashes ==
  ASSUME Init, NEW t \in Trees, NEW l \in 0 .. Depth, NEW k \in 0 .. 2 ^ (Depth - l) - 1
  PROVE  GetNodeHash(<<t, l, k>>) = FullTrees(start)[<<t, l, k>>]
<1> DEFINE n == <<t, l, k>>
           hash == FullTrees(start)[n]
<1>1. /\ start \in Starts /\ cache = Nothing
      /\ db = Restrict(FullTrees(start), UNION {Path(i) : i \in 0 .. start - 1})
  BY DEF Init
<1>2. start \in Nat /\ 0 .. start - 1 \subseteq Index /\ n[2] = l /\ t \in Nat
  <2>1. start \in Nat /\ 0 .. start - 1 \subseteq 0 .. Limit - 1
    BY <1>1, ConstantsAssumption DEF Limit
  <2>2. QED
    BY <1>1, <2>1, LimitType, TreesOfIndices
<1>3. CASE n \in DOMAIN db
  <2>1. db[n] = hash
    BY <1>1, <1>3 DEF Restrict
  <2> HIDE DEF n, hash
  <2>2. GetNodeHash(n) = hash
    BY <1>1, <1>3, <2>1 DEF GetNodeHash, Nothing
  <2>3. QED
    BY <2>2 DEF n, hash
<1>4. CASE n \notin DOMAIN db
  <2>1. GetNodeHash(n) = Zeros(l)
    <3> HIDE DEF n
    <3>1. QED
      BY <1>1, <1>2, <1>4 DEF GetNodeHash, Nothing
  <2>2. k \in 0 .. TreeItems - 1
    <3>1. 1 \in 1 .. 2 ^ l
      <4>1. 2 ^ l \in Nat \ {0}
        BY PowerSplit
      <4>2. QED
        BY <4>1
    <3>2. QED
      BY <3>1, LeavesBelow
  <2>3. hash = FullHash(start, t, l, k)
    BY <1>2, <2>2, FullTreesNodes
  <2>4. ASSUME NEW j \in 1 .. 2 ^ l PROVE ~(GlobalIndex(t, k * 2 ^ l + j - 1) < start)
    <3> DEFINE x == k * 2 ^ l + j - 1
               i == GlobalIndex(t, x)
    <3>1. SUFFICES ASSUME i < start PROVE FALSE
      OBVIOUS
    <3>2. x \in 0 .. TreeItems - 1 /\ x \div 2 ^ l = k
      BY LeavesBelow
    <3> HIDE DEF x
    <3>3. i \in Nat /\ TreeOf(i) = t /\ IndexIn(i) = x
      BY <1>2, <3>2, PartsIndex
    <3> HIDE DEF i
    <3>4. i \in 0 .. start - 1
      BY <1>2, <3>1, <3>3
    <3>5. n \in Path(i)
      BY <1>2, <3>2, <3>3, <3>4, OnPath
    <3>6. DOMAIN db = UNION {Path(y) : y \in 0 .. start - 1}
      BY <1>1 DEF Restrict
    <3>7. QED
      BY <1>4, <3>4, <3>5, <3>6
  <2>5. hash = Zeros(l)
    <3> HIDE DEF hash
    <3>1. QED
      BY <2>3, <2>4 DEF Zeros, FullHash
  <2>6. QED
    BY <2>1, <2>5
<1>5. QED
  BY <1>3, <1>4

LEMMA InitialView == Init => ViewCoherent
<1> SUFFICES ASSUME Init PROVE ViewCoherent
  OBVIOUS
<1>1. start \in Nat
  BY ConstantsAssumption DEF Init
<1>2. SUFFICES ASSUME NEW t \in Trees, NEW l \in 0 .. Depth - 1,
                      NEW k \in 0 .. 2 ^ (Depth - (l + 1)) - 1
               PROVE  GetNodeHash(<<t, l + 1, k>>) =
                         HashLeftRight(GetNodeHash(<<t, l, 2 * k>>),
                                       GetNodeHash(<<t, l, 2 * k + 1>>))
  BY DEF ViewCoherent
<1>3. /\ l \in 0 .. Depth /\ l + 1 \in 0 .. Depth
      /\ k \in Nat /\ {2 * k, 2 * k + 1} \subseteq 0 .. 2 ^ (Depth - l) - 1
      /\ 2 ^ (l + 1) = 2 * 2 ^ l /\ 2 ^ l \in Nat \ {0}
  BY NodeIndices
<1> DEFINE v == [x \in Nat |-> IF GlobalIndex(t, x) < start
                                 THEN LeafHash(GlobalIndex(t, x), 1)[1] ELSE Zero]
<1>4. v \in [Nat -> Nat]
  <2>1. ASSUME NEW x \in Nat PROVE v[x] \in Nat
    <3> DEFINE i == GlobalIndex(t, x)
    <3>1. i \in Nat
      BY TreesOfIndices, TreeItemsType DEF GlobalIndex
    <3>2. v[x] = IF i < start THEN LeafHash(i, 1)[1] ELSE Zero
      OBVIOUS
    <3> HIDE DEF i, v
    <3>3. LeafHash(i, 1)[1] = 2 * i + 1
      BY DEF LeafHash
    <3>4. QED
      BY <3>1, <3>2, <3>3 DEF Zero
  <2>2. QED
    BY <2>1
<1>5. ASSUME NEW h \in 0 .. Depth, NEW y \in 0 .. 2 ^ (Depth - h) - 1
      PROVE  GetNodeHash(<<t, h, y>>) = [j \in 1 .. 2 ^ h |-> v[y * 2 ^ h + j - 1]]
  <2>1. GetNodeHash(<<t, h, y>>) = FullTrees(start)[<<t, h, y>>]
    BY InitialHashes
  <2>2. 2 ^ h \in Nat \ {0}
    BY PowerSplit
  <2>3. y \in 0 .. TreeItems - 1
    <3>1. 1 \in 1 .. 2 ^ h
      BY <2>2
    <3>2. QED
      BY <3>1, LeavesBelow
  <2>4. FullTrees(start)[<<t, h, y>>] = FullHash(start, t, h, y)
    BY <1>1, <2>3, FullTreesNodes
  <2>5. ASSUME NEW j \in 1 .. 2 ^ h PROVE y * 2 ^ h + j - 1 \in Nat
    <3>1. y * 2 ^ h + j - 1 \in 0 .. TreeItems - 1
      BY LeavesBelow
    <3>2. QED
      BY <3>1
  <2>6. FullHash(start, t, h, y) = [j \in 1 .. 2 ^ h |-> v[y * 2 ^ h + j - 1]]
    BY <2>5 DEF FullHash
  <2>7. QED
    BY <2>1, <2>4, <2>6
<1> HIDE DEF v
<1>6. GetNodeHash(<<t, l + 1, k>>) = [j \in 1 .. 2 * 2 ^ l |-> v[k * (2 * 2 ^ l) + j - 1]]
  <2>1. GetNodeHash(<<t, l + 1, k>>) = [j \in 1 .. 2 ^ (l + 1) |-> v[k * 2 ^ (l + 1) + j - 1]]
    BY <1>3, <1>5
  <2>2. QED
    BY <1>3, <2>1
<1>7. /\ GetNodeHash(<<t, l, 2 * k>>) = [j \in 1 .. 2 ^ l |-> v[(2 * k) * 2 ^ l + j - 1]]
      /\ GetNodeHash(<<t, l, 2 * k + 1>>) = [j \in 1 .. 2 ^ l |-> v[(2 * k + 1) * 2 ^ l + j - 1]]
  BY <1>3, <1>5
<1>8. HashLeftRight([j \in 1 .. 2 ^ l |-> v[(2 * k) * 2 ^ l + j - 1]],
                    [j \in 1 .. 2 ^ l |-> v[(2 * k + 1) * 2 ^ l + j - 1]])
         = [j \in 1 .. 2 * 2 ^ l |-> v[k * (2 * 2 ^ l) + j - 1]]
  BY <1>3, <1>4, LeavesOfChildren
<1>9. QED
  BY <1>6, <1>7, <1>8

\* The roots that are stored at first are those of the list.
LEMMA InitialRoots ==
  ASSUME Init, NEW i \in 0 .. start - 1
  PROVE  RootBefore(i) = ListRoot(i) /\ Leaf(i) \in DOMAIN db
<1> DEFINE T == TreeOf(i)
<1>1. /\ start \in Starts /\ cache = Nothing
      /\ db = Restrict(FullTrees(start), UNION {Path(j) : j \in 0 .. start - 1})
  BY DEF Init
<1>2. /\ start \in Nat /\ 0 .. start - 1 \subseteq Index /\ i \in Nat /\ T \in Trees
      /\ T \in Nat /\ TreeItems \in Nat /\ Depth \in Nat
  <2>1. start \in Nat /\ 0 .. start - 1 \subseteq 0 .. Limit - 1
    BY <1>1, ConstantsAssumption DEF Limit
  <2>2. QED
    BY <1>1, <2>1, LimitType, TreesOfIndices, TreeItemsType, ConstantsAssumption
<1>3. DOMAIN db = UNION {Path(j) : j \in 0 .. start - 1}
      /\ \A n \in DOMAIN db : db[n] = FullTrees(start)[n]
  BY <1>1 DEF Restrict
<1>4. ASSUME NEW j \in 0 .. start - 1
      PROVE  Leaf(j) \in DOMAIN db /\ db[Leaf(j)][1] = LeafHash(j, 1)[1]
  <2>1. Leaf(j) \in DOMAIN db
    BY <1>2, <1>3, PathNodes
  <2>2. /\ TreeOf(j) \in Trees /\ 0 \in 0 .. Depth /\ IndexIn(j) \in 0 .. TreeItems - 1
        /\ IndexIn(j) \in Nat /\ GlobalIndex(TreeOf(j), IndexIn(j)) = j
    <3>1. j \in Nat /\ j \in Index
      BY <1>2
    <3>2. TreeOf(j) \in Trees /\ 0 \in 0 .. Depth
      BY <1>2, <3>1, TreesOfIndices
    <3>3. IndexIn(j) \in 0 .. TreeItems - 1 /\ GlobalIndex(TreeOf(j), IndexIn(j)) = j
      BY <3>1, IndexParts
    <3>4. QED
      BY <3>2, <3>3
  <2>3. FullTrees(start)[<<TreeOf(j), 0, IndexIn(j)>>] = FullHash(start, TreeOf(j), 0, IndexIn(j))
    BY <1>2, <2>2, FullTreesNodes
  <2>4. 2 ^ 0 = 1 /\ IndexIn(j) * 1 + 1 - 1 = IndexIn(j)
    BY <2>2
  <2>5. FullTrees(start)[<<TreeOf(j), 0, IndexIn(j)>>][1] = LeafHash(j, 1)[1]
    <3>1. PICK one : one = 2 ^ 0 /\ one = 1
      BY <2>4
    <3>2. FullTrees(start)[<<TreeOf(j), 0, IndexIn(j)>>] =
             [x \in 1 .. one |->
                IF GlobalIndex(TreeOf(j), IndexIn(j) * one + x - 1) < start
                  THEN LeafHash(GlobalIndex(TreeOf(j), IndexIn(j) * one + x - 1), 1)[1]
                  ELSE Zero]
      BY <2>3, <3>1 DEF FullHash
    <3>3. IndexIn(j) * one + 1 - 1 = IndexIn(j) /\ j < start /\ 1 \in 1 .. one
      BY <1>2, <2>4, <3>1
    <3>4. QED
      BY <2>2, <3>2, <3>3
  <2>6. QED
    BY <1>3, <2>1, <2>5 DEF Leaf, NodeAt
<1>5. RootBefore(i) = [k \in 1 .. TreeItems |->
                          IF GlobalIndex(T, k - 1) < i + 1
                            THEN LeafHash(GlobalIndex(T, k - 1), 1)[1] ELSE Zero]
  <2>1. 0 \in 0 .. TreeItems - 1 /\ Depth \in 0 .. Depth /\ i + 1 \in Nat
    BY <1>2, TreeItemsType
  <2>2. FullTrees(i + 1)[<<T, Depth, 0>>] = FullHash(i + 1, T, Depth, 0)
    BY <1>2, <2>1, FullTreesNodes
  <2>3. \A k \in 1 .. TreeItems : 0 * TreeItems + k - 1 = k - 1
    BY <1>2
  <2>4. FullTrees(i + 1)[<<T, Depth, 0>>] =
           [k \in 1 .. TreeItems |->
              IF GlobalIndex(T, 0 * TreeItems + k - 1) < i + 1
                THEN LeafHash(GlobalIndex(T, 0 * TreeItems + k - 1), 1)[1] ELSE Zero]
    BY <2>2 DEF TreeItems, FullHash
  <2>5. QED
    BY <2>3, <2>4 DEF RootBefore, Root, NodeAt
<1>6. ASSUME NEW k \in 1 .. TreeItems PROVE RootBefore(i)[k] = ListRoot(i)[k]
  <2> DEFINE j == GlobalIndex(T, k - 1)
  <2>1. j \in Nat
    <3>1. k - 1 \in 0 .. TreeItems - 1
      BY <1>2
    <3>2. QED
      BY <1>2, <3>1, PartsIndex
  <2>2. /\ RootBefore(i)[k] = IF j < i + 1 THEN LeafHash(j, 1)[1] ELSE Zero
        /\ ListRoot(i)[k] = IF j > i THEN Zero
                            ELSE IF ownList THEN db[Leaf(j)][1] ELSE LeafHash(j, 1)[1]
    BY <1>5 DEF ListRoot
  <2> HIDE DEF j
  <2>3. j <= i => j \in 0 .. start - 1
    BY <1>2, <2>1
  <2>4. QED
    BY <1>2, <1>4, <2>1, <2>2, <2>3
<1>7. ListRoot(i) = [k \in 1 .. TreeItems |-> ListRoot(i)[k]]
      /\ RootBefore(i) = [k \in 1 .. TreeItems |-> RootBefore(i)[k]]
  BY <1>5 DEF ListRoot
<1>8. QED
  BY <1>4, <1>6, <1>7

LEMMA HashesInit == Init => HashesInv
<1> SUFFICES ASSUME Init PROVE HashesInv
  OBVIOUS
<1>1. /\ start \in Starts
      /\ merkleroots = {<<i, RootBefore(i)>> : i \in 0 .. start - 1}
      /\ cache = Nothing /\ treeLengths = [t \in Trees |-> Unknown]
      /\ adder = Idle /\ pending = Nothing /\ stray = {} /\ reader = Idle
  BY DEF Init
<1>2. 0 .. start - 1 \subseteq 0 .. Limit - 1
  BY <1>1, ConstantsAssumption DEF Limit
<1>3. RootsOfLeaves /\ StoredRootsAreListRoots
  BY <1>1, <1>2, InitialRoots DEF RootsOfLeaves, StoredRootsAreListRoots
<1>4. ColdReadsStored /\ RootAccepted /\ QuietReads
  BY <1>1 DEF ColdReadsStored, RootAccepted, QuietReads, Idle
<1>5. LeavesSigned
  <2>1. ASSUME NEW j \in 0 .. Limit - 1 PROVE treeLengths[TreeOf(j)] \notin 0 .. IndexIn(j)
    <3>1. TreeOf(j) \in Trees
      BY <1>1, LimitType, TreesOfIndices
    <3>2. QED
      BY <1>1, <3>1 DEF Unknown
  <2>2. DOMAIN cache = {} /\ DOMAIN pending = {}
    BY <1>1 DEF Nothing
  <2>3. QED
    BY <1>1, <2>1, <2>2 DEF LeavesSigned
<1>6. QED
  BY <1>3, <1>4, <1>5, InitialView DEF HashesInv

LEMMA HashesNext == LeavesInv /\ HashesInv /\ [Next]_vars => HashesInv'
<1> SUFFICES ASSUME LeavesInv, HashesInv, [Next]_vars PROVE HashesInv'
  OBVIOUS
<1>1. StoresOK
  BY DEF LeavesInv
<1>2. PICK m \in 0 .. Limit : HasLeaves(m)
  BY DEF LeavesInv
<1>3. ASSUME NEW i \in Index, NEW a \in {1, 2}, InsertLeaf(i, a) PROVE HashesInv'
  BY <1>1, <1>2, <1>3, HashesInsertLeaf
<1>4. CASE \E i \in Requested : RequestProof(i)
  BY <1>1, <1>2, <1>4, HashesRequestProof
<1>5. CASE Insertion
  BY <1>1, <1>2, <1>5, HashesWriteNode, HashesInsertMerkleroot, HashesAdderEnds DEF Insertion
<1>6. CASE Proof
  BY <1>1, <1>2, <1>6, HashesFetchElements, HashesFetchRoot, HashesReturnProof, HashesAnswer
     DEF Proof
<1>7. CASE \E n \in DOMAIN pending : RejectWrite(n)
  BY <1>1, <1>2, <1>7, HashesRejectWrite
<1>8. CASE \E w \in stray : StrayWrite(w)
  BY <1>1, <1>2, <1>8, HashesStrayWrite
<1>9. CASE RejectMerkleroot
  BY <1>1, <1>2, <1>9, HashesAdderEnds
<1>10. CASE Crash
  BY <1>1, <1>2, <1>10, HashesCrash
<1>11. CASE UNCHANGED vars
  <2>1. UNCHANGED <<ownList, start, db, merkleroots, cache, treeLengths, adder, pending, stray,
                    signed, reader, overwritten, torn>>
    BY <1>11 DEF vars, database, memory, inserting
  <2>2. \A n : GetNodeHash(n)' = GetNodeHash(n)
    BY <2>1 DEF GetNodeHash
  <2>3. QuietReads => QuietReads'
    BY <2>1, <2>2, QuietReadsKept
  <2>4. ColdReadsStored'
    BY <2>1 DEF HashesInv, ColdReadsStored
  <2>5. QED
    BY <1>1, <1>2, <2>1, <2>3, <2>4, HashesSameStores DEF HashesInv
<1>12. QED
  BY <1>3, <1>4, <1>5, <1>6, <1>7, <1>8, <1>9, <1>10, <1>11 DEF Next

\* While no late read has put back an old hash, what getNodeHash reads is a tree of
\* hashes, cached leaves are the stored ones or those of the insertion under way, and
\* a proof that no insertion has come between has read this tree.
THEOREM HashesInvariance == Spec => []HashesInv
<1>1. Init => LeavesInv /\ HashesInv
  BY LeavesInit, HashesInit
<1>2. (LeavesInv /\ HashesInv) /\ [Next]_vars => (LeavesInv /\ HashesInv)'
  BY LeavesNext, HashesNext
<1>3. QED
  BY <1>1, <1>2, PTL DEF Spec

\* The historical merkleroot that is stored for an event commits to the list up to this
\* event: insertMerkleroot reads the root again, and it is still the one of insertLeaf.
THEOREM RootsCommitToList == Spec => []StoredRootsAreListRoots
<1>1. HashesInv => StoredRootsAreListRoots
  BY DEF HashesInv
<1>2. QED
  BY HashesInvariance, <1>1, PTL

\* A merkle proof that getMerkleProof returns verifies, unless an insertion came between
\* its reads, a late read has put back an old hash or a restart has torn a path.
THEOREM ProofsVerify == Spec => []QuietProofsVerify
<1>1. LeavesInv /\ HashesInv => QuietProofsVerify
  <2> SUFFICES ASSUME LeavesInv, HashesInv, reader.pc = "proof", reader.quiet,
                      ~overwritten, ~torn
               PROVE  VerifyProof(reader.i, reader.elements, reader.root)
    BY DEF QuietProofsVerify
  <2>1. PICK m \in 0 .. Limit : HasLeaves(m)
    BY DEF LeavesInv
  <2>2. StoresOK
    BY DEF LeavesInv
  <2>3. PICK i \in Nat : i = reader.i /\ Leaf(i) \in DOMAIN db
    BY <2>1, ConstantsAssumption DEF HasLeaves, ReaderOK
  <2>4. i \in Index
    BY <2>1, <2>2, <2>3, StoredIndex, LimitType DEF StoresOK
  <2>5. /\ reader.elements = [n \in Elements(i) \union {Leaf(i)} |-> GetNodeHash(n)]
        /\ reader.root = GetNodeHash(Root(TreeOf(i)))
    BY <2>3 DEF HashesInv, QuietReads
  <2>6. ViewCoherent
    BY DEF HashesInv
  <2>7. PICK elements : elements = reader.elements
    OBVIOUS
  <2>8. elements[Leaf(i)] = GetNodeHash(Leaf(i))
    BY <2>5, <2>7
  <2>9. \A l \in 0 .. Depth - 1 : elements[Beside(i, l)] = GetNodeHash(Beside(i, l))
    BY <2>4, <2>5, <2>7, BesideIsElement
  <2>10. PathHashes(i, GetNodeHash(Leaf(i)), elements)[Depth] = GetNodeHash(Root(TreeOf(i)))
    BY <2>4, <2>6, <2>9, PathVerifies
  <2>11. QED
    BY <2>3, <2>5, <2>7, <2>8, <2>10 DEF VerifyProof
<1>2. QED
  BY MerkletreeInvariance, HashesInvariance, <1>1, PTL

\* The code asserts that the root it stores is the one that came with the event: at a
\* node that serves no proofs nothing puts an old hash back, and the assertion is right.
NoProofs == reader = Idle /\ ~overwritten

THEOREM ValidatedRootsWithoutProofs ==
  ASSUME MaxProofs = 0
  PROVE  Spec => []ValidatedRootIsStored
<1>1. Init => NoProofs /\ proofs = 0
  BY DEF Init, NoProofs
<1>2. (NoProofs /\ proofs = 0) /\ [Next]_vars => (NoProofs /\ proofs = 0)'
  <2> SUFFICES ASSUME NoProofs, proofs = 0, [Next]_vars PROVE NoProofs' /\ proofs' = 0
    OBVIOUS
  <2>1. ASSUME NEW i \in Index, NEW a \in {1, 2}, InsertLeaf(i, a)
        PROVE  NoProofs' /\ proofs' = 0
    <3>1. UNCHANGED <<overwritten, bounds>>
      BY <2>1, InsertLeafCases
    <3>2. PICK read : Inserts(i, a, read) \/ InsertsNothing(i, a, read)
      BY <2>1, InsertLeafCases
    <3>3. reader' = Idle
      BY <3>2 DEF Inserts, InsertsNothing, NoProofs
    <3>4. QED
      BY <3>1, <3>3 DEF NoProofs, bounds
  <2>2. ASSUME NEW i \in Requested, RequestProof(i) PROVE FALSE
    BY <2>2 DEF RequestProof
  <2>3. CASE Insertion
    <3>1. UNCHANGED <<reader, overwritten, bounds>>
      <4>1. CASE \E n \in DOMAIN pending : WriteNode(n)
        BY <4>1 DEF WriteNode
      <4>2. CASE InsertMerkleroot \/ StoreEvent
        BY <4>2 DEF InsertMerkleroot, StoreEvent
      <4>3. QED
        BY <2>3, <4>1, <4>2 DEF Insertion
    <3>2. QED
      BY <3>1 DEF NoProofs, bounds
  <2>4. ~Proof
    BY DEF Proof, FetchElements, FetchRoot, ReturnProof, Answer, NoProofs, Idle
  <2>5. CASE \E n \in DOMAIN pending : RejectWrite(n)
    BY <2>5 DEF RejectWrite, NoProofs
  <2>6. CASE \E w \in stray : StrayWrite(w)
    BY <2>6 DEF StrayWrite, NoProofs, bounds
  <2>7. CASE RejectMerkleroot \/ Crash
    BY <2>7 DEF RejectMerkleroot, Crash, NoProofs
  <2>8. CASE UNCHANGED vars
    BY <2>8 DEF vars, bounds, NoProofs
  <2>9. QED
    BY <2>1, <2>2, <2>3, <2>4, <2>5, <2>6, <2>7, <2>8 DEF Next
<1>3. HashesInv /\ NoProofs => ValidatedRootIsStored
  BY DEF HashesInv, NoProofs, StoredRootsAreListRoots, ValidatedRootIsStored
<1>4. Spec => [](NoProofs /\ proofs = 0)
  BY <1>1, <1>2, PTL DEF Spec
<1>5. QED
  BY HashesInvariance, <1>3, <1>4, PTL
================================================================================
