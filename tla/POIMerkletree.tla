----------------------------- MODULE POIMerkletree -----------------------------
(***************************************************************************)
(* The merkletrees of one list at one node: leaves are inserted one at a   *)
(* time, every node hash on the path is stored by a write of its own, and  *)
(* the root is kept as the historical merkleroot of the event; requests    *)
(* for merkle proofs read the same nodes meanwhile.  Lengths and hashes    *)
(* are cached in memory, and a read that missed the cache stores what it   *)
(* brings home when it returns.                                            *)
(*                                                                         *)
(* A hash stands for the leaves below its node: hashing is concatenation.  *)
(* Leaf i of the list is LeafHash(i, 1); a list provider that restarts may *)
(* sign another event for an index, with LeafHash(i, 2).                   *)
(***************************************************************************)
EXTENDS Integers, Sequences, FiniteSets, Functions

CONSTANTS
    Depth,        \* TREE_DEPTH
    OwnList,      \* whether the node is the list's provider: the cases explored
    Starts,       \* how many leaves there are at first: the cases explored
    Requested,    \* the leaves whose merkle proofs are requested
    MaxInserts,   \* bound: events inserted after those
    MaxRejects,   \* bound: rejected writes
    MaxCrashes,   \* bound: restarts
    MaxProofs     \* bound: merkle proofs requested

ASSUME ConstantsAssumption ==
    /\ Depth \in Nat \ {0} /\ OwnList \subseteq BOOLEAN /\ Starts \union Requested \subseteq Nat
    /\ {MaxInserts, MaxRejects, MaxCrashes, MaxProofs} \subseteq Nat

VARIABLES
    ownList,       \* whether the node is the list's provider
    start,         \* the leaves it starts with
    db,            \* the stored nodes: <<tree, level, index>> -> hash
    merkleroots,   \* historical merkleroots: pairs of an event index and a root
    events,        \* indices of the ordered events
    cache,         \* cachedNodeHashes
    treeLengths,   \* cached length of each tree, Unknown where none is
    adder,         \* the call of insertLeaf and the storing of its event
    pending,       \* the node writes of this call that have not returned
    stray,         \* those of earlier calls that have failed
    signed,        \* provider: the alternative that it signs for each index
    reader,        \* the call of getMerkleProof
    overwritten,   \* history: a read has put an older value over a newer one
    torn,          \* history: a restart has found some nodes of a path missing
    rejects, crashes, proofs

database == <<db, merkleroots, events>>
memory == <<cache, treeLengths>>
inserting == <<adder, pending, stray, signed>>
bounds == <<rejects, crashes, proofs>>
vars == <<ownList, start, database, memory, inserting, reader, overwritten, torn, bounds>>

(***************************************************************************)
(* Nodes and hashes.                                                       *)
(***************************************************************************)
TreeItems == 2 ^ Depth
Limit == start + MaxInserts
\* The indices of events and the trees that any case reaches, with an empty tree after.
Index == UNION {0 .. s + MaxInserts - 1 : s \in Starts}
Trees == {0} \union {1 + i \div TreeItems : i \in Index}

Zero == 0
Zeros(level) == [k \in 1 .. 2 ^ level |-> Zero]
\* Mutant: half of it is left out.
HashLeft(left, right) == left
HashLeftRight(left, right) == left \o right
LeafHash(i, alternative) == <<2 * i + alternative>>

\* getTreeAndIndexFromEventIndex and its inverse, getGlobalIndex.
TreeOf(i) == i \div TreeItems
IndexIn(i) == i % TreeItems
GlobalIndex(tree, index) == tree * TreeItems + index

NodeAt(tree, level, index) == <<tree, level, index>>
Leaf(i) == NodeAt(TreeOf(i), 0, IndexIn(i))
Root(tree) == NodeAt(tree, Depth, 0)

Sibling(index) == IF index % 2 = 0 THEN index + 1 ELSE index - 1
\* The nodes above leaf i with itself, and the siblings of those below the root.
Path(i) == {NodeAt(TreeOf(i), l, IndexIn(i) \div 2 ^ l) : l \in 0 .. Depth}
Elements(i) == {NodeAt(n[1], n[2], Sibling(n[3])) : n \in Path(i) \ {Root(TreeOf(i))}}

Write(f, g) == [n \in DOMAIN f \union DOMAIN g |-> IF n \in DOMAIN g THEN g[n] ELSE f[n]]

\* Mutant: the database before the memory.
GetNodeHashStoredFirst(n) ==
    CASE n \in DOMAIN db -> db[n]
      [] n \in DOMAIN cache \ DOMAIN db -> cache[n]
      [] OTHER -> Zeros(n[2])

\* getNodeHash without what it caches: memory, then the database, then zeros.
GetNodeHash(n) ==
    CASE n \in DOMAIN cache -> cache[n]
      [] n \in DOMAIN db \ DOMAIN cache -> db[n]
      [] OTHER -> Zeros(n[2])

\* What reads of the nodes N that miss the cache find to put into it.
ColdReads(N) == Restrict(db, (N \intersect DOMAIN db) \ DOMAIN cache)

\* The hashes from leaf i up to the root, one for each level, with the given hashes
\* beside the path.
PathHashes(i, hash, elements) ==
    LET up[l \in 0 .. Depth] ==
            IF l = 0 THEN hash
            ELSE LET below == IndexIn(i) \div 2 ^ (l - 1)
                     sibling == elements[NodeAt(TreeOf(i), l - 1, Sibling(below))]
                 IN  IF below % 2 = 0 THEN HashLeftRight(up[l - 1], sibling)
                                      ELSE HashLeftRight(sibling, up[l - 1])
    IN  up

\* fillHashWriteGroup for one leaf: the new hashes of its path.  The zero nodes
\* that it also writes next to the path are what an absent node reads as.
FillHashWriteGroup(i, hash) ==
    LET up == PathHashes(i, hash, [n \in Elements(i) |-> GetNodeHash(n)])
    IN  [n \in Path(i) |-> up[n[2]]]

\* The root over the first leaves of the list, up to leaf i, in i's tree.
ListRoot(i) ==
    [k \in 1 .. TreeItems |->
        LET j == GlobalIndex(TreeOf(i), k - 1)
        IN  IF j > i THEN Zero ELSE IF ownList THEN db[Leaf(j)][1] ELSE LeafHash(j, 1)[1]]

(***************************************************************************)
(* Lengths.                                                                *)
(***************************************************************************)
Unknown == -1
CountLeaves(tree) == Cardinality({n \in DOMAIN db : n[1] = tree /\ n[2] = 0})
TreeLength(tree) == IF treeLengths[tree] = Unknown THEN CountLeaves(tree) ELSE treeLengths[tree]

\* The last tree with a leaf, of those up to the first empty one.
LatestTree ==
    LET empty == CHOOSE t \in Trees : TreeLength(t) = 0 /\ \A u \in 0 .. t - 1 : TreeLength(u) > 0
    IN  IF empty = 0 THEN 0 ELSE empty - 1

NextTreeAndIndex ==
    IF TreeLength(LatestTree) >= TreeItems
      THEN <<LatestTree + 1, 0>>
      ELSE <<LatestTree, TreeLength(LatestTree)>>

\* Mutant: any index is taken for the next.
AnyIndexIsNext(i) == TRUE

IsNextIndex(i) == GlobalIndex(NextTreeAndIndex[1], NextTreeAndIndex[2]) = i

\* The lengths that finding the latest and the next tree has cached.
LengthsRead == [t \in Trees |-> IF t <= LatestTree + 1 THEN TreeLength(t) ELSE treeLengths[t]]

(***************************************************************************)
(* Inserting.                                                              *)
(***************************************************************************)
Idle == [pc |-> "idle"]
Nothing == [n \in {} |-> Zero]

\* The database of a node whose list has m leaves with their events.
FullTrees(m) ==
    [n \in {NodeAt(t, l, k) : t \in Trees, l \in 0 .. Depth, k \in 0 .. TreeItems - 1}
        |-> [j \in 1 .. 2 ^ n[2] |->
                LET i == GlobalIndex(n[1], n[3] * 2 ^ n[2] + j - 1)
                IN  IF i < m THEN LeafHash(i, 1)[1] ELSE Zero]]
RootBefore(i) == FullTrees(i + 1)[Root(TreeOf(i))]

Init ==
    /\ ownList \in OwnList /\ start \in Starts
    /\ db = Restrict(FullTrees(start), UNION {Path(i) : i \in 0 .. start - 1})
    /\ merkleroots = {<<i, RootBefore(i)>> : i \in 0 .. start - 1}
    /\ events = 0 .. start - 1
    /\ cache = Nothing /\ treeLengths = [t \in Trees |-> Unknown]
    /\ adder = Idle /\ pending = Nothing /\ stray = {} /\ signed = Nothing
    /\ reader = Idle
    /\ overwritten = FALSE /\ torn = FALSE
    /\ rejects = 0 /\ crashes = 0 /\ proofs = 0

\* The events that may come: the provider signs the one after its last, the same
\* one again while the process lives; to another node any that it lacks is sent.
Offered(i, alternative) ==
    /\ i \in 0 .. Limit - 1 /\ i \notin events
    /\ IF ownList
         THEN /\ \A j \in 0 .. i - 1 : j \in events
              /\ IF i \in DOMAIN signed THEN alternative = signed[i] ELSE alternative \in {1, 2}
         ELSE alternative = 1

\* Mutant: the root is not compared with the one that came with the event.
AnyRootIsAccepted(i, hashes) == TRUE

\* validatedMerkleroot: the provider inserts its own events without one.
RootIsAccepted(i, hashes) == ~ownList => hashes[Root(TreeOf(i))] = ListRoot(i)

\* Mutant: the leaf after it is looked up.
EventAfterExistsInTree(i, hash) == GetNodeHash(NodeAt(NextTreeAndIndex[1], 0, i + 1)) = hash

\* The leaf is looked up at its global index, in whatever tree is next.
EventExistsInTree(i, hash) == GetNodeHash(NodeAt(NextTreeAndIndex[1], 0, i)) = hash

\* insertLeaf up to the writes.  It reads lengths, the latest leaf and the siblings
\* on the way, and caches the new hashes at once, before any is stored.
InsertLeaf(i, alternative) ==
    LET hash == LeafHash(i, alternative)
        latest == NodeAt(LatestTree, 0, TreeLength(LatestTree) - 1)
        refused == /\ TreeLength(LatestTree) > 0
                   /\ GetNodeHash(latest) \in {hash, Zeros(0)}
        hashes == FillHashWriteGroup(i, hash)
        inserted == ~refused /\ IsNextIndex(i) /\ RootIsAccepted(i, hashes)
        skipped == ~refused /\ ~IsNextIndex(i) /\ EventExistsInTree(i, hash)
    IN  /\ adder.pc = "idle" /\ Offered(i, alternative)
        /\ treeLengths' = LengthsRead
        /\ signed' = IF ownList THEN Write(signed, [j \in {i} |-> alternative]) ELSE signed
        /\ cache' = Write(Write(cache, ColdReads({latest} \union Elements(i))),
                          IF inserted THEN hashes ELSE Nothing)
        /\ \/ /\ inserted
              /\ adder' = [pc |-> "nodes", i |-> i] /\ pending' = hashes
              /\ reader' = IF reader = Idle THEN Idle ELSE [reader EXCEPT !.quiet = FALSE]
           \/ /\ ~inserted
              /\ adder' = IF skipped THEN [pc |-> "event", i |-> i] ELSE Idle
              /\ UNCHANGED <<pending, reader>>
        /\ UNCHANGED <<ownList, start, database, stray, overwritten, torn, bounds>>

\* insertMerkletreeNode: leaves are only inserted, inner nodes replaced.
InsertMerkletreeNode(n, hash) ==
    db' = IF n[2] = 0 /\ n \in DOMAIN db THEN db ELSE Write(db, [m \in {n} |-> hash])

\* One of the writes of updatePOIMerkletreeNodes returns; they run concurrently.
WriteNode(n) ==
    /\ n \in DOMAIN pending
    /\ InsertMerkletreeNode(n, pending[n])
    /\ pending' = Restrict(pending, DOMAIN pending \ {n})
    /\ UNCHANGED <<ownList, start, merkleroots, events, memory, adder, stray, signed, reader,
                   overwritten, torn, bounds>>

\* One rejects and with it the insertion; the others go on unobserved.
RejectWrite(n) ==
    /\ n \in DOMAIN pending
    /\ rejects < MaxRejects /\ rejects' = rejects + 1
    /\ stray' = stray \union {<<m, pending[m]>> : m \in DOMAIN pending \ {n}}
    /\ pending' = Nothing /\ adder' = Idle
    /\ UNCHANGED <<ownList, start, database, memory, signed, reader, overwritten, torn,
                   crashes, proofs>>

StrayWrite(w) ==
    /\ w \in stray
    /\ InsertMerkletreeNode(w[1], w[2])
    /\ stray' = stray \ {w}
    /\ UNCHANGED <<ownList, start, merkleroots, events, memory, adder, pending, signed, reader,
                   overwritten, torn, bounds>>

\* Mutant: the cached length is left alone.
InsertMerklerootKeepingLength ==
    /\ adder.pc = "nodes" /\ pending = Nothing
    /\ merkleroots' = merkleroots \union {<<adder.i, GetNodeHash(Root(TreeOf(adder.i)))>>}
    /\ adder' = [adder EXCEPT !.pc = "event"]
    /\ UNCHANGED <<ownList, start, db, events, memory, pending, stray, signed, reader,
                   overwritten, torn, bounds>>

\* All writes have returned: the root is read again, from the cache, and stored.  What
\* other reads bring home before this step arrives before the last write returns.
InsertMerkleroot ==
    /\ adder.pc = "nodes" /\ pending = Nothing
    /\ merkleroots' = merkleroots \union {<<adder.i, GetNodeHash(Root(TreeOf(adder.i)))>>}
    /\ treeLengths' = [treeLengths EXCEPT ![TreeOf(adder.i)] = @ + 1]
    /\ adder' = [adder EXCEPT !.pc = "event"]
    /\ UNCHANGED <<ownList, start, db, events, cache, pending, stray, signed, reader,
                   overwritten, torn, bounds>>

RejectMerkleroot ==
    /\ adder.pc = "nodes" /\ pending = Nothing
    /\ rejects < MaxRejects /\ rejects' = rejects + 1
    /\ adder' = Idle
    /\ UNCHANGED <<ownList, start, database, memory, pending, stray, signed, reader,
                   overwritten, torn, crashes, proofs>>

\* insertValidSignedPOIEvent.
StoreEvent ==
    /\ adder.pc = "event"
    /\ events' = events \union {adder.i}
    /\ adder' = Idle
    /\ UNCHANGED <<ownList, start, db, merkleroots, memory, pending, stray, signed, reader,
                   overwritten, torn, bounds>>

(***************************************************************************)
(* getMerkleProof.                                                         *)
(***************************************************************************)
\* What a read brings home goes into the cache whatever is there by now.
Cache(hashes) ==
    /\ cache' = Write(cache, hashes)
    /\ overwritten' =
          (overwritten \/ \E n \in DOMAIN hashes \intersect DOMAIN cache : cache[n] # hashes[n])

\* The leaf of a blinded commitment is found and its tree's length asked for.
RequestProof(i) ==
    /\ reader = Idle /\ proofs < MaxProofs /\ proofs' = proofs + 1
    /\ i \in Requested /\ Leaf(i) \in DOMAIN db
    /\ reader' = [pc |-> "length", i |-> i, quiet |-> TRUE, length |-> TreeLength(TreeOf(i)),
                  cold |-> treeLengths[TreeOf(i)] = Unknown]
    /\ UNCHANGED <<ownList, start, database, memory, inserting, overwritten, torn,
                   rejects, crashes>>

\* The length returns; leaf and path elements are asked for.
FetchElements ==
    LET tree == TreeOf(reader.i)
        nodes == Elements(reader.i) \union {Leaf(reader.i)}
    IN  /\ reader.pc = "length"
        /\ treeLengths' = IF reader.cold THEN [treeLengths EXCEPT ![tree] = reader.length]
                                         ELSE treeLengths
        /\ overwritten' = (overwritten \/ treeLengths'[tree] < treeLengths[tree])
        /\ reader' = IF IndexIn(reader.i) >= reader.length THEN Idle
                     ELSE [pc |-> "elements", i |-> reader.i, quiet |-> TRUE,
                           elements |-> [n \in nodes |-> GetNodeHash(n)],
                           cold |-> ColdReads(nodes)]
        /\ UNCHANGED <<ownList, start, database, cache, inserting, torn, bounds>>

\* They return; the root is asked for.
FetchRoot ==
    LET root == Root(TreeOf(reader.i))
    IN  /\ reader.pc = "elements"
        /\ Cache(reader.cold)
        /\ reader' = [pc |-> "root", i |-> reader.i, quiet |-> reader.quiet,
                      elements |-> reader.elements,
                      root |-> GetNodeHash(root), cold |-> ColdReads({root})]
        /\ UNCHANGED <<ownList, start, database, treeLengths, inserting, torn, bounds>>

ReturnProof ==
    /\ reader.pc = "root"
    /\ Cache(reader.cold)
    /\ reader' = [reader EXCEPT !.pc = "proof", !.cold = Nothing]
    /\ UNCHANGED <<ownList, start, database, treeLengths, inserting, torn, bounds>>

Answer ==
    /\ reader.pc = "proof"
    /\ reader' = Idle
    /\ UNCHANGED <<ownList, start, database, memory, inserting, overwritten, torn, bounds>>

\* verifyProof: hash the elements together from the leaf up.
VerifyProof(i, elements, root) == PathHashes(i, elements[Leaf(i)], elements)[Depth] = root

(***************************************************************************)
(* Restarts.                                                               *)
(***************************************************************************)
Stored(n) == IF n \in DOMAIN db THEN db[n] ELSE Zeros(n[2])
Coherent ==
    \A t \in Trees, l \in 1 .. Depth : \A k \in 0 .. 2 ^ (Depth - l) - 1 :
        Stored(NodeAt(t, l, k)) = HashLeftRight(Stored(NodeAt(t, l - 1, 2 * k)),
                                                Stored(NodeAt(t, l - 1, 2 * k + 1)))

Crash ==
    /\ crashes < MaxCrashes /\ crashes' = crashes + 1
    /\ cache' = Nothing /\ treeLengths' = [t \in Trees |-> Unknown]
    /\ adder' = Idle /\ pending' = Nothing /\ stray' = {} /\ signed' = Nothing /\ reader' = Idle
    /\ torn' = (torn \/ ~Coherent)
    /\ UNCHANGED <<ownList, start, database, overwritten, rejects, proofs>>

Insertion ==
    \/ \E n \in DOMAIN pending : WriteNode(n)
    \/ InsertMerkleroot \/ StoreEvent
Proof == FetchElements \/ FetchRoot \/ ReturnProof \/ Answer

Next ==
    \/ \E i \in Index, alternative \in {1, 2} : InsertLeaf(i, alternative)
    \/ \E i \in Requested : RequestProof(i)
    \/ Insertion \/ Proof
    \/ \E n \in DOMAIN pending : RejectWrite(n)
    \/ \E w \in stray : StrayWrite(w)
    \/ RejectMerkleroot \/ Crash

Spec == Init /\ [][Next]_vars

\* The event that the provider's poll or the round robin starts with.
FirstMissing(i) == i \notin events /\ \A j \in 0 .. i - 1 : j \in events

\* The awaits of an insertion return, and between insertions the first missing event
\* is offered.  Nothing is assumed of proofs nor of writes left behind.
FairSpec ==
    /\ Spec
    /\ WF_vars(Insertion
                \/ \E i \in Index, alternative \in {1, 2} : FirstMissing(i) /\ InsertLeaf(i, alternative))

(***************************************************************************)
(* Properties.                                                             *)
(***************************************************************************)
Leaves == {i \in 0 .. Limit - 1 : Leaf(i) \in DOMAIN db}

\* State has the shape that the collections and fields of POIMerkletree have.
TypeOK ==
    /\ ownList \in BOOLEAN /\ start \in Nat
    /\ \A n \in DOMAIN db : n[1] \in Trees /\ n[2] \in 0 .. Depth /\ Len(db[n]) = 2 ^ n[2]
    /\ \A n \in DOMAIN cache : n[1] \in Trees /\ Len(cache[n]) = 2 ^ n[2]
    /\ treeLengths \in [Trees -> Nat \union {Unknown}]
    /\ adder.pc \in {"idle", "nodes", "event"}
    /\ reader.pc \in {"idle", "length", "elements", "root", "proof"}
    /\ {overwritten, torn} \subseteq BOOLEAN

\* insertLeaf numbers the leaves through the trees without a gap, whatever is rejected,
\* and an event is stored only when its leaf is: it is not skipped as existing for the
\* sake of a leaf that is only cached, unless a late read has put back an old length.
EventsHaveGaplessLeaves ==
    Leaves = 0 .. Cardinality(Leaves) - 1 /\ (~overwritten => events \subseteq Leaves)

\* The historical merkleroot of an event commits to the list up to this event, as
\* the node that receives it with the event requires.  The exceptions are a cached
\* hash that a late read has put back and, where no root came with the event, a
\* restart between the node writes.
StoredRootsAreListRoots ==
    overwritten \/ (torn /\ ownList) \/ \A r \in merkleroots : r[2] = ListRoot(r[1])

\* The code asserts "Invalid merkleroot: got ${root}, expected ${validatedMerkleroot}"
\* (poi-merkletree.ts:341) of the root it has computed: the root that is stored with an
\* event of another node's list is the one that came with it.
ValidatedRootIsStored == \A r \in merkleroots : ~ownList => r[2] = ListRoot(r[1])

\* A merkle proof whose reads no insertion has come between verifies.
QuietProofsVerify ==
    reader.pc = "proof" /\ reader.quiet
        => overwritten \/ torn \/ VerifyProof(reader.i, reader.elements, reader.root)

\* Every event that keeps being offered is stored although node and root writes
\* reject, unless the node restarts or a late read has put an old hash or length
\* back.
OfferedEventsAreStored == <>(crashes > 0 \/ overwritten \/ events = 0 .. Limit - 1)

FirstTreeIsFull == Leaf(TreeItems - 1) \in DOMAIN db

\* An event that a restart has left out while its leaf was stored is put back, in the
\* first tree: in a later one insertLeaf looks the leaf up at its global index.
LeafWithoutEventIsRepaired ==
    []<>(overwritten \/ FirstTreeIsFull
            \/ \A i \in 0 .. TreeItems - 2 : i + 1 \in events => i \in events)
================================================================================
