------------------------- MODULE TxidValidation_proofs -------------------------
(*****************************************************************************)
(* Proofs about TxidValidation: for any number of nodes, txids, misreads,    *)
(* rejections and restarts, a merkleroot that is marked as validated is the  *)
(* chain's, as long as no node that misreads asks another one that does.     *)
(*****************************************************************************)
EXTENDS TxidValidation, SequenceTheorems, TLAPS

USE NodesAssumption, BoundsAssumption

--------------------------------------------------------------------------------
(* Trees and their merkleroots.                                              *)

\* What an engine has read: the txid of each position, or a misread one.
IsRead(s) ==
  /\ s \in Seq(Int)
  /\ Len(s) <= MaxTxid
  /\ \A p \in 1 .. Len(s) : s[p] = p \/ s[p] = -p

\* What an engine that misreads nothing has read.
IsRight(s) ==
  /\ s \in Seq(Int)
  /\ Len(s) <= MaxTxid
  /\ \A p \in 1 .. Len(s) : s[p] = p

\* The smaller and the larger of two indices.
LEMMA MinMaxOfTwo ==
  ASSUME NEW a \in Int, NEW b \in Int
  PROVE  /\ Min({a, b}) = IF a <= b THEN a ELSE b
         /\ Max({a, b}) = IF a >= b THEN a ELSE b
<1>1. \E x \in {a, b} : \A y \in {a, b} : x <= y
  OBVIOUS
<1>2. \E x \in {a, b} : \A y \in {a, b} : x >= y
  OBVIOUS
<1>3. Min({a, b}) \in {a, b} /\ \A y \in {a, b} : Min({a, b}) <= y
  BY <1>1 DEF Min
<1>4. Max({a, b}) \in {a, b} /\ \A y \in {a, b} : Max({a, b}) >= y
  BY <1>2 DEF Max
<1>5. QED
  BY <1>3, <1>4

\* The first leaf of the tree that an index falls into.
FirstLeaf(index) == (index \div TreeMaxItems) * TreeMaxItems

LEMMA FirstLeafBounds ==
  ASSUME NEW i \in Nat
  PROVE  FirstLeaf(i) \in 0 .. i
BY DEF FirstLeaf

\* The merkleroot at an index stands for the leaves of its tree up to it.
LEMMA RootParts ==
  ASSUME NEW s \in Seq(Int), NEW i \in 0 .. Len(s) - 1
  PROVE  /\ FirstLeaf(i) \in 0 .. i
         /\ Root(s, i) \in Seq(Int)
         /\ Len(Root(s, i)) = i + 1 - FirstLeaf(i)
         /\ \A k \in 1 .. i + 1 - FirstLeaf(i) : Root(s, i)[k] = s[FirstLeaf(i) + k]
         /\ Root(s, i) # NoRoot
<1> DEFINE b == FirstLeaf(i)
<1>1. Len(s) \in Nat /\ i \in Nat
  BY LenProperties
<1>2. b \in 0 .. i
  BY <1>1, FirstLeafBounds
<1>3. Root(s, i) = SubSeq(s, b + 1, i + 1)
  BY DEF Root, FirstLeaf
<1> HIDE DEF b
<1>4. \A j \in b + 1 .. i + 1 : s[j] \in Int
  BY <1>1, <1>2, ElementOfSeq
<1>5. b + 1 \in Int /\ i + 1 \in Int
  BY <1>1, <1>2
<1>6. /\ SubSeq(s, b + 1, i + 1) \in Seq(Int)
      /\ Len(SubSeq(s, b + 1, i + 1)) =
           IF b + 1 <= i + 1 THEN (i + 1) - (b + 1) + 1 ELSE 0
      /\ \A k \in 1 .. (i + 1) - (b + 1) + 1 :
           SubSeq(s, b + 1, i + 1)[k] = s[b + 1 + k - 1]
  BY <1>4, <1>5, SubSeqProperties
<1>7. Len(Root(s, i)) = i + 1 - b /\ i + 1 - b # 0
  BY <1>1, <1>2, <1>3, <1>6
<1>8. \A k \in 1 .. i + 1 - b : Root(s, i)[k] = s[b + k]
  BY <1>1, <1>2, <1>3, <1>6
<1>9. Root(s, i) # NoRoot
  BY <1>7, EmptySeq DEF NoRoot
<1>10. QED
  BY <1>2, <1>3, <1>6, <1>7, <1>8, <1>9 DEF b

LEMMA NoRootOutside ==
  ASSUME NEW s, NEW i
  PROVE  i \notin 0 .. Len(s) - 1 => Root(s, i) = NoRoot
BY DEF Root

\* The engine's chain.
LEMMA ChainIsRight == IsRight(Chain) /\ Len(Chain) = MaxTxid
<1>1. MaxTxid \in Nat
  OBVIOUS
<1>2. Chain \in Seq(Int) /\ Len(Chain) = MaxTxid /\ \A p \in 1 .. MaxTxid : Chain[p] = p
  BY <1>1 DEF Chain
<1>3. QED
  BY <1>1, <1>2 DEF IsRight

\* Who has read everything right has the chain's merkleroots.
LEMMA RightRoots ==
  ASSUME NEW s, IsRight(s), NEW i \in 0 .. Len(s) - 1
  PROVE  Root(s, i) = Root(Chain, i)
<1>1. s \in Seq(Int) /\ Len(s) \in Nat /\ Len(s) <= MaxTxid /\ MaxTxid \in Nat
  BY LenProperties DEF IsRight
<1>2. Chain \in Seq(Int) /\ i \in 0 .. Len(Chain) - 1
  BY <1>1, ChainIsRight DEF IsRight
<1> DEFINE n == i + 1 - FirstLeaf(i)
<1>3. /\ FirstLeaf(i) \in 0 .. i
      /\ Root(s, i) \in Seq(Int) /\ Root(Chain, i) \in Seq(Int)
      /\ Len(Root(s, i)) = n /\ Len(Root(Chain, i)) = n
      /\ \A k \in 1 .. n : Root(s, i)[k] = s[FirstLeaf(i) + k]
      /\ \A k \in 1 .. n : Root(Chain, i)[k] = Chain[FirstLeaf(i) + k]
  BY <1>1, <1>2, RootParts
<1>4. \A k \in 1 .. n : FirstLeaf(i) + k \in 1 .. Len(s) /\ FirstLeaf(i) + k \in 1 .. MaxTxid
  BY <1>1, <1>3
<1>5. \A p \in 1 .. Len(s) : s[p] = p
  BY DEF IsRight
<1>6. \A p \in 1 .. MaxTxid : Chain[p] = p
  BY DEF Chain
<1>7. \A k \in 1 .. n : Root(s, i)[k] = Root(Chain, i)[k]
  <2> HIDE DEF n
  <2>1. QED
    BY <1>3, <1>4, <1>5, <1>6
<1> HIDE DEF n
<1>8. QED
  BY <1>3, <1>7, SeqEqual

\* Equal merkleroots are merkleroots at the same index.
LEMMA RootsTellIndex ==
  ASSUME NEW s, NEW u, IsRead(s), IsRead(u),
         NEW i \in 0 .. Len(s) - 1, NEW j \in 0 .. Len(u) - 1, Root(s, i) = Root(u, j)
  PROVE  i = j
<1>1. /\ s \in Seq(Int) /\ u \in Seq(Int) /\ Len(s) \in Nat /\ Len(u) \in Nat
      /\ i \in Nat /\ j \in Nat
  BY LenProperties DEF IsRead
<1> DEFINE b == FirstLeaf(i)
           c == FirstLeaf(j)
<1>2. /\ b \in 0 .. i /\ c \in 0 .. j
      /\ Len(Root(s, i)) = i + 1 - b /\ Len(Root(u, j)) = j + 1 - c
      /\ \A k \in 1 .. i + 1 - b : Root(s, i)[k] = s[b + k]
      /\ \A k \in 1 .. j + 1 - c : Root(u, j)[k] = u[c + k]
  BY <1>1, RootParts
<1> HIDE DEF b, c
<1>3. i + 1 - b = j + 1 - c /\ i + 1 - b \in 1 .. i + 1 - b /\ b \in Int /\ c \in Int
  <2>1. b \in Int /\ c \in Int /\ b <= i
    BY <1>1, <1>2
  <2>2. i + 1 - b = j + 1 - c
    BY <1>2, Zenon
  <2>3. QED
    BY <1>1, <2>1, <2>2
<1>4. s[i + 1] = u[j + 1]
  <2>1. b + (i + 1 - b) = i + 1 /\ c + (i + 1 - b) = j + 1
    BY <1>1, <1>3
  <2>2. Root(s, i)[i + 1 - b] = s[i + 1] /\ Root(u, j)[i + 1 - b] = u[j + 1]
    BY <1>2, <1>3, <2>1
  <2>3. QED
    BY <2>2
<1>5. /\ s[i + 1] = i + 1 \/ s[i + 1] = -(i + 1)
      /\ u[j + 1] = j + 1 \/ u[j + 1] = -(j + 1)
  BY <1>1 DEF IsRead
<1>6. QED
  BY <1>1, <1>4, <1>5

LEMMA RightIsRead ==
  ASSUME NEW s, IsRight(s) PROVE IsRead(s)
BY DEF IsRight, IsRead

--------------------------------------------------------------------------------
(* The inductive invariant.                                                  *)

\* No node that misreads asks another one that does.
PeersReadRight == \A n \in Misreads : NodeConfigs[n] \cap Misreads = {}

\* A merkleroot that some engine may have had at the index.
IsPossible(i, root) == \E s : IsRead(s) /\ i \in 0 .. Len(s) - 1 /\ root = Root(s, i)

Validated == [index : Int, root : Seq(Int)]

\* What gets validated: a possible root, and the chain's if peers read right.
RootOK(v) ==
  /\ IsPossible(v.index, v.root)
  /\ PeersReadRight => v.root = Root(Chain, v.index)

\* The records of an update, by what they hold.
IdleTask   == [pc : {"idle", "starting"}]
StatusTask == [pc : {"status"}, peer : Node, currentB : Int, rootB : Seq(Int),
               validatedB : Int]
RootTask   == [pc : {"root", "ask", "save"}, peer : Node, rootB : Seq(Int),
               validatedB : Int, validatedA : Int, first : Int, index : Int,
               root : Seq(Int), tried : BOOLEAN]
ResyncTask == [pc : {"recheck"}, first : Int] \cup [pc : {"reset"}, resync : Int]
Task       == IdleTask \cup StatusTask \cup RootTask \cup ResyncTask

\* A peer that reads right has reported a root of the chain.
PeerOK(n, t) ==
  /\ t.peer \in NodeConfigs[n]
  /\ PeersReadRight /\ t.peer \notin Misreads => \E j \in Int : t.rootB = Root(Chain, j)

\* An update asks its peer about a root of its own tree, and saves a valid one.
TaskOK(n, t) ==
  /\ t \in StatusTask \cup RootTask => PeerOK(n, t)
  /\ t.pc = "ask" => /\ IsPossible(t.index, t.root)
                     /\ n \notin Misreads => t.root = Root(Chain, t.index)
  /\ t.pc = "save" => RootOK([index |-> t.index, root |-> t.root])

TreeOK(n, s) == IsRead(s) /\ (n \notin Misreads => IsRight(s))

IInv ==
  /\ txids \in [Node -> Seq(Int)] /\ \A n \in Node : TreeOK(n, txids[n])
  /\ status \in [Node -> Validated]
  /\ \A n \in Node : status[n] = Cleared \/ RootOK(status[n])
  /\ task \in [Node -> [Kind -> Task]]
  /\ \A n \in Node : \A k \in Kind : TaskOK(n, task[n][k])
  /\ signed \subseteq Validated /\ \A v \in signed : RootOK(v)
  /\ misreads \in 0 .. MaxMisreads /\ faults \in 0 .. MaxFaults

--------------------------------------------------------------------------------
(* Each action preserves it.                                                 *)

LEMMA PossibleRoots ==
  ASSUME NEW i, NEW root, IsPossible(i, root)
  PROVE  /\ i \in 0 .. MaxTxid - 1
         /\ root \in Seq(Int) /\ root # NoRoot
         /\ \A k \in 1 .. Len(root) : root[k] \in Txid
<1>1. PICK s : IsRead(s) /\ i \in 0 .. Len(s) - 1 /\ root = Root(s, i)
  BY DEF IsPossible
<1>2. s \in Seq(Int) /\ Len(s) \in Nat /\ Len(s) <= MaxTxid /\ MaxTxid \in Nat
  BY <1>1, LenProperties DEF IsRead
<1>3. i \in 0 .. MaxTxid - 1
  BY <1>1, <1>2
<1> DEFINE b == FirstLeaf(i)
<1>4. /\ b \in 0 .. i /\ root \in Seq(Int) /\ root # NoRoot /\ Len(root) = i + 1 - b
      /\ \A k \in 1 .. i + 1 - b : root[k] = s[b + k]
  BY <1>1, <1>2, RootParts
<1> HIDE DEF b
<1>5. ASSUME NEW k \in 1 .. Len(root) PROVE root[k] \in Txid
  <2>1. b + k \in 1 .. Len(s) /\ b + k \in 1 .. MaxTxid /\ root[k] = s[b + k]
    BY <1>1, <1>2, <1>4
  <2>2. s[b + k] = b + k \/ s[b + k] = -(b + k)
    BY <1>1, <2>1 DEF IsRead
  <2>3. QED
    BY <2>1, <2>2 DEF Txid
<1>6. QED
  BY <1>3, <1>4, <1>5

\* A node's own roots.
LEMMA OwnRoots ==
  ASSUME IInv, NEW n \in Node, NEW i, Root(txids[n], i) # NoRoot
  PROVE  /\ i \in 0 .. Len(txids[n]) - 1
         /\ IsPossible(i, Root(txids[n], i))
         /\ n \notin Misreads => Root(txids[n], i) = Root(Chain, i)
<1>1. i \in 0 .. Len(txids[n]) - 1
  BY NoRootOutside
<1>2. IsRead(txids[n]) /\ (n \notin Misreads => IsRight(txids[n]))
  BY DEF IInv, TreeOK
<1>3. QED
  BY <1>1, <1>2, RightRoots DEF IsPossible

LEMMA RootType ==
  ASSUME IInv, NEW n \in Node, NEW i
  PROVE  Root(txids[n], i) \in Seq(Int)
<1>1. NoRoot \in Seq(Int)
  BY EmptySeq DEF NoRoot
<1>2. QED
  BY <1>1, OwnRoots, PossibleRoots

\* The tasks, by where they are suspended.
LEMMA TaskAt ==
  ASSUME IInv, NEW n \in Node, NEW k \in Kind
  PROVE  /\ TaskOK(n, task[n][k])
         /\ task[n][k].pc = "status" => task[n][k] \in StatusTask
         /\ task[n][k].pc \in {"root", "ask", "save"} => task[n][k] \in RootTask
         /\ task[n][k].pc = "recheck" => task[n][k].first \in Int
         /\ task[n][k].pc = "reset" => task[n][k].resync \in Int
<1>1. TaskOK(n, task[n][k]) /\ task[n][k] \in Task
  BY DEF IInv
<1>2. QED
  BY <1>1 DEF Task, IdleTask, StatusTask, RootTask, ResyncTask

\* A step of one task that leaves everything else alone.
LEMMA TaskMoves ==
  ASSUME IInv, NEW n \in Node, NEW k \in Kind, NEW t \in Task, TaskOK(n, t), Goto(n, k, t),
         UNCHANGED <<txids, status, signed>>,
         misreads' \in 0 .. MaxMisreads, faults' \in 0 .. MaxFaults
  PROVE  IInv'
<1>1. task' \in [Node -> [Kind -> Task]]
  BY DEF IInv, Goto
<1>2. \A m \in Node : \A j \in Kind : TaskOK(m, task'[m][j])
  BY DEF IInv, Goto
<1>3. QED
  BY <1>1, <1>2 DEF IInv

\* A task that ends or waits for the status again claims nothing.
LEMMA IdleIsOK ==
  ASSUME NEW n, NEW t \in IdleTask \cup ResyncTask
  PROVE  t \in Task /\ TaskOK(n, t)
BY DEF Task, TaskOK, IdleTask, StatusTask, RootTask, ResyncTask

LEMMA InitInv == Init => IInv
<1> SUFFICES ASSUME Init PROVE IInv
  OBVIOUS
<1>1. <<>> \in Seq(Int) /\ Len(<<>>) = 0 /\ MaxTxid \in Nat
  BY EmptySeq
<1>2. \A n \in Node : TreeOK(n, txids[n])
  BY <1>1 DEF Init, TreeOK, IsRead, IsRight
<1>3. Cleared \in Validated
  BY <1>1 DEF Cleared, Validated, NoRoot, Undefined
<1>4. Idle \in IdleTask
  BY DEF Idle, IdleTask
<1>5. task \in [Node -> [Kind -> Task]] /\ \A n \in Node : \A k \in Kind : TaskOK(n, task[n][k])
  BY <1>4, IdleIsOK DEF Init
<1>6. QED
  BY <1>1, <1>2, <1>3, <1>5 DEF Init, IInv

\* The engine reads the next txid, or misreads it.
LEMMA ScanInv ==
  ASSUME IInv, NEW n \in Node, Scan(n)
  PROVE  IInv'
<1> DEFINE s == txids[n]
           p == Len(s) + 1
<1>1. /\ s \in Seq(Int) /\ Len(s) \in Nat /\ p <= MaxTxid /\ TreeOK(n, s)
      /\ misreads \in 0 .. MaxMisreads
  BY LenProperties DEF IInv, Scan
<1>2. PICK x \in {p, -p} : /\ txids' = [txids EXCEPT ![n] = Append(s, x)]
                           /\ n \notin Misreads => x = p
                           /\ misreads' \in 0 .. MaxMisreads
  BY <1>1 DEF Scan, IInv
<1>3. UNCHANGED <<status, task, signed, faults>>
  BY DEF Scan
<1> HIDE DEF s
<1>4. /\ Append(s, x) \in Seq(Int) /\ Len(Append(s, x)) = p
      /\ \A i \in 1 .. Len(s) : Append(s, x)[i] = s[i]
      /\ Append(s, x)[p] = x
  BY <1>1, <1>2, AppendProperties
<1>5. TreeOK(n, Append(s, x))
  <2>1. \A i \in 1 .. p : i = p \/ i \in 1 .. Len(s)
    BY <1>1
  <2>2. QED
    BY <1>1, <1>2, <1>4, <2>1 DEF TreeOK, IsRead, IsRight
<1>6. txids' \in [Node -> Seq(Int)] /\ \A m \in Node : TreeOK(m, txids'[m])
  BY <1>2, <1>4, <1>5 DEF IInv
<1>7. QED
  BY <1>2, <1>3, <1>6 DEF IInv

\* The poll gets the status of a peer.
LEMMA GetNodeStatusInv ==
  ASSUME IInv, NEW n \in Node, GetNodeStatus(n)
  PROVE  IInv'
<1>1. PICK m \in NodeConfigs[n] :
        Goto(n, "poll", [pc |-> "status", peer |-> m, currentB |-> CurrentIndex(m),
                         rootB |-> CurrentRoot(m), validatedB |-> status[m].index])
  BY DEF GetNodeStatus
<1> DEFINE t == [pc |-> "status", peer |-> m, currentB |-> CurrentIndex(m),
                 rootB |-> CurrentRoot(m), validatedB |-> status[m].index]
<1>2. m \in Node /\ "poll" \in Kind
  BY DEF Kind
<1>3. CurrentIndex(m) \in Int /\ CurrentRoot(m) \in Seq(Int) /\ status[m].index \in Int
  BY <1>2, LenProperties, RootType DEF IInv, CurrentIndex, CurrentRoot, Validated
<1>4. t \in StatusTask /\ t \in Task
  BY <1>2, <1>3 DEF StatusTask, Task
<1>5. m \notin Misreads => \E j \in Int : CurrentRoot(m) = Root(Chain, j)
  <2>1. CASE CurrentRoot(m) = NoRoot
    <3>1. Root(Chain, -1) = NoRoot
      BY NoRootOutside
    <3>2. QED
      BY <2>1, <3>1
  <2>2. CASE CurrentRoot(m) # NoRoot
    BY <1>2, <1>3, <2>2, OwnRoots DEF CurrentRoot
  <2>3. QED
    BY <2>1, <2>2
<1>6. TaskOK(n, t)
  BY <1>5 DEF TaskOK, PeerOK
<1> HIDE DEF t
<1>7. UNCHANGED <<txids, status, signed, misreads, faults>>
  BY DEF GetNodeStatus
<1>8. Goto(n, "poll", t)
  BY <1>1 DEF t
<1>9. misreads' \in 0 .. MaxMisreads /\ faults' \in 0 .. MaxFaults
  BY <1>7 DEF IInv
<1>10. QED
  BY <1>2, <1>4, <1>6, <1>7, <1>8, <1>9, TaskMoves

\* The request with what the provider has signed.
LEMMA VerifySignatureInv ==
  ASSUME IInv, NEW n \in Node, VerifySignatureAndUpdate(n)
  PROVE  IInv'
<1>1. PICK v \in signed :
        Goto(n, "handler", [pc |-> "status", peer |-> Provider, currentB |-> v.index,
                            rootB |-> v.root, validatedB |-> v.index])
  BY DEF VerifySignatureAndUpdate
<1> DEFINE t == [pc |-> "status", peer |-> Provider, currentB |-> v.index,
                 rootB |-> v.root, validatedB |-> v.index]
<1>2. Provider \in Node /\ "handler" \in Kind /\ Provider \in NodeConfigs[n]
  BY DEF Kind, VerifySignatureAndUpdate
<1>3. v.index \in Int /\ v.root \in Seq(Int) /\ RootOK(v)
  BY DEF IInv, Validated
<1>4. t \in StatusTask /\ t \in Task
  BY <1>2, <1>3 DEF StatusTask, Task
<1>5. TaskOK(n, t)
  BY <1>2, <1>3 DEF TaskOK, PeerOK, RootOK
<1> HIDE DEF t
<1>6. UNCHANGED <<txids, status, signed, misreads, faults>>
  BY DEF VerifySignatureAndUpdate
<1>7. Goto(n, "handler", t)
  BY <1>1 DEF t
<1>8. misreads' \in 0 .. MaxMisreads /\ faults' \in 0 .. MaxFaults
  BY <1>6 DEF IInv
<1>9. QED
  BY <1>2, <1>4, <1>5, <1>6, <1>7, <1>8, TaskMoves

\* An await of the update that changes only its task.
LEMMA UpdateMoves ==
  ASSUME IInv, NEW n \in Node, NEW k \in Kind, NEW t \in Task, TaskOK(n, t), Goto(n, k, t),
         UNCHANGED <<txids, status, signed, misreads, faults>>
  PROVE  IInv'
<1>1. misreads' \in 0 .. MaxMisreads /\ faults' \in 0 .. MaxFaults
  BY DEF IInv
<1>2. QED
  BY <1>1, TaskMoves

\* The update ends.
LEMMA UpdateEnds ==
  ASSUME IInv, NEW n \in Node, NEW k \in Kind, Goto(n, k, Idle),
         UNCHANGED <<txids, status, signed, misreads, faults>>
  PROVE  IInv'
<1>1. Idle \in IdleTask
  BY DEF Idle, IdleTask
<1>2. QED
  BY <1>1, IdleIsOK, UpdateMoves

\* So does the recheck after an invalid root.
LEMMA RecheckIsOK ==
  ASSUME NEW n, NEW t \in RootTask
  PROVE  Recheck(t) \in Task /\ TaskOK(n, Recheck(t))
<1>1. Recheck(t) \in ResyncTask
  BY DEF Recheck, RootTask, ResyncTask
<1>2. QED
  BY <1>1, IdleIsOK

LEMMA ReadStatusInv ==
  ASSUME IInv, NEW n \in Node, NEW k \in Kind, ReadStatus(n, k)
  PROVE  IInv'
<1> DEFINE t == task[n][k]
           index == Min({CurrentIndex(n), t.currentB})
           u == [pc |-> "root", peer |-> t.peer, rootB |-> t.rootB,
                 validatedB |-> t.validatedB, validatedA |-> status[n].index,
                 first |-> index, index |-> index,
                 root |-> NoRoot, tried |-> FALSE]
<1>1. /\ t.pc = "status"
      /\ Goto(n, k, u) \/ Goto(n, k, Idle)
      /\ UNCHANGED <<txids, status, signed, misreads, faults>>
  BY DEF ReadStatus, At
<1>2. t \in StatusTask /\ TaskOK(n, t)
  BY <1>1, TaskAt
<1>3. CurrentIndex(n) \in Int /\ t.currentB \in Int /\ status[n].index \in Int
  BY <1>2, LenProperties DEF IInv, CurrentIndex, StatusTask, Validated
<1> HIDE DEF t
<1>4. index \in Int
  BY <1>3, MinMaxOfTwo
<1> HIDE DEF index
<1>5. NoRoot \in Seq(Int)
  BY EmptySeq DEF NoRoot
<1>6. u \in RootTask
  BY <1>2, <1>3, <1>4, <1>5 DEF RootTask, StatusTask
<1>7. TaskOK(n, u)
  BY <1>2, <1>6 DEF TaskOK, PeerOK
<1>8. u \in Task
  BY <1>6 DEF Task
<1> HIDE DEF u
<1>9. QED
  BY <1>1, <1>7, <1>8, UpdateMoves, UpdateEnds

\* The node's own root at the index: if the peer reported it, it is valid.
LEMMA ReadRootInv ==
  ASSUME IInv, NEW n \in Node, NEW k \in Kind, ReadRoot(n, k)
  PROVE  IInv'
<1> DEFINE t == task[n][k]
           root == Root(txids[n], t.index)
           u == [t EXCEPT !.pc = IF root = t.rootB THEN "save" ELSE "ask", !.root = root]
<1>1. /\ t.pc = "root"
      /\ Goto(n, k, Idle) \/ (root # NoRoot /\ Goto(n, k, u))
      /\ UNCHANGED <<txids, status, signed, misreads, faults>>
  BY DEF ReadRoot, At
<1>2. t \in RootTask /\ TaskOK(n, t)
  BY <1>1, TaskAt
<1>3. CASE root # NoRoot /\ Goto(n, k, u)
  <2>1. /\ t.index \in 0 .. Len(txids[n]) - 1
        /\ IsPossible(t.index, root)
        /\ n \notin Misreads => root = Root(Chain, t.index)
    BY <1>3, OwnRoots
  <2>2. root \in Seq(Int)
    BY <2>1, PossibleRoots
  <2>3. PeerOK(n, t)
    BY <1>2 DEF TaskOK
  \* A node that misreads asks a peer that does not.
  <2>4. root = t.rootB /\ PeersReadRight => root = Root(Chain, t.index)
    <3> SUFFICES ASSUME root = t.rootB, PeersReadRight, n \in Misreads
                 PROVE  root = Root(Chain, t.index)
      BY <2>1
    <3>1. t.peer \notin Misreads
      BY <2>3 DEF PeerOK, PeersReadRight
    <3>2. PICK j \in Int : root = Root(Chain, j)
      BY <2>3, <3>1 DEF PeerOK
    <3>3. j \in 0 .. Len(Chain) - 1
      BY <1>3, <3>2, NoRootOutside
    <3>4. IsRead(txids[n]) /\ IsRead(Chain)
      BY ChainIsRight, RightIsRead DEF IInv, TreeOK
    <3>5. t.index = j
      BY <2>1, <3>2, <3>3, <3>4, RootsTellIndex
    <3>6. QED
      BY <3>2, <3>5
  <2> HIDE DEF t
  <2> HIDE DEF root
  <2>5. /\ u \in RootTask /\ u.pc = (IF root = t.rootB THEN "save" ELSE "ask")
        /\ u.root = root /\ u.index = t.index /\ u.peer = t.peer /\ u.rootB = t.rootB
    BY <1>2, <2>2 DEF RootTask
  <2>6. PeerOK(n, u)
    BY <2>3, <2>5 DEF PeerOK
  <2> HIDE DEF u
  <2>7. TaskOK(n, u)
    BY <2>1, <2>4, <2>5, <2>6 DEF TaskOK, RootOK
  <2>8. u \in Task
    BY <2>5 DEF Task
  <2>9. QED
    BY <1>1, <1>3, <2>7, <2>8, UpdateMoves
<1>4. QED
  BY <1>1, <1>3, UpdateEnds

\* The peer has the root, has another or none at the index, or answers an error.
LEMMA AskPeerInv ==
  ASSUME IInv, NEW n \in Node, NEW k \in Kind, AskPeer(n, k)
  PROVE  IInv'
<1> DEFINE t == task[n][k]
<1>1. /\ t.pc = "ask"
      /\ \/ TRUE \in Answer(t.peer, t) /\ Goto(n, k, [t EXCEPT !.pc = "save"])
         \/ Goto(n, k, AfterInvalid(t))
         \/ Goto(n, k, Idle)
      /\ UNCHANGED <<txids, status, signed, misreads, faults>>
  BY DEF AskPeer, At
<1>2. t \in RootTask /\ TaskOK(n, t)
  BY <1>1, TaskAt
<1>3. /\ PeerOK(n, t) /\ IsPossible(t.index, t.root)
      /\ n \notin Misreads => t.root = Root(Chain, t.index)
  BY <1>1, <1>2 DEF TaskOK
<1>4. CASE TRUE \in Answer(t.peer, t) /\ Goto(n, k, [t EXCEPT !.pc = "save"])
  <2> DEFINE u == [t EXCEPT !.pc = "save"]
  <2>1. Root(txids[t.peer], t.index) = t.root
    BY <1>4 DEF Answer
  <2>2. PeersReadRight => t.root = Root(Chain, t.index)
    <3> SUFFICES ASSUME PeersReadRight, n \in Misreads
                 PROVE  t.root = Root(Chain, t.index)
      BY <1>3
    <3>1. t.peer \notin Misreads /\ t.peer \in Node
      BY <1>3 DEF PeerOK, PeersReadRight
    <3>2. t.root # NoRoot
      BY <1>3, PossibleRoots
    <3>3. QED
      BY <2>1, <3>1, <3>2, OwnRoots
  <2> HIDE DEF t
  <2>3. /\ u \in RootTask /\ u.pc = "save" /\ u.root = t.root /\ u.index = t.index
        /\ u.peer = t.peer /\ u.rootB = t.rootB
    BY <1>2 DEF RootTask
  <2>4. PeerOK(n, u)
    BY <1>3, <2>3 DEF PeerOK
  <2>5. Goto(n, k, u)
    BY <1>4
  <2> HIDE DEF u
  <2>6. TaskOK(n, u)
    BY <1>3, <2>2, <2>3, <2>4 DEF TaskOK, RootOK
  <2>7. u \in Task
    BY <2>3 DEF Task
  <2>8. QED
    BY <1>1, <2>5, <2>6, <2>7, UpdateMoves
<1>5. AfterInvalid(t) \in Task /\ TaskOK(n, AfterInvalid(t))
  <2> HIDE DEF t
  <2> DEFINE midpoint == (t.first + Max({t.validatedA, 0})) \div 2
             u == [t EXCEPT !.pc = "root", !.index = midpoint, !.root = NoRoot, !.tried = TRUE]
  <2>1. AfterInvalid(t) = u \/ AfterInvalid(t) = Recheck(t)
    BY DEF AfterInvalid
  <2>2. midpoint \in Int
    <3>1. t.first \in Int /\ t.validatedA \in Int
      BY <1>2 DEF RootTask
    <3>2. Max({t.validatedA, 0}) \in Int
      <4>1. \A a \in Int, b \in Int : Max({a, b}) = a \/ Max({a, b}) = b
        BY MinMaxOfTwo
      <4>2. 0 \in Int
        OBVIOUS
      <4>3. QED
        BY <3>1, <4>1, <4>2, Zenon
    <3>3. t.first + Max({t.validatedA, 0}) \in Int
      BY <3>1, <3>2
    <3>4. \A i \in Int : i \div 2 \in Int
      OBVIOUS
    <3>5. QED
      BY <3>3, <3>4, Zenon
  <2> HIDE DEF midpoint
  <2>3. NoRoot \in Seq(Int)
    BY EmptySeq DEF NoRoot
  <2>4. /\ u \in RootTask /\ u.pc = "root" /\ u.peer = t.peer /\ u.rootB = t.rootB
    BY <1>2, <2>2, <2>3 DEF RootTask
  <2> HIDE DEF u
  <2>5. u \in Task /\ TaskOK(n, u)
    BY <1>3, <2>4 DEF Task, TaskOK, PeerOK
  <2>6. QED
    BY <1>2, <2>1, <2>5, RecheckIsOK
<1> HIDE DEF t
<1>6. QED
  BY <1>1, <1>4, <1>5, UpdateMoves, UpdateEnds

\* What was compared is saved; the provider signs it.
LEMMA SaveInv ==
  ASSUME IInv, NEW n \in Node, NEW k \in Kind, SaveValidatedTxidStatus(n, k)
  PROVE  IInv'
<1> DEFINE t == task[n][k]
           v == [index |-> t.index, root |-> t.root]
<1>1. /\ t.pc = "save" /\ status' = [status EXCEPT ![n] = v]
      /\ signed' \subseteq signed \cup {v}
      /\ Goto(n, k, Recheck(t)) \/ Goto(n, k, Idle)
      /\ UNCHANGED <<txids, misreads, faults>>
  BY DEF SaveValidatedTxidStatus, At
<1>2. t \in RootTask /\ RootOK(v)
  BY <1>1, TaskAt DEF TaskOK
<1>3. v \in Validated
  BY <1>2 DEF RootTask, Validated
<1>4. PICK u \in Task : TaskOK(n, u) /\ Goto(n, k, u)
  <2>1. Recheck(t) \in Task /\ TaskOK(n, Recheck(t))
    BY <1>2, RecheckIsOK
  <2>2. Idle \in Task /\ TaskOK(n, Idle)
    BY IdleIsOK DEF Idle, IdleTask
  <2> HIDE DEF t
  <2>3. QED
    BY <1>1, <2>1, <2>2
<1> HIDE DEF t, v
<1>5. status' \in [Node -> Validated] /\ \A m \in Node : status'[m] = Cleared \/ RootOK(status'[m])
  BY <1>1, <1>2, <1>3 DEF IInv
<1>6. signed' \subseteq Validated /\ \A w \in signed' : RootOK(w)
  BY <1>1, <1>2, <1>3 DEF IInv
<1>7. task' \in [Node -> [Kind -> Task]]
  BY <1>4 DEF IInv, Goto
<1>8. \A m \in Node : \A j \in Kind : TaskOK(m, task'[m][j])
  BY <1>4 DEF IInv, Goto
<1>9. QED
  BY <1>1, <1>5, <1>6, <1>7, <1>8 DEF IInv

LEMMA ReadValidatedAgainInv ==
  ASSUME IInv, NEW n \in Node, NEW k \in Kind, ReadValidatedAgain(n, k)
  PROVE  IInv'
<1> DEFINE t == task[n][k]
           u == [pc |-> "reset", resync |-> ResyncIndex(t, status[n].index)]
<1>1. t.first \in Int /\ status[n].index \in Int
  BY TaskAt DEF ReadValidatedAgain, At, IInv, Validated
<1> HIDE DEF t
<1>2. ResyncIndex(t, status[n].index) \in Int
  BY <1>1, MinMaxOfTwo DEF ResyncIndex
<1>3. u \in ResyncTask
  BY <1>2 DEF ResyncTask
<1>4. Goto(n, k, u) /\ UNCHANGED <<txids, status, signed, misreads, faults>>
  BY DEF ReadValidatedAgain, t
<1> HIDE DEF u
<1>5. QED
  BY <1>3, <1>4, IdleIsOK, UpdateMoves

\* What is left of a tree is what its engine had read.
LEMMA ClearedTree ==
  ASSUME NEW n, NEW s, TreeOK(n, s), NEW i \in Int
  PROVE  TreeOK(n, ClearedAfter(s, i)) /\ ClearedAfter(s, i) \in Seq(Int)
<1> DEFINE e == Min({i + 1, Len(s)})
<1>1. s \in Seq(Int) /\ Len(s) \in Nat /\ Len(s) <= MaxTxid /\ i + 1 \in Int
  BY LenProperties DEF TreeOK, IsRead
<1>2. e \in Int /\ e <= Len(s)
  BY <1>1, MinMaxOfTwo
<1>3. ClearedAfter(s, i) = SubSeq(s, 1, e)
  BY DEF ClearedAfter
<1> HIDE DEF e
<1>4. \A j \in 1 .. e : s[j] \in Int
  BY <1>1, <1>2, ElementOfSeq
<1>5. /\ SubSeq(s, 1, e) \in Seq(Int)
      /\ Len(SubSeq(s, 1, e)) = IF 1 <= e THEN e - 1 + 1 ELSE 0
      /\ \A j \in 1 .. e - 1 + 1 : SubSeq(s, 1, e)[j] = s[1 + j - 1]
  BY <1>2, <1>4, SubSeqProperties
<1> DEFINE r == SubSeq(s, 1, e)
<1>6. \A j \in 1 .. Len(r) : j \in 1 .. Len(s) /\ r[j] = s[j]
  BY <1>1, <1>2, <1>5
<1>7. r \in Seq(Int) /\ Len(r) <= Len(s) /\ Len(r) \in Nat
  BY <1>1, <1>2, <1>5
<1> HIDE DEF r
<1>8. TreeOK(n, r)
  BY <1>1, <1>6, <1>7 DEF TreeOK, IsRead, IsRight
<1>9. QED
  BY <1>3, <1>7, <1>8 DEF r

LEMMA ResetInv ==
  ASSUME IInv, NEW n \in Node, NEW k \in Kind, ResetRailgunTxids(n, k)
  PROVE  IInv'
<1> DEFINE s == ClearedAfter(txids[n], task[n][k].resync)
<1>1. /\ task[n][k].pc = "reset"
      /\ txids' = [txids EXCEPT ![n] = s]
      /\ Goto(n, k, Idle)
      /\ UNCHANGED <<status, signed, misreads, faults>>
  BY DEF ResetRailgunTxids, At
<1>2. TreeOK(n, s) /\ s \in Seq(Int)
  BY <1>1, TaskAt, ClearedTree DEF IInv
<1>3. Idle \in Task /\ TaskOK(n, Idle)
  BY IdleIsOK DEF Idle, IdleTask
<1> HIDE DEF s
<1>4. txids' \in [Node -> Seq(Int)] /\ \A m \in Node : TreeOK(m, txids'[m])
  BY <1>1, <1>2 DEF IInv
<1>5. task' \in [Node -> [Kind -> Task]] /\ \A m \in Node : \A j \in Kind : TaskOK(m, task'[m][j])
  BY <1>1, <1>3 DEF IInv, Goto
<1>6. QED
  BY <1>1, <1>4, <1>5 DEF IInv

LEMMA FailInv ==
  ASSUME IInv, NEW n \in Node, NEW k \in Kind, Fail(n, k)
  PROVE  IInv'
<1>1. Idle \in Task /\ TaskOK(n, Idle)
  BY IdleIsOK DEF Idle, IdleTask
<1>2. faults' \in 0 .. MaxFaults /\ misreads' \in 0 .. MaxMisreads
  BY DEF Fail, IInv
<1>3. QED
  BY <1>1, <1>2, TaskMoves DEF Fail

\* All tasks of a node end.
LEMMA NodeIdles ==
  ASSUME IInv, NEW n \in Node, NEW t \in IdleTask,
         task' = [task EXCEPT ![n] = [k \in Kind |-> t]]
  PROVE  /\ task' \in [Node -> [Kind -> Task]]
         /\ \A m \in Node : \A j \in Kind : TaskOK(m, task'[m][j])
<1>1. t \in Task /\ TaskOK(n, t)
  BY IdleIsOK
<1>2. QED
  BY <1>1 DEF IInv

LEMMA RestartInv ==
  ASSUME IInv, NEW n \in Node, Restart(n)
  PROVE  IInv'
<1>1. task' \in [Node -> [Kind -> Task]] /\ \A m \in Node : \A j \in Kind : TaskOK(m, task'[m][j])
  <2>1. [pc |-> "starting"] \in IdleTask
    BY DEF IdleTask
  <2>2. QED
    BY <2>1, NodeIdles DEF Restart
<1>2. <<>> \in Seq(Int) /\ TreeOK(n, <<>>)
  BY EmptySeq DEF TreeOK, IsRead, IsRight
<1>3. Cleared \in Validated
  BY <1>2 DEF Cleared, Validated, NoRoot, Undefined
<1>4. txids' \in [Node -> Seq(Int)] /\ \A m \in Node : TreeOK(m, txids'[m])
  BY <1>2 DEF Restart, IInv
<1>5. status' \in [Node -> Validated] /\ \A m \in Node : status'[m] = Cleared \/ RootOK(status'[m])
  BY <1>3 DEF Restart, IInv
<1>6. faults' \in 0 .. MaxFaults
  BY DEF Restart, IInv
<1>7. QED
  BY <1>1, <1>4, <1>5, <1>6 DEF Restart, IInv

LEMMA CheckInv ==
  ASSUME IInv, NEW n \in Node, CheckValidatedTxidIndexAgainstEngine(n)
  PROVE  IInv'
<1>1. task' \in [Node -> [Kind -> Task]] /\ \A m \in Node : \A j \in Kind : TaskOK(m, task'[m][j])
  <2>1. Idle \in IdleTask
    BY DEF Idle, IdleTask
  <2>2. QED
    BY <2>1, NodeIdles DEF CheckValidatedTxidIndexAgainstEngine
<1>2. Cleared \in Validated
  BY EmptySeq DEF Cleared, Validated, NoRoot, Undefined
<1>3. status' \in [Node -> Validated] /\ \A m \in Node : status'[m] = Cleared \/ RootOK(status'[m])
  BY <1>2 DEF CheckValidatedTxidIndexAgainstEngine, IInv
<1>4. QED
  BY <1>1, <1>3 DEF CheckValidatedTxidIndexAgainstEngine, IInv

LEMMA NextInv == IInv /\ [Next]_vars => IInv'
<1> SUFFICES ASSUME IInv, [Next]_vars PROVE IInv'
  OBVIOUS
<1>1. CASE UNCHANGED vars
  BY <1>1 DEF vars, IInv
<1>2. ASSUME NEW n \in Node,
             \/ Scan(n) \/ GetNodeStatus(n) \/ VerifySignatureAndUpdate(n)
             \/ Restart(n) \/ CheckValidatedTxidIndexAgainstEngine(n)
      PROVE  IInv'
  BY <1>2, ScanInv, GetNodeStatusInv, VerifySignatureInv, RestartInv, CheckInv
<1>3. ASSUME NEW n \in Node, NEW k \in Kind, UpdateStep(n, k) \/ Fail(n, k)
      PROVE  IInv'
  BY <1>3, ReadStatusInv, ReadRootInv, AskPeerInv, SaveInv, ReadValidatedAgainInv,
     ResetInv, FailInv DEF UpdateStep
<1>4. QED
  BY <1>1, <1>2, <1>3 DEF Next

--------------------------------------------------------------------------------
\* The inductive invariant holds throughout.
THEOREM ValidationInvariance == Spec => []IInv
BY InitInv, NextInv, PTL DEF Spec

\* Trees, validated statuses and updates hold what they should.
THEOREM ValidationTypeOK == Spec => []TypeOK
<1>1. IInv => TypeOK
  <2> SUFFICES ASSUME IInv PROVE TypeOK
    OBVIOUS
  <2>1. ASSUME NEW n \in Node
        PROVE  Len(txids[n]) <= MaxTxid /\ \A p \in DOMAIN txids[n] : txids[n][p] \in {p, -p}
    <3>1. IsRead(txids[n])
      BY DEF IInv, TreeOK
    <3>2. DOMAIN txids[n] = 1 .. Len(txids[n])
      BY <3>1, LenProperties DEF IsRead
    <3>3. QED
      BY <3>1, <3>2 DEF IsRead
  <2>2. ASSUME NEW n \in Node
        PROVE  /\ status[n].index \in {Undefined} \union 0..(MaxTxid - 1)
               /\ ToSet(status[n].root) \subseteq Txid
    <3>1. CASE status[n] = Cleared
      BY <3>1 DEF Cleared, NoRoot, ToSet
    <3>2. CASE RootOK(status[n])
      <4>1. /\ status[n].index \in 0 .. MaxTxid - 1 /\ status[n].root \in Seq(Int)
            /\ \A k \in 1 .. Len(status[n].root) : status[n].root[k] \in Txid
        BY <3>2, PossibleRoots DEF RootOK
      <4>2. DOMAIN status[n].root = 1 .. Len(status[n].root)
        BY <4>1, LenProperties
      <4>3. QED
        BY <4>1, <4>2 DEF ToSet
    <3>3. QED
      BY <3>1, <3>2 DEF IInv
  <2>3. ASSUME NEW n \in Node, NEW k \in Kind
        PROVE  task[n][k].pc \in {"idle", "starting", "status", "root", "ask",
                                  "save", "recheck", "reset"}
    <3>1. task[n][k] \in Task
      BY DEF IInv
    <3>2. QED
      BY <3>1 DEF Task, IdleTask, StatusTask, RootTask, ResyncTask
  <2>4. QED
    BY <2>1, <2>2, <2>3 DEF TypeOK, IInv
<1>2. QED
  BY <1>1, ValidationInvariance, PTL

\* A misread txid never gets validated, provided no node that misreads asks
\* another one that does.
THEOREM ValidatedRootsAreOnChain ==
  ASSUME PeersReadRight
  PROVE  Spec => []ValidatedRootIsOnChain
<1>1. IInv => ValidatedRootIsOnChain
  <2> SUFFICES ASSUME IInv, NEW n \in Node
               PROVE  /\ status[n].index # Undefined =>
                           status[n].root = Root(Chain, status[n].index)
                      /\ status[n].index = Undefined => status[n].root = NoRoot
    BY DEF ValidatedRootIsOnChain
  <2>1. CASE status[n] = Cleared
    BY <2>1 DEF Cleared
  <2>2. CASE RootOK(status[n])
    BY <2>2, PossibleRoots, PeersReadRight DEF RootOK, Undefined
  <2>3. QED
    BY <2>1, <2>2 DEF IInv
<1>2. QED
  BY <1>1, ValidationInvariance, PTL
================================================================================
