-------------------------- MODULE MerkleTree_proofs --------------------------
(***************************************************************************)
(* What is proved of MerkleTree for every number of levels, every set of   *)
(* members and every batch size.                                           *)
(***************************************************************************)
EXTENDS MerkleTree, FiniteSetTheorems, SequenceTheorems, WellFoundedInduction, TLAPS

------------------------------------------------------------------------------
(* The inductive invariant.                                                *)

\* What a running call may still find in its batch.
TodoInv ==
  /\ pc = "idle" => todo = << >>
  /\ pc = "appendUsers" => todo \in Seq(User) /\ todo # << >>
  /\ pc \in {"appendPath", "linkPath"} => todo \in Seq(User)
  /\ pc = "removeUsers" => todo \in Seq(Slot) /\ todo # << >>
  /\ pc = "updatePath"  => todo \in Seq(Slot)

\* Leaves are numbered without a gap, so the next index is their number.
LeavesAreFirst == \E count \in 0 .. Capacity : LeafIndexes = 0 .. count - 1

\* The shape of the tree: no gap on any level, a left child under every inner
\* node, a parent over every node but the one appendUsers is working on and
\* the parent it has just created for it.
Shape ==
  /\ \A n \in stored : n[2] > 0 => <<n[1], n[2] - 1>> \in stored
  /\ \A p \in stored : p[1] > 0 => LeftOf(p) \in stored
  /\ \A n \in stored :
       n[1] < Levels /\ ~(pc \in {"appendPath", "linkPath"} /\ n = cur)
                    /\ ~(pc = "linkPath" /\ n = ParentOf(cur)) =>
         n \in linked /\ ParentOf(n) \in stored
  /\ \A n \in linked : n[1] < Levels

\* The node a loop is working on exists; the one appendUsers is working on is
\* the last of its level.
PathInv ==
  /\ OnPath => cur \in stored
  /\ pc = "updatePath" => updates > 0
  /\ pc \in {"appendPath", "linkPath"} => <<cur[1], cur[2] + 1>> \notin stored
  /\ pc = "linkPath" =>
       /\ cur[1] < Levels /\ IsLeft(cur)
       /\ ParentOf(cur) \in stored
       /\ <<ParentOf(cur)[1], ParentOf(cur)[2] + 1>> \notin stored

\* Everything about the tree but the hashes.
ShapeInv == TypeOK /\ TodoInv /\ LeavesAreFirst /\ Shape /\ PathInv

\* The highest node the running loop has given its hash.
Top == IF pc = "linkPath" THEN ParentOf(cur) ELSE cur

\* Its parent is the only one whose hash may differ from that of its children.
HashInv ==
  updates <= 1 =>
    \A p \in stored :
      p[1] > 0 /\ ~(OnPath /\ p = ParentOf(Top)) =>
        hash[p] = Hash(HashAt(LeftOf(p)), HashAt(RightOf(p)))

Fresh(n) == siblingHash[n] = HashAt(SiblingOf(n))

\* The remembered sibling hashes: all of them are right until a leaf is
\* zeroed, those still to be read are right while the first leaf is zeroed.
FreshInv ==
  /\ updates = 0 =>
       \A n \in stored :
         n[1] < Levels /\ ~(pc = "appendPath" /\ n \in {cur, SiblingOf(cur)})
                      /\ ~(pc = "linkPath" /\ n \in {cur, Top, SiblingOf(Top)}) =>
           Fresh(n)
  /\ updates = 1 /\ pc = "updatePath" =>
       \A n \in stored :
         n[1] < Levels /\ n[1] >= cur[1] /\ n # SiblingOf(cur) => Fresh(n)

IInv == ShapeInv /\ HashInv /\ FreshInv

------------------------------------------------------------------------------
(* Addresses.                                                              *)

\* The facts about the constants that nearly every step needs.
LEMMA CapacityFacts == Capacity \in Nat /\ Capacity > 1 /\ 0 \in LeafIndex
BY LevelsAssumption DEF Capacity, LeafIndex

LEMMA NodeIsPair ==
  ASSUME NEW n \in Node
  PROVE  /\ n = <<n[1], n[2]>>
         /\ n[1] \in 0 .. Levels
         /\ n[2] \in 0 .. Capacity - 1
         /\ n[1] \in Nat
         /\ n[2] \in Nat
BY CapacityFacts, LevelsAssumption DEF Node, LeafIndex

LEMMA Halving ==
  ASSUME NEW i \in Nat
  PROVE  /\ i \div 2 \in Nat
         /\ i \div 2 <= i
         /\ i % 2 = 0 => i = 2 * (i \div 2)
         /\ i % 2 # 0 => i = 2 * (i \div 2) + 1
OBVIOUS

LEMMA Doubling ==
  ASSUME NEW j \in Nat
  PROVE  /\ (2 * j) \div 2 = j /\ (2 * j) % 2 = 0
         /\ (2 * j + 1) \div 2 = j /\ (2 * j + 1) % 2 # 0
OBVIOUS

\* The parent of a node is an address, and the node is one of its children.
LEMMA ParentFacts ==
  ASSUME NEW n \in Node, n[1] < Levels
  PROVE  /\ ParentOf(n) \in Node
         /\ ParentOf(n)[1] = n[1] + 1
         /\ IsLeft(n) =>
              /\ LeftOf(ParentOf(n)) = n
              /\ RightOf(ParentOf(n)) = SiblingOf(n)
              /\ SiblingOf(n) = <<n[1], n[2] + 1>>
         /\ ~IsLeft(n) =>
              /\ RightOf(ParentOf(n)) = n
              /\ LeftOf(ParentOf(n)) = SiblingOf(n)
              /\ SiblingOf(n) = <<n[1], n[2] - 1>>
              /\ SiblingOf(n) \in Node
              /\ n[2] > 0
         /\ SiblingOf(n) # n
         /\ SiblingOf(n)[1] = n[1]
         /\ SiblingOf(SiblingOf(n)) = n
<1>1. PICK l \in 0 .. Levels, i \in 0 .. Capacity - 1 : n = <<l, i>>
  BY DEF Node, LeafIndex
<1>2. l \in Nat /\ i \in Nat /\ i <= Capacity - 1 /\ l < Levels
  BY <1>1, CapacityFacts, LevelsAssumption
<1>3. /\ i \div 2 \in Nat /\ i \div 2 <= i
      /\ i % 2 = 0 => i = 2 * (i \div 2)
      /\ i % 2 # 0 => i = 2 * (i \div 2) + 1
  BY <1>2, Halving
<1>4. ParentOf(n) = <<l + 1, i \div 2>> /\ ParentOf(n) \in Node
  BY <1>1, <1>2, <1>3, CapacityFacts, LevelsAssumption DEF Node, LeafIndex, ParentOf
<1>5. LeftOf(ParentOf(n)) = <<l, 2 * (i \div 2)>>
  BY <1>2, <1>4 DEF LeftOf
<1>6. RightOf(ParentOf(n)) = <<l, 2 * (i \div 2) + 1>>
  BY <1>2, <1>4 DEF RightOf
<1>7. CASE i % 2 = 0
  <2>1. IsLeft(n) /\ SiblingOf(n) = <<l, i + 1>>
    BY <1>1, <1>7 DEF IsLeft, SiblingOf
  <2>2. (i + 1) % 2 # 0
    BY <1>2, <1>7
  <2>3. SiblingOf(<<l, i + 1>>) = <<l, i>>
    BY <1>2, <2>2 DEF IsLeft, SiblingOf
  <2>4. <<l, i + 1>> # <<l, i>>
    BY <1>2
  <2>. QED
    BY <1>1, <1>2, <1>3, <1>4, <1>5, <1>6, <1>7, <2>1, <2>3, <2>4
<1>8. CASE i % 2 # 0
  <2>1. ~IsLeft(n) /\ SiblingOf(n) = <<l, i - 1>>
    BY <1>1, <1>8 DEF IsLeft, SiblingOf
  <2>2. (i - 1) % 2 = 0 /\ i > 0 /\ i - 1 \in LeafIndex
    BY <1>2, <1>8, CapacityFacts DEF LeafIndex
  <2>3. SiblingOf(<<l, i - 1>>) = <<l, i>>
    BY <1>2, <2>2 DEF IsLeft, SiblingOf
  <2>4. <<l, i - 1>> # <<l, i>>
    BY <1>2
  <2>5. <<l, i - 1>> \in Node
    BY <1>2, <2>2, LevelsAssumption DEF Node
  <2>. QED
    BY <1>1, <1>2, <1>3, <1>4, <1>5, <1>6, <1>8, <2>1, <2>2, <2>3, <2>4, <2>5
<1>. QED
  BY <1>7, <1>8

\* A node is the parent of its two children, which are each other's siblings.
LEMMA ChildFacts ==
  ASSUME NEW p \in Node, p[1] > 0
  PROVE  /\ ParentOf(LeftOf(p)) = p
         /\ ParentOf(RightOf(p)) = p
         /\ LeftOf(p)[1] < p[1]
         /\ RightOf(p)[1] < p[1]
         /\ LeftOf(p)[1] = p[1] - 1
         /\ RightOf(p)[1] = p[1] - 1
         /\ SiblingOf(LeftOf(p)) = RightOf(p)
<1>1. p = <<p[1], p[2]>> /\ p[1] \in Nat /\ p[2] \in Nat
  BY NodeIsPair
<1>2. /\ (2 * p[2]) \div 2 = p[2] /\ (2 * p[2]) % 2 = 0
      /\ (2 * p[2] + 1) \div 2 = p[2]
  BY <1>1, Doubling
<1>. QED
  BY <1>1, <1>2 DEF ParentOf, LeftOf, RightOf, SiblingOf, IsLeft

\* Two different nodes with the same sibling, or the same parent and side,
\* do not exist.
LEMMA SiblingInjective ==
  ASSUME NEW n \in Node, NEW m \in Node, SiblingOf(n) = m
  PROVE  SiblingOf(m) = n
<1>1. /\ n = <<n[1], n[2]>> /\ n[2] \in Nat
      /\ m = <<m[1], m[2]>> /\ m[2] \in Nat
  BY NodeIsPair
<1>2. CASE IsLeft(n)
  <2>1. m[1] = n[1] /\ m[2] = n[2] + 1
    BY <1>1, <1>2 DEF SiblingOf
  <2>2. m[2] % 2 # 0
    BY <1>1, <1>2, <2>1 DEF IsLeft
  <2>. QED
    BY <1>1, <2>1, <2>2 DEF SiblingOf, IsLeft
<1>3. CASE ~IsLeft(n)
  <2>1. m[1] = n[1] /\ m[2] = n[2] - 1
    BY <1>1, <1>3 DEF SiblingOf
  <2>2. m[2] % 2 = 0
    BY <1>1, <1>3, <2>1 DEF IsLeft
  <2>. QED
    BY <1>1, <2>1, <2>2 DEF SiblingOf, IsLeft
<1>. QED
  BY <1>2, <1>3

------------------------------------------------------------------------------
(* Hashes, batches and leaves.                                             *)

LEMMA ZerosType == \A level \in 0 .. Levels - 1 : zeros[level] \in HashValue
<1>. SUFFICES ASSUME NEW level \in 0 .. Levels - 1
              PROVE  zeros[level] \in HashValue
  OBVIOUS
<1>1. 2 ^ level \in Nat
  BY LevelsAssumption
<1>2. zeros[level] = [i \in 1 .. 2 ^ level |-> Zero]
  BY DEF zeros
<1>. QED
  BY <1>1, <1>2 DEF HashValue, LeafValue

LEMMA HashType ==
  ASSUME NEW left \in HashValue, NEW right \in HashValue
  PROVE  Hash(left, right) \in HashValue
BY ConcatProperties DEF Hash, HashValue

LEMMA BatchType ==
  ASSUME NEW S, NEW batch \in Batches(S)
  PROVE  batch \in Seq(S) /\ batch # << >>
<1>1. PICK n \in 1 .. MaxBatch : batch \in [1 .. n -> S]
  BY DEF Batches
<1>2. n \in Nat \ {0}
  BY BoundAssumption
<1>. QED
  BY <1>1, <1>2

LEMMA NextOfFacts ==
  ASSUME NEW loop, NEW rest
  PROVE  /\ NextOf(loop, rest) \in {"idle", loop}
         /\ NextOf(loop, rest) = "idle" => rest = << >> \/ loop = "idle"
         /\ rest = << >> => NextOf(loop, rest) = "idle"
BY DEF NextOf

\* The next leaf index is the number of leaves, and it is free.
LEMMA LeafCount ==
  ASSUME LeavesAreFirst
  PROVE  /\ NumberOfLeaves \in Nat
         /\ NumberOfLeaves <= Capacity
         /\ LeafIndexes = 0 .. NumberOfLeaves - 1
         /\ NumberOfLeaves \in LeafIndex => <<0, NumberOfLeaves>> \notin stored
<1>1. PICK count \in 0 .. Capacity : LeafIndexes = 0 .. count - 1
  BY DEF LeavesAreFirst
<1>2. count \in Nat /\ count <= Capacity
  BY <1>1, CapacityFacts
<1>3. Cardinality(0 .. count - 1) = count
  BY <1>2, FS_Interval
<1>4. NumberOfLeaves = count
  BY <1>1, <1>3 DEF NumberOfLeaves
<1>. QED
  BY <1>1, <1>2, <1>4 DEF LeafIndexes

\* Zeroing a leaf, as banning and removing do, starts from an existing leaf.
LEMMA FoundLeaf ==
  /\ \A h : FindLeafByHash(h) \subseteq LeafIndexes
  /\ \A slot : FindLeafBySlot(slot) \subseteq LeafIndexes
BY DEF FindLeafByHash, LeavesOfHash, FindLeafBySlot, LeavesOfSlot

------------------------------------------------------------------------------
(* The shape of the tree.                                                  *)

LEMMA InitShape == Init => ShapeInv
<1>. SUFFICES ASSUME Init PROVE ShapeInv
  OBVIOUS
<1>1. Root \in Node
  BY CapacityFacts, LevelsAssumption DEF Root, Node
<1>2. Unset \in HashValue
  BY DEF Unset, HashValue
<1>3. TypeOK
  BY <1>1, <1>2, BoundAssumption DEF Init, TypeOK
<1>4. LeafIndexes = 0 .. 0 - 1
  BY DEF Init, LeafIndexes
<1>5. LeavesAreFirst
  BY <1>4, CapacityFacts DEF LeavesAreFirst
<1>. QED
  BY <1>3, <1>5 DEF Init, ShapeInv, TodoInv, Shape, PathInv, OnPath

\* The steps that only go through the batch.
LEMMA BatchStepShape ==
  ASSUME ShapeInv,
         UNCHANGED unchangedTree,
         ~OnPath, ~OnPath',
         TodoInv',
         pc' \in {"idle", "appendUsers", "removeUsers"},
         todo' \in Seq(User) \cup Seq(Slot)
  PROVE  ShapeInv'
<1>1. TypeOK'
  BY DEF ShapeInv, TypeOK, unchangedTree
<1>2. LeavesAreFirst'
  BY DEF ShapeInv, LeavesAreFirst, LeafIndexes, unchangedTree
<1>3. Shape'
  BY DEF ShapeInv, Shape, OnPath, unchangedTree, LeftOf, ParentOf
<1>. QED
  BY <1>1, <1>2, <1>3 DEF ShapeInv, PathInv, OnPath

LEMMA CreateLeafShape ==
  ASSUME ShapeInv, CreateLeaf
  PROVE  ShapeInv'
<1> DEFINE c    == NumberOfLeaves
           leaf == <<0, c>>
<1>1. /\ c \in Nat /\ c < Capacity /\ c \in LeafIndex
      /\ LeafIndexes = 0 .. c - 1
      /\ leaf \notin stored
      /\ leaf \in Node
  BY LeafCount, CapacityFacts, LevelsAssumption
     DEF ShapeInv, CreateLeaf, Insert, IsFull, LeafIndex, Node
<1>2. Head(todo) \in User /\ Tail(todo) \in Seq(User)
  BY HeadTailProperties DEF CreateLeaf, Insert, ShapeInv, TodoInv
<1>3. /\ Head(todo).slot \in Slot
      /\ <<Head(todo).commitment>> \in HashValue
  BY <1>2, SlotAssumption DEF HashValue
<1>4. TypeOK'
  BY <1>1, <1>2, <1>3 DEF CreateLeaf, Insert, ShapeInv, TypeOK
<1>5. LeafIndexes' = 0 .. (c + 1) - 1
  <2>1. LeafIndexes' = LeafIndexes \cup {c}
    BY <1>1 DEF CreateLeaf, Insert, LeafIndexes
  <2>. QED
    BY <1>1, <2>1
<1>6. LeavesAreFirst'
  BY <1>1, <1>5, CapacityFacts DEF LeavesAreFirst
<1>7. Shape'
  <2>1. \A n \in stored' : n[2] > 0 => <<n[1], n[2] - 1>> \in stored'
    <3>1. c > 0 => <<0, c - 1>> \in stored
      BY <1>1 DEF LeafIndexes
    <3>. QED
      BY <3>1 DEF CreateLeaf, Insert, ShapeInv, Shape
  <2>2. \A p \in stored' : p[1] > 0 => LeftOf(p) \in stored'
    BY DEF CreateLeaf, Insert, ShapeInv, Shape
  <2>3. \A n \in stored' :
          n[1] < Levels /\ ~(pc' = "appendPath" /\ n = cur') =>
            n \in linked' /\ ParentOf(n) \in stored'
    BY DEF CreateLeaf, Insert, ShapeInv, Shape
  <2>. QED
    BY <2>1, <2>2, <2>3 DEF CreateLeaf, Insert, ShapeInv, Shape, LeftOf, ParentOf
<1>8. PathInv'
  <2>1. <<0, c + 1>> \notin stored'
    BY <1>1 DEF CreateLeaf, Insert, LeafIndexes, ShapeInv, TypeOK, Node
  <2>. QED
    BY <2>1, <1>1 DEF CreateLeaf, Insert, PathInv
<1>9. TodoInv'
  BY <1>2 DEF CreateLeaf, Insert, TodoInv
<1>. QED
  BY <1>4, <1>6, <1>7, <1>8, <1>9 DEF ShapeInv

LEMMA CreateParentShape ==
  ASSUME ShapeInv, CreateParent
  PROVE  ShapeInv'
<1> DEFINE parent == ParentOf(cur)
           right  == <<cur[1], cur[2] + 1>>
<1>1. /\ cur \in Node /\ cur \in stored /\ right \notin stored
      /\ cur[1] < Levels /\ IsLeft(cur)
      /\ pc = "appendPath" /\ pc' = "linkPath"
  BY DEF ShapeInv, TypeOK, PathInv, OnPath, CreateParent, Insert
<1>2. /\ parent \in Node /\ parent[1] = cur[1] + 1
      /\ LeftOf(parent) = cur
      /\ parent # cur
  BY <1>1, ParentFacts, NodeIsPair
<1>3. cur[1] \in 0 .. Levels - 1 /\ cur[1] \in Nat
  BY <1>1, NodeIsPair, LevelsAssumption
<1>4. zeros[cur[1]] \in HashValue /\ Hash(hash[cur], zeros[cur[1]]) \in HashValue
  BY <1>1, <1>3, ZerosType, HashType DEF ShapeInv, TypeOK
<1>5. TypeOK'
  BY <1>1, <1>2, <1>4 DEF CreateParent, Insert, ShapeInv, TypeOK
<1>6. LeavesAreFirst'
  <2>1. parent[1] # 0
    BY <1>2, <1>3
  <2>2. LeafIndexes' = LeafIndexes
    BY <2>1 DEF CreateParent, Insert, LeafIndexes
  <2>. QED
    BY <2>2 DEF ShapeInv, LeavesAreFirst
<1>7. parent[2] > 0 => <<parent[1], parent[2] - 1>> \in stored
  <2>. SUFFICES ASSUME parent[2] > 0
                PROVE  <<parent[1], parent[2] - 1>> \in stored
    OBVIOUS
  <2> DEFINE sibling == <<cur[1], cur[2] - 1>>
  <2>1. /\ parent = <<cur[1] + 1, cur[2] \div 2>>
        /\ cur[2] \in Nat /\ cur[2] % 2 = 0
        /\ cur = <<cur[1], cur[2]>>
    BY <1>1, NodeIsPair DEF ParentOf, IsLeft
  <2>2. cur[2] > 0 /\ (cur[2] - 1) \div 2 = (cur[2] \div 2) - 1
    BY <2>1
  <2>3. sibling \in stored /\ sibling # cur
    BY <1>1, <2>1, <2>2 DEF ShapeInv, Shape
  <2>4. ParentOf(sibling) \in stored
    BY <1>1, <2>3 DEF ShapeInv, Shape
  <2>5. ParentOf(sibling) = <<parent[1], parent[2] - 1>>
    BY <2>1, <2>2 DEF ParentOf
  <2>. QED
    BY <2>4, <2>5
<1>8. Shape'
  <2>1. \A n \in stored' : n[2] > 0 => <<n[1], n[2] - 1>> \in stored'
    BY <1>7 DEF CreateParent, Insert, ShapeInv, Shape
  <2>2. \A p \in stored' : p[1] > 0 => LeftOf(p) \in stored'
    BY <1>1, <1>2 DEF CreateParent, Insert, ShapeInv, Shape
  <2>3. \A n \in stored' :
          n[1] < Levels /\ ~(pc' \in {"appendPath", "linkPath"} /\ n = cur')
                       /\ ~(pc' = "linkPath" /\ n = ParentOf(cur')) =>
            n \in linked' /\ ParentOf(n) \in stored'
    BY <1>1, <1>2 DEF CreateParent, Insert, ShapeInv, Shape
  <2>4. \A n \in linked' : n[1] < Levels
    BY <1>1 DEF CreateParent, Insert, ShapeInv, Shape
  <2>. QED
    BY <2>1, <2>2, <2>3, <2>4 DEF Shape, LeftOf, ParentOf
<1>9. PathInv'
  <2> DEFINE next == <<parent[1], parent[2] + 1>>
  <2>. SUFFICES ASSUME next \in stored
                PROVE  FALSE
    BY <1>1, <1>2, NodeIsPair DEF CreateParent, Insert, PathInv, OnPath, ParentOf, IsLeft
  <2>1. /\ parent = <<cur[1] + 1, cur[2] \div 2>>
        /\ cur[2] \in Nat /\ cur[2] = 2 * (cur[2] \div 2)
        /\ cur[2] \div 2 \in Nat
    BY <1>1, NodeIsPair, Halving DEF ParentOf, IsLeft
  <2>2. LeftOf(next) = <<cur[1], cur[2] + 2>>
    BY <1>3, <2>1 DEF LeftOf
  <2>3. next[1] > 0 /\ LeftOf(next) \in stored
    BY <1>3, <2>1 DEF ShapeInv, Shape
  <2>4. right \in stored
    BY <2>1, <2>2, <2>3 DEF ShapeInv, Shape
  <2>. QED
    BY <2>4, <1>1
<1>10. TodoInv'
  BY DEF CreateParent, Insert, ShapeInv, TodoInv
<1>. QED
  BY <1>5, <1>6, <1>8, <1>9, <1>10 DEF ShapeInv

LEMMA LinkLeftShape ==
  ASSUME ShapeInv, LinkLeft
  PROVE  ShapeInv'
<1> DEFINE parent == ParentOf(cur)
<1>1. /\ cur \in Node /\ cur \in stored /\ parent \in stored
      /\ cur[1] < Levels /\ IsLeft(cur)
      /\ <<parent[1], parent[2] + 1>> \notin stored
      /\ pc = "linkPath" /\ pc' = "appendPath"
  BY DEF ShapeInv, TypeOK, PathInv, OnPath, LinkLeft
<1>2. parent \in Node /\ parent[1] = cur[1] + 1 /\ parent # cur
  BY <1>1, ParentFacts, NodeIsPair
<1>3. cur[1] \in 0 .. Levels - 1
  BY <1>1, NodeIsPair, LevelsAssumption
<1>4. TypeOK'
  BY <1>1, <1>2, <1>3, ZerosType DEF LinkLeft, ShapeInv, TypeOK
<1>5. LeavesAreFirst'
  BY DEF LinkLeft, LeafIndexes, ShapeInv, LeavesAreFirst
<1>6. Shape'
  <2>1. \A n \in stored' :
          n[1] < Levels /\ ~(pc' = "appendPath" /\ n = cur') =>
            n \in linked' /\ ParentOf(n) \in stored'
    BY <1>1 DEF LinkLeft, ShapeInv, Shape
  <2>2. \A n \in linked' : n[1] < Levels
    BY <1>1 DEF LinkLeft, ShapeInv, Shape
  <2>. QED
    BY <1>1, <2>1, <2>2 DEF LinkLeft, ShapeInv, Shape, LeftOf, ParentOf
<1>7. PathInv'
  BY <1>1 DEF LinkLeft, PathInv
<1>8. TodoInv'
  BY DEF LinkLeft, ShapeInv, TodoInv
<1>. QED
  BY <1>4, <1>5, <1>6, <1>7, <1>8 DEF ShapeInv

LEMMA AppendLeftShape ==
  ASSUME ShapeInv, AppendLeft
  PROVE  ShapeInv'
<1> DEFINE parent == ParentOf(cur)
           right  == <<cur[1], cur[2] + 1>>
<1>1. /\ cur \in Node /\ cur \in stored /\ right \notin stored
      /\ cur[1] < Levels /\ IsLeft(cur)
      /\ pc = "appendPath" /\ pc' = "appendPath"
  BY DEF ShapeInv, TypeOK, PathInv, OnPath, AppendLeft
<1>2. /\ parent \in Node /\ parent[1] = cur[1] + 1
      /\ LeftOf(parent) = cur
      /\ parent # cur
  BY <1>1, ParentFacts, NodeIsPair
<1>3. cur[1] \in 0 .. Levels - 1 /\ cur[1] \in Nat
  BY <1>1, NodeIsPair, LevelsAssumption
<1>4. zeros[cur[1]] \in HashValue /\ Hash(hash[cur], zeros[cur[1]]) \in HashValue
  BY <1>1, <1>3, ZerosType, HashType DEF ShapeInv, TypeOK
<1>5. TypeOK'
  BY <1>1, <1>2, <1>4 DEF AppendLeft, ShapeInv, TypeOK
<1>6. LeavesAreFirst'
  <2>1. parent[1] # 0
    BY <1>2, <1>3
  <2>2. LeafIndexes' = LeafIndexes
    BY <2>1 DEF AppendLeft, LeafIndexes
  <2>. QED
    BY <2>2 DEF ShapeInv, LeavesAreFirst
<1>8. Shape'
  <2>1. \A n \in stored' : n[2] > 0 => <<n[1], n[2] - 1>> \in stored'
    BY DEF AppendLeft, ShapeInv, Shape
  <2>2. \A p \in stored' : p[1] > 0 => LeftOf(p) \in stored'
    BY <1>1, <1>2 DEF AppendLeft, ShapeInv, Shape
  <2>3. \A n \in stored' :
          n[1] < Levels /\ ~(pc' = "appendPath" /\ n = cur') =>
            n \in linked' /\ ParentOf(n) \in stored'
    BY <1>1 DEF AppendLeft, ShapeInv, Shape
  <2>4. \A n \in linked' : n[1] < Levels
    BY <1>1 DEF AppendLeft, ShapeInv, Shape
  <2>. QED
    BY <2>1, <2>2, <2>3, <2>4 DEF Shape, LeftOf, ParentOf
<1>9. PathInv'
  <2> DEFINE next == <<parent[1], parent[2] + 1>>
  <2>. SUFFICES ASSUME next \in stored
                PROVE  FALSE
    BY <1>1, <1>2, NodeIsPair DEF AppendLeft, PathInv, OnPath
  <2>1. /\ parent = <<cur[1] + 1, cur[2] \div 2>>
        /\ cur[2] \in Nat /\ cur[2] = 2 * (cur[2] \div 2)
        /\ cur[2] \div 2 \in Nat
    BY <1>1, NodeIsPair, Halving DEF ParentOf, IsLeft
  <2>2. LeftOf(next) = <<cur[1], cur[2] + 2>>
    BY <1>3, <2>1 DEF LeftOf
  <2>3. next[1] > 0 /\ LeftOf(next) \in stored
    BY <1>3, <2>1 DEF ShapeInv, Shape
  <2>4. right \in stored
    BY <2>1, <2>2, <2>3 DEF ShapeInv, Shape
  <2>. QED
    BY <2>4, <1>1
<1>10. TodoInv'
  BY DEF AppendLeft, ShapeInv, TodoInv
<1>. QED
  BY <1>5, <1>6, <1>8, <1>9, <1>10 DEF ShapeInv

LEMMA AppendRightShape ==
  ASSUME ShapeInv, AppendRight
  PROVE  ShapeInv' /\ SiblingOf(cur) \in stored /\ ParentOf(cur) \in stored
<1> DEFINE parent  == ParentOf(cur)
           sibling == SiblingOf(cur)
           right   == <<cur[1], cur[2] + 1>>
<1>1. /\ cur \in Node /\ cur \in stored /\ right \notin stored
      /\ cur[1] < Levels /\ ~IsLeft(cur)
      /\ pc = "appendPath" /\ pc' = "appendPath"
  BY DEF ShapeInv, TypeOK, PathInv, OnPath, AppendRight
<1>2. /\ parent \in Node /\ parent[1] = cur[1] + 1
      /\ LeftOf(parent) = sibling
      /\ sibling = <<cur[1], cur[2] - 1>> /\ sibling \in Node /\ cur[2] > 0
      /\ sibling # cur /\ sibling[1] = cur[1]
  BY <1>1, ParentFacts
<1>3. cur[1] \in Nat /\ cur[2] \in Nat
  BY <1>1, NodeIsPair
<1>4. sibling \in stored
  BY <1>1, <1>2 DEF ShapeInv, Shape
<1>5. ParentOf(sibling) = parent
  <2>1. (cur[2] - 1) \div 2 = cur[2] \div 2
    BY <1>1, <1>3 DEF IsLeft
  <2>. QED
    BY <1>2, <2>1 DEF ParentOf
<1>6. parent \in stored
  BY <1>1, <1>2, <1>4, <1>5 DEF ShapeInv, Shape
<1>7. Hash(hash[sibling], hash[cur]) \in HashValue
  BY <1>1, <1>2, HashType DEF ShapeInv, TypeOK
<1>8. TypeOK'
  BY <1>1, <1>2, <1>7 DEF AppendRight, ShapeInv, TypeOK
<1>9. LeavesAreFirst'
  BY DEF AppendRight, LeafIndexes, ShapeInv, LeavesAreFirst
<1>10. Shape'
  <2>1. \A n \in stored' :
          n[1] < Levels /\ ~(pc' = "appendPath" /\ n = cur') =>
            n \in linked' /\ ParentOf(n) \in stored'
    BY <1>1, <1>6 DEF AppendRight, ShapeInv, Shape
  <2>2. \A n \in linked' : n[1] < Levels
    BY <1>1 DEF AppendRight, ShapeInv, Shape
  <2>. QED
    BY <2>1, <2>2 DEF AppendRight, ShapeInv, Shape, LeftOf, ParentOf
<1>11. PathInv'
  <2> DEFINE next == <<parent[1], parent[2] + 1>>
  <2>. SUFFICES ASSUME next \in stored
                PROVE  FALSE
    BY <1>1, <1>6 DEF AppendRight, PathInv, OnPath
  <2>1. /\ parent = <<cur[1] + 1, cur[2] \div 2>>
        /\ cur[2] = 2 * (cur[2] \div 2) + 1
        /\ cur[2] \div 2 \in Nat
    BY <1>1, <1>3, Halving DEF ParentOf, IsLeft
  <2>2. LeftOf(next) = right
    BY <1>3, <2>1 DEF LeftOf
  <2>3. right \in stored
    BY <1>3, <2>1, <2>2 DEF ShapeInv, Shape
  <2>. QED
    BY <2>3, <1>1
<1>12. TodoInv'
  BY DEF AppendRight, ShapeInv, TodoInv
<1>. QED
  BY <1>4, <1>6, <1>8, <1>9, <1>10, <1>11, <1>12 DEF ShapeInv

\* A loop that has reached the top returns to its batch.
LEMMA PathDoneShape ==
  ASSUME ShapeInv, UserAppended \/ UserUpdated
  PROVE  ShapeInv'
<1>1. TodoInv' /\ pc' \in {"idle", "appendUsers", "removeUsers"} /\ ~OnPath'
  BY DEF UserAppended, UserUpdated, NextOf, ShapeInv, TodoInv, OnPath
<1>2. TypeOK'
  BY <1>1 DEF UserAppended, UserUpdated, ShapeInv, TypeOK
<1>3. LeavesAreFirst'
  BY DEF UserAppended, UserUpdated, LeafIndexes, ShapeInv, LeavesAreFirst
<1>4. Shape'
  <2>1. \A n \in stored :
          n[1] < Levels => n \in linked /\ ParentOf(n) \in stored
    BY LevelsAssumption DEF UserAppended, UserUpdated, ShapeInv, Shape
  <2>. QED
    BY <2>1 DEF UserAppended, UserUpdated, ShapeInv, Shape, LeftOf, ParentOf
<1>. QED
  BY <1>1, <1>2, <1>3, <1>4 DEF ShapeInv, PathInv

LEMMA ZeroLeafShape ==
  ASSUME ShapeInv, NEW i \in LeafIndexes, ZeroLeaf(i), todo' \in Seq(Slot),
         pc \in {"idle", "removeUsers"}
  PROVE  ShapeInv'
<1>1. <<0, i>> \in stored /\ <<0, i>> \in Node /\ <<Zero>> \in HashValue
  BY LevelsAssumption DEF LeafIndexes, Node, HashValue, LeafValue
<1>2. TypeOK'
  BY <1>1, BoundAssumption DEF ZeroLeaf, ShapeInv, TypeOK
<1>3. LeavesAreFirst'
  BY DEF ZeroLeaf, LeafIndexes, ShapeInv, LeavesAreFirst
<1>4. Shape'
  BY DEF ZeroLeaf, ShapeInv, Shape, LeftOf, ParentOf
<1>5. PathInv'
  BY <1>1, BoundAssumption DEF ZeroLeaf, PathInv, ShapeInv, TypeOK
<1>6. TodoInv'
  BY DEF ZeroLeaf, TodoInv
<1>. QED
  BY <1>2, <1>3, <1>4, <1>5, <1>6 DEF ShapeInv

LEMMA UpdateLevelShape ==
  ASSUME ShapeInv, UpdateLevel
  PROVE  ShapeInv' /\ cur[1] < Levels /\ cur \in stored /\ ParentOf(cur) \in stored
<1>1. /\ cur \in Node /\ cur \in stored /\ cur[1] < Levels
      /\ ParentOf(cur) \in stored /\ ParentOf(cur) \in Node
  BY DEF ShapeInv, TypeOK, PathInv, OnPath, UpdateLevel, Shape
<1>2. HashUp(cur, hash[cur], siblingHash[cur]) \in HashValue
  BY <1>1, HashType DEF HashUp, ShapeInv, TypeOK
<1>3. TypeOK'
  BY <1>1, <1>2 DEF UpdateLevel, ShapeInv, TypeOK
<1>4. LeavesAreFirst'
  BY DEF UpdateLevel, LeafIndexes, ShapeInv, LeavesAreFirst
<1>5. Shape'
  BY DEF UpdateLevel, ShapeInv, Shape, LeftOf, ParentOf
<1>6. PathInv' /\ TodoInv'
  BY <1>1 DEF UpdateLevel, ShapeInv, PathInv, TodoInv
<1>. QED
  BY <1>1, <1>3, <1>4, <1>5, <1>6 DEF ShapeInv

LEMMA NextShape == ShapeInv /\ [Next]_vars => ShapeInv'
<1>. SUFFICES ASSUME ShapeInv, [Next]_vars
              PROVE  ShapeInv'
  OBVIOUS
<1>1. ASSUME NEW users \in Batches(User), AppendUsers(users)
      PROVE  ShapeInv'
  <2>1. users \in Seq(User) /\ users # << >>
    BY BatchType
  <2>. QED
    BY <1>1, <2>1, BatchStepShape DEF AppendUsers, TodoInv, OnPath
<1>2. ASSUME NEW slots \in Batches(Slot), RemoveUsersByIndexes(slots)
      PROVE  ShapeInv'
  <2>1. slots \in Seq(Slot) /\ slots # << >>
    BY BatchType
  <2>. QED
    BY <1>2, <2>1, BatchStepShape DEF RemoveUsersByIndexes, TodoInv, OnPath
<1>3. CASE SkipUser
  <2>1. Tail(todo) \in Seq(User)
    BY <1>3, HeadTailProperties DEF SkipUser, ShapeInv, TodoInv
  <2>2. TodoInv' /\ pc' \in {"idle", "appendUsers"}
    BY <1>3, <2>1 DEF SkipUser, TodoInv, NextOf
  <2>. QED
    BY <1>3, <2>1, <2>2, BatchStepShape DEF SkipUser, OnPath
<1>4. CASE TreeFull \/ RemoveUnknown
  <2>1. TodoInv' /\ todo' \in Seq(User)
    BY <1>4, EmptySeq DEF TreeFull, RemoveUnknown, TodoInv
  <2>. QED
    BY <1>4, <2>1, BatchStepShape DEF TreeFull, RemoveUnknown, OnPath
<1>5. CASE CreateLeaf
  BY <1>5, CreateLeafShape
<1>6. CASE CreateParent \/ LinkLeft \/ AppendLeft
  BY <1>6, CreateParentShape, LinkLeftShape, AppendLeftShape
<1>7. CASE AppendRight
  BY <1>7, AppendRightShape
<1>8. CASE UserAppended \/ UserUpdated
  BY <1>8, PathDoneShape
<1>9. CASE UpdateLevel
  BY <1>9, UpdateLevelShape
<1>10. ASSUME NEW commitment \in Commitment, BanMember(commitment)
       PROVE  ShapeInv'
  <2>1. todo' \in Seq(Slot)
    BY <1>10 DEF BanMember, ShapeInv, TodoInv
  <2>. QED
    BY <1>10, <2>1, FoundLeaf, ZeroLeafShape DEF BanMember
<1>11. CASE RemoveIndex
  <2>1. todo' \in Seq(Slot)
    BY <1>11, HeadTailProperties DEF RemoveIndex, ShapeInv, TodoInv
  <2>. QED
    BY <1>11, <2>1, FoundLeaf, ZeroLeafShape DEF RemoveIndex
<1>12. CASE UNCHANGED vars
  BY <1>12 DEF vars, ShapeInv, TypeOK, TodoInv, LeavesAreFirst, LeafIndexes,
               Shape, PathInv, OnPath, LeftOf, ParentOf
<1>. QED
  BY <1>1, <1>2, <1>3, <1>4, <1>5, <1>6, <1>7, <1>8, <1>9, <1>10, <1>11, <1>12
     DEF Next, Loop, Call

LEMMA ShapeInvariant == Spec => []ShapeInv
BY InitShape, NextShape, PTL DEF Spec

\* Type correctness, for every height of the tree and every set of members.
THEOREM TypeCorrect == Spec => []TypeOK
<1>1. ShapeInv => TypeOK
  BY DEF ShapeInv
<1>. QED
  BY <1>1, ShapeInvariant, PTL

------------------------------------------------------------------------------
(* The hashes.                                                             *)

\* A step that creates or rewrites one document leaves the hash of every
\* other address as it was, and so the consistency of every inner node but
\* that one and its parent, and the freshness of all but its sibling.
LEMMA OneHashChanges ==
  ASSUME ShapeInv,
         NEW x \in Node,
         stored' \in {stored, stored \cup {x}},
         \A m \in Node : m # x => hash'[m] = hash[m]
  PROVE  /\ \A m : m # x => HashAt(m)' = HashAt(m)
         /\ \A p \in Node :
              p[1] > 0 /\ p # ParentOf(x) =>
                /\ HashAt(LeftOf(p))' = HashAt(LeftOf(p))
                /\ HashAt(RightOf(p))' = HashAt(RightOf(p))
         /\ \A n \in Node :
              n # SiblingOf(x) => HashAt(SiblingOf(n))' = HashAt(SiblingOf(n))
<1>1. stored \subseteq Node
  BY DEF ShapeInv, TypeOK
<1>2. \A m : m # x => HashAt(m)' = HashAt(m)
  BY <1>1 DEF HashAt
<1>3. ASSUME NEW p \in Node, p[1] > 0, p # ParentOf(x)
      PROVE  /\ HashAt(LeftOf(p))' = HashAt(LeftOf(p))
             /\ HashAt(RightOf(p))' = HashAt(RightOf(p))
  <2>1. LeftOf(p) # x /\ RightOf(p) # x
    BY <1>3, ChildFacts
  <2>. QED
    BY <2>1, <1>1 DEF HashAt, LeftOf, RightOf
<1>4. ASSUME NEW n \in Node, n # SiblingOf(x)
      PROVE  HashAt(SiblingOf(n))' = HashAt(SiblingOf(n))
  <2>1. SiblingOf(n) # x
    BY <1>4, SiblingInjective
  <2>. QED
    BY <2>1, <1>1 DEF HashAt, SiblingOf, IsLeft
<1>. QED
  BY <1>2, <1>3, <1>4

LEMMA InitHashes == Init => HashInv /\ FreshInv
BY DEF Init, HashInv, Top, FreshInv

\* Steps that change neither the documents nor the node worked on, and run
\* between two paths.
LEMMA BatchStepHashes ==
  ASSUME ShapeInv, HashInv, FreshInv,
         UNCHANGED unchangedTree, ~OnPath, ~OnPath'
  PROVE  HashInv' /\ FreshInv'
BY DEF HashInv, Top, FreshInv, Fresh, HashAt, unchangedTree, OnPath,
       LeftOf, RightOf, SiblingOf, IsLeft

LEMMA CreateLeafHashes ==
  ASSUME ShapeInv, HashInv, FreshInv, CreateLeaf
  PROVE  HashInv' /\ FreshInv'
<1> DEFINE leaf == <<0, NumberOfLeaves>>
<1>1. leaf \in Node /\ stored \subseteq Node /\ leaf \notin stored
  BY LeafCount, CapacityFacts, LevelsAssumption
     DEF ShapeInv, TypeOK, CreateLeaf, Insert, IsFull, LeafIndex, Node
<1>2. /\ stored' = stored \cup {leaf} /\ cur' = leaf
      /\ \A m \in Node : m # leaf => hash'[m] = hash[m]
      /\ UNCHANGED <<siblingHash, updates>>
      /\ pc = "appendUsers" /\ pc' = "appendPath"
  BY <1>1 DEF CreateLeaf, Insert, ShapeInv, TypeOK
<1>3. /\ \A p \in Node :
           p[1] > 0 /\ p # ParentOf(leaf) =>
             /\ HashAt(LeftOf(p))' = HashAt(LeftOf(p))
             /\ HashAt(RightOf(p))' = HashAt(RightOf(p))
      /\ \A n \in Node :
           n # SiblingOf(leaf) => HashAt(SiblingOf(n))' = HashAt(SiblingOf(n))
  BY <1>1, <1>2, OneHashChanges
<1>4. HashInv'
  <2>. SUFFICES ASSUME updates <= 1,
                       NEW p \in stored', p[1] > 0, p # ParentOf(leaf)
                PROVE  hash'[p] = Hash(HashAt(LeftOf(p))', HashAt(RightOf(p))')
    BY <1>2 DEF HashInv, Top, OnPath, LeftOf, RightOf, ParentOf, HashAt
  <2>1. p \in stored /\ p # leaf /\ p \in Node
    BY <1>1, <1>2
  <2>2. hash[p] = Hash(HashAt(LeftOf(p)), HashAt(RightOf(p)))
    BY <1>2, <2>1 DEF HashInv, Top, OnPath
  <2>. QED
    BY <1>2, <1>3, <2>1, <2>2
<1>5. FreshInv'
  <2>. SUFFICES ASSUME updates = 0,
                       NEW n \in stored', n[1] < Levels,
                       n # leaf, n # SiblingOf(leaf)
                PROVE  siblingHash[n] = HashAt(SiblingOf(n))'
    BY <1>2 DEF FreshInv, Top, Fresh, SiblingOf, IsLeft, HashAt
  <2>1. n \in stored /\ n \in Node
    BY <1>1, <1>2
  <2>2. Fresh(n)
    BY <1>2, <2>1 DEF FreshInv, Top
  <2>. QED
    BY <1>3, <2>1, <2>2 DEF Fresh
<1>. QED
  BY <1>4, <1>5

LEMMA ZeroLeafHashes ==
  ASSUME ShapeInv, HashInv, FreshInv,
         NEW i \in LeafIndexes, ZeroLeaf(i), pc \in {"idle", "removeUsers"}
  PROVE  HashInv' /\ FreshInv'
<1> DEFINE leaf == <<0, i>>
<1>1. leaf \in Node /\ stored \subseteq Node /\ leaf \in stored
  BY LevelsAssumption DEF ShapeInv, TypeOK, LeafIndexes, Node
<1>2. /\ stored' = stored /\ cur' = leaf
      /\ \A m \in Node : m # leaf => hash'[m] = hash[m]
      /\ UNCHANGED siblingHash
      /\ updates \in Nat /\ updates' = updates + 1
      /\ pc' = "updatePath"
  BY <1>1, BoundAssumption DEF ZeroLeaf, ShapeInv, TypeOK
<1>3. /\ \A p \in Node :
           p[1] > 0 /\ p # ParentOf(leaf) =>
             /\ HashAt(LeftOf(p))' = HashAt(LeftOf(p))
             /\ HashAt(RightOf(p))' = HashAt(RightOf(p))
      /\ \A n \in Node :
           n # SiblingOf(leaf) => HashAt(SiblingOf(n))' = HashAt(SiblingOf(n))
  BY <1>1, <1>2, OneHashChanges
<1>4. HashInv'
  <2>. SUFFICES ASSUME updates = 0,
                       NEW p \in stored, p[1] > 0, p # ParentOf(leaf)
                PROVE  hash'[p] = Hash(HashAt(LeftOf(p))', HashAt(RightOf(p))')
    BY <1>2 DEF HashInv, Top, OnPath, LeftOf, RightOf, ParentOf, HashAt
  <2>1. p # leaf /\ p \in Node
    BY <1>1
  <2>2. hash[p] = Hash(HashAt(LeftOf(p)), HashAt(RightOf(p)))
    BY <1>2 DEF HashInv, Top, OnPath
  <2>. QED
    BY <1>2, <1>3, <2>1, <2>2
<1>5. FreshInv'
  <2>. SUFFICES ASSUME updates = 0,
                       NEW n \in stored, n[1] < Levels, n # SiblingOf(leaf)
                PROVE  siblingHash[n] = HashAt(SiblingOf(n))'
    BY <1>2 DEF FreshInv, Top, Fresh, SiblingOf, IsLeft, HashAt
  <2>1. Fresh(n)
    BY DEF FreshInv, Top
  <2>. QED
    BY <1>1, <1>3, <2>1 DEF Fresh
<1>. QED
  BY <1>4, <1>5

LEMMA CreateParentHashes ==
  ASSUME ShapeInv, HashInv, FreshInv, CreateParent
  PROVE  HashInv' /\ FreshInv'
<1>0. PICK node, parent, right :
        node = cur /\ parent = ParentOf(cur) /\ right = SiblingOf(cur)
  OBVIOUS
<1>a. /\ cur \in Node /\ cur \in stored /\ stored \subseteq Node
      /\ cur[1] < Levels /\ IsLeft(cur) /\ ParentOf(cur) \notin stored
      /\ <<cur[1], cur[2] + 1>> \notin stored
  BY DEF ShapeInv, TypeOK, PathInv, OnPath, CreateParent
<1>1. /\ node \in Node /\ node \in stored /\ stored \subseteq Node
      /\ node[1] < Levels /\ IsLeft(node)
      /\ parent \in Node /\ parent[1] = node[1] + 1 /\ node[1] \in Nat
      /\ LeftOf(parent) = node /\ RightOf(parent) = right
      /\ right[1] = node[1] /\ right \notin stored /\ right # parent /\ node # parent
      /\ parent \notin stored
  BY <1>0, <1>a, ParentFacts, NodeIsPair
<1>2. /\ stored' = stored \cup {parent} /\ cur' = node /\ Top' = parent
      /\ \A m \in Node : m # parent => hash'[m] = hash[m]
      /\ hash'[parent] = Hash(hash[node], zeros[node[1]])
      /\ siblingHash' = siblingHash
      /\ updates' = updates
      /\ pc = "appendPath" /\ pc' = "linkPath"
  BY <1>0, <1>1 DEF CreateParent, Insert, ShapeInv, TypeOK, Top, ParentOf
<1>3. /\ \A p \in Node :
           p[1] > 0 /\ p # ParentOf(parent) =>
             /\ HashAt(LeftOf(p))' = HashAt(LeftOf(p))
             /\ HashAt(RightOf(p))' = HashAt(RightOf(p))
      /\ \A n \in Node :
           n # SiblingOf(parent) => HashAt(SiblingOf(n))' = HashAt(SiblingOf(n))
  BY <1>1, <1>2, OneHashChanges
<1>4. HashAt(right)' = zeros[node[1]] /\ HashAt(node)' = hash[node]
  <2>1. right \notin stored' /\ node \in stored' /\ hash'[node] = hash[node]
    BY <1>1, <1>2
  <2>2. HashAt(node)' = hash'[node]
    BY <2>1 DEF HashAt
  <2>3. HashAt(right)' = zeros[right[1]]
    BY <2>1 DEF HashAt, SiblingOf, IsLeft
  <2>. QED
    BY <1>1, <2>1, <2>2, <2>3
<1>5. HashInv'
  <2>. SUFFICES ASSUME updates <= 1,
                       NEW p \in stored', p[1] > 0, p # ParentOf(parent)
                PROVE  hash'[p] = Hash(HashAt(LeftOf(p))', HashAt(RightOf(p))')
    BY <1>2 DEF HashInv, OnPath, LeftOf, RightOf, ParentOf, HashAt
  <2>1. CASE p = parent
    <3>1. LeftOf(p) = node /\ RightOf(p) = right
      BY <2>1, <1>1
    <3>2. HashAt(LeftOf(p))' = HashAt(node)' /\ HashAt(RightOf(p))' = HashAt(right)'
      BY <3>1 DEF HashAt, LeftOf, RightOf, SiblingOf, IsLeft
    <3>. QED
      BY <2>1, <3>2, <1>2, <1>4
  <2>2. CASE p # parent
    <3>1. p \in stored /\ p \in Node
      BY <2>2, <1>1, <1>2
    <3>2. hash[p] = Hash(HashAt(LeftOf(p)), HashAt(RightOf(p)))
      BY <1>0, <1>2, <2>2, <3>1 DEF HashInv, Top
    <3>. QED
      BY <1>2, <1>3, <2>2, <3>1, <3>2
  <2>. QED
    BY <2>1, <2>2
<1>6. FreshInv'
  <2>. SUFFICES ASSUME updates = 0,
                       NEW n \in stored', n[1] < Levels,
                       n \notin {node, parent, SiblingOf(parent)}
                PROVE  siblingHash'[n] = HashAt(SiblingOf(n))'
    BY <1>2 DEF FreshInv, Fresh, SiblingOf, IsLeft, HashAt
  <2>1. n \in stored /\ n \in Node /\ n # right
    BY <1>1, <1>2
  <2>2. Fresh(n)
    BY <1>0, <1>2, <2>1 DEF FreshInv, Top
  <2>. QED
    BY <1>2, <1>3, <2>1, <2>2 DEF Fresh
<1>. QED
  BY <1>5, <1>6

\* The node learns that its sibling is empty, which is what it is.
LEMMA LinkLeftHashes ==
  ASSUME ShapeInv, HashInv, FreshInv, LinkLeft
  PROVE  HashInv' /\ FreshInv'
<1>0. PICK node, parent, right :
        node = cur /\ parent = ParentOf(cur) /\ right = SiblingOf(cur)
  OBVIOUS
<1>1. /\ node \in Node /\ node \in stored /\ stored \subseteq Node
      /\ right \notin stored /\ right[1] = node[1]
  BY <1>0, ParentFacts DEF ShapeInv, TypeOK, PathInv, OnPath, LinkLeft
<1>2. /\ UNCHANGED <<stored, hash, updates>>
      /\ Top = parent /\ Top' = parent /\ cur' = parent
      /\ siblingHash'[node] = zeros[node[1]]
      /\ \A m \in Node : m # node => siblingHash'[m] = siblingHash[m]
      /\ pc = "linkPath" /\ pc' = "appendPath"
  BY <1>0, <1>1 DEF LinkLeft, Top, ShapeInv, TypeOK, ParentOf
<1>3. HashInv'
  BY <1>2 DEF HashInv, OnPath, HashAt, LeftOf, RightOf, ParentOf
<1>4. FreshInv'
  <2>. SUFFICES ASSUME updates = 0,
                       NEW n \in stored, n[1] < Levels,
                       n \notin {parent, SiblingOf(parent)}
                PROVE  siblingHash'[n] = HashAt(SiblingOf(n))
    BY <1>2 DEF FreshInv, Fresh, SiblingOf, IsLeft, HashAt
  <2>1. CASE n = node
    BY <1>0, <1>1, <1>2, <2>1 DEF HashAt
  <2>2. CASE n # node
    <3>1. Fresh(n)
      BY <1>0, <1>2, <2>2 DEF FreshInv
    <3>. QED
      BY <1>1, <1>2, <2>2, <3>1 DEF Fresh
  <2>. QED
    BY <2>1, <2>2
<1>. QED
  BY <1>3, <1>4

LEMMA AppendLeftHashes ==
  ASSUME ShapeInv, HashInv, FreshInv, AppendLeft
  PROVE  HashInv' /\ FreshInv'
<1>0. PICK node, parent, right :
        node = cur /\ parent = ParentOf(cur) /\ right = SiblingOf(cur)
  OBVIOUS
<1>a. /\ cur \in Node /\ cur \in stored /\ stored \subseteq Node
      /\ cur[1] < Levels /\ IsLeft(cur)
      /\ <<cur[1], cur[2] + 1>> \notin stored
  BY DEF ShapeInv, TypeOK, PathInv, OnPath, AppendLeft
<1>1. /\ node \in Node /\ node \in stored /\ stored \subseteq Node
      /\ node[1] < Levels /\ IsLeft(node)
      /\ parent \in Node /\ parent[1] = node[1] + 1 /\ node[1] \in Nat
      /\ LeftOf(parent) = node /\ RightOf(parent) = right
      /\ right[1] = node[1] /\ right \notin stored /\ right # parent /\ node # parent
  BY <1>0, <1>a, ParentFacts, NodeIsPair
<1>2. /\ stored' = stored \cup {parent} /\ cur' = parent
      /\ \A m \in Node : m # parent => hash'[m] = hash[m]
      /\ hash'[parent] = Hash(hash[node], zeros[node[1]])
      /\ siblingHash'[node] = zeros[node[1]]
      /\ \A m \in Node : m # node => siblingHash'[m] = siblingHash[m]
      /\ updates' = updates
      /\ pc = "appendPath" /\ pc' = "appendPath"
  BY <1>0, <1>1 DEF AppendLeft, ShapeInv, TypeOK
<1>3. /\ \A p \in Node :
           p[1] > 0 /\ p # ParentOf(parent) =>
             /\ HashAt(LeftOf(p))' = HashAt(LeftOf(p))
             /\ HashAt(RightOf(p))' = HashAt(RightOf(p))
      /\ \A n \in Node :
           n # SiblingOf(parent) => HashAt(SiblingOf(n))' = HashAt(SiblingOf(n))
  BY <1>1, <1>2, OneHashChanges
<1>4. HashAt(right)' = zeros[node[1]] /\ HashAt(node)' = hash[node]
  <2>1. right \notin stored' /\ node \in stored' /\ hash'[node] = hash[node]
    BY <1>1, <1>2
  <2>2. HashAt(node)' = hash'[node]
    BY <2>1 DEF HashAt
  <2>3. HashAt(right)' = zeros[right[1]]
    BY <2>1 DEF HashAt, SiblingOf, IsLeft
  <2>. QED
    BY <1>1, <2>1, <2>2, <2>3
<1>5. HashInv'
  <2>. SUFFICES ASSUME updates <= 1,
                       NEW p \in stored', p[1] > 0, p # ParentOf(parent)
                PROVE  hash'[p] = Hash(HashAt(LeftOf(p))', HashAt(RightOf(p))')
    BY <1>2 DEF HashInv, Top, OnPath, LeftOf, RightOf, ParentOf, HashAt
  <2>1. CASE p = parent
    <3>1. LeftOf(p) = node /\ RightOf(p) = right
      BY <2>1, <1>1
    <3>2. HashAt(LeftOf(p))' = HashAt(node)' /\ HashAt(RightOf(p))' = HashAt(right)'
      BY <3>1 DEF HashAt, LeftOf, RightOf, SiblingOf, IsLeft
    <3>. QED
      BY <2>1, <3>2, <1>2, <1>4
  <2>2. CASE p # parent
    <3>1. p \in stored /\ p \in Node
      BY <2>2, <1>1, <1>2
    <3>2. hash[p] = Hash(HashAt(LeftOf(p)), HashAt(RightOf(p)))
      BY <1>0, <2>2, <3>1 DEF HashInv, Top
    <3>. QED
      BY <1>2, <1>3, <2>2, <3>1, <3>2
  <2>. QED
    BY <2>1, <2>2
<1>6. FreshInv'
  <2>. SUFFICES ASSUME updates = 0,
                       NEW n \in stored', n[1] < Levels,
                       n # parent, n # SiblingOf(parent)
                PROVE  siblingHash'[n] = HashAt(SiblingOf(n))'
    BY <1>2 DEF FreshInv, Top, Fresh, SiblingOf, IsLeft, HashAt
  <2>1. n \in stored /\ n \in Node /\ n # right
    BY <1>1, <1>2
  <2>2. CASE n = node
    <3>1. HashAt(SiblingOf(n))' = HashAt(right)'
      BY <1>0, <2>2 DEF HashAt, SiblingOf, IsLeft
    <3>. QED
      BY <2>2, <3>1, <1>2, <1>4
  <2>3. CASE n # node
    <3>1. Fresh(n)
      BY <1>0, <2>1, <2>3 DEF FreshInv, Top
    <3>. QED
      BY <1>2, <1>3, <2>1, <2>3, <3>1 DEF Fresh
  <2>. QED
    BY <2>2, <2>3
<1>. QED
  BY <1>5, <1>6

LEMMA AppendRightHashes ==
  ASSUME ShapeInv, HashInv, FreshInv, AppendRight
  PROVE  HashInv' /\ FreshInv'
<1>0. PICK node, parent, sibling :
        node = cur /\ parent = ParentOf(cur) /\ sibling = SiblingOf(cur)
  OBVIOUS
<1>a. /\ cur \in Node /\ cur \in stored /\ stored \subseteq Node
      /\ cur[1] < Levels /\ ~IsLeft(cur)
      /\ SiblingOf(cur) \in stored /\ ParentOf(cur) \in stored
  BY AppendRightShape DEF ShapeInv, TypeOK, PathInv, OnPath, AppendRight
<1>1. /\ node \in Node /\ node \in stored /\ stored \subseteq Node
      /\ node[1] < Levels /\ ~IsLeft(node)
      /\ parent \in Node /\ parent[1] = node[1] + 1 /\ node[1] \in Nat
      /\ LeftOf(parent) = sibling /\ RightOf(parent) = node
      /\ sibling \in Node /\ sibling[1] = node[1] /\ SiblingOf(sibling) = node
      /\ sibling # node /\ sibling # parent /\ node # parent
      /\ sibling \in stored /\ parent \in stored
  BY <1>0, <1>a, ParentFacts, NodeIsPair
<1>2. /\ stored' = stored /\ cur' = parent
      /\ \A m \in Node : m # parent => hash'[m] = hash[m]
      /\ hash'[parent] = Hash(hash[sibling], hash[node])
      /\ siblingHash'[node] = hash[sibling] /\ siblingHash'[sibling] = hash[node]
      /\ \A m \in Node : m # node /\ m # sibling => siblingHash'[m] = siblingHash[m]
      /\ updates' = updates
      /\ pc = "appendPath" /\ pc' = "appendPath"
  BY <1>0, <1>1 DEF AppendRight, ShapeInv, TypeOK
<1>3. /\ \A p \in Node :
           p[1] > 0 /\ p # ParentOf(parent) =>
             /\ HashAt(LeftOf(p))' = HashAt(LeftOf(p))
             /\ HashAt(RightOf(p))' = HashAt(RightOf(p))
      /\ \A n \in Node :
           n # SiblingOf(parent) => HashAt(SiblingOf(n))' = HashAt(SiblingOf(n))
  BY <1>1, <1>2, OneHashChanges
<1>4. HashAt(sibling)' = hash[sibling] /\ HashAt(node)' = hash[node]
  <2>1. /\ sibling \in stored' /\ node \in stored'
        /\ hash'[node] = hash[node] /\ hash'[sibling] = hash[sibling]
    BY <1>1, <1>2
  <2>2. HashAt(node)' = hash'[node]
    BY <2>1 DEF HashAt
  <2>3. HashAt(sibling)' = hash'[sibling]
    BY <2>1 DEF HashAt, SiblingOf, IsLeft
  <2>. QED
    BY <2>1, <2>2, <2>3
<1>5. HashInv'
  <2>. SUFFICES ASSUME updates <= 1,
                       NEW p \in stored, p[1] > 0, p # ParentOf(parent)
                PROVE  hash'[p] = Hash(HashAt(LeftOf(p))', HashAt(RightOf(p))')
    BY <1>2 DEF HashInv, Top, OnPath, LeftOf, RightOf, ParentOf, HashAt
  <2>1. CASE p = parent
    <3>1. LeftOf(p) = sibling /\ RightOf(p) = node
      BY <2>1, <1>1
    <3>2. HashAt(LeftOf(p))' = HashAt(sibling)' /\ HashAt(RightOf(p))' = HashAt(node)'
      BY <3>1 DEF HashAt, LeftOf, RightOf, SiblingOf, IsLeft
    <3>. QED
      BY <2>1, <3>2, <1>2, <1>4
  <2>2. CASE p # parent
    <3>1. hash[p] = Hash(HashAt(LeftOf(p)), HashAt(RightOf(p)))
      BY <1>0, <2>2 DEF HashInv, Top
    <3>. QED
      BY <1>1, <1>2, <1>3, <2>2, <3>1
  <2>. QED
    BY <2>1, <2>2
<1>6. FreshInv'
  <2>. SUFFICES ASSUME updates = 0,
                       NEW n \in stored, n[1] < Levels,
                       n # parent, n # SiblingOf(parent)
                PROVE  siblingHash'[n] = HashAt(SiblingOf(n))'
    BY <1>2 DEF FreshInv, Top, Fresh, SiblingOf, IsLeft, HashAt
  <2>1. CASE n = node
    <3>1. HashAt(SiblingOf(n))' = HashAt(sibling)'
      BY <1>0, <2>1 DEF HashAt, SiblingOf, IsLeft
    <3>. QED
      BY <2>1, <3>1, <1>2, <1>4
  <2>2. CASE n = sibling
    <3>1. SiblingOf(n) = node
      BY <2>2, <1>1
    <3>2. HashAt(SiblingOf(n))' = HashAt(node)'
      BY <3>1 DEF HashAt, SiblingOf, IsLeft
    <3>. QED
      BY <2>2, <3>2, <1>2, <1>4
  <2>3. CASE n # node /\ n # sibling
    <3>1. Fresh(n)
      BY <1>0, <2>3 DEF FreshInv, Top
    <3>. QED
      BY <1>1, <1>2, <1>3, <2>3, <3>1 DEF Fresh
  <2>. QED
    BY <2>1, <2>2, <2>3
<1>. QED
  BY <1>5, <1>6

\* At the top there is no parent whose hash could still be out of date.
LEMMA PathDoneHashes ==
  ASSUME ShapeInv, HashInv, FreshInv, UserAppended \/ UserUpdated
  PROVE  HashInv' /\ FreshInv'
<1>1. /\ cur \in stored /\ cur \in Node /\ stored \subseteq Node
      /\ UNCHANGED <<stored, hash, siblingHash, cur, updates>>
      /\ ~OnPath' /\ Top = cur
      /\ pc' # "appendPath" /\ pc' # "updatePath" /\ pc' # "linkPath"
  BY DEF UserAppended, UserUpdated, NextOf, OnPath, Top, ShapeInv, TypeOK, PathInv
<1>2. cur[1] = Levels
  BY <1>1, NodeIsPair, LevelsAssumption DEF UserAppended, UserUpdated, ShapeInv, Shape
<1>3. \A p \in stored : p # ParentOf(cur)
  BY <1>1, <1>2, NodeIsPair, LevelsAssumption DEF ParentOf
<1>4. \A n \in stored : n[1] < Levels => n \notin {cur, SiblingOf(cur)}
  BY <1>2, LevelsAssumption DEF SiblingOf
<1>5. HashInv'
  BY <1>1, <1>3 DEF HashInv, Top, HashAt, LeftOf, RightOf
<1>6. FreshInv'
  BY <1>1, <1>4 DEF FreshInv, Top, Fresh, HashAt, SiblingOf, IsLeft
<1>. QED
  BY <1>5, <1>6

LEMMA UpdateLevelHashes ==
  ASSUME ShapeInv, HashInv, FreshInv, UpdateLevel
  PROVE  HashInv' /\ FreshInv'
<1>0. PICK node, parent, sibling :
        node = cur /\ parent = ParentOf(cur) /\ sibling = SiblingOf(cur)
  OBVIOUS
<1>a. /\ cur \in Node /\ cur \in stored /\ stored \subseteq Node
      /\ cur[1] < Levels /\ ParentOf(cur) \in stored
  BY UpdateLevelShape DEF ShapeInv, TypeOK
<1>1. /\ node \in Node /\ node \in stored /\ stored \subseteq Node
      /\ node[1] < Levels /\ parent \in stored
      /\ parent \in Node /\ parent[1] = node[1] + 1 /\ node[1] \in Nat
      /\ IsLeft(node) => LeftOf(parent) = node /\ RightOf(parent) = sibling
      /\ ~IsLeft(node) => LeftOf(parent) = sibling /\ RightOf(parent) = node
      /\ sibling # node /\ sibling[1] = node[1]
      /\ sibling # parent /\ node # parent
  BY <1>0, <1>a, ParentFacts, NodeIsPair
<1>2. /\ stored' = stored /\ cur' = parent
      /\ \A m \in Node : m # parent => hash'[m] = hash[m]
      /\ hash'[parent] = HashUp(node, hash[node], siblingHash[node])
      /\ siblingHash' = siblingHash /\ updates' = updates
      /\ pc = "updatePath" /\ pc' = "updatePath"
  BY <1>0, <1>1 DEF UpdateLevel, ShapeInv, TypeOK
<1>3. /\ \A m : m # parent => HashAt(m)' = HashAt(m)
      /\ \A p \in Node :
           p[1] > 0 /\ p # ParentOf(parent) =>
             /\ HashAt(LeftOf(p))' = HashAt(LeftOf(p))
             /\ HashAt(RightOf(p))' = HashAt(RightOf(p))
      /\ \A n \in Node :
           n # SiblingOf(parent) => HashAt(SiblingOf(n))' = HashAt(SiblingOf(n))
  BY <1>1, <1>2, OneHashChanges
<1>4. updates \in Nat /\ updates > 0
  BY <1>2, BoundAssumption DEF ShapeInv, TypeOK, PathInv
<1>5. HashInv'
  <2>. SUFFICES ASSUME updates = 1,
                       NEW p \in stored, p[1] > 0, p # ParentOf(parent)
                PROVE  hash'[p] = Hash(HashAt(LeftOf(p))', HashAt(RightOf(p))')
    BY <1>2, <1>4 DEF HashInv, Top, OnPath, LeftOf, RightOf, ParentOf, HashAt
  <2>1. CASE p = parent
    <3>1. siblingHash[node] = HashAt(sibling)
      BY <1>0, <1>1, <1>2 DEF FreshInv, Top, Fresh
    <3>2. hash[node] = HashAt(node)
      BY <1>1 DEF HashAt
    <3>3. hash'[p] = Hash(HashAt(LeftOf(p)), HashAt(RightOf(p)))
      BY <2>1, <3>1, <3>2, <1>1, <1>2 DEF HashUp
    <3>4. parent # ParentOf(parent)
      BY <1>1 DEF ParentOf
    <3>. QED
      BY <2>1, <3>3, <3>4, <1>1, <1>3
  <2>2. CASE p # parent
    <3>1. hash[p] = Hash(HashAt(LeftOf(p)), HashAt(RightOf(p)))
      BY <1>0, <2>2, <1>4 DEF HashInv, Top
    <3>. QED
      BY <1>1, <1>2, <1>3, <2>2, <3>1
  <2>. QED
    BY <2>1, <2>2
<1>6. FreshInv'
  <2>. SUFFICES ASSUME updates = 1,
                       NEW n \in stored, n[1] < Levels,
                       n[1] >= parent[1], n # SiblingOf(parent)
                PROVE  siblingHash[n] = HashAt(SiblingOf(n))'
    BY <1>2, <1>4 DEF FreshInv, Top, Fresh, SiblingOf, IsLeft, HashAt
  <2>1. n \in Node /\ n[1] >= node[1] /\ n # sibling
    BY <1>1, NodeIsPair
  <2>2. Fresh(n)
    BY <1>0, <2>1, <1>2 DEF FreshInv, Top
  <2>. QED
    BY <1>3, <2>1, <2>2 DEF Fresh
<1>. QED
  BY <1>5, <1>6

LEMMA NextHashes ==
  ShapeInv /\ HashInv /\ FreshInv /\ [Next]_vars => HashInv' /\ FreshInv'
<1>. SUFFICES ASSUME ShapeInv, HashInv, FreshInv, [Next]_vars
              PROVE  HashInv' /\ FreshInv'
  OBVIOUS
<1>1. ASSUME NEW batch, AppendUsers(batch) \/ RemoveUsersByIndexes(batch)
      PROVE  HashInv' /\ FreshInv'
  BY <1>1, BatchStepHashes DEF AppendUsers, RemoveUsersByIndexes, OnPath
<1>2. CASE SkipUser \/ TreeFull \/ RemoveUnknown
  BY <1>2, BatchStepHashes DEF SkipUser, TreeFull, RemoveUnknown, NextOf, OnPath
<1>3. CASE CreateLeaf
  BY <1>3, CreateLeafHashes
<1>4. CASE CreateParent \/ LinkLeft \/ AppendLeft
  BY <1>4, CreateParentHashes, LinkLeftHashes, AppendLeftHashes
<1>5. CASE AppendRight
  BY <1>5, AppendRightHashes
<1>6. CASE UserAppended \/ UserUpdated
  BY <1>6, PathDoneHashes
<1>7. CASE UpdateLevel
  BY <1>7, UpdateLevelHashes
<1>8. ASSUME NEW commitment, BanMember(commitment)
      PROVE  HashInv' /\ FreshInv'
  BY <1>8, FoundLeaf, ZeroLeafHashes DEF BanMember
<1>9. CASE RemoveIndex
  BY <1>9, FoundLeaf, ZeroLeafHashes DEF RemoveIndex
<1>10. CASE UNCHANGED vars
  BY <1>10 DEF vars, HashInv, Top, FreshInv, Fresh, HashAt, OnPath,
               LeftOf, RightOf, SiblingOf, ParentOf, IsLeft
<1>. QED
  BY <1>1, <1>2, <1>3, <1>4, <1>5, <1>6, <1>7, <1>8, <1>9, <1>10
     DEF Next, Loop, Call

\* With at most one leaf zeroed, every inner node that no loop is working
\* under is the hash of its children: what updateUser reads from the leaf's
\* siblingHash is then the sibling's hash, and what appendUsers reads always
\* is.
THEOREM TreeConsistent == Spec => []NodesConsistent
<1>1. Init => IInv
  BY InitShape, InitHashes DEF IInv
<1>2. IInv /\ [Next]_vars => IInv'
  BY NextShape, NextHashes DEF IInv
<1>3. IInv => NodesConsistent
  BY DEF IInv, HashInv, Top, NodesConsistent
<1>. QED
  BY <1>1, <1>2, <1>3, PTL DEF Spec

------------------------------------------------------------------------------
(* One leaf per member of a group.                                         *)

\* The first match exists when there is a match.
LEMMA FindLeafFinds ==
  ASSUME NEW slot, FindLeafBySlot(slot) = {}
  PROVE  \A i \in LeafIndexes : slotOf[i] # slot
<1>. SUFFICES ASSUME LeavesOfSlot(slot) # {} PROVE FALSE
  BY DEF LeavesOfSlot
<1>1. LeavesOfSlot(slot) \in SUBSET Nat
  BY CapacityFacts DEF LeavesOfSlot, LeafIndexes, LeafIndex
<1>2. PICK R : R = OpToRel(<, Nat)
  OBVIOUS
<1>3. IsWellFoundedOn(R, Nat)
  BY <1>2, NatLessThanWellFounded
<1>4. \A j, k \in Nat : j < k => <<j, k>> \in R
  BY <1>2 DEF OpToRel
<1>5. PICK i \in LeavesOfSlot(slot) : \A j \in LeavesOfSlot(slot) : <<j, i>> \notin R
  BY <1>1, <1>3, WFMin
<1>6. \A j \in LeavesOfSlot(slot) : i <= j
  <2>. TAKE j \in LeavesOfSlot(slot)
  <2>1. i \in Nat /\ j \in Nat
    BY <1>1
  <2>2. ~(j < i)
    BY <1>4, <1>5, <2>1
  <2>. QED
    BY <2>1, <2>2
<1>. QED
  BY <1>6 DEF FindLeafBySlot

\* A member of a group never gets a second leaf, not even after its leaf was
\* zeroed: appendUsers recognises it by its index in the group.
THEOREM SlotsAreUnique == Spec => []OneLeafPerSlot
<1>1. Init => OneLeafPerSlot
  BY DEF Init, OneLeafPerSlot, LeafIndexes
<1>2. ShapeInv /\ OneLeafPerSlot /\ [Next]_vars => OneLeafPerSlot'
  <2>. SUFFICES ASSUME ShapeInv, OneLeafPerSlot, [Next]_vars
                PROVE  OneLeafPerSlot'
    OBVIOUS
  <2>1. CASE CreateLeaf
    <3> DEFINE c == NumberOfLeaves
    <3>a. c \in LeafIndex /\ <<0, c>> \notin stored
      BY <2>1, LeafCount, CapacityFacts DEF CreateLeaf, Insert, IsFull, LeafIndex, ShapeInv
    <3>1. /\ c \in LeafIndex /\ LeafIndexes' = LeafIndexes \cup {c}
          /\ c \notin LeafIndexes
      BY <2>1, <3>a DEF CreateLeaf, Insert, LeafIndexes
    <3>2. \A i \in LeafIndexes : slotOf[i] # Head(todo).slot
      BY <2>1, FindLeafFinds DEF CreateLeaf, Insert
    <3>3. slotOf' = [slotOf EXCEPT ![c] = Head(todo).slot]
      BY <2>1 DEF CreateLeaf, Insert
    <3>. QED
      BY <3>1, <3>2, <3>3 DEF OneLeafPerSlot, ShapeInv, TypeOK, LeafIndexes
  <2>2. CASE CreateParent
    <3>1. cur \in Node /\ cur[1] < Levels
      BY <2>2 DEF CreateParent, ShapeInv, TypeOK
    <3>2. ParentOf(cur)[1] # 0
      BY <3>1, ParentFacts, NodeIsPair
    <3>3. LeafIndexes' = LeafIndexes
      BY <2>2, <3>2 DEF CreateParent, Insert, LeafIndexes
    <3>. QED
      BY <2>2, <3>3 DEF CreateParent, OneLeafPerSlot
  <2>3. CASE UNCHANGED <<stored, slotOf>>
    BY <2>3 DEF OneLeafPerSlot, LeafIndexes
  <2>. QED
    BY <2>1, <2>2, <2>3
       DEF Next, Loop, Call, AppendUsers, SkipUser, TreeFull, LinkLeft,
           AppendLeft, AppendRight, UserAppended, ZeroLeaf, BanMember, UpdateLevel, UserUpdated,
           RemoveUsersByIndexes, RemoveIndex, RemoveUnknown, unchangedTree, vars
<1>. QED
  BY <1>1, <1>2, ShapeInvariant, PTL DEF Spec

------------------------------------------------------------------------------
(* The collection implements the list of members.                          *)

members == [i \in 1 .. NumberOfLeaves |-> LeafAt(i - 1)]

\* A step that leaves the leaf documents alone leaves the list alone.
LEMMA SameLeaves ==
  ASSUME ShapeInv, LeafIndexes' = LeafIndexes,
         \A i \in LeafIndexes : hash'[<<0, i>>] = hash[<<0, i>>]
  PROVE  members' = members
<1>1. NumberOfLeaves' = NumberOfLeaves
  BY DEF NumberOfLeaves
<1>2. NumberOfLeaves \in Nat /\ LeafIndexes = 0 .. NumberOfLeaves - 1
  BY LeafCount DEF ShapeInv
<1>3. \A i \in 1 .. NumberOfLeaves : LeafAt(i - 1)' = LeafAt(i - 1)
  BY <1>2 DEF LeafAt
<1>. QED
  BY <1>1, <1>3 DEF members

LEMMA CreateLeafAppends ==
  ASSUME ShapeInv, CreateLeaf
  PROVE  \E v \in LeafValue : Members!Append1(v)
<1>1. PICK c : c = NumberOfLeaves
  OBVIOUS
<1>2. PICK v : v = Head(todo).commitment
  OBVIOUS
<1>3. /\ c \in Nat /\ c < Capacity /\ LeafIndexes = 0 .. c - 1
      /\ c \in LeafIndex /\ <<0, c>> \in Node
  BY <1>1, LeafCount, CapacityFacts, LevelsAssumption
     DEF ShapeInv, CreateLeaf, Insert, IsFull, LeafIndex, Node
<1>4. v \in LeafValue
  BY <1>2, HeadTailProperties, SlotAssumption DEF CreateLeaf, Insert, ShapeInv, TodoInv
<1>5. LeafIndexes' = 0 .. c
  <2>1. LeafIndexes' = LeafIndexes \cup {c}
    BY <1>1, <1>3 DEF CreateLeaf, Insert, LeafIndexes
  <2>. QED
    BY <1>3, <2>1
<1>6. NumberOfLeaves' = c + 1
  BY <1>3, <1>5, FS_Interval DEF NumberOfLeaves
<1>7. /\ hash' = [hash EXCEPT ![<<0, c>>] = <<v>>]
      /\ hash \in [Node -> HashValue]
  BY <1>1, <1>2 DEF CreateLeaf, Insert, ShapeInv, TypeOK
<1>8. \A i \in 1 .. c + 1 :
        LeafAt(i - 1)' = IF i = c + 1 THEN v ELSE LeafAt(i - 1)
  <2>. TAKE i \in 1 .. c + 1
  <2>1. <<0, i - 1>> \in Node /\ (<<0, i - 1>> = <<0, c>> <=> i = c + 1)
    BY <1>3, CapacityFacts, LevelsAssumption DEF Node, LeafIndex
  <2>. QED
    BY <1>7, <2>1 DEF LeafAt
<1>9. members' = [i \in 1 .. c + 1 |-> IF i = c + 1 THEN v ELSE LeafAt(i - 1)]
  BY <1>6, <1>8 DEF members
<1>10. members = [i \in 1 .. c |-> LeafAt(i - 1)] /\ Len(members) = c
  BY <1>1, <1>3 DEF members
<1>11. members' = Append(members, v)
  BY <1>3, <1>9, <1>10
<1>. QED
  BY <1>3, <1>4, <1>10, <1>11 DEF Members!Append1, members

LEMMA ZeroLeafZeroes ==
  ASSUME ShapeInv, NEW i \in LeafIndexes, ZeroLeaf(i)
  PROVE  \E k \in DOMAIN members : Members!ZeroOut(k)
<1>1. PICK c : c = NumberOfLeaves
  OBVIOUS
<1>2. /\ c \in Nat /\ LeafIndexes = 0 .. c - 1 /\ c <= Capacity
      /\ i \in 0 .. c - 1 /\ <<0, i>> \in Node
  BY <1>1, LeafCount, LevelsAssumption DEF ShapeInv, LeafIndexes, Node
<1>3. LeafIndexes' = LeafIndexes /\ NumberOfLeaves' = c
  BY <1>1 DEF ZeroLeaf, LeafIndexes, NumberOfLeaves
<1>4. /\ hash' = [hash EXCEPT ![<<0, i>>] = <<Zero>>]
      /\ hash \in [Node -> HashValue]
  BY DEF ZeroLeaf, ShapeInv, TypeOK
<1>5. \A k \in 1 .. c : LeafAt(k - 1)' = IF k = i + 1 THEN Zero ELSE LeafAt(k - 1)
  <2>. TAKE k \in 1 .. c
  <2>1. <<0, k - 1>> \in Node /\ (<<0, k - 1>> = <<0, i>> <=> k = i + 1)
    BY <1>2, CapacityFacts, LevelsAssumption DEF Node, LeafIndex
  <2>. QED
    BY <1>4, <2>1 DEF LeafAt
<1>6. members' = [k \in 1 .. c |-> IF k = i + 1 THEN Zero ELSE LeafAt(k - 1)]
  BY <1>3, <1>5 DEF members
<1>7. members = [k \in 1 .. c |-> LeafAt(k - 1)]
  BY <1>1 DEF members
<1>8. i + 1 \in 1 .. c /\ DOMAIN members = 1 .. c
  BY <1>2, <1>7
<1>9. members' = [members EXCEPT ![i + 1] = Zero]
  <2>1. [members EXCEPT ![i + 1] = Zero] =
          [k \in 1 .. c |-> IF k = i + 1 THEN Zero ELSE members[k]]
    BY <1>8
  <2>. QED
    BY <1>6, <1>7, <2>1
<1>. QED
  BY <1>8, <1>9 DEF Members!ZeroOut, members

\* appendUsers, removeUsersByIndexes and updateUser implement an append-only
\* list whose entries are only ever zeroed.
THEOREM MembersRefined == Spec => ImplementsMemberList
<1>1. Init => Members!Init
  <2>. SUFFICES ASSUME Init PROVE members = << >>
    BY DEF Members!Init, members
  <2>1. LeafIndexes = {}
    BY DEF Init, LeafIndexes
  <2>2. NumberOfLeaves = 0
    BY <2>1, FS_EmptySet DEF NumberOfLeaves
  <2>. QED
    BY <2>2 DEF members
<1>2. ShapeInv /\ [Next]_vars => [Members!Next]_members
  <2>. SUFFICES ASSUME ShapeInv, [Next]_vars
                PROVE  Members!Next \/ members' = members
    OBVIOUS
  <2>1. CASE CreateLeaf
    BY <2>1, CreateLeafAppends DEF Members!Next
  <2>2. ASSUME NEW i \in LeafIndexes, ZeroLeaf(i)
        PROVE  Members!Next
    BY <2>2, ZeroLeafZeroes DEF Members!Next, members
  <2>3. CASE CreateParent \/ AppendLeft \/ AppendRight \/ UpdateLevel
    <3>1. cur \in Node /\ cur[1] < Levels
      BY <2>3
         DEF CreateParent, AppendLeft, AppendRight, UpdateLevel, ShapeInv, TypeOK, Shape
    <3>2. ParentOf(cur)[1] # 0
      BY <3>1, ParentFacts, NodeIsPair
    <3>3. LeafIndexes' = LeafIndexes
      BY <2>3, <3>2
         DEF CreateParent, Insert, AppendLeft, AppendRight, UpdateLevel, LeafIndexes
    <3>4. \A i \in LeafIndexes : <<0, i>> \in Node /\ <<0, i>> # ParentOf(cur)
      BY <3>2 DEF LeafIndexes, ShapeInv, TypeOK
    <3>5. \A i \in LeafIndexes : hash'[<<0, i>>] = hash[<<0, i>>]
      BY <2>3, <3>4
         DEF CreateParent, Insert, AppendLeft, AppendRight, UpdateLevel, ShapeInv, TypeOK
    <3>. QED
      BY <3>3, <3>5, SameLeaves
  <2>4. CASE UNCHANGED <<stored, hash>>
    <3>1. LeafIndexes' = LeafIndexes
      BY <2>4 DEF LeafIndexes
    <3>. QED
      BY <2>4, <3>1, SameLeaves
  <2>. QED
    BY <2>1, <2>2, <2>3, <2>4, FoundLeaf
       DEF Next, Loop, Call, AppendUsers, SkipUser, TreeFull, LinkLeft,
           UserAppended, BanMember, UserUpdated, RemoveUsersByIndexes,
           RemoveIndex, RemoveUnknown, unchangedTree, vars
<1>. QED
  BY <1>1, <1>2, ShapeInvariant, PTL DEF Spec, ImplementsMemberList, Members!Spec, members

------------------------------------------------------------------------------
(* One root, which commits to the leaves.                                  *)

\* Every document is a node of the tree over 2 ^ Levels leaves.
InTree(n) == n[2] < 2 ^ (Levels - n[1])

\* The documents are nodes of the tree, and a leaf document holds one value.
RootInv ==
  /\ \A n \in stored : InTree(n)
  /\ \A i \in LeafIndexes : \E v \in LeafValue : hash[<<0, i>>] = <<v>>

\* The leaf values of the nodes that exist and of those that do not.
LeafOr(j) == IF j \in LeafIndexes THEN LeafAt(j) ELSE Zero

\* The leaf values below a node.
Below(n) == [i \in 1 .. 2 ^ n[1] |-> LeafOr(n[2] * 2 ^ n[1] + i - 1)]

EmptyHash(level) == [i \in 1 .. 2 ^ level |-> Zero]
HashOrEmpty(n)   == IF n \in stored THEN hash[n] ELSE EmptyHash(n[1])

\* Descent: a set of naturals that has no least element is empty.
LEMMA NoDescent ==
  ASSUME NEW T \in SUBSET Nat, \A l \in T : \E k \in T : k < l
  PROVE  T = {}
<1>. SUFFICES ASSUME T # {} PROVE FALSE
  OBVIOUS
<1>1. PICK R : R = OpToRel(<, Nat)
  OBVIOUS
<1>2. IsWellFoundedOn(R, Nat)
  BY <1>1, NatLessThanWellFounded
<1>3. PICK l \in T : \A k \in T : <<k, l>> \notin R
  BY <1>2, WFMin
<1>4. PICK k \in T : k < l
  BY <1>3
<1>5. <<k, l>> \in R
  BY <1>1, <1>4 DEF OpToRel
<1>. QED
  BY <1>3, <1>5

\* The powers of two at a level.
LEMMA Powers ==
  ASSUME NEW l \in 0 .. Levels
  PROVE  /\ 2 ^ l \in Nat \ {0}
         /\ 2 ^ (Levels - l) \in Nat \ {0}
         /\ 2 ^ (Levels - l) * 2 ^ l = Capacity
         /\ 2 ^ (Levels - l) <= Capacity
         /\ l > 0 => /\ 2 ^ l = 2 * 2 ^ (l - 1)
                     /\ 2 ^ (Levels - (l - 1)) = 2 * 2 ^ (Levels - l)
         /\ l = 0 => 2 ^ l = 1 /\ 2 ^ (Levels - l) = Capacity
         /\ l = Levels => 2 ^ l = Capacity /\ 2 ^ (Levels - l) = 1
<1>1. Levels \in Nat /\ l \in Nat /\ Levels - l \in 0 .. Levels
  BY LevelsAssumption
<1>2. PICK a \in Nat \ {0}, b \in Nat \ {0} : a = 2 ^ l /\ b = 2 ^ (Levels - l)
  BY <1>1, LevelsAssumption
<1>3. a * b = Capacity
  BY <1>2, LevelsAssumption DEF Capacity
<1>4. b * a = Capacity
  BY <1>3
<1>5. b <= Capacity
  <2>1. b * (a - 1) \in Nat
    BY <1>2
  <2>2. b * (a - 1) = b * a - b
    BY <1>2
  <2>. QED
    BY <1>2, <1>4, <2>1, <2>2
<1>6. ASSUME l > 0
      PROVE  2 ^ l = 2 * 2 ^ (l - 1) /\ 2 ^ (Levels - (l - 1)) = 2 * b
  <2>1. l - 1 \in 0 .. Levels - 1 /\ (l - 1) + 1 = l
    BY <1>1, <1>6
  <2>2. Levels - l \in 0 .. Levels - 1 /\ (Levels - l) + 1 = Levels - (l - 1)
    BY <1>1, <1>6
  <2>3. 2 ^ ((l - 1) + 1) = 2 * 2 ^ (l - 1)
    BY <2>1, LevelsAssumption
  <2>4. 2 ^ ((Levels - l) + 1) = 2 * 2 ^ (Levels - l)
    BY <2>2, LevelsAssumption
  <2>. QED
    BY <2>1, <2>2, <2>3, <2>4, <1>2
<1>7. ASSUME l = 0 PROVE a = 1 /\ b = Capacity
  <2>1. b = Capacity /\ b > 1
    BY <1>1, <1>2, <1>7, LevelsAssumption DEF Capacity
  <2>2. a * b = b
    BY <1>3, <2>1
  <2>3. (a - 1) * b = 0
    BY <1>2, <2>2
  <2>. QED
    BY <1>2, <2>1, <2>3
<1>8. ASSUME l = Levels PROVE a = Capacity /\ b = 1
  <2>1. a = Capacity /\ a > 1
    BY <1>1, <1>2, <1>8, LevelsAssumption DEF Capacity
  <2>2. (b - 1) * a = 0
    BY <1>2, <1>4, <2>1
  <2>. QED
    BY <1>2, <2>1, <2>2
<1>. QED
  BY <1>2, <1>4, <1>5, <1>6, <1>7, <1>8

\* The two children of a node of the tree are nodes of the tree.
LEMMA ChildrenInTree ==
  ASSUME NEW n \in Node, InTree(n), n[1] > 0
  PROVE  /\ LeftOf(n) \in Node /\ InTree(LeftOf(n))
         /\ RightOf(n) \in Node /\ InTree(RightOf(n))
<1>1. PICK l \in 0 .. Levels, q \in Nat : n = <<l, q>> /\ l > 0 /\ l \in Nat
  BY NodeIsPair, LevelsAssumption
<1>2. l - 1 \in 0 .. Levels
  BY <1>1, LevelsAssumption
<1>3. PICK b \in Nat : b = 2 ^ (Levels - l) /\ q < b /\ 2 ^ (Levels - (l - 1)) = 2 * b
  BY <1>1, Powers DEF InTree
<1>4. 2 * b <= Capacity /\ Capacity \in Nat
  BY <1>2, <1>3, Powers, CapacityFacts
<1>5. LeftOf(n) = <<l - 1, 2 * q>> /\ RightOf(n) = <<l - 1, 2 * q + 1>>
  BY <1>1 DEF LeftOf, RightOf
<1>6. 2 * q \in LeafIndex /\ 2 * q + 1 \in LeafIndex
  BY <1>1, <1>3, <1>4 DEF LeafIndex
<1>. QED
  BY <1>1, <1>2, <1>3, <1>5, <1>6 DEF Node, InTree

\* The values below a node are those below its left child, then those below
\* its right child.
LEMMA BelowChildren ==
  ASSUME RootInv, LeafIndexes \subseteq Nat, NEW n \in Node, n[1] > 0
  PROVE  /\ Below(n) = Hash(Below(LeftOf(n)), Below(RightOf(n)))
         /\ EmptyHash(n[1]) = Hash(EmptyHash(n[1] - 1), EmptyHash(n[1] - 1))
<1>1. PICK l \in 0 .. Levels, q \in Nat : n = <<l, q>> /\ l > 0 /\ l \in Nat
  BY NodeIsPair, LevelsAssumption
<1>2. PICK B \in Nat \ {0} : B = 2 ^ (l - 1) /\ 2 ^ l = 2 * B
  <2>1. l - 1 \in 0 .. Levels
    BY <1>1, LevelsAssumption
  <2>. QED
    BY <1>1, <2>1, Powers
<1>3. ASSUME NEW j PROVE LeafOr(j) \in LeafValue
  <2>1. CASE j \in LeafIndexes
    <3>1. PICK v \in LeafValue : hash[<<0, j>>] = <<v>>
      BY <2>1 DEF RootInv
    <3>. QED
      BY <2>1, <3>1 DEF LeafOr, LeafAt
  <2>2. CASE j \notin LeafIndexes
    BY <2>2 DEF LeafOr, LeafValue
  <2>. QED
    BY <2>1, <2>2
<1>4. PICK o \in Nat : o = q * (2 * B)
  BY <1>1, <1>2
<1>5. (2 * q) * B = o /\ (2 * q + 1) * B = o + B
  BY <1>1, <1>2, <1>4
<1>. DEFINE left  == [i \in 1 .. B |-> LeafOr(o + i - 1)]
            right == [i \in 1 .. B |-> LeafOr(o + B + i - 1)]
            both  == [i \in 1 .. 2 * B |-> LeafOr(o + i - 1)]
<1>6. Below(LeftOf(n)) = left /\ Below(RightOf(n)) = right /\ Below(n) = both
  BY <1>1, <1>2, <1>4, <1>5 DEF Below, LeftOf, RightOf
<1>7. /\ left \in Seq(LeafValue) /\ Len(left) = B
      /\ right \in Seq(LeafValue) /\ Len(right) = B
      /\ both \in Seq(LeafValue) /\ Len(both) = 2 * B
  BY <1>2, <1>3
<1>8. left \o right = both
  <2>1. /\ left \o right \in Seq(LeafValue) /\ Len(left \o right) = 2 * B
        /\ \A i \in 1 .. 2 * B :
             (left \o right)[i] = IF i <= B THEN left[i] ELSE right[i - B]
    BY <1>2, <1>7, ConcatProperties
  <2>2. \A i \in 1 .. 2 * B : (left \o right)[i] = both[i]
    <3>. TAKE i \in 1 .. 2 * B
    <3>1. CASE i <= B
      BY <1>2, <2>1, <3>1
    <3>2. CASE ~(i <= B)
      <4>1. i - B \in 1 .. B /\ o + B + (i - B) - 1 = o + i - 1
        BY <1>2, <1>4, <3>2
      <4>. QED
        BY <1>2, <2>1, <3>2, <4>1
    <3>. QED
      BY <3>1, <3>2
  <2>. HIDE DEF left, right, both
  <2>. QED
    BY <1>7, <2>1, <2>2, SeqEqual
<1>9. EmptyHash(l) = EmptyHash(l - 1) \o EmptyHash(l - 1)
  <2>. DEFINE half == [i \in 1 .. B |-> Zero]
              full == [i \in 1 .. 2 * B |-> Zero]
  <2>1. EmptyHash(l) = full /\ EmptyHash(l - 1) = half
    BY <1>2 DEF EmptyHash
  <2>2. /\ half \in Seq(LeafValue) /\ Len(half) = B
        /\ full \in Seq(LeafValue) /\ Len(full) = 2 * B
    BY <1>2 DEF LeafValue
  <2>3. /\ half \o half \in Seq(LeafValue) /\ Len(half \o half) = 2 * B
        /\ \A i \in 1 .. 2 * B :
             (half \o half)[i] = IF i <= B THEN half[i] ELSE half[i - B]
    BY <1>2, <2>2, ConcatProperties
  <2>4. \A i \in 1 .. 2 * B : (half \o half)[i] = full[i]
    BY <1>2, <2>3
  <2>. HIDE DEF half, full
  <2>. QED
    BY <2>1, <2>2, <2>3, <2>4, SeqEqual
<1>. QED
  BY <1>1, <1>6, <1>8, <1>9 DEF Hash

\* Between two calls, while at most one leaf was zeroed, a document commits to
\* the leaves below it, and below an address without a document is no leaf.
LEMMA HashesCommit ==
  ASSUME ShapeInv, HashInv, RootInv, updates <= 1, ~OnPath
  PROVE  \A n \in stored : hash[n] = Below(n)
<1>. DEFINE Commits(n) == HashOrEmpty(n) = Below(n)
            Wrong == {l \in Nat : \E n \in Node : n[1] = l /\ InTree(n) /\ ~Commits(n)}
<1>0. LeafIndexes \subseteq Nat /\ stored \subseteq Node
  BY CapacityFacts DEF ShapeInv, TypeOK, LeafIndexes, LeafIndex
<1>1. ASSUME NEW n \in Node, n[1] = 0, InTree(n) PROVE Commits(n)
  <2>1. PICK i \in LeafIndex : n = <<0, i>> /\ i \in Nat
    BY <1>1, NodeIsPair DEF LeafIndex
  <2>2. 2 ^ n[1] = 1
    BY <1>1, LevelsAssumption, Powers
  <2>3. Below(n) = <<LeafOr(i)>>
    BY <2>1, <2>2 DEF Below
  <2>4. CASE n \in stored
    <3>1. i \in LeafIndexes
      BY <2>1, <2>4 DEF LeafIndexes
    <3>2. PICK v \in LeafValue : hash[<<0, i>>] = <<v>>
      BY <3>1 DEF RootInv
    <3>. QED
      BY <2>1, <2>3, <2>4, <3>1, <3>2 DEF LeafOr, LeafAt, HashOrEmpty
  <2>5. CASE n \notin stored
    <3>1. i \notin LeafIndexes
      BY <2>1, <2>5 DEF LeafIndexes
    <3>2. EmptyHash(n[1]) = <<Zero>>
      BY <2>2 DEF EmptyHash
    <3>. QED
      BY <2>3, <2>5, <3>1, <3>2 DEF LeafOr, HashOrEmpty
  <2>. QED
    BY <2>4, <2>5
<1>2. ASSUME NEW n \in Node, n[1] > 0, InTree(n),
             Commits(LeftOf(n)), Commits(RightOf(n))
      PROVE  Commits(n)
  <2>1. /\ LeftOf(n)[1] = n[1] - 1 /\ RightOf(n)[1] = n[1] - 1
        /\ ParentOf(LeftOf(n)) = n /\ ParentOf(RightOf(n)) = n
    BY <1>2, ChildFacts
  <2>2. n[1] \in 1 .. Levels /\ n[1] - 1 \in 0 .. Levels - 1
    BY <1>2, NodeIsPair, LevelsAssumption
  <2>3. Below(n) = Hash(HashOrEmpty(LeftOf(n)), HashOrEmpty(RightOf(n)))
    BY <1>0, <1>2, BelowChildren
  <2>4. CASE n \in stored
    <3>1. hash[n] = Hash(HashAt(LeftOf(n)), HashAt(RightOf(n)))
      BY <1>2, <2>4 DEF HashInv
    <3>2. /\ HashAt(LeftOf(n)) = HashOrEmpty(LeftOf(n))
          /\ HashAt(RightOf(n)) = HashOrEmpty(RightOf(n))
      BY <2>1, <2>2 DEF HashAt, HashOrEmpty, zeros, EmptyHash
    <3>. QED
      BY <2>3, <2>4, <3>1, <3>2 DEF HashOrEmpty
  <2>5. CASE n \notin stored
    <3>0. ASSUME NEW m \in stored, m[1] < Levels PROVE ParentOf(m) \in stored
      BY <3>0 DEF ShapeInv, Shape, OnPath
    <3>a. LeftOf(n)[1] < Levels /\ RightOf(n)[1] < Levels
      BY <2>1, <2>2, LevelsAssumption
    <3>1. LeftOf(n) \notin stored /\ RightOf(n) \notin stored
      BY <2>1, <2>5, <3>0, <3>a
    <3>2. /\ HashOrEmpty(LeftOf(n)) = EmptyHash(n[1] - 1)
          /\ HashOrEmpty(RightOf(n)) = EmptyHash(n[1] - 1)
      BY <2>1, <3>1 DEF HashOrEmpty
    <3>3. EmptyHash(n[1]) = Hash(EmptyHash(n[1] - 1), EmptyHash(n[1] - 1))
      BY <1>0, <1>2, BelowChildren
    <3>. QED
      BY <2>3, <2>5, <3>2, <3>3 DEF HashOrEmpty
  <2>. QED
    BY <2>4, <2>5
<1>. HIDE DEF Commits
<1>3. \A l \in Wrong : \E k \in Wrong : k < l
  <2>. SUFFICES ASSUME NEW l \in Nat, NEW n \in Node, n[1] = l, InTree(n), ~Commits(n)
                PROVE  \E k \in Wrong : k < l
    OBVIOUS
  <2>1. l > 0
    BY <1>1
  <2>2. /\ LeftOf(n) \in Node /\ InTree(LeftOf(n)) /\ LeftOf(n)[1] = l - 1
        /\ RightOf(n) \in Node /\ InTree(RightOf(n)) /\ RightOf(n)[1] = l - 1
    BY <2>1, ChildrenInTree, ChildFacts
  <2>3. ~Commits(LeftOf(n)) \/ ~Commits(RightOf(n))
    BY <1>2, <2>1
  <2>4. l - 1 \in Wrong
    BY <2>1, <2>2, <2>3
  <2>. QED
    BY <2>4
<1>4. Wrong = {}
  <2>. HIDE DEF Wrong
  <2>1. Wrong \in SUBSET Nat
    BY DEF Wrong
  <2>. QED
    BY <1>3, <2>1, NoDescent
<1>5. \A n \in stored : Commits(n)
  BY <1>0, <1>4, NodeIsPair DEF RootInv
<1>. QED
  BY <1>5 DEF Commits, HashOrEmpty

\* Above every node there are documents up to the root.
LEMMA RootIsStored ==
  ASSUME ShapeInv, RootInv, ~OnPath, stored # {}
  PROVE  Root \in stored
<1>. DEFINE Depth == {d \in Nat : \E n \in stored : d = Levels - n[1]}
<1>. SUFFICES ASSUME Root \notin stored PROVE FALSE
  OBVIOUS
<1>1. stored \subseteq Node
  BY DEF ShapeInv, TypeOK
<1>2. ASSUME NEW n \in stored
      PROVE  n[1] < Levels /\ ParentOf(n) \in stored /\ ParentOf(n)[1] = n[1] + 1
  <2>1. n \in Node /\ n = <<n[1], n[2]>> /\ n[1] \in 0 .. Levels /\ n[2] \in Nat
    BY <1>1, NodeIsPair
  <2>2. n[1] # Levels
    <3>. SUFFICES ASSUME n[1] = Levels PROVE FALSE
      OBVIOUS
    <3>1. n[2] < 1
      BY <2>1, Powers DEF RootInv, InTree
    <3>. QED
      BY <2>1, <3>1 DEF Root
  <2>3. n[1] < Levels
    BY <2>1, <2>2, LevelsAssumption
  <2>. QED
    BY <2>1, <2>3, ParentFacts DEF ShapeInv, Shape, OnPath
<1>3. \A d \in Depth : \E k \in Depth : k < d
  <2>. SUFFICES ASSUME NEW n \in stored, Levels - n[1] \in Nat
                PROVE  \E k \in Depth : k < Levels - n[1]
    OBVIOUS
  <2>1. n[1] \in Nat /\ Levels \in Nat
    BY <1>1, NodeIsPair, LevelsAssumption
  <2>2. Levels - (n[1] + 1) \in Depth
    BY <1>2, <2>1
  <2>. QED
    BY <2>1, <2>2
<1>4. Depth = {}
  <2>. HIDE DEF Depth
  <2>1. Depth \in SUBSET Nat
    BY DEF Depth
  <2>. QED
    BY <1>3, <2>1, NoDescent
<1>5. \A n \in stored : Levels - n[1] \in Nat
  BY <1>1, NodeIsPair, LevelsAssumption
<1>. QED
  BY <1>4, <1>5

LEMMA InitRoot == Init => RootInv
BY DEF Init, RootInv, LeafIndexes

\* A step that neither creates a document nor changes a leaf.
LEMMA SameLeavesRoot ==
  ASSUME RootInv, stored' = stored,
         \A i \in LeafIndexes : hash'[<<0, i>>] = hash[<<0, i>>]
  PROVE  RootInv'
<1>1. LeafIndexes' = LeafIndexes
  BY DEF LeafIndexes
<1>. QED
  BY <1>1 DEF RootInv, InTree

\* A turn of one of the loops over the levels changes no leaf.
LEMMA ParentIsNoLeaf ==
  ASSUME ShapeInv, cur[1] < Levels
  PROVE  /\ ParentOf(cur) \in Node /\ ParentOf(cur)[1] # 0
         /\ \A i \in LeafIndexes : <<0, i>> \in Node /\ <<0, i>> # ParentOf(cur)
<1>1. cur \in Node
  BY DEF ShapeInv, TypeOK
<1>2. ParentOf(cur) \in Node /\ ParentOf(cur)[1] # 0
  BY <1>1, ParentFacts, NodeIsPair
<1>. QED
  BY <1>2 DEF LeafIndexes, ShapeInv, TypeOK

LEMMA CreateLeafRoot == ASSUME ShapeInv, RootInv, CreateLeaf PROVE RootInv'
<1>1. PICK c : c = NumberOfLeaves
  OBVIOUS
<1>2. c \in LeafIndex /\ <<0, c>> \in Node
  BY <1>1, LeafCount, CapacityFacts, LevelsAssumption
     DEF ShapeInv, CreateLeaf, Insert, IsFull, LeafIndex, Node
<1>3. PICK v \in LeafValue : v = Head(todo).commitment
  BY HeadTailProperties, SlotAssumption DEF CreateLeaf, Insert, ShapeInv, TodoInv
<1>4. /\ stored' = stored \cup {<<0, c>>}
      /\ hash' = [hash EXCEPT ![<<0, c>>] = <<v>>] /\ hash \in [Node -> HashValue]
  BY <1>1, <1>3 DEF CreateLeaf, Insert, ShapeInv, TypeOK
<1>5. InTree(<<0, c>>)
  BY <1>2, LevelsAssumption, CapacityFacts DEF InTree, LeafIndex, Capacity
<1>6. LeafIndexes' = LeafIndexes \cup {c}
  BY <1>2, <1>4 DEF LeafIndexes
<1>7. \A n \in stored' : InTree(n)
  BY <1>4, <1>5 DEF RootInv
<1>8. \A i \in LeafIndexes' : \E w \in LeafValue : hash'[<<0, i>>] = <<w>>
  <2>. TAKE i \in LeafIndexes'
  <2>1. <<0, i>> \in Node
    BY <1>2, <1>6 DEF LeafIndexes, ShapeInv, TypeOK
  <2>2. CASE i = c
    BY <1>2, <1>4, <2>2
  <2>3. CASE i # c
    BY <1>4, <1>6, <2>1, <2>3 DEF RootInv
  <2>. QED
    BY <2>2, <2>3
<1>. QED
  BY <1>7, <1>8 DEF RootInv, InTree

LEMMA CreateParentRoot == ASSUME ShapeInv, RootInv, CreateParent PROVE RootInv'
<1>1. PICK l \in 0 .. Levels, i \in Nat : cur = <<l, i>> /\ l \in Nat /\ l < Levels
  BY NodeIsPair, LevelsAssumption DEF CreateParent, Insert, ShapeInv, TypeOK
<1>2. PICK b \in Nat : b = 2 ^ (Levels - (l + 1)) /\ 2 ^ (Levels - l) = 2 * b
  <2>1. l + 1 \in 0 .. Levels /\ (l + 1) - 1 = l /\ l + 1 > 0
    BY <1>1, LevelsAssumption
  <2>2. 2 ^ (Levels - ((l + 1) - 1)) = 2 * 2 ^ (Levels - (l + 1))
    BY <2>1, Powers
  <2>. QED
    BY <2>1, <2>2, Powers
<1>3. i < 2 * b
  BY <1>1, <1>2 DEF ShapeInv, PathInv, OnPath, CreateParent, Insert, RootInv, InTree
<1>4. InTree(ParentOf(cur))
  BY <1>1, <1>2, <1>3 DEF InTree, ParentOf
<1>5. /\ ParentOf(cur) \in Node /\ ParentOf(cur)[1] # 0
      /\ \A j \in LeafIndexes : <<0, j>> \in Node /\ <<0, j>> # ParentOf(cur)
  BY ParentIsNoLeaf DEF CreateParent, Insert
<1>6. stored' = stored \cup {ParentOf(cur)} /\ LeafIndexes' = LeafIndexes
  BY <1>5 DEF CreateParent, Insert, LeafIndexes
<1>7. \A j \in LeafIndexes : hash'[<<0, j>>] = hash[<<0, j>>]
  BY <1>5 DEF CreateParent, Insert, ShapeInv, TypeOK
<1>. QED
  BY <1>4, <1>6, <1>7 DEF RootInv, InTree

LEMMA ZeroLeafRoot ==
  ASSUME ShapeInv, RootInv, NEW i \in LeafIndexes, ZeroLeaf(i)
  PROVE  RootInv'
<1>1. /\ stored' = stored /\ LeafIndexes' = LeafIndexes
      /\ hash' = [hash EXCEPT ![<<0, i>>] = <<Zero>>] /\ hash \in [Node -> HashValue]
  BY DEF ZeroLeaf, LeafIndexes, ShapeInv, TypeOK
<1>2. \A j \in LeafIndexes : \E v \in LeafValue : hash'[<<0, j>>] = <<v>>
  <2>. TAKE j \in LeafIndexes
  <2>1. <<0, j>> \in Node
    BY DEF LeafIndexes, ShapeInv, TypeOK
  <2>. QED
    BY <1>1, <2>1 DEF RootInv, LeafValue
<1>. QED
  BY <1>1, <1>2 DEF RootInv, InTree

LEMMA NextRoot == ASSUME ShapeInv, RootInv, [Next]_vars PROVE RootInv'
<1>1. CASE AppendLeft \/ AppendRight \/ UpdateLevel
  <2>1. cur[1] < Levels
    BY <1>1 DEF AppendLeft, AppendRight, UpdateLevel, ShapeInv, Shape
  <2>2. \A i \in LeafIndexes : hash'[<<0, i>>] = hash[<<0, i>>]
    BY <1>1, <2>1, ParentIsNoLeaf
       DEF AppendLeft, AppendRight, UpdateLevel, ShapeInv, TypeOK
  <2>. QED
    BY <1>1, <2>2, SameLeavesRoot DEF AppendLeft, AppendRight, UpdateLevel
<1>2. CASE UNCHANGED <<stored, hash>>
  BY <1>2, SameLeavesRoot
<1>. QED
  BY <1>1, <1>2, CreateLeafRoot, CreateParentRoot, ZeroLeafRoot, FoundLeaf
     DEF Next, Loop, Call, AppendUsers, SkipUser, TreeFull, LinkLeft,
         UserAppended, BanMember, UserUpdated, RemoveUsersByIndexes, RemoveIndex,
         RemoveUnknown, unchangedTree, vars

LEMMA RootInvariant == Spec => []RootInv
<1>1. ShapeInv /\ RootInv /\ [Next]_vars => RootInv'
  BY NextRoot
<1>. QED
  BY <1>1, InitRoot, ShapeInvariant, PTL DEF Spec

\* The order of insertion: a document is younger than those that were there,
\* and once the first path is linked up to its top, the root has no older
\* document without a parent and is older than every other one.
TopOfPath == <<Levels - 1, 0>>

OrderInv ==
  /\ \A n \in stored : before[n] \subseteq stored \ {n}
  /\ TopOfPath \in linked =>
       /\ Root \in stored
       /\ before[Root] \subseteq linked
       /\ \A m \in Parentless \ {Root} : Root \in before[m]

LEMMA RootFacts ==
  /\ Root \in Node /\ TopOfPath \in Node /\ TopOfPath # Root
  /\ ParentOf(TopOfPath) = Root /\ LeftOf(Root) = TopOfPath /\ IsLeft(TopOfPath)
  /\ Root[1] = Levels /\ TopOfPath[1] = Levels - 1 /\ TopOfPath[1] < Levels
<1>1. Levels \in Nat /\ Levels > 0 /\ Levels - 1 \in 0 .. Levels
  BY LevelsAssumption
<1>2. 0 \div 2 = 0 /\ 0 % 2 = 0
  OBVIOUS
<1>. QED
  BY <1>1, <1>2, CapacityFacts DEF Root, TopOfPath, Node, ParentOf, LeftOf, IsLeft

\* The root is the only document of its level, and is never linked.
LEMMA RootIsHighest ==
  ASSUME ShapeInv, RootInv
  PROVE  /\ Root \notin linked
         /\ \A n \in stored : n # Root => n[1] < Levels
<1>1. Root \notin linked
  BY RootFacts, LevelsAssumption DEF ShapeInv, Shape
<1>2. ASSUME NEW n \in stored, n # Root PROVE n[1] < Levels
  <2>1. n \in Node /\ n = <<n[1], n[2]>> /\ n[1] \in 0 .. Levels /\ n[2] \in Nat
    BY NodeIsPair DEF ShapeInv, TypeOK
  <2>2. n[1] = Levels => n[2] < 1
    BY <2>1, Powers DEF RootInv, InTree
  <2>3. n[1] # Levels
    BY <1>2, <2>1, <2>2 DEF Root
  <2>. QED
    BY <2>1, <2>3, LevelsAssumption
<1>. QED
  BY <1>1, <1>2

LEMMA InitOrder == Init => OrderInv
BY DEF Init, OrderInv

\* The step that links a left node.  If it is the top of the first path, all
\* the others are linked already.
LEMMA LinkOrder ==
  ASSUME ShapeInv, RootInv, OrderInv, LinkLeft \/ AppendLeft
  PROVE  OrderInv'
<1>1. /\ UNCHANGED <<stored, before>> /\ linked' = linked \cup {cur}
      /\ ParentOf(cur) \in stored /\ cur \in stored
  BY DEF LinkLeft, AppendLeft, ShapeInv, PathInv, OnPath
<1>2. CASE TopOfPath \in linked
  BY <1>1, <1>2 DEF OrderInv, Parentless
<1>3. CASE TopOfPath \notin linked /\ TopOfPath \in linked'
  <2>1. cur = TopOfPath /\ ParentOf(cur) = Root /\ Root \in stored
    BY <1>1, <1>3, RootFacts
  <2>2. \A n \in stored \ {Root} : n \in linked'
    BY <1>1, <2>1, RootIsHighest DEF ShapeInv, Shape, LinkLeft, AppendLeft
  <2>3. before[Root] \subseteq stored \ {Root}
    BY <2>1 DEF OrderInv
  <2>. QED
    BY <1>1, <2>1, <2>2, <2>3 DEF OrderInv, Parentless
<1>4. CASE TopOfPath \notin linked'
  BY <1>1, <1>4 DEF OrderInv
<1>. QED
  BY <1>2, <1>3, <1>4

\* A new document is younger than all others.
LEMMA InsertOrder ==
  ASSUME ShapeInv, OrderInv, NEW n \in Node, NEW h,
         n \notin stored, Insert(n, h), UNCHANGED linked
  PROVE  OrderInv'
<1>1. /\ stored' = stored \cup {n} /\ before'[n] = stored
      /\ \A m \in stored : before'[m] = before[m]
  BY DEF Insert, ShapeInv, TypeOK
<1>. QED
  BY <1>1 DEF OrderInv, Parentless

LEMMA NextOrder ==
  ASSUME ShapeInv, RootInv, OrderInv, [Next]_vars
  PROVE  OrderInv'
<1>1. CASE CreateLeaf
  <2>1. <<0, NumberOfLeaves>> \in Node /\ <<0, NumberOfLeaves>> \notin stored
    BY <1>1, LeafCount, CapacityFacts, LevelsAssumption
       DEF CreateLeaf, IsFull, LeafIndex, ShapeInv, Node
  <2>. QED
    BY <1>1, <2>1, InsertOrder DEF CreateLeaf
<1>2. CASE CreateParent
  <2>1. ParentOf(cur) \in Node
    BY <1>2, ParentFacts DEF CreateParent, ShapeInv, TypeOK
  <2>. QED
    BY <1>2, <2>1, InsertOrder DEF CreateParent
<1>3. CASE LinkLeft \/ AppendLeft
  BY <1>3, LinkOrder
<1>4. CASE AppendRight
  <2>1. UNCHANGED <<stored, before>> /\ linked' = linked \cup {cur} /\ cur # TopOfPath
    BY <1>4, RootFacts DEF AppendRight
  <2>. QED
    BY <2>1 DEF OrderInv, Parentless
<1>5. CASE UNCHANGED <<stored, before, linked>>
  BY <1>5 DEF OrderInv, Parentless
<1>. QED
  BY <1>1, <1>2, <1>3, <1>4, <1>5
     DEF Next, Loop, Call, AppendUsers, SkipUser, TreeFull, UserAppended,
         ZeroLeaf, BanMember, UpdateLevel, UserUpdated, RemoveUsersByIndexes,
         RemoveIndex, RemoveUnknown, unchangedTree, vars

LEMMA OrderInvariant == Spec => []OrderInv
<1>1. ShapeInv /\ RootInv /\ OrderInv /\ [Next]_vars => OrderInv'
  BY NextOrder
<1>. QED
  BY <1>1, InitOrder, ShapeInvariant, RootInvariant, PTL DEF Spec

\* Once the first path is linked, the root is what findRoot returns.
LEMMA RootIsFound ==
  ASSUME ShapeInv, RootInv, OrderInv, TopOfPath \in linked
  PROVE  FindRoot = {Root} /\ Root \in stored
<1>1. Root \in Parentless /\ before[Root] \subseteq linked
  BY RootIsHighest DEF OrderInv, Parentless
<1>2. Root \in FindRoot
  BY <1>1 DEF OrderInv, FindRoot
<1>3. ASSUME NEW n \in FindRoot PROVE n = Root
  BY <1>1 DEF FindRoot, Parentless
<1>. QED
  BY <1>1, <1>2, <1>3 DEF Parentless

\* However many levels the tree has and however far a call has come, findRoot
\* returns the root from the moment the first path is linked: no document
\* whose parent is not set yet is taken for it.
THEOREM RootIsUnique == Spec => []OneRoot
<1>1. ShapeInv /\ RootInv /\ OrderInv => OneRoot
  BY RootIsFound DEF OneRoot, TopOfPath
<1>. QED
  BY <1>1, ShapeInvariant, RootInvariant, OrderInvariant, PTL

\* Between two calls, and while at most one leaf was zeroed, the hash of the
\* root document is the root of the leaves GET leaves returns: the proofs the
\* clients compute from these leaves are proofs against the server's root.
THEOREM RootIsThatOfLeaves == Spec => []RootCommitsToLeaves
<1>1. Init => IInv
  BY InitShape, InitHashes DEF IInv
<1>2. IInv /\ [Next]_vars => IInv'
  BY NextShape, NextHashes DEF IInv
<1>3. IInv /\ RootInv /\ OrderInv => RootCommitsToLeaves
  <2>. SUFFICES ASSUME IInv, RootInv, OrderInv, updates <= 1, ~OnPath, stored # {}
                PROVE  \A n \in FindRoot :
                         hash[n] = RootOf([i \in LeafIndexes |-> LeafAt(i)], NumberOfLeaves)
    BY DEF RootCommitsToLeaves
  <2>1. FindRoot = {Root} /\ Root \in stored
    <3>1. Root \in stored
      BY RootIsStored DEF IInv
    <3>2. TopOfPath \in stored /\ TopOfPath \in linked
      BY <3>1, RootFacts, LevelsAssumption DEF IInv, ShapeInv, Shape, OnPath
    <3>. QED
      BY <3>1, <3>2, RootIsFound DEF IInv
  <2>2. hash[Root] = Below(Root)
    BY <2>1, HashesCommit DEF IInv
  <2>3. NumberOfLeaves \in Nat /\ LeafIndexes = 0 .. NumberOfLeaves - 1
    BY LeafCount DEF IInv, ShapeInv
  <2>4. Below(Root) = [i \in 1 .. Capacity |-> LeafOr(i - 1)]
    <3>1. 2 ^ Levels = Capacity /\ Capacity \in Nat /\ 0 * Capacity = 0
      BY CapacityFacts DEF Capacity
    <3>. QED
      BY <3>1 DEF Below, Root
  <2>5. \A i \in 1 .. Capacity :
          LeafOr(i - 1) = IF i <= NumberOfLeaves
                            THEN [j \in LeafIndexes |-> LeafAt(j)][i - 1] ELSE Zero
    BY <2>3, CapacityFacts DEF LeafOr
  <2>. QED
    BY <2>1, <2>2, <2>4, <2>5 DEF RootOf
<1>. QED
  BY <1>1, <1>2, <1>3, RootInvariant, OrderInvariant, PTL DEF Spec

==============================================================================
