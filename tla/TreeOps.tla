------------------------------- MODULE TreeOps -------------------------------
(***************************************************************************)
(* The vocabulary of the Merkle tree of identity commitments that the      *)
(* server keeps in MongoDB: the addresses of its nodes, the hash, the      *)
(* seeded hashes of empty subtrees, and the root a client computes from    *)
(* the list of leaves.                                                     *)
(*                                                                         *)
(* A Poseidon hash is modelled by what it commits to: the hash of a        *)
(* subtree is the sequence of the leaf values below it, so the hash of a   *)
(* pair is the concatenation.  On two children of one level this is        *)
(* injective, which is collision resistance and nothing more.              *)
(***************************************************************************)
EXTENDS Integers, Sequences

CONSTANTS
  Levels,     \* merkleTreeLevels: edges between a leaf and the root
  Commitment, \* identity commitments
  Zero        \* zeroValue: the value of an empty or zeroed leaf

\* All but the first conjunct is plain arithmetic; it is stated because none
\* of the provers decides exponentiation.
ASSUME LevelsAssumption ==
  /\ Levels \in Nat \ {0}
  /\ \A level \in 0 .. Levels : 2 ^ level \in Nat \ {0}
  /\ \A level \in 0 .. Levels : 2 ^ level * 2 ^ (Levels - level) = 2 ^ Levels
  /\ \A level \in 0 .. Levels - 1 : 2 ^ (level + 1) = 2 * 2 ^ level
  /\ 2 ^ Levels > 1

ASSUME ZeroAssumption == Zero \notin Commitment

Capacity  == 2 ^ Levels
LeafIndex == 0 .. Capacity - 1
LeafValue == Commitment \cup {Zero}
HashValue == Seq(LeafValue)

\* The field siblingHash of a document that never had it set.
Unset == << >>

------------------------------------------------------------------------------
\* Hashes

Hash(left, right) == left \o right

\* zeros[level]: the hash of an empty subtree of that height.
zeros == [level \in 0 .. Levels - 1 |-> [i \in 1 .. 2 ^ level |-> Zero]]

------------------------------------------------------------------------------
\* Addresses: <<level, index>>, leaves at level 0, the root at <<Levels, 0>>

Node         == (0 .. Levels) \X LeafIndex
Root         == <<Levels, 0>>
IsLeft(n)    == n[2] % 2 = 0
ParentOf(n)  == <<n[1] + 1, n[2] \div 2>>
SiblingOf(n) == <<n[1], IF IsLeft(n) THEN n[2] + 1 ELSE n[2] - 1>>
LeftOf(p)    == <<p[1] - 1, 2 * p[2]>>
RightOf(p)   == <<p[1] - 1, 2 * p[2] + 1>>

\* The parent hash of a node from its own hash and that of its sibling, in
\* the order of the two children.
HashUp_unordered(n, own, sibling) == Hash(own, sibling)   \* mutant

HashUp(n, own, sibling) ==
  IF IsLeft(n) THEN Hash(own, sibling) ELSE Hash(sibling, own)

------------------------------------------------------------------------------
\* The reference: the root of the tree whose leaves are leaf[0], ...,
\* leaf[count - 1], the rest being empty.

RootOf(leaf, count) ==
  [i \in 1 .. Capacity |-> IF i <= count THEN leaf[i - 1] ELSE Zero]

==============================================================================
