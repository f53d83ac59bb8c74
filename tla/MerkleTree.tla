----------------------------- MODULE MerkleTree ------------------------------
(***************************************************************************)
(* UserService and the MerkleTreeNode collection: appendUsers,             *)
(* removeUsersByIndexes and updateUser, one action per iteration of their  *)
(* loops.  One call runs at a time; between two iterations anybody may     *)
(* read the collection (getRoot, getLeaves).                               *)
(***************************************************************************)
EXTENDS TreeOps, FiniteSets

CONSTANTS
  Slot,       \* (groupId, index in the group): the identity of a group member
  NoSlot,     \* the slot of a leaf that does not exist
  User,       \* what the group lists hand to appendUsers: [slot, commitment]
  MaxBatch,   \* bound: users or indexes in one call
  MaxUpdates  \* bound: calls of updateUser

ASSUME SlotAssumption ==
  /\ NoSlot \notin Slot
  /\ User \subseteq [slot : Slot, commitment : LeafValue]

ASSUME BoundAssumption == MaxBatch \in Nat /\ MaxUpdates \in Nat

VARIABLES
  stored,       \* addresses of the documents of the collection
  before,       \* those that were there when each of them was inserted
  hash,         \* their hash ...
  siblingHash,  \* ... siblingHash ...
  linked,       \* ... and those whose parent reference is set
  slotOf,       \* (groupId, indexInGroup) in the key of every leaf
  pc,           \* the loop the running call is in
  todo,         \* what that call has still to go through
  cur,          \* currentNode of appendUsers, node of updateUser
  updates       \* how many times updateUser changed a leaf (history)

vars ==
  <<stored, before, hash, siblingHash, linked, slotOf, pc, todo, cur, updates>>

------------------------------------------------------------------------------
\* Queries

LeafIndexes    == {i \in LeafIndex : <<0, i>> \in stored}
LeafAt(i)      == hash[<<0, i>>][1]

NumberOfLeaves_live == Cardinality({i \in LeafIndexes : LeafAt(i) # Zero})   \* mutant
NumberOfLeaves      == Cardinality(LeafIndexes)

IsFull          == NumberOfLeaves >= Capacity

\* findLeafByGroupIdAndIndexInGroup and findLeafByHash return the first
\* match in insertion order, which is index order; none gives the empty set.
LeavesOfSlot_live(slot) ==   \* mutant: zeroed leaves are not found
  {i \in LeafIndexes : slotOf[i] = slot /\ LeafAt(i) # Zero}
LeavesOfSlot(slot) == {i \in LeafIndexes : slotOf[i] = slot}
FindLeafBySlot(slot) ==
  {i \in LeavesOfSlot(slot) : \A j \in LeavesOfSlot(slot) : i <= j}

LeavesOfHash(h) == {i \in LeafIndexes : hash[<<0, i>>] = h}
FindLeafByHash(h) ==
  {i \in LeavesOfHash(h) : \A j \in LeavesOfHash(h) : i <= j}

\* findRoot: findOne returns the first document without a parent in the order
\* of insertion, whatever its level.
Parentless == stored \ linked
FindRoot_newest ==   \* mutant: the last one
  {n \in Parentless : \A m \in Parentless \ {n} : m \in before[n]}
FindRoot   == {n \in Parentless : \A m \in Parentless \ {n} : n \in before[m]}

------------------------------------------------------------------------------
Init ==
  /\ stored = {}
  /\ before = [n \in Node |-> {}]
  /\ hash = [n \in Node |-> Unset]
  /\ siblingHash = [n \in Node |-> Unset]
  /\ linked = {}
  /\ slotOf = [i \in LeafIndex |-> NoSlot]
  /\ pc = "idle"
  /\ todo = << >>
  /\ cur = Root
  /\ updates = 0

\* Where a loop goes when it is done with one element of its batch.
NextOf_returns(loop, rest) == "idle"   \* mutant: return for continue
NextOf(loop, rest) == IF rest = << >> THEN "idle" ELSE loop

unchangedTree ==
  <<stored, before, hash, siblingHash, linked, slotOf, cur, updates>>

\* A new document: it is younger than all that are stored.
Insert(n, h) ==
  /\ stored' = stored \cup {n}
  /\ before' = [before EXCEPT ![n] = stored]
  /\ hash' = [hash EXCEPT ![n] = h]

------------------------------------------------------------------------------
\* appendUsers

AppendUsers(users) ==
  /\ pc = "idle"
  /\ pc' = "appendUsers"
  /\ todo' = users
  /\ UNCHANGED unchangedTree

\* The slot was added before, perhaps with a leaf that was zeroed since.
SkipUser ==
  /\ pc = "appendUsers"
  /\ FindLeafBySlot(Head(todo).slot) # {}
  /\ todo' = Tail(todo)
  /\ pc' = NextOf("appendUsers", Tail(todo))
  /\ UNCHANGED unchangedTree

\* throw "The tree is full"
TreeFull ==
  /\ pc = "appendUsers"
  /\ FindLeafBySlot(Head(todo).slot) = {}
  /\ IsFull
  /\ todo' = << >>
  /\ pc' = "idle"
  /\ UNCHANGED unchangedTree

CreateLeaf ==
  LET user == Head(todo)
      leaf == <<0, NumberOfLeaves>>
  IN
  /\ pc = "appendUsers"
  /\ FindLeafBySlot(user.slot) = {}
  /\ ~IsFull
  /\ Insert(leaf, <<user.commitment>>)
  /\ slotOf' = [slotOf EXCEPT ![NumberOfLeaves] = user.slot]
  /\ cur' = leaf
  /\ pc' = "appendPath"
  /\ todo' = Tail(todo)
  /\ UNCHANGED <<siblingHash, linked, updates>>

\* The iteration for an even index: the right sibling is empty.  A parent that
\* does not exist is created, and until the node is saved with its reference
\* (LinkLeft) the collection holds two documents without a parent.
CreateParent ==
  LET parent == ParentOf(cur) IN
  /\ pc = "appendPath"
  /\ cur[1] < Levels
  /\ IsLeft(cur)
  /\ parent \notin stored
  /\ Insert(parent, Hash(hash[cur], zeros[cur[1]]))
  /\ pc' = "linkPath"
  /\ UNCHANGED <<siblingHash, linked, slotOf, todo, cur, updates>>

LinkLeft ==
  /\ pc = "linkPath"
  /\ siblingHash' = [siblingHash EXCEPT ![cur] = zeros[cur[1]]]
  /\ linked' = linked \cup {cur}
  /\ cur' = ParentOf(cur)
  /\ pc' = "appendPath"
  /\ UNCHANGED <<stored, before, hash, slotOf, todo, updates>>

\* The parent is there: it gets its new hash.
AppendLeft ==
  LET parent == ParentOf(cur) IN
  /\ pc = "appendPath"
  /\ cur[1] < Levels
  /\ IsLeft(cur)
  /\ parent \in stored
  /\ siblingHash' = [siblingHash EXCEPT ![cur] = zeros[cur[1]]]
  /\ hash' = [hash EXCEPT ![parent] = Hash(hash[cur], zeros[cur[1]])]
  /\ linked' = linked \cup {cur}
  /\ cur' = parent
  /\ UNCHANGED <<stored, before, slotOf, pc, todo, updates>>

\* The iteration for an odd index: both siblings learn each other's hash.
AppendRight_siblingNotSaved ==   \* mutant
  LET parent  == ParentOf(cur)
      sibling == SiblingOf(cur)
  IN
  /\ pc = "appendPath"
  /\ cur[1] < Levels
  /\ ~IsLeft(cur)
  /\ siblingHash' = [siblingHash EXCEPT ![cur] = hash[sibling]]
  /\ hash' = [hash EXCEPT ![parent] = Hash(hash[sibling], hash[cur])]
  /\ linked' = linked \cup {cur}
  /\ cur' = parent
  /\ UNCHANGED <<stored, before, slotOf, pc, todo, updates>>

AppendRight ==
  LET parent  == ParentOf(cur)
      sibling == SiblingOf(cur)
  IN
  /\ pc = "appendPath"
  /\ cur[1] < Levels
  /\ ~IsLeft(cur)
  /\ siblingHash' = [siblingHash EXCEPT ![cur] = hash[sibling],
                                        ![sibling] = hash[cur]]
  /\ hash' = [hash EXCEPT ![parent] = Hash(hash[sibling], hash[cur])]
  /\ linked' = linked \cup {cur}
  /\ cur' = parent
  /\ UNCHANGED <<stored, before, slotOf, pc, todo, updates>>

UserAppended ==
  /\ pc = "appendPath"
  /\ cur[1] = Levels
  /\ pc' = NextOf("appendUsers", todo)
  /\ UNCHANGED
       <<stored, before, hash, siblingHash, linked, slotOf, todo, cur, updates>>

------------------------------------------------------------------------------
\* updateUser, called for a banned member and for every removed index

ZeroLeaf(i) ==
  /\ updates < MaxUpdates
  /\ updates' = updates + 1
  /\ hash' = [hash EXCEPT ![<<0, i>>] = <<Zero>>]
  /\ cur' = <<0, i>>
  /\ pc' = "updatePath"
  /\ UNCHANGED <<stored, before, siblingHash, linked, slotOf>>

BanMember(commitment) ==
  /\ pc = "idle"
  /\ \E i \in FindLeafByHash(<<commitment>>) : ZeroLeaf(i)
  /\ UNCHANGED todo

\* One turn of the while loop.  The sibling is the one this document
\* remembers; the document of the sibling is neither read nor written.
UpdateLevel ==
  LET parent == ParentOf(cur) IN
  /\ pc = "updatePath"
  /\ cur \in linked
  /\ hash' = [hash EXCEPT ![parent] = HashUp(cur, hash[cur], siblingHash[cur])]
  /\ cur' = parent
  /\ UNCHANGED <<stored, before, siblingHash, linked, slotOf, pc, todo, updates>>

UserUpdated ==
  /\ pc = "updatePath"
  /\ cur \notin linked
  /\ pc' = NextOf("removeUsers", todo)
  /\ UNCHANGED
       <<stored, before, hash, siblingHash, linked, slotOf, todo, cur, updates>>

------------------------------------------------------------------------------
\* removeUsersByIndexes

RemoveUsersByIndexes(slots) ==
  /\ pc = "idle"
  /\ pc' = "removeUsers"
  /\ todo' = slots
  /\ UNCHANGED unchangedTree

\* The leaf is found by its slot and then looked up again by its hash.
RemoveIndex ==
  /\ pc = "removeUsers"
  /\ \E i \in FindLeafBySlot(Head(todo)) :
       \E j \in FindLeafByHash(hash[<<0, i>>]) : ZeroLeaf(j)
  /\ todo' = Tail(todo)

\* throw "The node with the given index does not exist"
RemoveUnknown ==
  /\ pc = "removeUsers"
  /\ FindLeafBySlot(Head(todo)) = {}
  /\ todo' = << >>
  /\ pc' = "idle"
  /\ UNCHANGED unchangedTree

------------------------------------------------------------------------------
Batches(S) == UNION {[1 .. n -> S] : n \in 1 .. MaxBatch}

Loop ==
  \/ SkipUser
  \/ TreeFull
  \/ CreateLeaf
  \/ CreateParent
  \/ LinkLeft
  \/ AppendLeft
  \/ AppendRight
  \/ UserAppended
  \/ UpdateLevel
  \/ UserUpdated
  \/ RemoveIndex
  \/ RemoveUnknown

Call ==
  \/ \E users \in Batches(User) : AppendUsers(users)
  \/ /\ updates + MaxBatch <= MaxUpdates
     /\ \E slots \in Batches(Slot) : RemoveUsersByIndexes(slots)
  \/ \E commitment \in Commitment : BanMember(commitment)

Next == Loop \/ Call

Spec     == Init /\ [][Next]_vars
FairSpec == Spec /\ WF_vars(Loop)

------------------------------------------------------------------------------
\* Properties

TypeOK ==
  /\ stored \subseteq Node
  /\ before \in [Node -> SUBSET Node]
  /\ hash \in [Node -> HashValue]
  /\ siblingHash \in [Node -> HashValue]
  /\ linked \subseteq stored
  /\ slotOf \in [LeafIndex -> Slot \cup {NoSlot}]
  /\ pc \in {"idle", "appendUsers", "appendPath", "linkPath", "removeUsers", "updatePath"}
  /\ todo \in Seq(User) \cup Seq(Slot)
  /\ cur \in Node
  /\ updates \in 0 .. MaxUpdates

OnPath == pc \in {"appendPath", "linkPath", "updatePath"}

\* The hash of an address: the document's, or that of an empty subtree.
HashAt(n) == IF n \in stored THEN hash[n] ELSE zeros[n[1]]

\* Between two calls, and between two elements of a batch, the hash of every
\* inner node is the hash of its two children, as long as updateUser has
\* zeroed at most one leaf: appendUsers always reads the sibling itself, and
\* the first updateUser finds every remembered siblingHash up to date.
NodesConsistent ==
  updates <= 1 /\ ~OnPath =>
    \A p \in stored :
      p[1] > 0 => hash[p] = Hash(HashAt(LeftOf(p)), HashAt(RightOf(p)))

\* What a client needs of GET root and GET leaves: under the same condition
\* the root document commits to exactly the list of leaves, so the proof the
\* client computes from the leaves is one against the server's root.
RootCommitsToLeaves ==
  updates <= 1 /\ ~OnPath /\ stored # {} =>
    \A n \in FindRoot :
      hash[n] = RootOf([i \in LeafIndexes |-> LeafAt(i)], NumberOfLeaves)

\* While the first path is built findRoot returns the lower of its two
\* documents without a parent, the older one.  Once the top of that path is
\* linked it returns the root for good: whatever appendUsers has created and
\* not yet linked is younger, and no document ever loses its parent.
OneRoot == <<Levels - 1, 0>> \in linked => FindRoot = {Root}

\* A group member has at most one leaf, however often its group is synced
\* and whether or not its leaf was zeroed in between.
OneLeafPerSlot ==
  \A i, j \in LeafIndexes : slotOf[i] = slotOf[j] => i = j

\* The collection implements the append-only list of members.
Members == INSTANCE MemberList WITH
  Value    <- LeafValue,
  members  <- [i \in 1 .. NumberOfLeaves |-> LeafAt(i - 1)]

ImplementsMemberList == Members!Spec

\* Every user of an appendUsers call gets its leaf, unless the tree is full.
AppendedEventually ==
  \A user \in User :
    pc = "appendUsers" /\ (\E k \in DOMAIN todo : todo[k] = user)
      ~> (LeavesOfSlot(user.slot) # {} \/ NumberOfLeaves = Capacity)

\* The comment of the handler that zeroes a leaf, taken at its word: it sets
\* the leaf to 0 and recalculates the tree, however many leaves were zeroed.
TreeIsRecalculated ==
  ~OnPath /\ stored # {} =>
    \A n \in FindRoot :
      hash[n] = RootOf([i \in LeafIndexes |-> LeafAt(i)], NumberOfLeaves)

==============================================================================
