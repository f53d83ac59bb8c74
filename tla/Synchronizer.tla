---------------------------- MODULE Synchronizer -----------------------------
(***************************************************************************)
(* SemaphoreSynchronizer: the timer that copies a Semaphore group into the *)
(* membership tree.                                                        *)
(*                                                                         *)
(* A run of syncCommitmentsFromSemaphore reads the Group document, fetches *)
(* the members, appends those that have no leaf, updates the document and  *)
(* publishes TREE_UPDATE.  Nothing keeps two runs apart: the interval does *)
(* not wait for the previous run, and every server node has a timer of its *)
(* own.  A fetch that fails returns an empty list.  The server may stop    *)
(* between any two awaits.                                                 *)
(*                                                                         *)
(* Members are told apart by their index in the group, so a list of them   *)
(* is its length.  Of the inner nodes of the tree only which there are is  *)
(* kept, for appendUsers throws when a neighbour has none: MerkleTree      *)
(* models the hashes.  It goes on where ServerStart ends, and is extended  *)
(* beside it: hence SInit, SNext and SSpec.                                *)
(***************************************************************************)
EXTENDS Integers, Sequences

CONSTANTS
  Run,         \* invocations of syncCommitmentsFromSemaphore at one time
  Depth,       \* merkleTreeLevels
  Capacity,    \* 2 ^ merkleTreeLevels
  NoGroup,     \* the Group document does not exist
  MaxMembers,  \* bound: length of the group
  MaxRestarts  \* bound: restarts of the server

ASSUME BoundsAssumption ==
  /\ Depth \in Nat \ {0} /\ Capacity \in Nat \ {0}
  /\ MaxMembers \in Nat /\ MaxRestarts \in Nat
ASSUME GroupAssumption == NoGroup \notin [size : Nat, number_of_leaves : Nat]

VARIABLES
  onNet,      \* Semaphore: the length of the group's list of members
  removed,    \* Semaphore: some member of it was replaced by the zero value
  groupInDb,  \* the Group document, or NoGroup
  leaves,     \* the leaf documents in the order they were created
  inner,      \* the documents of inner nodes: <<level, index>>
  announced,  \* was TREE_UPDATE published after the last change of the tree?
  run,        \* the invocations and their locals
  restarts,   \* history: restarts so far
  cut,        \* history: a restart came while a path was being linked
  alone       \* history: no two runs ever overlapped

net  == <<onNet, removed>>
past == <<restarts, cut, alone>>
svars == <<net, groupInDb, leaves, inner, announced, run, past>>

GroupRecord == [size : Nat, number_of_leaves : Nat]

\* key.indexInGroup + 1, key.index, the loop over the levels went to its end
Leaf == [slot : 1 .. MaxMembers, index : Nat, linked : BOOLEAN]

\* pc is the await the run is at; record the document it read; members is
\* numberOfLeaves; next and index are the loop variable and currentIndex of
\* appendUsers (index also the place of the leaf created last); level and pos
\* are those of currentNode; changed is tree_root_changed.
Idle == [pc |-> "idle", record |-> NoGroup, members |-> 0, next |-> 1,
         index |-> 0, level |-> 0, pos |-> 0, changed |-> FALSE]

HasLeaf(i) == \E k \in DOMAIN leaves : leaves[k].slot = i

\* findByLevelAndIndex
Present(level, pos) ==
  IF level = 0 THEN \E k \in DOMAIN leaves : leaves[k].index = pos
               ELSE <<level, pos>> \in inner

SInit ==
  /\ onNet = 0 /\ removed = FALSE /\ groupInDb = NoGroup
  /\ leaves = << >> /\ inner = {} /\ announced = TRUE
  /\ run = [r \in Run |-> Idle]
  /\ restarts = 0 /\ cut = FALSE /\ alone = TRUE

------------------------------------------------------------------------------
\* Around the synchroniser

Join ==
  /\ onNet < MaxMembers
  /\ onNet' = onNet + 1
  /\ UNCHANGED <<removed, groupInDb, leaves, inner, announced, run, past>>

\* A removed member becomes the zero value; the list keeps its length.
Leave ==
  /\ onNet > 0 /\ ~ removed
  /\ removed' = TRUE
  /\ UNCHANGED <<onNet, groupInDb, leaves, inner, announced, run, past>>

Linking(r) == run[r].pc \in {"parent", "save"}

\* The server stops, at work, and starts again.
Restart ==
  /\ restarts < MaxRestarts /\ \E r \in Run : run[r].pc # "idle"
  /\ restarts' = restarts + 1
  /\ cut' = (cut \/ \E r \in Run : Linking(r))
  /\ run' = [r \in Run |-> Idle]
  /\ UNCHANGED <<net, groupInDb, leaves, inner, announced, alone>>

------------------------------------------------------------------------------
\* One run of syncCommitmentsFromSemaphore

\* getGroups; the array it returns is used until the end of the run.
GetGroups(r) ==
  /\ run[r].pc = "idle"
  /\ run' = [run EXCEPT ![r].pc = "load", ![r].record = groupInDb]
  /\ alone' = (alone /\ \A q \in Run : run[q].pc = "idle")
  /\ UNCHANGED <<net, groupInDb, leaves, inner, announced, restarts, cut>>

\* Where a run goes once nothing is to be appended: removals are looked for if
\* the length of the list is not the size that was stored.
AfterAppend(r, count) ==
  IF run[r].record # NoGroup /\ count # run[r].record.size
    THEN "removed" ELSE "publish"

\* loadGroupMembers returned a list of that length.
Loaded_swapped(r, count) ==   \* mutant
  /\ run[r].pc = "load"
  /\ run' = [run EXCEPT
       ![r].members = count,
       ![r].pc = IF run[r].record = NoGroup THEN "append"
                 ELSE IF count < run[r].record.number_of_leaves THEN "append"
                 ELSE AfterAppend(r, count)]
  /\ UNCHANGED <<net, groupInDb, leaves, inner, announced, past>>

Loaded(r, count) ==
  /\ run[r].pc = "load"
  /\ run' = [run EXCEPT
       ![r].members = count,
       ![r].pc = IF run[r].record = NoGroup THEN "append"
                 ELSE IF count > run[r].record.number_of_leaves THEN "append"
                 ELSE AfterAppend(r, count)]
  /\ UNCHANGED <<net, groupInDb, leaves, inner, announced, past>>

LoadGroupMembers(r) == Loaded(r, onNet)

\* The request failed or timed out.
LoadNothing(r) == Loaded(r, 0)

\* The first member of the rest of the list whose slot has no leaf, or the end
\* of the list.
FirstMissing(r) ==
  CHOOSE n \in run[r].next .. run[r].members + 1 :
    /\ n <= run[r].members => ~ HasLeaf(n)
    /\ \A i \in run[r].next .. n - 1 : HasLeaf(i)

\* appendUsers: members whose slot has a leaf are skipped, be it a zeroed one;
\* the leaves are counted for the index of the next one.
AppendUsers(r) ==
  /\ run[r].pc = "append"
  /\ FirstMissing(r) <= run[r].members
  /\ Len(leaves) < Capacity
  /\ run' = [run EXCEPT ![r].pc = "create", ![r].next = FirstMissing(r),
                        ![r].index = Len(leaves)]
  /\ UNCHANGED <<net, groupInDb, leaves, inner, announced, past>>

UsersAppended(r) ==
  /\ run[r].pc = "append"
  /\ FirstMissing(r) > run[r].members
  /\ run' = [run EXCEPT ![r].pc = "appended", ![r].next = 1]
  /\ UNCHANGED <<net, groupInDb, leaves, inner, announced, past>>

\* "The tree is full" ends appendUsers; the synchroniser logs it and goes on
\* behind the try block.
TreeIsFull_ignored(r) ==   \* mutant
  /\ run[r].pc = "append" /\ Len(leaves) >= Capacity
  /\ run' = [run EXCEPT ![r].pc = "appended", ![r].next = 1]
  /\ UNCHANGED <<net, groupInDb, leaves, inner, announced, past>>

TreeIsFull(r) ==
  /\ run[r].pc = "append"
  /\ FirstMissing(r) <= run[r].members
  /\ Len(leaves) >= Capacity
  /\ run' = [run EXCEPT ![r].pc = AfterAppend(r, run[r].members), ![r].next = 1]
  /\ UNCHANGED <<net, groupInDb, leaves, inner, announced, past>>

CreateLeaf_sameIndex(r) ==   \* mutant
  /\ run[r].pc = "create"
  /\ leaves' = Append(leaves, [slot |-> run[r].next, index |-> run[r].next,
                               linked |-> FALSE])
  /\ announced' = FALSE
  /\ run' = [run EXCEPT ![r].pc = "parent", ![r].index = Len(leaves) + 1,
                        ![r].level = 0, ![r].pos = run[r].index]
  /\ UNCHANGED <<net, groupInDb, inner, past>>

CreateLeaf(r) ==
  /\ run[r].pc = "create"
  /\ leaves' = Append(leaves, [slot |-> run[r].next, index |-> run[r].index,
                               linked |-> FALSE])
  /\ announced' = FALSE
  /\ run' = [run EXCEPT ![r].pc = "parent", ![r].index = Len(leaves) + 1,
                        ![r].level = 0, ![r].pos = run[r].index]
  /\ UNCHANGED <<net, groupInDb, inner, past>>

\* One turn of the loop over the levels.  A node on the left gets the parent
\* there is or a new one; a node on the right needs its sibling and the parent
\* that the sibling was linked to.
ParentOf(r) == <<run[r].level + 1, run[r].pos \div 2>>

HasFamily(r) ==
  run[r].pos % 2 = 1 =>
    Present(run[r].level, run[r].pos - 1) /\ ParentOf(r) \in inner

FindParent(r) ==
  /\ run[r].pc = "parent" /\ HasFamily(r)
  /\ inner' = inner \cup {ParentOf(r)}
  /\ announced' = FALSE
  /\ run' = [run EXCEPT ![r].pc = "save"]
  /\ UNCHANGED <<net, groupInDb, leaves, past>>

\* Otherwise null is dereferenced: the error ends appendUsers as a full tree
\* does, and the leaf stays as it is.
PathBreaks(r) ==
  /\ run[r].pc = "parent" /\ ~ HasFamily(r)
  /\ run' = [run EXCEPT ![r].pc = AfterAppend(r, run[r].members), ![r].next = 1,
                        ![r].index = 0, ![r].level = 0, ![r].pos = 0]
  /\ UNCHANGED <<net, groupInDb, leaves, inner, announced, past>>

SaveNode(r) ==
  /\ run[r].pc = "save"
  /\ announced' = FALSE
  /\ IF run[r].level + 1 = Depth
       THEN /\ leaves' = [leaves EXCEPT ![run[r].index].linked = TRUE]
            /\ run' = [run EXCEPT ![r].pc = "append", ![r].next = run[r].next + 1,
                                  ![r].index = 0, ![r].level = 0, ![r].pos = 0]
       ELSE /\ leaves' = leaves
            /\ run' = [run EXCEPT ![r].pc = "parent", ![r].level = run[r].level + 1,
                                  ![r].pos = run[r].pos \div 2]
  /\ UNCHANGED <<net, groupInDb, inner, past>>

NewGroup(members) == [size |-> members, number_of_leaves |-> members]

\* After a first sync; refused by the unique group_id if another run was
\* faster, and then nothing is announced.
SaveGroup(r) ==
  /\ run[r].pc = "appended" /\ run[r].record = NoGroup
  /\ groupInDb' = IF groupInDb # NoGroup THEN groupInDb
       ELSE NewGroup(run[r].members)
  /\ run' = [run EXCEPT ![r].pc = "publish", ![r].changed = (groupInDb = NoGroup)]
  /\ UNCHANGED <<net, leaves, inner, announced, past>>

UpdateNumberOfLeaves_silent(r) ==   \* mutant
  /\ run[r].pc = "appended" /\ run[r].record # NoGroup
  /\ groupInDb' = [groupInDb EXCEPT !.number_of_leaves = run[r].members]
  /\ run' = [run EXCEPT ![r].pc = "publish"]
  /\ UNCHANGED <<net, leaves, inner, announced, past>>

UpdateNumberOfLeaves(r) ==
  /\ run[r].pc = "appended" /\ run[r].record # NoGroup
  /\ groupInDb' = [groupInDb EXCEPT !.number_of_leaves = run[r].members]
  /\ run' = [run EXCEPT ![r].pc = AfterAppend(r, run[r].members),
                        ![r].changed = TRUE]
  /\ UNCHANGED <<net, leaves, inner, announced, past>>

\* loadRemovedGroupMembers found nobody, or failed: removeUsersByIndexes has
\* nothing to do, and the size is updated.
UpdateSize(r) ==
  /\ run[r].pc = "removed"
  /\ groupInDb' = [groupInDb EXCEPT !.size = run[r].members]
  /\ run' = [run EXCEPT ![r].pc = "publish", ![r].changed = TRUE]
  /\ UNCHANGED <<net, leaves, inner, announced, past>>

\* It found somebody.  getRemovedMembersForGroup returns objects, not numbers;
\* no leaf has an object for its indexInGroup, so removeUsersByIndexes throws
\* at the first one.
RemoveUsers(r) ==
  /\ run[r].pc = "removed" /\ removed
  /\ run' = [run EXCEPT ![r].pc = "publish"]
  /\ UNCHANGED <<net, groupInDb, leaves, inner, announced, past>>

Publish(r) ==
  /\ run[r].pc = "publish"
  /\ announced' = (announced \/ run[r].changed)
  /\ run' = [run EXCEPT ![r] = Idle]
  /\ UNCHANGED <<net, groupInDb, leaves, inner, past>>

Step(r) ==
  \/ GetGroups(r) \/ LoadGroupMembers(r) \/ LoadNothing(r)
  \/ AppendUsers(r) \/ UsersAppended(r) \/ TreeIsFull(r)
  \/ CreateLeaf(r) \/ FindParent(r) \/ PathBreaks(r) \/ SaveNode(r)
  \/ SaveGroup(r) \/ UpdateNumberOfLeaves(r)
  \/ UpdateSize(r) \/ RemoveUsers(r) \/ Publish(r)

SNext == Join \/ Leave \/ Restart \/ \E r \in Run : Step(r)

SSpec == SInit /\ [][SNext]_svars

\* The timer fires, the database answers, and not every fetch fails.
SFairSpec ==
  SSpec /\ \A r \in Run : WF_svars(Step(r)) /\ SF_svars(LoadGroupMembers(r))

------------------------------------------------------------------------------
\* Properties

\* Types; in particular what the leaf documents and the group record hold.
STypeOK ==
  /\ onNet \in 0 .. MaxMembers /\ removed \in BOOLEAN
  /\ groupInDb \in GroupRecord \cup {NoGroup}
  /\ leaves \in Seq(Leaf) /\ announced \in BOOLEAN
  /\ inner \subseteq (1 .. Depth) \X Nat
  /\ run \in [Run -> [pc : {"idle", "load", "append", "create", "parent", "save",
                            "appended", "removed", "publish"},
                      record : GroupRecord \cup {NoGroup},
                      members : 0 .. MaxMembers, next : Nat \ {0},
                      index : Nat, level : 0 .. Depth - 1, pos : Nat,
                      changed : BOOLEAN]]
  /\ restarts \in 0 .. MaxRestarts /\ cut \in BOOLEAN /\ alone \in BOOLEAN

\* number_of_leaves decides whether members are appended at all, so a count
\* that is too high loses a member for good.  Whatever runs overlap, whatever
\* fetch fails and wherever the server stops, every member it counts has a
\* leaf.
NobodyIsLost ==
  groupInDb # NoGroup =>
    \A i \in 1 .. groupInDb.number_of_leaves : HasLeaf(i)

\* As long as no two runs overlap, the leaves are numbered without gap or
\* repetition and no member has two of them; and unless a restart came in the
\* middle of a path, only a leaf at work is without its path.  (After such a
\* restart, or with two runs at work, a leaf without inner nodes may stay
\* behind, and the path of its neighbour and of others breaks on it: no sync
\* mends them.)
LeavesInOrder ==
  alone =>
    /\ \A k \in DOMAIN leaves : leaves[k].index = k - 1
    /\ \A j, k \in DOMAIN leaves : leaves[j].slot = leaves[k].slot => j = k
    /\ ~ cut =>
         \A k \in DOMAIN leaves :
           leaves[k].linked \/ \E r \in Run : Linking(r) /\ run[r].index = k

\* When the synchroniser rests, its last change of the tree was announced,
\* unless a restart or a full tree cut a run short or two runs overlapped.
AllAnnounced ==
  (alone /\ restarts = 0 /\ onNet <= Capacity /\ \A r \in Run : run[r].pc = "idle")
    => announced

\* The tree catches up with the group again and again, in spite of failed
\* fetches, overlaps, restarts and broken paths, as long as there is room:
\* every member gets a leaf.  It gets the path too, which is what lets it in,
\* as long as no two runs overlapped and no restart came in the middle of one.
JoinedEventually ==
  []<>(\/ Len(leaves) >= Capacity
       \/ \A i \in 1 .. onNet :
            \E k \in DOMAIN leaves :
              leaves[k].slot = i /\ (alone /\ ~ cut => leaves[k].linked))

==============================================================================
