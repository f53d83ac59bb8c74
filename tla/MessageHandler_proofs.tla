------------------------ MODULE MessageHandler_proofs ------------------------
(***************************************************************************)
(* What is proved of MessageHandler for every tree, every set of members,  *)
(* every threshold and any number of concurrent handlers.                  *)
(***************************************************************************)
EXTENDS MessageHandler, FiniteSetTheorems, SequenceTheorems, TLAPS

------------------------------------------------------------------------------
(* The inductive invariants.                                               *)

BanSteps == {"saveBanned", "updateUser", "updateParent", "announce"}

\* What a handler holds at each of its steps.
HandlerInv ==
  \A h \in Handler :
    /\ pc[h] # "idle" => msg[h] \in received
    /\ pc[h] \in BanSteps => culprit[h] \in Member
    /\ pc[h] = "updateParent" => node[h] # Root

TypeInv == TypeOK /\ HandlerInv

\* The handlers that work on a message of this member for this epoch.
At(steps, nf, e) ==
  {h \in Handler : pc[h] \in steps /\ nullifier(msg[h]) = nf /\ msg[h].epoch = e}

\* Posted, not charged yet; and past the spam check, not charged yet.
Charging(nf, e) == At({"saveMessage"}, nf, e)
Passed(nf, e)   == At({"persistMessage", "saveMessage"}, nf, e)

\* The messages a member has been charged for.
Charged(nf, e) == Len(requestStats[nf][e])

\* What restarts may have left uncharged.
Lost == crashes * Cardinality(Handler)

\* What was posted is charged, or about to be, or was lost in a restart; what
\* is charged or about to be got past the spam check.
LimitInv ==
  \A nf \in Nullifier, e \in Epoch :
    /\ posted[nf][e] <= Charged(nf, e) + Cardinality(Charging(nf, e)) + Lost
    /\ Charged(nf, e) + Cardinality(Passed(nf, e))
         <= Threshold - 1 + Cardinality(Handler)

\* A message on its way to the channel was posted, then charged.
ChargeInv ==
  /\ \A h \in Handler :
       /\ pc[h] \in {"saveMessage", "publish"} =>
            posted[nullifier(msg[h])][msg[h].epoch] > 0
       /\ pc[h] = "publish" => isDuplicateRequest(msg[h])
  /\ BroadcastIsCharged

\* Messages that arrive once are charged once.
OnceInv ==
  /\ \A m, n \in sent :
       nullifier(m) = nullifier(n) /\ m.epoch = n.epoch /\ shareOf(m) = shareOf(n) => m = n
  /\ \A g, h \in Handler :
       g # h /\ pc[g] # "idle" /\ pc[h] # "idle" => msg[g] # msg[h]
  /\ \A h \in Handler :
       pc[h] \notin {"idle", "publish"} => ~isDuplicateRequest(msg[h])
  /\ \A nf \in Nullifier, e \in Epoch :
       /\ \A k \in DOMAIN requestStats[nf][e] :
            \E m \in received :
              nullifier(m) = nf /\ m.epoch = e /\ shareOf(m) = requestStats[nf][e][k]
       /\ \A k, l \in DOMAIN requestStats[nf][e] :
            requestStats[nf][e][k] = requestStats[nf][e][l] => k = l

Spammer(s) == \E p, e \in Epoch : Cardinality(SentBy(<<s, p>>, e)) > Threshold

\* The handler works on the ban of a member, not of a secret nobody has.
Suspects(h) == pc[h] \in BanSteps \cup {"findLeaf"} /\ culprit[h] \in Member

\* Whoever a handler is about to ban has exceeded the limit.
SpamInv ==
  /\ IsFiniteSet(sent)
  /\ \A h \in Handler :
       /\ pc[h] = "getRequestStats" => Len(StatsOf(msg[h])) >= Threshold
       /\ Suspects(h) => Spammer(culprit[h])
  /\ OnlySpammersBanned

------------------------------------------------------------------------------
(* The tree.                                                               *)

\* The powers of two at the level of a node.
LEMMA Powers ==
  ASSUME NEW l \in 0 .. Levels
  PROVE  /\ 2 ^ l \in Nat \ {0}
         /\ 2 ^ (Levels - l) \in Nat \ {0}
         /\ 2 ^ (Levels - l) * 2 ^ l = Capacity
         /\ l < Levels => 2 ^ (Levels - l) = 2 * 2 ^ (Levels - (l + 1))
<1>1. Levels \in Nat /\ l \in Nat /\ Levels - l \in 0 .. Levels
  BY LevelsAssumption
<1>2. 2 ^ l \in Nat \ {0} /\ 2 ^ (Levels - l) \in Nat \ {0}
  BY <1>1, LevelsAssumption
<1>3. 2 ^ l * 2 ^ (Levels - l) = Capacity
  BY LevelsAssumption DEF Capacity
<1>4. 2 ^ (Levels - l) * 2 ^ l = Capacity
  BY <1>2, <1>3
<1>5. ASSUME l < Levels PROVE 2 ^ (Levels - l) = 2 * 2 ^ (Levels - (l + 1))
  <2>1. Levels - (l + 1) \in 0 .. Levels - 1
    BY <1>1, <1>5
  <2>2. 2 ^ ((Levels - (l + 1)) + 1) = 2 * 2 ^ (Levels - (l + 1))
    BY <2>1, LevelsAssumption
  <2>3. (Levels - (l + 1)) + 1 = Levels - l
    BY <1>1
  <2> QED BY <2>2, <2>3
<1> QED BY <1>2, <1>4, <1>5

LEMMA NodeIsPair ==
  ASSUME NEW n \in TreeNode
  PROVE  \E l \in 0 .. Levels, i \in LeafIndex :
           n = <<l, i>> /\ i < 2 ^ (Levels - l)
BY DEF TreeNode, Node

LEMMA CapacityFacts == Capacity \in Nat /\ Capacity > 1
BY LevelsAssumption DEF Capacity

\* The leaves below a node of the tree are leaves.
LEMMA LeafBelow ==
  ASSUME NEW A \in Nat \ {0}, NEW B \in Nat \ {0}, NEW i \in Nat, i < A,
         NEW k \in 1 .. B
  PROVE  i * B + k - 1 \in 0 .. A * B - 1
<1>1. i * B \in Nat /\ A * B \in Nat
  OBVIOUS
<1>2. (A - 1 - i) * B \in Nat
  BY A - 1 - i \in Nat
<1>3. (A - 1 - i) * B = A * B - B - i * B
  OBVIOUS
<1> QED BY <1>1, <1>2, <1>3

LEMMA LeavesType == \A zeroed : Leaves(zeroed) \in [LeafIndex -> LeafValue]
BY MemberAssumption DEF Leaves, LeafValue

LEMMA SubtreeHashType ==
  ASSUME NEW leaf \in [LeafIndex -> LeafValue], NEW n \in TreeNode
  PROVE  SubtreeHash(leaf, n) \in HashValue
<1>1. PICK l \in 0 .. Levels, i \in LeafIndex :
        n = <<l, i>> /\ i < 2 ^ (Levels - l)
  BY NodeIsPair
<1>2. 2 ^ l \in Nat \ {0} /\ 2 ^ (Levels - l) \in Nat \ {0}
      /\ 2 ^ (Levels - l) * 2 ^ l = Capacity
  BY Powers
<1>3. i \in Nat
  BY CapacityFacts DEF LeafIndex
<1>4. ASSUME NEW k \in 1 .. 2 ^ l
      PROVE  leaf[i * 2 ^ l + k - 1] \in LeafValue
  <2>1. i * 2 ^ l + k - 1 \in LeafIndex
    BY <1>1, <1>2, <1>3, LeafBelow DEF LeafIndex
  <2> QED BY <2>1
<1>5. [k \in 1 .. 2 ^ l |-> leaf[i * 2 ^ l + k - 1]] \in Seq(LeafValue)
  BY <1>2, <1>4, IsASeq
<1> QED BY <1>1, <1>5 DEF SubtreeHash, HashValue

LEMMA FamilyOfNode ==
  ASSUME NEW n \in TreeNode, n # Root
  PROVE  ParentOf(n) \in TreeNode /\ SiblingOf(n) \in TreeNode
<1>1. PICK l \in 0 .. Levels, i \in LeafIndex :
        n = <<l, i>> /\ i < 2 ^ (Levels - l)
  BY NodeIsPair
<1>2. i \in Nat /\ l \in Nat /\ Levels \in Nat /\ i <= Capacity - 1
  BY CapacityFacts, LevelsAssumption DEF LeafIndex
<1>3. l < Levels
  <2>1. SUFFICES ASSUME l = Levels PROVE FALSE
    BY <1>2
  <2>2. 2 ^ (Levels - l) = 1
    <3>1. 2 ^ (Levels - l) * 2 ^ l = Capacity /\ 2 ^ l = Capacity
      BY <2>1, Powers DEF Capacity
    <3>2. 2 ^ (Levels - l) \in Nat
      BY Powers
    <3> QED BY <3>1, <3>2, CapacityFacts
  <2> QED BY <1>1, <1>2, <2>1, <2>2 DEF Root
<1>4. PICK half \in Nat \ {0} :
        2 ^ (Levels - l) = 2 * half /\ half = 2 ^ (Levels - (l + 1))
  <2>1. l + 1 \in 0 .. Levels
    BY <1>2, <1>3
  <2> QED BY <1>3, <2>1, Powers
<1>5. 2 * half <= Capacity
  <2>1. 2 ^ (Levels - l) * 2 ^ l = Capacity /\ 2 ^ l \in Nat \ {0}
    BY Powers
  <2>2. (2 * half) * (2 ^ l - 1) >= 0
    BY <2>1
  <2>3. (2 * half) * (2 ^ l - 1) = Capacity - 2 * half
    BY <2>1, <1>4
  <2> QED BY <2>2, <2>3, CapacityFacts
<1>6. i \div 2 \in Nat /\ i \div 2 <= i /\ i \div 2 < half
  BY <1>1, <1>2, <1>4
<1>7. ParentOf(n) \in TreeNode
  <2>1. ParentOf(n) = <<l + 1, i \div 2>> /\ l + 1 \in 0 .. Levels
    BY <1>1, <1>2, <1>3 DEF ParentOf
  <2> QED BY <2>1, <1>2, <1>4, <1>6, CapacityFacts DEF TreeNode, Node, LeafIndex
<1>8. SiblingOf(n) \in TreeNode
  <2>1. CASE i % 2 = 0
    <3>1. SiblingOf(n) = <<l, i + 1>>
      BY <1>1, <2>1 DEF SiblingOf, IsLeft
    <3>2. i + 1 < 2 * half
      BY <1>1, <1>2, <1>4, <2>1
    <3> QED BY <3>1, <3>2, <1>2, <1>4, <1>5, CapacityFacts
            DEF TreeNode, Node, LeafIndex
  <2>2. CASE i % 2 # 0
    <3>1. SiblingOf(n) = <<l, i - 1>>
      BY <1>1, <2>2 DEF SiblingOf, IsLeft
    <3>2. i - 1 \in Nat /\ i - 1 < 2 * half
      BY <1>1, <1>2, <1>4, <2>2
    <3> QED BY <3>1, <3>2, <1>2, <1>4, <1>5, CapacityFacts
            DEF TreeNode, Node, LeafIndex
  <2> QED BY <2>1, <2>2
<1> QED BY <1>7, <1>8

LEMMA LeafIsNode == \A i \in LeafIndex : <<0, i>> \in TreeNode /\ <<0, i>> # Root
BY LevelsAssumption DEF TreeNode, Node, Root, LeafIndex, Capacity

LEMMA RootIsNode == Root \in TreeNode
<1>1. 2 ^ (Levels - Levels) \in Nat \ {0} /\ Levels \in 0 .. Levels
  BY LevelsAssumption, Powers
<1> QED BY <1>1, CapacityFacts DEF TreeNode, Node, Root, LeafIndex

LEMMA HashUpType ==
  ASSUME NEW n, NEW own \in HashValue, NEW sibling \in HashValue
  PROVE  HashUp(n, own, sibling) \in HashValue
BY DEF HashUp, Hash, HashValue

------------------------------------------------------------------------------
(* Types.                                                                  *)

LEMMA SiblingHashType ==
  \A n \in TreeNode \ {Root} : siblingHash[n] \in HashValue
BY LeavesType, FamilyOfNode, SubtreeHashType DEF siblingHash

LEMMA MessageFields ==
  ASSUME NEW m \in Message
  PROVE  /\ m.sender \in Member /\ m.epoch \in Epoch /\ m.proofEpoch \in Epoch
         /\ nullifier(m) = <<m.sender, m.proofEpoch>> /\ nullifier(m) \in Nullifier
         /\ shareOf(m) = <<m.share, m.fits>> /\ shareOf(m) \in Share
BY DEF Message, nullifier, shareOf, Nullifier, Share

\* What the helpers of the handlers leave of the handlers' variables.
LEMMA ReturnType ==
  ASSUME TypeInv, NEW h \in Handler, Return(h)
  PROVE  /\ pc' = [pc EXCEPT ![h] = "idle"] /\ pc' \in [Handler -> Steps]
         /\ msg' \in [Handler -> sent \cup {Idle}]
         /\ culprit' \in [Handler -> Member \cup {Stranger, Idle}]
         /\ node' \in [Handler -> TreeNode]
         /\ nodeHash' \in [Handler -> HashValue]
         /\ \A g \in Handler \ {h} :
              /\ pc'[g] = pc[g] /\ msg'[g] = msg[g]
              /\ culprit'[g] = culprit[g] /\ node'[g] = node[g]
         /\ pc'[h] = "idle"
BY RootIsNode DEF TypeInv, TypeOK, Return, Steps, Unset, HashValue

LEMMA GoToType ==
  ASSUME TypeInv, NEW h \in Handler, NEW step \in Steps, GoTo(h, step)
  PROVE  /\ pc' = [pc EXCEPT ![h] = step] /\ pc' \in [Handler -> Steps]
         /\ UNCHANGED <<msg, culprit, node, nodeHash>>
BY DEF TypeInv, TypeOK, GoTo

LEMMA InitType == Init => TypeInv
<1> SUFFICES ASSUME Init PROVE TypeInv
  OBVIOUS
<1>1. hash \in [TreeNode -> HashValue] /\ announced \in HashValue
  <2>1. Leaves({}) \in [LeafIndex -> LeafValue]
    BY LeavesType
  <2>2. hash \in [TreeNode -> HashValue]
    BY <2>1, SubtreeHashType DEF Init
  <2>3. ClientRoot({}) \in HashValue
    <3>1. RootOf(Leaves({}), Capacity) \in Seq(LeafValue)
      <4>1. ASSUME NEW k \in 1 .. Capacity
            PROVE  (IF k <= Capacity THEN Leaves({})[k - 1] ELSE Zero) \in LeafValue
        BY <2>1, CapacityFacts DEF LeafIndex
      <4> QED BY <4>1, CapacityFacts, IsASeq DEF RootOf
    <3> QED BY <3>1 DEF ClientRoot, HashValue
  <2> QED BY <2>2, <2>3 DEF Init
<1>2. requestStats \in [Nullifier -> [Epoch -> Seq(Share)]]
      /\ posted \in [Nullifier -> [Epoch -> Nat]]
  BY DEF Init
<1>3. node \in [Handler -> TreeNode] /\ nodeHash \in [Handler -> HashValue]
  BY RootIsNode DEF Init, Unset, HashValue
<1>4. clock \in Epoch /\ crashes \in 0 .. MaxCrashes
  BY ConfigAssumption DEF Init, Epoch
<1> QED BY <1>1, <1>2, <1>3, <1>4 DEF Init, TypeInv, TypeOK, HandlerInv, Steps, BanSteps

LEMMA NextType == TypeInv /\ [Next]_vars => TypeInv'
<1> SUFFICES ASSUME TypeInv, [Next]_vars PROVE TypeInv'
  OBVIOUS
<1> USE DEF TypeInv
<1>1. CASE Tick
  BY <1>1, ConfigAssumption
  DEF Tick, TypeOK, HandlerInv, Epoch, handlers, database, channel, StatsOf
<1>2. ASSUME NEW s \in Member, NEW e \in Epoch, NEW p \in Epoch,
             NEW fits \in BOOLEAN, Send(s, e, p, fits)
      PROVE  TypeInv'
  <2>1. PICK x \in Signal, zeroed \in SUBSET Member :
          sent' = sent \cup
            {[sender |-> s, epoch |-> e, proofEpoch |-> p, share |-> x, fits |-> fits,
              root |-> ClientRoot(zeroed)]}
    BY <1>2 DEF Send, Zeroed
  <2>2. sent' \subseteq Message
    <3> HIDE DEF ClientRoot
    <3> QED BY <2>1 DEF Message, TypeOK
  <2>3. received' \subseteq sent' /\ msg' \in [Handler -> sent' \cup {Idle}]
    BY <1>2, <2>1 DEF Send, TypeOK, handlers
  <2> QED BY <1>2, <2>2, <2>3
          DEF Send, TypeOK, HandlerInv, handlers, database, channel
<1>3. CASE Crash
  BY <1>3, RootIsNode, ConfigAssumption
  DEF Crash, TypeOK, HandlerInv, database, channel, Steps, BanSteps, Unset, HashValue
<1>4. ASSUME NEW h \in Handler, NEW m \in sent, Receive(h, m)
      PROVE  TypeInv'
  <2>1. received' \subseteq sent' /\ received \subseteq received' /\ m \in received'
    BY <1>4 DEF Receive, TypeOK
  <2>2. CASE EpochValid(m)
    <3>1. /\ pc' = [pc EXCEPT ![h] = "isDuplicate"]
          /\ msg' = [msg EXCEPT ![h] = m]
      BY <1>4, <2>2 DEF Receive
    <3> QED BY <1>4, <2>1, <3>1
            DEF Receive, TypeOK, HandlerInv, database, channel, Steps, BanSteps
  <2>3. CASE ~EpochValid(m)
    <3>1. UNCHANGED <<pc, msg>>
      BY <1>4, <2>3 DEF Receive
    <3> QED BY <1>4, <2>1, <3>1
            DEF Receive, TypeOK, HandlerInv, database, channel, Steps, BanSteps
  <2> QED BY <2>2, <2>3
<1>5. ASSUME NEW h \in Handler, Step(h)
      PROVE  TypeInv'
  <2> USE DEF world, database, channel
  <2>1. CASE IsDuplicate(h)
    <3>1. CASE isDuplicateRequest(msg[h])
      BY <2>1, <3>1, ReturnType
      DEF IsDuplicate, TypeOK, HandlerInv, Steps, BanSteps
    <3>2. CASE ~isDuplicateRequest(msg[h])
      BY <2>1, <3>2, GoToType
      DEF IsDuplicate, TypeOK, HandlerInv, Steps, BanSteps
    <3> QED BY <3>1, <3>2
  <2>2. CASE GetRoot(h)
    BY <2>2, ReturnType, GoToType
    DEF GetRoot, TypeOK, HandlerInv, Steps, BanSteps
  <2>3. CASE IsSpam(h)
    BY <2>3, ReturnType, GoToType
    DEF IsSpam, TypeOK, HandlerInv, Steps, BanSteps
  <2>4. CASE GetRequestStats(h)
    <3>1. msg[h] \in received /\ msg[h].sender \in Member
      BY <2>4 DEF GetRequestStats, HandlerInv, TypeOK, Message
    <3>2. CASE Recoverable(Append(StatsOf(msg[h]), shareOf(msg[h])))
      BY <2>4, <3>1, <3>2
      DEF GetRequestStats, Recovered, TypeOK, HandlerInv, Steps, BanSteps
    <3>3. CASE ~Recoverable(Append(StatsOf(msg[h]), shareOf(msg[h])))
      BY <2>4, <3>3, ReturnType
      DEF GetRequestStats, TypeOK, HandlerInv, Steps, BanSteps
    <3> QED BY <3>2, <3>3
  <2>5. CASE FindLeaf(h)
    <3>1. CASE culprit[h] \in Member \ Zeroed
      <4>1. GoTo(h, "saveBanned")
        BY <2>5, <3>1 DEF FindLeaf
      <4> QED BY <2>5, <3>1, <4>1, GoToType
              DEF FindLeaf, TypeOK, HandlerInv, Steps, BanSteps
    <3>2. CASE culprit[h] \notin Member \ Zeroed
      BY <2>5, <3>2, ReturnType
      DEF FindLeaf, TypeOK, HandlerInv, Steps, BanSteps
    <3> QED BY <3>1, <3>2
  <2>6. CASE SaveBanned(h)
    <3>1. culprit[h] \in Member
      BY <2>6 DEF SaveBanned, HandlerInv, BanSteps
    <3>2. CASE culprit[h] \in banned
      BY <2>6, <3>2, ReturnType
      DEF SaveBanned, TypeOK, HandlerInv, Steps, BanSteps
    <3>3. CASE culprit[h] \notin banned
      BY <2>6, <3>1, <3>3, GoToType
      DEF SaveBanned, TypeOK, HandlerInv, Steps, BanSteps
    <3> QED BY <3>2, <3>3
  <2>7. CASE UpdateUser(h)
    <3>1. culprit[h] \in Member
      BY <2>7 DEF UpdateUser, HandlerInv, BanSteps
    <3>2. <<0, LeafOf[culprit[h]]>> \in TreeNode /\ <<0, LeafOf[culprit[h]]>> # Root
      BY <3>1, LeafIsNode, MemberAssumption
    <3>3. <<Zero>> \in HashValue
      BY DEF HashValue, LeafValue
    <3> QED BY <2>7, <3>1, <3>2, <3>3
            DEF UpdateUser, TypeOK, HandlerInv, Steps, BanSteps
  <2>8. CASE UpdateParent(h)
    <3>1. node[h] \in TreeNode \ {Root} /\ nodeHash[h] \in HashValue
      BY <2>8 DEF UpdateParent, HandlerInv, TypeOK
    <3>2. ParentOf(node[h]) \in TreeNode
      BY <3>1, FamilyOfNode
    <3>3. HashUp(node[h], nodeHash[h], siblingHash[node[h]]) \in HashValue
      BY <3>1, SiblingHashType, HashUpType
    <3>4. culprit[h] \in Member
      BY <2>8 DEF UpdateParent, HandlerInv, BanSteps
    <3> QED BY <2>8, <3>2, <3>3, <3>4
            DEF UpdateParent, TypeOK, HandlerInv, Steps, BanSteps
  <2>9. CASE Announce(h)
    BY <2>9, ReturnType, RootIsNode
    DEF Announce, TypeOK, HandlerInv, Steps, BanSteps, RootHash
  <2>10. CASE PersistMessage(h)
    <3>1. msg[h] \in received /\ nullifier(msg[h]) \in Nullifier /\ msg[h].epoch \in Epoch
      BY <2>10, MessageFields DEF PersistMessage, HandlerInv, TypeOK
    <3>2. posted' \in [Nullifier -> [Epoch -> Nat]]
      BY <2>10, <3>1 DEF PersistMessage, TypeOK
    <3> QED BY <2>10, <3>2, GoToType
            DEF PersistMessage, TypeOK, HandlerInv, Steps, BanSteps
  <2>11. CASE SaveMessage(h)
    <3>1. msg[h] \in received /\ msg[h] \in Message
      BY <2>11 DEF SaveMessage, HandlerInv, TypeOK
    <3>2. requestStats' \in [Nullifier -> [Epoch -> Seq(Share)]]
      BY <2>11, <3>1, MessageFields DEF SaveMessage, TypeOK
    <3> QED BY <2>11, <3>2, GoToType
            DEF SaveMessage, TypeOK, HandlerInv, Steps, BanSteps
  <2>12. CASE Publish(h)
    BY <2>12, ReturnType
    DEF Publish, TypeOK, HandlerInv, Steps, BanSteps
  <2> QED BY <1>5, <2>1, <2>2, <2>3, <2>4, <2>5, <2>6, <2>7, <2>8, <2>9,
             <2>10, <2>11, <2>12 DEF Step
<1>6. CASE UNCHANGED vars
  BY <1>6 DEF vars, TypeOK, HandlerInv
<1> QED BY <1>1, <1>2, <1>3, <1>4, <1>5, <1>6 DEF Next

LEMMA TypeInvariant == Spec => []TypeInv
BY InitType, NextType, PTL DEF Spec

\* No handler ever holds, and no document ever stores, a value of another
\* kind than the code expects there.
THEOREM TypeCorrect == Spec => []TypeOK
BY TypeInvariant, PTL DEF TypeInv

------------------------------------------------------------------------------
(* The rate limit.                                                         *)

LEMMA AtType ==
  ASSUME NEW steps, NEW nf, NEW e
  PROVE  /\ IsFiniteSet(At(steps, nf, e))
         /\ Cardinality(At(steps, nf, e)) \in Nat
         /\ Cardinality(At(steps, nf, e)) <= Cardinality(Handler)
         /\ Cardinality(Handler) \in Nat
<1>1. At(steps, nf, e) \in SUBSET Handler
  BY DEF At
<1> QED BY <1>1, HandlerAssumption, FS_Subset, FS_CardinalityType

\* When one handler moves, the handlers at some steps change by that one.
LEMMA OneMoves ==
  ASSUME NEW CONSTANT steps, NEW CONSTANT nf, NEW CONSTANT e,
         NEW CONSTANT h \in Handler,
         \A g \in Handler \ {h} : pc'[g] = pc[g] /\ msg'[g] = msg[g]
  PROVE  LET before == At(steps, nf, e)
             after  == At(steps, nf, e)'
         IN  Cardinality(after) =
               Cardinality(before) + (IF h \in after THEN 1 ELSE 0)
                                   - (IF h \in before THEN 1 ELSE 0)
<1> DEFINE before == At(steps, nf, e)
           after  == At(steps, nf, e)'
<1>1. IsFiniteSet(before) /\ IsFiniteSet(after)
      /\ Cardinality(before) \in Nat /\ Cardinality(after) \in Nat
  <2>1. after \in SUBSET Handler
    BY DEF At
  <2> QED BY <2>1, AtType, HandlerAssumption, FS_Subset, FS_CardinalityType
<1>2. before \ {h} = after \ {h}
  BY DEF At
<1> HIDE DEF before, after
<1>3. Cardinality(before \ {h}) = Cardinality(before) - (IF h \in before THEN 1 ELSE 0)
  <2>1. Cardinality(before \ {h}) =
          IF h \in before THEN Cardinality(before) - 1 ELSE Cardinality(before)
    BY <1>1, FS_RemoveElement
  <2> QED BY <1>1, <2>1
<1>4. Cardinality(after \ {h}) = Cardinality(after) - (IF h \in after THEN 1 ELSE 0)
  <2>1. Cardinality(after \ {h}) =
          IF h \in after THEN Cardinality(after) - 1 ELSE Cardinality(after)
    BY <1>1, FS_RemoveElement
  <2> QED BY <1>1, <2>1
<1>5. Cardinality(after) = Cardinality(before) + (IF h \in after THEN 1 ELSE 0)
                                   - (IF h \in before THEN 1 ELSE 0)
  BY <1>1, <1>2, <1>3, <1>4
<1> QED BY <1>5 DEF before, after

LEMMA CountsType ==
  ASSUME TypeInv, NEW nf \in Nullifier, NEW e \in Epoch
  PROVE  /\ posted[nf][e] \in Nat
         /\ requestStats[nf][e] \in Seq(Share)
         /\ Charged(nf, e) \in Nat
         /\ crashes \in Nat
         /\ Lost \in Nat
         /\ Threshold \in Nat \ {0}
<1>1. posted[nf][e] \in Nat /\ requestStats[nf][e] \in Seq(Share) /\ crashes \in Nat
  BY ConfigAssumption DEF TypeInv, TypeOK
<1>2. Cardinality(Handler) \in Nat
  BY AtType
<1>3. Lost \in Nat
  BY <1>1, <1>2 DEF Lost
<1>4. Charged(nf, e) \in Nat
  BY <1>1 DEF Charged
<1> QED BY <1>1, <1>3, <1>4, ConfigAssumption

\* The invariant for one member and one epoch.
LEMMA LimitAt ==
  ASSUME LimitInv, NEW nf \in Nullifier, NEW e \in Epoch
  PROVE  /\ posted[nf][e] <= Charged(nf, e) + Cardinality(Charging(nf, e)) + Lost
         /\ Charged(nf, e) + Cardinality(Passed(nf, e))
              <= Threshold - 1 + Cardinality(Handler)
BY DEF LimitInv

LEMMA InitLimit == Init => LimitInv
<1> SUFFICES ASSUME Init, NEW nf \in Nullifier, NEW e \in Epoch
             PROVE  /\ posted[nf][e] <= Charged(nf, e)
                         + Cardinality(Charging(nf, e)) + Lost
                    /\ Charged(nf, e) + Cardinality(Passed(nf, e))
                         <= Threshold - 1 + Cardinality(Handler)
  BY DEF LimitInv
<1>1. TypeInv
  BY InitType
<1>2. Charging(nf, e) = {} /\ Passed(nf, e) = {}
  BY DEF Init, Charging, Passed, At
<1>3. posted[nf][e] = 0 /\ Charged(nf, e) = 0 /\ Lost \in Nat
  BY <1>1, CountsType DEF Init, Charged
<1> QED BY <1>2, <1>3, AtType, ConfigAssumption, FS_EmptySet

\* A step of a handler before the spam check, in the spam branch, or after
\* the message was charged.
LEMMA QuietLimit ==
  ASSUME TypeInv, LimitInv, NEW h \in Handler,
         UNCHANGED <<requestStats, posted, crashes>>,
         \A g \in Handler \ {h} : pc'[g] = pc[g] /\ msg'[g] = msg[g],
         pc[h] \notin {"persistMessage", "saveMessage"},
         pc'[h] \notin {"persistMessage", "saveMessage"}
  PROVE  LimitInv'
<1> SUFFICES ASSUME NEW nf \in Nullifier, NEW e \in Epoch
             PROVE  /\ Cardinality(Charging(nf, e))' = Cardinality(Charging(nf, e))
                    /\ Cardinality(Passed(nf, e))' = Cardinality(Passed(nf, e))
  BY DEF LimitInv, Lost, Charged
<1>1. /\ h \notin Charging(nf, e) /\ h \notin Charging(nf, e)'
      /\ h \notin Passed(nf, e) /\ h \notin Passed(nf, e)'
  BY DEF Charging, Passed, At
<1> QED BY <1>1, OneMoves, AtType DEF Charging, Passed

\* When no handler has got past the check and nobody has been charged yet.
LEMMA ClearedLimit ==
  ASSUME TypeInv, LimitInv, Crash
  PROVE  LimitInv'
<1> SUFFICES ASSUME NEW nf \in Nullifier, NEW e \in Epoch
             PROVE  /\ posted'[nf][e] <= Charged(nf, e)'
                         + Cardinality(Charging(nf, e))' + Lost'
                    /\ Charged(nf, e)' + Cardinality(Passed(nf, e))'
                         <= Threshold - 1 + Cardinality(Handler)
  BY DEF LimitInv
<1>1. UNCHANGED <<posted, Charged(nf, e)>> /\ crashes' = crashes + 1
  BY DEF Crash, database, Charged
<1>2. Charging(nf, e)' = {} /\ Passed(nf, e)' = {}
  BY DEF Crash, Charging, Passed, At
<1>3. Cardinality(Charging(nf, e))' = 0 /\ Cardinality(Passed(nf, e))' = 0
  BY <1>2, FS_EmptySet
<1>4. /\ posted[nf][e] <= Charged(nf, e) + Cardinality(Charging(nf, e)) + Lost
      /\ Charged(nf, e) + Cardinality(Passed(nf, e))
           <= Threshold - 1 + Cardinality(Handler)
  BY LimitAt
<1>5. /\ Cardinality(Charging(nf, e)) \in Nat /\ Cardinality(Passed(nf, e)) \in Nat
      /\ Cardinality(Charging(nf, e)) <= Cardinality(Handler)
      /\ Cardinality(Handler) \in Nat
  BY AtType DEF Charging, Passed
<1>6. Lost' = Lost + Cardinality(Handler)
  BY <1>1, <1>5, CountsType DEF Lost
<1>7. /\ posted[nf][e] \in Nat /\ Charged(nf, e) \in Nat
      /\ Threshold \in Nat /\ Lost \in Nat
  BY CountsType
<1>8. /\ posted[nf][e] <= Charged(nf, e) + 0 + (Lost + Cardinality(Handler))
      /\ Charged(nf, e) + 0 <= Threshold - 1 + Cardinality(Handler)
  BY <1>4, <1>5, <1>7
<1> QED BY <1>1, <1>3, <1>6, <1>8

LEMMA NextLimit == TypeInv /\ LimitInv /\ [Next]_vars => LimitInv'
<1> SUFFICES ASSUME TypeInv, LimitInv, [Next]_vars PROVE LimitInv'
  OBVIOUS
<1>1. ASSUME UNCHANGED <<pc, msg, requestStats, posted, crashes>> PROVE LimitInv'
  BY <1>1 DEF LimitInv, Charging, Passed, At, Lost, Charged
<1>2. ASSUME NEW h \in Handler, NEW m \in sent, Receive(h, m) PROVE LimitInv'
  <2>1. /\ UNCHANGED <<requestStats, posted, crashes>>
        /\ \A g \in Handler \ {h} : pc'[g] = pc[g] /\ msg'[g] = msg[g]
        /\ pc[h] = "idle" /\ pc'[h] \in {"idle", "isDuplicate"}
    BY <1>2 DEF Receive, TypeInv, TypeOK, database
  <2> QED BY <2>1, QuietLimit
<1>3. ASSUME NEW h \in Handler, Step(h) PROVE LimitInv'
  <2> USE DEF world, database, channel
  <2>1. CASE IsSpam(h) /\ ~isSpamRequest(msg[h])
    <3>1. /\ UNCHANGED <<msg, requestStats, posted, crashes>>
          /\ pc[h] = "isSpam" /\ pc' = [pc EXCEPT ![h] = "persistMessage"]
      BY <2>1 DEF IsSpam, GoTo
    <3>2. \A g \in Handler \ {h} : pc'[g] = pc[g] /\ msg'[g] = msg[g]
      BY <3>1 DEF TypeInv, TypeOK
    <3>3. pc'[h] = "persistMessage"
      BY <3>1 DEF TypeInv, TypeOK
    <3> SUFFICES ASSUME NEW nf \in Nullifier, NEW e \in Epoch
                 PROVE  /\ Cardinality(Charging(nf, e))' = Cardinality(Charging(nf, e))
                        /\ Charged(nf, e) + Cardinality(Passed(nf, e))'
                             <= Threshold - 1 + Cardinality(Handler)
      BY <3>1 DEF LimitInv, Lost, Charged
    <3>4. h \notin Charging(nf, e) /\ h \notin Charging(nf, e)' /\ h \notin Passed(nf, e)
      BY <3>1, <3>3 DEF Charging, Passed, At
    <3>5. Cardinality(Charging(nf, e))' = Cardinality(Charging(nf, e))
      BY <3>2, <3>4, OneMoves, AtType DEF Charging
    <3>6. CASE h \in Passed(nf, e)'
      <4>1. nullifier(msg[h]) = nf /\ msg[h].epoch = e
        BY <3>1, <3>6 DEF Passed, At
      <4>2. Charged(nf, e) <= Threshold - 1
        BY <2>1, <4>1, CountsType DEF isSpamRequest, StatsOf, Charged
      <4>3. Passed(nf, e)' \in SUBSET Handler
        BY DEF Passed, At
      <4>4. Cardinality(Passed(nf, e)') <= Cardinality(Handler)
            /\ Cardinality(Passed(nf, e)') \in Nat
        BY <4>3, HandlerAssumption, FS_Subset, FS_CardinalityType
      <4>5. Charged(nf, e) \in Nat /\ Threshold \in Nat
            /\ Cardinality(Handler) \in Nat
        BY CountsType, AtType
      <4>6. Charged(nf, e) + Cardinality(Passed(nf, e)')
              <= Threshold - 1 + Cardinality(Handler)
        BY <4>2, <4>4, <4>5
      <4> QED BY <3>5, <4>6
    <3>7. CASE h \notin Passed(nf, e)'
      <4>1. Cardinality(Passed(nf, e))' = Cardinality(Passed(nf, e))
        BY <3>2, <3>4, <3>7, OneMoves, AtType DEF Passed
      <4> QED BY <3>5, <4>1, LimitAt
    <3> QED BY <3>6, <3>7
  <2>2. CASE PersistMessage(h)
    <3>1. /\ UNCHANGED <<msg, requestStats, crashes>>
          /\ pc[h] = "persistMessage" /\ pc' = [pc EXCEPT ![h] = "saveMessage"]
          /\ posted' = [posted EXCEPT ![nullifier(msg[h])][msg[h].epoch] = @ + 1]
      BY <2>2 DEF PersistMessage, GoTo
    <3>2. \A g \in Handler \ {h} : pc'[g] = pc[g] /\ msg'[g] = msg[g]
      BY <3>1 DEF TypeInv, TypeOK
    <3>3. pc'[h] = "saveMessage"
      BY <3>1 DEF TypeInv, TypeOK
    <3> SUFFICES ASSUME NEW nf \in Nullifier, NEW e \in Epoch
                 PROVE  /\ posted'[nf][e] <= Charged(nf, e)
                             + Cardinality(Charging(nf, e))' + Lost
                        /\ Charged(nf, e) + Cardinality(Passed(nf, e))'
                             <= Threshold - 1 + Cardinality(Handler)
      BY <3>1 DEF LimitInv, Lost, Charged
    <3>4. /\ h \notin Charging(nf, e)
          /\ h \in Passed(nf, e) <=> nullifier(msg[h]) = nf /\ msg[h].epoch = e
          /\ h \in Passed(nf, e)' <=> nullifier(msg[h]) = nf /\ msg[h].epoch = e
          /\ h \in Charging(nf, e)' <=> nullifier(msg[h]) = nf /\ msg[h].epoch = e
      BY <3>1, <3>3 DEF Charging, Passed, At
    <3>5. Cardinality(Passed(nf, e))' = Cardinality(Passed(nf, e))
      BY <3>2, <3>4, OneMoves, AtType DEF Passed
    <3>6. Cardinality(Charging(nf, e))' = Cardinality(Charging(nf, e)) +
            (IF nullifier(msg[h]) = nf /\ msg[h].epoch = e THEN 1 ELSE 0)
      BY <3>2, <3>4, OneMoves, AtType DEF Charging
    <3>7. posted'[nf][e] = posted[nf][e] +
            (IF nullifier(msg[h]) = nf /\ msg[h].epoch = e THEN 1 ELSE 0)
      BY <3>1, CountsType DEF TypeInv, TypeOK
    <3>8. Cardinality(Charging(nf, e)) \in Nat /\ Cardinality(Handler) \in Nat
      BY AtType DEF Charging
    <3>9. /\ posted[nf][e] <= Charged(nf, e)
                             + Cardinality(Charging(nf, e)) + Lost
          /\ Charged(nf, e) + Cardinality(Passed(nf, e))
               <= Threshold - 1 + Cardinality(Handler)
      BY LimitAt
    <3>10. posted[nf][e] \in Nat /\ Charged(nf, e) \in Nat /\ Lost \in Nat
      BY CountsType
    <3>11. posted'[nf][e] <= Charged(nf, e) + Cardinality(Charging(nf, e))' + Lost
      BY <3>6, <3>7, <3>8, <3>9, <3>10
    <3> QED BY <3>5, <3>9, <3>11
  <2>3. CASE SaveMessage(h)
    <3>1. /\ UNCHANGED <<msg, posted, crashes>>
          /\ pc[h] = "saveMessage" /\ pc' = [pc EXCEPT ![h] = "publish"]
          /\ requestStats' =
               [requestStats EXCEPT ![nullifier(msg[h])][msg[h].epoch] =
                  Append(@, shareOf(msg[h]))]
      BY <2>3 DEF SaveMessage, GoTo
    <3>2. \A g \in Handler \ {h} : pc'[g] = pc[g] /\ msg'[g] = msg[g]
      BY <3>1 DEF TypeInv, TypeOK
    <3>3. pc'[h] = "publish"
      BY <3>1 DEF TypeInv, TypeOK
    <3> SUFFICES ASSUME NEW nf \in Nullifier, NEW e \in Epoch
                 PROVE  /\ posted[nf][e] <= Charged(nf, e)'
                             + Cardinality(Charging(nf, e))' + Lost
                        /\ Charged(nf, e)' + Cardinality(Passed(nf, e))'
                             <= Threshold - 1 + Cardinality(Handler)
      BY <3>1 DEF LimitInv, Lost, Charged
    <3>4. /\ h \notin Charging(nf, e)' /\ h \notin Passed(nf, e)'
          /\ h \in Passed(nf, e) <=> nullifier(msg[h]) = nf /\ msg[h].epoch = e
          /\ h \in Charging(nf, e) <=> nullifier(msg[h]) = nf /\ msg[h].epoch = e
      BY <3>1, <3>3 DEF Charging, Passed, At
    <3>5. Cardinality(Passed(nf, e))' = Cardinality(Passed(nf, e)) -
            (IF nullifier(msg[h]) = nf /\ msg[h].epoch = e THEN 1 ELSE 0)
      BY <3>2, <3>4, OneMoves, AtType DEF Passed
    <3>6. Cardinality(Charging(nf, e))' = Cardinality(Charging(nf, e)) -
            (IF nullifier(msg[h]) = nf /\ msg[h].epoch = e THEN 1 ELSE 0)
      BY <3>2, <3>4, OneMoves, AtType DEF Charging
    <3>7. Charged(nf, e)' = Charged(nf, e) +
            (IF nullifier(msg[h]) = nf /\ msg[h].epoch = e THEN 1 ELSE 0)
      <4>1. shareOf(msg[h]) \in Share
        BY <3>1, MessageFields DEF TypeInv, TypeOK, HandlerInv
      <4>2. requestStats \in [Nullifier -> [Epoch -> Seq(Share)]]
        BY DEF TypeInv, TypeOK
      <4>3. requestStats'[nf][e] =
              IF nullifier(msg[h]) = nf /\ msg[h].epoch = e
                THEN Append(requestStats[nf][e], shareOf(msg[h]))
                ELSE requestStats[nf][e]
        BY <3>1, <4>2
      <4>4. requestStats[nf][e] \in Seq(Share)
        BY <4>2
      <4>5. Len(Append(requestStats[nf][e], shareOf(msg[h]))) = Len(requestStats[nf][e]) + 1
            /\ Len(requestStats[nf][e]) \in Nat
        BY <4>1, <4>4
      <4>6. CASE nullifier(msg[h]) = nf /\ msg[h].epoch = e
        BY <4>3, <4>5, <4>6 DEF Charged
      <4>7. CASE ~(nullifier(msg[h]) = nf /\ msg[h].epoch = e)
        <5>1. Charged(nf, e)' = Charged(nf, e) /\ Charged(nf, e) \in Nat
          BY <4>3, <4>5, <4>7 DEF Charged
        <5> QED BY <4>7, <5>1
      <4> QED BY <4>6, <4>7
    <3>8. /\ Cardinality(Charging(nf, e)) \in Nat /\ Cardinality(Passed(nf, e)) \in Nat
          /\ Cardinality(Handler) \in Nat
      BY AtType DEF Charging, Passed
    <3>9. /\ posted[nf][e] <= Charged(nf, e)
                             + Cardinality(Charging(nf, e)) + Lost
          /\ Charged(nf, e) + Cardinality(Passed(nf, e))
               <= Threshold - 1 + Cardinality(Handler)
      BY LimitAt
    <3>10. posted[nf][e] \in Nat /\ Charged(nf, e) \in Nat /\ Lost \in Nat
      BY CountsType
    <3>11. CASE nullifier(msg[h]) = nf /\ msg[h].epoch = e
      <4>1. /\ Cardinality(Passed(nf, e))' = Cardinality(Passed(nf, e)) - 1
            /\ Cardinality(Charging(nf, e))' = Cardinality(Charging(nf, e)) - 1
            /\ Charged(nf, e)' = Charged(nf, e) + 1
        BY <3>5, <3>6, <3>7, <3>11
      <4> QED BY <4>1, <3>8, <3>9, <3>10, ConfigAssumption
    <3>12. CASE ~(nullifier(msg[h]) = nf /\ msg[h].epoch = e)
      <4>1. /\ Cardinality(Passed(nf, e))' = Cardinality(Passed(nf, e))
            /\ Cardinality(Charging(nf, e))' = Cardinality(Charging(nf, e))
            /\ Charged(nf, e)' = Charged(nf, e)
        BY <3>5, <3>6, <3>7, <3>8, <3>10, <3>12
      <4> QED BY <4>1, <3>9
    <3> QED BY <3>11, <3>12
  <2>4. ASSUME ~(IsSpam(h) /\ ~isSpamRequest(msg[h])),
               ~PersistMessage(h), ~SaveMessage(h)
        PROVE  LimitInv'
    <3>1. UNCHANGED <<requestStats, posted, crashes>>
      BY <1>3, <2>4
      DEF Step, IsDuplicate, GetRoot, IsSpam, GetRequestStats, FindLeaf, SaveBanned,
          UpdateUser, UpdateParent, Announce, Publish
    <3>2. /\ \A g \in Handler \ {h} : pc'[g] = pc[g] /\ msg'[g] = msg[g]
          /\ pc[h] \notin {"persistMessage", "saveMessage"}
          /\ pc'[h] \notin {"persistMessage", "saveMessage"}
      BY <1>3, <2>4
      DEF Step, IsDuplicate, GetRoot, IsSpam, GetRequestStats, FindLeaf, SaveBanned,
          UpdateUser, UpdateParent, Announce, Publish, Return, GoTo, TypeInv, TypeOK
    <3> QED BY <3>1, <3>2, QuietLimit
  <2> QED BY <2>1, <2>2, <2>3, <2>4
<1>4. CASE Tick
  BY <1>1, <1>4 DEF Tick, handlers, database
<1>5. ASSUME NEW s \in Member, NEW e \in Epoch, NEW p \in Epoch,
             NEW fits \in BOOLEAN, Send(s, e, p, fits)
      PROVE  LimitInv'
  BY <1>1, <1>5 DEF Send, handlers, database
<1>6. CASE UNCHANGED vars
  BY <1>1, <1>6 DEF vars
<1> QED BY <1>2, <1>3, <1>4, <1>5, <1>6, ClearedLimit DEF Next

LEMMA LimitGivesRateLimit == TypeInv /\ LimitInv => RateLimit
<1> SUFFICES ASSUME TypeInv, LimitInv, NEW nf \in Nullifier, NEW e \in Epoch
             PROVE  posted[nf][e] <= Threshold + Cardinality(Handler) - 1
                                    + Lost
  BY DEF RateLimit, Lost
<1>1. Charging(nf, e) \in SUBSET Passed(nf, e)
  BY DEF Charging, Passed, At
<1>2. Cardinality(Charging(nf, e)) <= Cardinality(Passed(nf, e))
  BY <1>1, AtType, FS_Subset DEF Charging, Passed
<1>3. /\ Cardinality(Charging(nf, e)) \in Nat /\ Cardinality(Passed(nf, e)) \in Nat
      /\ Cardinality(Handler) \in Nat
  BY AtType DEF Charging, Passed
<1>4. /\ posted[nf][e] <= Charged(nf, e) + Cardinality(Charging(nf, e)) + Lost
      /\ Charged(nf, e) + Cardinality(Passed(nf, e))
           <= Threshold - 1 + Cardinality(Handler)
  BY LimitAt
<1>5. /\ posted[nf][e] \in Nat /\ Charged(nf, e) \in Nat
      /\ Threshold \in Nat /\ Lost \in Nat
  BY CountsType
<1>6. posted[nf][e] <= Threshold + Cardinality(Handler) - 1 + Lost
  BY <1>2, <1>3, <1>4, <1>5
<1> QED BY <1>4, <1>6

\* However many handlers race past the spam check, the messages of one member
\* for one epoch that are posted are bounded: by the threshold, the number of
\* handlers and the number of restarts.
THEOREM RateIsLimited == Spec => []RateLimit
<1>1. Init => TypeInv /\ LimitInv
  BY InitType, InitLimit
<1>2. TypeInv /\ LimitInv /\ [Next]_vars => (TypeInv /\ LimitInv)'
  BY NextType, NextLimit
<1> QED BY <1>1, <1>2, LimitGivesRateLimit, PTL DEF Spec

------------------------------------------------------------------------------
(* What is published was charged.                                          *)

LEMMA InitCharge == Init => ChargeInv
BY DEF Init, ChargeInv, BroadcastIsCharged

LEMMA AppendedShare ==
  ASSUME NEW stats \in Seq(Share), NEW x \in Share
  PROVE  /\ Append(stats, x) \in Seq(Share)
         /\ DOMAIN stats = 1 .. Len(stats) /\ Len(stats) \in Nat
         /\ DOMAIN Append(stats, x) = 1 .. Len(stats) + 1
         /\ Append(stats, x)[Len(stats) + 1] = x
         /\ Len(stats) + 1 \in DOMAIN Append(stats, x)
         /\ \A k \in DOMAIN stats :
              k \in DOMAIN Append(stats, x) /\ Append(stats, x)[k] = stats[k]
<1>1. /\ Append(stats, x) \in Seq(Share) /\ Len(Append(stats, x)) = Len(stats) + 1
      /\ \A k \in 1 .. Len(stats) : Append(stats, x)[k] = stats[k]
      /\ Append(stats, x)[Len(stats) + 1] = x
  BY AppendProperties
<1>2. DOMAIN stats = 1 .. Len(stats) /\ Len(stats) \in Nat
  OBVIOUS
<1>3. DOMAIN Append(stats, x) = 1 .. Len(stats) + 1
  BY <1>1
<1> QED BY <1>1, <1>2, <1>3

\* Shares and posts are only ever added.
LEMMA AccountsGrow ==
  ASSUME TypeInv, [Next]_vars, NEW m \in Message
  PROVE  /\ posted[nullifier(m)][m.epoch] > 0 => posted'[nullifier(m)][m.epoch] > 0
         /\ isDuplicateRequest(m) => isDuplicateRequest(m)'
<1>1. nullifier(m) \in Nullifier /\ m.epoch \in Epoch
  BY MessageFields
<1>2. /\ posted \in [Nullifier -> [Epoch -> Nat]]
      /\ requestStats \in [Nullifier -> [Epoch -> Seq(Share)]]
  BY DEF TypeInv, TypeOK
<1>3. CASE UNCHANGED <<posted, requestStats>>
  BY <1>3 DEF isDuplicateRequest, SharesOf, StatsOf
<1>4. ASSUME NEW h \in Handler, PersistMessage(h)
      PROVE  /\ posted[nullifier(m)][m.epoch] > 0 => posted'[nullifier(m)][m.epoch] > 0
             /\ UNCHANGED requestStats
  BY <1>1, <1>2, <1>4 DEF PersistMessage
<1>5. ASSUME NEW h \in Handler, SaveMessage(h)
      PROVE  /\ isDuplicateRequest(m) => isDuplicateRequest(m)'
             /\ UNCHANGED posted
  <2>1. /\ UNCHANGED posted
        /\ requestStats' =
             [requestStats EXCEPT ![nullifier(msg[h])][msg[h].epoch] =
                Append(@, shareOf(msg[h]))]
    BY <1>5 DEF SaveMessage
  <2>2. PICK stats \in Seq(Share) : stats = requestStats[nullifier(m)][m.epoch]
    BY <1>1, <1>2
  <2>3. PICK x \in Share : x = shareOf(msg[h])
    BY <1>5, MessageFields DEF SaveMessage, TypeInv, TypeOK, HandlerInv
  <2>4. requestStats'[nullifier(m)][m.epoch] \in {stats, Append(stats, x)}
    BY <1>1, <1>2, <2>1, <2>2, <2>3
  <2>5. \A k \in DOMAIN stats :
          /\ k \in DOMAIN requestStats'[nullifier(m)][m.epoch]
          /\ requestStats'[nullifier(m)][m.epoch][k] = stats[k]
    BY <2>4, AppendedShare
  <2> QED BY <2>1, <2>2, <2>5 DEF isDuplicateRequest, SharesOf, StatsOf
<1>6. CASE UNCHANGED <<posted, requestStats>> \/ (\E h \in Handler :
             PersistMessage(h) \/ SaveMessage(h))
  BY <1>3, <1>4, <1>5, <1>6 DEF isDuplicateRequest, SharesOf, StatsOf
<1>7. UNCHANGED <<posted, requestStats>> \/ (\E h \in Handler :
             PersistMessage(h) \/ SaveMessage(h))
  BY DEF Next, vars, Tick, Send, Crash, Receive, Step, IsDuplicate, GetRoot, IsSpam,
         GetRequestStats, FindLeaf, SaveBanned, UpdateUser, UpdateParent, Announce,
         Publish, world, handlers, database, channel
<1> QED BY <1>6, <1>7

\* A handler that stays where it is.
LEMMA HandlerStays ==
  ASSUME TypeInv, ChargeInv, [Next]_vars,
         NEW h \in Handler, pc'[h] = pc[h], msg'[h] = msg[h]
  PROVE  /\ pc'[h] \in {"saveMessage", "publish"} =>
              posted'[nullifier(msg'[h])][msg'[h].epoch] > 0
         /\ pc'[h] = "publish" => isDuplicateRequest(msg[h])'
<1>1. CASE pc[h] \in {"saveMessage", "publish"}
  <2>1. PICK m \in Message : m = msg[h]
    BY <1>1 DEF TypeInv, TypeOK, HandlerInv
  <2>2. posted[nullifier(m)][m.epoch] > 0 /\ (pc[h] = "publish" => isDuplicateRequest(m))
    BY <1>1, <2>1 DEF ChargeInv
  <2>3. posted'[nullifier(m)][m.epoch] > 0 /\ (pc[h] = "publish" => isDuplicateRequest(m)')
    BY <2>2, AccountsGrow
  <2>4. m = msg'[h]
    BY <2>1
  <2> QED BY <2>3, <2>4 DEF isDuplicateRequest, SharesOf, StatsOf
<1>2. CASE pc[h] \notin {"saveMessage", "publish"}
  BY <1>2
<1> QED BY <1>1, <1>2

LEMMA ChannelStays ==
  ASSUME TypeInv, ChargeInv, [Next]_vars, broadcast' = broadcast
  PROVE  BroadcastIsCharged'
<1> SUFFICES ASSUME NEW m \in broadcast
             PROVE  isDuplicateRequest(m)' /\ posted'[nullifier(m)][m.epoch] > 0
  BY DEF BroadcastIsCharged, isDuplicateRequest
<1>1. m \in Message
  BY DEF TypeInv, TypeOK
<1>2. isDuplicateRequest(m) /\ posted[nullifier(m)][m.epoch] > 0
  BY DEF ChargeInv, BroadcastIsCharged, isDuplicateRequest
<1> QED BY <1>1, <1>2, AccountsGrow

LEMMA NextCharge == TypeInv /\ ChargeInv /\ [Next]_vars => ChargeInv'
<1> SUFFICES ASSUME TypeInv, ChargeInv, [Next]_vars PROVE ChargeInv'
  OBVIOUS
\* One handler moves, to or within the part where there is nothing to show.
<1>1. ASSUME NEW h \in Handler,
             \A g \in Handler \ {h} : pc'[g] = pc[g] /\ msg'[g] = msg[g],
             pc'[h] \notin {"saveMessage", "publish"},
             broadcast' = broadcast
      PROVE  ChargeInv'
  BY <1>1, HandlerStays, ChannelStays DEF ChargeInv
<1>2. ASSUME UNCHANGED <<pc, msg, broadcast>> PROVE ChargeInv'
  BY <1>2, HandlerStays, ChannelStays DEF ChargeInv
<1>3. CASE Crash
  BY <1>3, ChannelStays DEF Crash, ChargeInv, channel
<1>4. ASSUME NEW h \in Handler, NEW m \in sent, Receive(h, m) PROVE ChargeInv'
  <2>1. /\ \A g \in Handler \ {h} : pc'[g] = pc[g] /\ msg'[g] = msg[g]
        /\ pc'[h] \in {"idle", "isDuplicate"}
        /\ broadcast' = broadcast
    BY <1>4 DEF Receive, TypeInv, TypeOK, channel
  <2> QED BY <1>1, <2>1
<1>5. ASSUME NEW h \in Handler, Step(h) PROVE ChargeInv'
  <2>1. \A g \in Handler \ {h} : pc'[g] = pc[g] /\ msg'[g] = msg[g]
    BY <1>5
    DEF Step, IsDuplicate, GetRoot, IsSpam, GetRequestStats, FindLeaf, SaveBanned,
        UpdateUser, UpdateParent, Announce, PersistMessage, SaveMessage, Publish,
        Return, GoTo, TypeInv, TypeOK
  <2>2. ASSUME NEW m \in Message, m = msg[h], m = msg'[h],
               posted'[nullifier(m)][m.epoch] > 0,
               pc'[h] = "publish" => isDuplicateRequest(m)',
               broadcast' = broadcast
        PROVE  ChargeInv'
    <3>1. /\ posted'[nullifier(msg'[h])][msg'[h].epoch] > 0
          /\ pc'[h] = "publish" => isDuplicateRequest(msg[h])'
      BY <2>2 DEF isDuplicateRequest, SharesOf, StatsOf
    <3> QED BY <2>1, <2>2, <3>1, HandlerStays, ChannelStays DEF ChargeInv
  <2>3. CASE PersistMessage(h)
    <3>1. PICK m \in Message : m = msg[h]
      BY <2>3 DEF PersistMessage, TypeInv, TypeOK, HandlerInv
    <3>2. /\ pc'[h] = "saveMessage" /\ msg'[h] = m /\ broadcast' = broadcast
          /\ posted'[nullifier(m)][m.epoch] = posted[nullifier(m)][m.epoch] + 1
      BY <2>3, <3>1, MessageFields DEF PersistMessage, GoTo, TypeInv, TypeOK, channel
    <3>3. posted[nullifier(m)][m.epoch] \in Nat
      BY MessageFields DEF TypeInv, TypeOK
    <3> QED BY <2>2, <3>1, <3>2, <3>3
  <2>4. CASE SaveMessage(h)
    <3>1. PICK m \in Message : m = msg[h]
      BY <2>4 DEF SaveMessage, TypeInv, TypeOK, HandlerInv
    <3>2. msg'[h] = m /\ broadcast' = broadcast /\ posted' = posted
      BY <2>4, <3>1 DEF SaveMessage, GoTo, channel
    <3>3. posted'[nullifier(m)][m.epoch] > 0
      BY <2>4, <3>1, <3>2 DEF SaveMessage, ChargeInv
    <3>4. isDuplicateRequest(m)'
      <4> DEFINE stats == requestStats[nullifier(m)][m.epoch]
      <4>1. stats \in Seq(Share) /\ shareOf(m) \in Share
        BY MessageFields DEF TypeInv, TypeOK
      <4>2. requestStats'[nullifier(m)][m.epoch] = Append(stats, shareOf(m))
        BY <2>4, <3>1, MessageFields DEF SaveMessage, TypeInv, TypeOK
      <4>3. Len(stats) + 1 \in DOMAIN Append(stats, shareOf(m))
            /\ Append(stats, shareOf(m))[Len(stats) + 1] = shareOf(m)
        BY <4>1, AppendedShare
      <4> QED BY <4>2, <4>3 DEF isDuplicateRequest, SharesOf, StatsOf
    <3> QED BY <2>2, <3>1, <3>2, <3>3, <3>4
  <2>5. CASE Publish(h)
    <3>1. PICK m \in Message : m = msg[h]
      BY <2>5 DEF Publish, TypeInv, TypeOK, HandlerInv
    <3>2. /\ UNCHANGED <<requestStats, posted>>
          /\ broadcast' = broadcast \cup {m} /\ pc'[h] = "idle"
      BY <2>5, <3>1 DEF Publish, Return, database, TypeInv, TypeOK
    <3>3. isDuplicateRequest(m) /\ posted[nullifier(m)][m.epoch] > 0
      BY <2>5, <3>1 DEF Publish, ChargeInv
    <3>4. BroadcastIsCharged'
      BY <3>2, <3>3
      DEF ChargeInv, BroadcastIsCharged, isDuplicateRequest, SharesOf, StatsOf
    <3> QED BY <2>1, <3>2, <3>4, HandlerStays DEF ChargeInv
  <2>6. ASSUME ~PersistMessage(h), ~SaveMessage(h), ~Publish(h)
        PROVE  ChargeInv'
    <3>1. pc'[h] \notin {"saveMessage", "publish"} /\ broadcast' = broadcast
      BY <1>5, <2>6
      DEF Step, IsDuplicate, GetRoot, IsSpam, GetRequestStats, FindLeaf, SaveBanned,
          UpdateUser, UpdateParent, Announce, Return, GoTo, TypeInv, TypeOK, channel
    <3> QED BY <1>1, <2>1, <3>1
  <2> QED BY <2>3, <2>4, <2>5, <2>6
<1>6. CASE Tick
  BY <1>2, <1>6 DEF Tick, handlers, channel
<1>7. ASSUME NEW s \in Member, NEW e \in Epoch, NEW p \in Epoch,
             NEW fits \in BOOLEAN, Send(s, e, p, fits)
      PROVE  ChargeInv'
  BY <1>2, <1>7 DEF Send, handlers, channel
<1>8. CASE UNCHANGED vars
  BY <1>2, <1>8 DEF vars
<1> QED BY <1>3, <1>4, <1>5, <1>6, <1>7, <1>8 DEF Next

\* Whatever is published was posted and charged before, by whichever handler
\* and across restarts.
THEOREM PublishedIsCharged == Spec => []BroadcastIsCharged
<1>1. Init => TypeInv /\ ChargeInv
  BY InitType, InitCharge
<1>2. TypeInv /\ ChargeInv /\ [Next]_vars => (TypeInv /\ ChargeInv)'
  BY NextType, NextCharge
<1>3. ChargeInv => BroadcastIsCharged
  BY DEF ChargeInv
<1> QED BY <1>1, <1>2, <1>3, PTL DEF Spec

------------------------------------------------------------------------------
(* Only spammers are banned, as long as messages arrive once.              *)

\* Only SaveMessage writes the stored shares.
LEMMA StatsWritten ==
  ASSUME TypeInv, [Next]_vars
  PROVE  \/ UNCHANGED requestStats
         \/ \E h \in Handler : SaveMessage(h)
BY DEF Next, vars, Tick, Send, Crash, Receive, Step, IsDuplicate, GetRoot, IsSpam,
       GetRequestStats, FindLeaf, SaveBanned, UpdateUser, UpdateParent, Announce,
       PersistMessage, Publish, world, handlers, database, channel

LEMMA InitOnce == Init => OnceInv
BY DEF Init, OnceInv

\* A step of a handler on the message it has, or one that gives it up.
LEMMA StepOnce ==
  ASSUME TypeInv, OnceInv, NEW h \in Handler,
         UNCHANGED <<sent, received, requestStats>>,
         \A g \in Handler \ {h} : pc'[g] = pc[g] /\ msg'[g] = msg[g],
         pc[h] \notin {"idle", "publish"} \/ pc'[h] = "idle",
         pc'[h] # "idle" => msg'[h] = msg[h]
  PROVE  OnceInv'
<1>1. /\ \A m, n \in sent' :
           nullifier(m) = nullifier(n) /\ m.epoch = n.epoch /\ shareOf(m) = shareOf(n) => m = n
      /\ \A nf \in Nullifier, e \in Epoch :
           /\ \A k \in DOMAIN requestStats'[nf][e] :
                \E m \in received' :
                  nullifier(m) = nf /\ m.epoch = e /\ shareOf(m) = requestStats'[nf][e][k]
           /\ \A k, l \in DOMAIN requestStats'[nf][e] :
                requestStats'[nf][e][k] = requestStats'[nf][e][l] => k = l
  BY DEF OnceInv
<1>2. \A f, g \in Handler :
        f # g /\ pc'[f] # "idle" /\ pc'[g] # "idle" => msg'[f] # msg'[g]
  BY DEF OnceInv
<1>3. ASSUME NEW g \in Handler, pc'[g] \notin {"idle", "publish"}
      PROVE  shareOf(msg'[g]) \notin
               {requestStats'[nullifier(msg'[g])][msg'[g].epoch][k] :
                  k \in DOMAIN requestStats'[nullifier(msg'[g])][msg'[g].epoch]}
  <2>1. pc[g] \notin {"idle", "publish"} /\ msg'[g] = msg[g]
    BY <1>3
  <2>2. ~isDuplicateRequest(msg[g])
    BY <2>1 DEF OnceInv
  <2> QED BY <2>1, <2>2 DEF isDuplicateRequest, SharesOf, StatsOf
<1> QED BY <1>1, <1>2, <1>3 DEF OnceInv, isDuplicateRequest, SharesOf, StatsOf

\* A message that arrives for the first time has not been charged, and no
\* handler has it.
LEMMA ReceiveOnce ==
  ASSUME TypeInv, OnceInv, Redelivery = FALSE,
         NEW h \in Handler, NEW m \in sent, Receive(h, m)
  PROVE  OnceInv'
<1>1. /\ m \notin received /\ received' = received \cup {m}
      /\ UNCHANGED <<sent, requestStats>> /\ pc[h] = "idle"
      /\ \A g \in Handler \ {h} : pc'[g] = pc[g] /\ msg'[g] = msg[g]
      /\ pc'[h] # "idle" => msg'[h] = m
  BY DEF Receive, TypeInv, TypeOK, database
<1>2. \A g \in Handler \ {h} : pc[g] # "idle" => msg[g] \in received /\ msg[g] # m
  BY <1>1 DEF TypeInv, HandlerInv
<1>3. ~isDuplicateRequest(m)
  <2>1. nullifier(m) \in Nullifier /\ m.epoch \in Epoch /\ m \in sent
    BY MessageFields DEF TypeInv, TypeOK
  <2>2. SUFFICES ASSUME NEW k \in DOMAIN requestStats[nullifier(m)][m.epoch],
                        shareOf(m) = requestStats[nullifier(m)][m.epoch][k]
                 PROVE  FALSE
    BY DEF isDuplicateRequest, SharesOf, StatsOf
  <2>3. PICK n \in received :
          nullifier(n) = nullifier(m) /\ n.epoch = m.epoch /\ shareOf(n) = shareOf(m)
    BY <2>1, <2>2 DEF OnceInv
  <2>4. n \in sent
    BY DEF TypeInv, TypeOK
  <2>5. n = m
    BY <2>3, <2>4 DEF OnceInv
  <2> QED BY <1>1, <2>3, <2>5
<1>4. /\ \A f, n \in sent' :
           nullifier(f) = nullifier(n) /\ f.epoch = n.epoch /\ shareOf(f) = shareOf(n) => f = n
      /\ \A nf \in Nullifier, e \in Epoch :
           /\ \A k \in DOMAIN requestStats'[nf][e] :
                \E n \in received' :
                  nullifier(n) = nf /\ n.epoch = e /\ shareOf(n) = requestStats'[nf][e][k]
           /\ \A k, l \in DOMAIN requestStats'[nf][e] :
                requestStats'[nf][e][k] = requestStats'[nf][e][l] => k = l
  BY <1>1 DEF OnceInv
<1>5. \A f, g \in Handler :
        f # g /\ pc'[f] # "idle" /\ pc'[g] # "idle" => msg'[f] # msg'[g]
  BY <1>1, <1>2 DEF OnceInv
<1>6. ASSUME NEW g \in Handler, pc'[g] \notin {"idle", "publish"}
      PROVE  shareOf(msg'[g]) \notin
               {requestStats'[nullifier(msg'[g])][msg'[g].epoch][k] :
                  k \in DOMAIN requestStats'[nullifier(msg'[g])][msg'[g].epoch]}
  <2>1. PICK n : n = msg'[g]
    OBVIOUS
  <2>2. ~isDuplicateRequest(n)
    <3>1. CASE g = h
      BY <1>1, <1>3, <1>6, <2>1, <3>1
    <3>2. CASE g # h
      <4>1. pc[g] \notin {"idle", "publish"} /\ n = msg[g]
        BY <1>1, <1>6, <2>1, <3>2
      <4> QED BY <4>1 DEF OnceInv
    <3> QED BY <3>1, <3>2
  <2> QED BY <1>1, <2>1, <2>2 DEF isDuplicateRequest, SharesOf, StatsOf
<1> QED BY <1>4, <1>5, <1>6 DEF OnceInv, isDuplicateRequest, SharesOf, StatsOf

LEMMA SaveOnce ==
  ASSUME TypeInv, OnceInv, NEW h \in Handler, SaveMessage(h)
  PROVE  OnceInv'
<1>1. PICK m \in Message : m = msg[h] /\ m \in received /\ m \in sent
  BY DEF SaveMessage, TypeInv, TypeOK, HandlerInv
<1>2. /\ UNCHANGED <<sent, received, msg>>
      /\ pc[h] = "saveMessage" /\ pc' = [pc EXCEPT ![h] = "publish"]
      /\ requestStats' =
           [requestStats EXCEPT ![nullifier(m)][m.epoch] = Append(@, shareOf(m))]
  BY <1>1 DEF SaveMessage, GoTo, world
<1>3. /\ pc'[h] = "publish"
      /\ \A g \in Handler \ {h} : pc'[g] = pc[g]
      /\ \A g \in Handler : pc'[g] # "idle" => pc[g] # "idle"
  BY <1>2 DEF TypeInv, TypeOK
<1>4. nullifier(m) \in Nullifier /\ m.epoch \in Epoch /\ shareOf(m) \in Share
  BY MessageFields
<1>5. \A nf \in Nullifier, e \in Epoch :
        requestStats'[nf][e] =
          IF nf = nullifier(m) /\ e = m.epoch
            THEN Append(requestStats[nf][e], shareOf(m))
            ELSE requestStats[nf][e]
  BY <1>2, <1>4 DEF TypeInv, TypeOK
<1>6. ~isDuplicateRequest(m)
  BY <1>1, <1>2 DEF OnceInv
<1>7. ASSUME NEW nf \in Nullifier, NEW e \in Epoch
      PROVE  /\ \A k \in DOMAIN requestStats'[nf][e] :
                  \E n \in received' :
                    nullifier(n) = nf /\ n.epoch = e /\ shareOf(n) = requestStats'[nf][e][k]
             /\ \A k, l \in DOMAIN requestStats'[nf][e] :
                  requestStats'[nf][e][k] = requestStats'[nf][e][l] => k = l
  <2>1. CASE nf = nullifier(m) /\ e = m.epoch
    <3>1. PICK stats \in Seq(Share) : stats = requestStats[nf][e]
      BY DEF TypeInv, TypeOK
    <3>2. requestStats'[nf][e] = Append(stats, shareOf(m))
      BY <1>5, <2>1, <3>1
    <3>3. \A k \in DOMAIN stats : stats[k] # shareOf(m)
      BY <1>6, <2>1, <3>1 DEF isDuplicateRequest, SharesOf, StatsOf
    <3>4. /\ \A k \in DOMAIN stats :
               \E n \in received : nullifier(n) = nf /\ n.epoch = e /\ shareOf(n) = stats[k]
          /\ \A k, l \in DOMAIN stats : stats[k] = stats[l] => k = l
      BY <3>1 DEF OnceInv
    <3>5. \A k \in DOMAIN Append(stats, shareOf(m)) :
            \/ k \in DOMAIN stats /\ Append(stats, shareOf(m))[k] = stats[k]
            \/ k = Len(stats) + 1 /\ Append(stats, shareOf(m))[k] = shareOf(m)
      BY <1>4, AppendedShare
    <3>6. \A k \in DOMAIN Append(stats, shareOf(m)) :
            \E n \in received :
              nullifier(n) = nf /\ n.epoch = e /\ shareOf(n) = Append(stats, shareOf(m))[k]
      BY <1>1, <2>1, <3>4, <3>5
    <3>7. \A k, l \in DOMAIN Append(stats, shareOf(m)) :
            Append(stats, shareOf(m))[k] = Append(stats, shareOf(m))[l] => k = l
      BY <3>3, <3>4, <3>5
    <3> QED BY <1>2, <3>2, <3>6, <3>7
  <2>2. CASE ~(nf = nullifier(m) /\ e = m.epoch)
    <3>1. PICK stats \in Seq(Share) : stats = requestStats[nf][e]
      BY DEF TypeInv, TypeOK
    <3>2. /\ \A k \in DOMAIN stats :
               \E n \in received : nullifier(n) = nf /\ n.epoch = e /\ shareOf(n) = stats[k]
          /\ \A k, l \in DOMAIN stats : stats[k] = stats[l] => k = l
      BY <3>1 DEF OnceInv
    <3>3. requestStats'[nf][e] = stats
      BY <1>5, <2>2, <3>1
    <3>4. received' = received
      BY <1>2
    <3>5. \A k \in DOMAIN requestStats'[nf][e] :
            \E n \in received' :
              nullifier(n) = nf /\ n.epoch = e /\ shareOf(n) = requestStats'[nf][e][k]
      BY <3>2, <3>3, <3>4, Zenon
    <3>6. \A k, l \in DOMAIN requestStats'[nf][e] :
            requestStats'[nf][e][k] = requestStats'[nf][e][l] => k = l
      BY <3>2, <3>3, Zenon
    <3> QED BY <3>5, <3>6, Zenon
  <2> QED BY <2>1, <2>2
<1>8. ASSUME NEW g \in Handler, pc'[g] \notin {"idle", "publish"}
      PROVE  shareOf(msg'[g]) \notin
               {requestStats'[nullifier(msg'[g])][msg'[g].epoch][k] :
                  k \in DOMAIN requestStats'[nullifier(msg'[g])][msg'[g].epoch]}
  <2>1. g # h /\ pc[g] \notin {"idle", "publish"}
    BY <1>3, <1>8
  <2>2. PICK n \in Message : n = msg[g] /\ n = msg'[g] /\ n \in sent
    BY <1>2, <2>1 DEF TypeInv, TypeOK, HandlerInv
  <2>3. n # m /\ ~isDuplicateRequest(n)
    BY <1>1, <1>2, <2>1, <2>2 DEF OnceInv
  <2>4. nullifier(n) = nullifier(m) /\ n.epoch = m.epoch => shareOf(n) # shareOf(m)
    BY <1>1, <2>2, <2>3 DEF OnceInv
  <2>5. PICK stats \in Seq(Share) : stats = requestStats[nullifier(n)][n.epoch]
    BY MessageFields DEF TypeInv, TypeOK
  <2>6. \A k \in DOMAIN stats : stats[k] # shareOf(n)
    BY <2>3, <2>5 DEF isDuplicateRequest, SharesOf, StatsOf
  <2>7. CASE nullifier(n) = nullifier(m) /\ n.epoch = m.epoch
    <3>1. requestStats'[nullifier(n)][n.epoch] = Append(stats, shareOf(m))
      BY <1>4, <1>5, <2>5, <2>7
    <3>2. \A k \in DOMAIN Append(stats, shareOf(m)) :
            Append(stats, shareOf(m))[k] # shareOf(n)
      BY <1>4, <2>4, <2>6, <2>7, AppendedShare
    <3> QED BY <2>2, <3>1, <3>2
  <2>8. CASE ~(nullifier(n) = nullifier(m) /\ n.epoch = m.epoch)
    <3>1. nullifier(n) \in Nullifier /\ n.epoch \in Epoch
      BY MessageFields
    <3>2. requestStats'[nullifier(n)][n.epoch] = stats
      BY <1>5, <2>5, <2>8, <3>1
    <3> QED BY <2>2, <2>6, <3>2
  <2> QED BY <2>7, <2>8
<1>9. \A f, g \in Handler :
        f # g /\ pc'[f] # "idle" /\ pc'[g] # "idle" => msg'[f] # msg'[g]
  BY <1>2, <1>3 DEF OnceInv
<1>10. \A f, n \in sent' :
         nullifier(f) = nullifier(n) /\ f.epoch = n.epoch /\ shareOf(f) = shareOf(n) => f = n
  BY <1>2 DEF OnceInv
<1> QED BY <1>7, <1>8, <1>9, <1>10 DEF OnceInv, isDuplicateRequest, SharesOf, StatsOf

LEMMA NextOnce ==
  ASSUME Redelivery = FALSE, TypeInv, OnceInv, [Next]_vars
  PROVE  OnceInv'
<1>1. ASSUME UNCHANGED <<sent, received, pc, msg, requestStats>> PROVE OnceInv'
  BY <1>1 DEF OnceInv, isDuplicateRequest, SharesOf, StatsOf
<1>2. CASE Tick
  BY <1>1, <1>2 DEF Tick, handlers, database
<1>3. ASSUME NEW s \in Member, NEW e \in Epoch, NEW p \in Epoch,
             NEW fits \in BOOLEAN, Send(s, e, p, fits)
      PROVE  OnceInv'
  <2> DEFINE unused ==
               {x \in Signal : \A m \in SentBy(<<s, p>>, e) : shareOf(m) # <<x, fits>>}
             first == CHOOSE x \in unused : TRUE
  <2>1. PICK r : sent' = sent \cup {[sender |-> s, epoch |-> e, proofEpoch |-> p,
                                    share |-> first, fits |-> fits, root |-> r]}
    BY <1>3 DEF Send
  <2>a. first \in unused
    BY <1>3 DEF Send
  <2>2. \A m \in sent :
          ~(nullifier(m) = <<s, p>> /\ m.epoch = e /\ shareOf(m) = <<first, fits>>)
    BY <2>a DEF SentBy
  <2>3. \A f, n \in sent' :
          nullifier(f) = nullifier(n) /\ f.epoch = n.epoch /\ shareOf(f) = shareOf(n) => f = n
    <3> HIDE DEF first
    <3> DEFINE new == [sender |-> s, epoch |-> e, proofEpoch |-> p,
                       share |-> first, fits |-> fits, root |-> r]
    <3>1. nullifier(new) = <<s, p>> /\ shareOf(new) = <<first, fits>> /\ new.epoch = e
      BY DEF nullifier, shareOf
    <3>2. sent' = sent \cup {new}
      BY <2>1
    <3> HIDE DEF new
    <3> QED BY <2>2, <3>1, <3>2 DEF OnceInv
  <2>4. UNCHANGED <<received, pc, msg, requestStats>>
    BY <1>3 DEF Send, handlers, database
  <2> QED BY <2>3, <2>4 DEF OnceInv, isDuplicateRequest, SharesOf, StatsOf
<1>4. CASE Crash
  BY <1>4 DEF Crash, OnceInv, database
<1>5. ASSUME NEW h \in Handler, Step(h) PROVE OnceInv'
  <2>1. CASE SaveMessage(h)
    BY <2>1, SaveOnce
  <2>2. CASE ~SaveMessage(h)
    <3>1. /\ UNCHANGED <<sent, received, requestStats>>
          /\ \A g \in Handler \ {h} : pc'[g] = pc[g] /\ msg'[g] = msg[g]
          /\ pc[h] \notin {"idle", "publish"} \/ pc'[h] = "idle"
          /\ pc'[h] # "idle" => msg'[h] = msg[h]
      BY <1>5, <2>2
      DEF Step, IsDuplicate, GetRoot, IsSpam, GetRequestStats, FindLeaf, SaveBanned,
          UpdateUser, UpdateParent, Announce, PersistMessage, Publish, Return, GoTo,
          TypeInv, TypeOK, world, database
    <3> QED BY <3>1, StepOnce
  <2> QED BY <2>1, <2>2
<1>6. CASE UNCHANGED vars
  BY <1>1, <1>6 DEF vars
<1> QED BY <1>2, <1>3, <1>4, <1>5, <1>6, ReceiveOnce DEF Next

\* As many distinct stored shares as there are, and one more, are as many
\* messages.
LEMMA SharesAreMessages ==
  ASSUME IsFiniteSet(sent), NEW nf \in Nullifier, NEW e \in Epoch,
         NEW stats \in Seq(Share), NEW x \in Share,
         \A k \in DOMAIN stats : stats[k] # x,
         \A k, l \in DOMAIN stats : stats[k] = stats[l] => k = l,
         \A k \in DOMAIN stats : \E n \in SentBy(nf, e) : shareOf(n) = stats[k],
         \E n \in SentBy(nf, e) : shareOf(n) = x
  PROVE  Len(stats) + 1 <= Cardinality(SentBy(nf, e))
<1> DEFINE shares == Append(stats, x)
           count  == Len(stats) + 1
           f      == [k \in 1 .. count |-> CHOOSE n \in SentBy(nf, e) : shareOf(n) = shares[k]]
<1>1. \A k \in 1 .. count :
        \/ k \in DOMAIN stats /\ shares[k] = stats[k]
        \/ k = count /\ shares[k] = x
  BY AppendedShare
<1>2. count \in Nat
  OBVIOUS
<1> HIDE DEF shares, count
<1>3. \A k \in 1 .. count : \E n \in SentBy(nf, e) : shareOf(n) = shares[k]
  BY <1>1
<1>4. \A k \in 1 .. count : f[k] \in SentBy(nf, e) /\ shareOf(f[k]) = shares[k]
  BY <1>3
<1>5. \A k, l \in 1 .. count : shares[k] = shares[l] => k = l
  BY <1>1
<1>6. f \in Injection(1 .. count, SentBy(nf, e))
  <2>1. f \in [1 .. count -> SentBy(nf, e)]
    BY <1>4
  <2>2. \A k, l \in 1 .. count : f[k] = f[l] => k = l
    BY <1>4, <1>5
  <2> HIDE DEF f
  <2> QED BY <2>1, <2>2 DEF Injection, IsInjective
<1>7. IsFiniteSet(SentBy(nf, e))
  <2>1. SentBy(nf, e) \in SUBSET sent
    BY DEF SentBy
  <2> QED BY <2>1, FS_Subset
<1>8. Cardinality(1 .. count) = count
  BY <1>2, FS_Interval
<1> HIDE DEF f
<1>9. Cardinality(1 .. count) <= Cardinality(SentBy(nf, e))
  BY <1>6, <1>7, FS_Injection
<1> QED BY <1>8, <1>9 DEF count

LEMMA InitSpam == Init => SpamInv
BY FS_EmptySet DEF Init, SpamInv, OnlySpammersBanned, Suspects, BanSteps

LEMMA SpamStays ==
  ASSUME TypeInv, SpamInv, [Next]_vars
  PROVE  /\ IsFiniteSet(sent)'
         /\ \A s : Spammer(s) => Spammer(s)'
<1>1. \/ UNCHANGED sent
      \/ \E m : sent' = sent \cup {m}
  <2>1. CASE UNCHANGED vars \/ Tick \/ Crash
    BY <2>1 DEF vars, world, Tick, Crash
  <2>2. ASSUME NEW s \in Member, NEW e \in Epoch, NEW p \in Epoch, NEW fits \in BOOLEAN,
               Send(s, e, p, fits)
        PROVE  \E m : sent' = sent \cup {m}
    BY <2>2 DEF Send
  <2>3. ASSUME NEW h \in Handler, NEW m \in sent, Receive(h, m) PROVE UNCHANGED sent
    BY <2>3 DEF Receive
  <2>4. ASSUME NEW h \in Handler, Step(h) PROVE UNCHANGED sent
    <3>1. CASE IsDuplicate(h) \/ GetRoot(h) \/ IsSpam(h) \/ GetRequestStats(h) \/ FindLeaf(h)
      BY <3>1 DEF IsDuplicate, GetRoot, IsSpam, GetRequestStats, FindLeaf, world
    <3>2. CASE SaveBanned(h) \/ UpdateUser(h) \/ UpdateParent(h) \/ Announce(h)
      BY <3>2 DEF SaveBanned, UpdateUser, UpdateParent, Announce, world
    <3>3. CASE PersistMessage(h) \/ SaveMessage(h) \/ Publish(h)
      BY <3>3 DEF PersistMessage, SaveMessage, Publish, world
    <3> QED BY <2>4, <3>1, <3>2, <3>3 DEF Step
  <2> QED BY <2>1, <2>2, <2>3, <2>4 DEF Next
<1>2. IsFiniteSet(sent') /\ sent \subseteq sent'
  BY <1>1, FS_AddElement DEF SpamInv
<1>3. ASSUME NEW s, Spammer(s) PROVE Spammer(s)'
  <2>1. PICK p \in Epoch, e \in Epoch : Cardinality(SentBy(<<s, p>>, e)) > Threshold
    BY <1>3 DEF Spammer
  <2>2. SentBy(<<s, p>>, e)' \in SUBSET sent' /\ SentBy(<<s, p>>, e) \in SUBSET (SentBy(<<s, p>>, e)')
    BY <1>2 DEF SentBy
  <2>3. IsFiniteSet(SentBy(<<s, p>>, e)')
    BY <1>2, <2>2, FS_Subset
  <2>4. Cardinality(SentBy(<<s, p>>, e)) <= Cardinality(SentBy(<<s, p>>, e)')
    BY <2>2, <2>3, FS_Subset
  <2>5. Cardinality(SentBy(<<s, p>>, e)) \in Nat /\ Cardinality(SentBy(<<s, p>>, e)') \in Nat
    BY <2>2, <2>3, FS_Subset, FS_CardinalityType
  <2>6. Cardinality(SentBy(<<s, p>>, e)') > Threshold
    BY <2>1, <2>4, <2>5, ConfigAssumption
  <2> QED BY <2>6 DEF Spammer
<1> QED BY <1>2, <1>3

LEMMA StatsGrow ==
  ASSUME TypeInv, [Next]_vars, NEW m \in Message, Len(StatsOf(m)) >= Threshold
  PROVE  Len(StatsOf(m)') >= Threshold
<1>1. nullifier(m) \in Nullifier /\ m.epoch \in Epoch
  BY MessageFields
<1>2. PICK stats \in Seq(Share) : stats = requestStats[nullifier(m)][m.epoch]
  BY <1>1 DEF TypeInv, TypeOK
<1>3. ASSUME NEW h \in Handler, SaveMessage(h)
      PROVE  Len(requestStats'[nullifier(m)][m.epoch]) >= Threshold
  <2>1. PICK x \in Share : x = shareOf(msg[h])
    BY <1>3, MessageFields DEF SaveMessage, TypeInv, TypeOK, HandlerInv
  <2>2. requestStats'[nullifier(m)][m.epoch] \in {stats, Append(stats, x)}
    BY <1>1, <1>2, <1>3, <2>1 DEF SaveMessage, TypeInv, TypeOK
  <2>3. Len(Append(stats, x)) = Len(stats) + 1 /\ Len(stats) \in Nat
    OBVIOUS
  <2>4. Len(stats) >= Threshold
    BY <1>2 DEF StatsOf
  <2> QED BY <2>2, <2>3, <2>4, ConfigAssumption
<1> QED BY <1>3, StatsWritten DEF StatsOf

\* What the handler that recovers a secret holds is one share more than the
\* limit, all of messages its sender sent for that epoch.
LEMMA RecoveredIsSpammer ==
  ASSUME TypeInv, OnceInv, SpamInv, NEW h \in Handler, pc[h] = "getRequestStats"
  PROVE  Spammer(msg[h].sender)
<1>1. PICK m \in Message : m = msg[h] /\ m \in received
  BY DEF TypeInv, TypeOK, HandlerInv
<1>2. /\ nullifier(m) \in Nullifier /\ m.epoch \in Epoch /\ shareOf(m) \in Share
      /\ m \in sent /\ received \subseteq sent
  BY <1>1, MessageFields DEF TypeInv, TypeOK
<1>3. PICK stats \in Seq(Share) : stats = requestStats[nullifier(m)][m.epoch]
  BY <1>2 DEF TypeInv, TypeOK
<1>4. \A k \in DOMAIN stats : stats[k] # shareOf(m)
  <2>1. ~isDuplicateRequest(m)
    BY <1>1 DEF OnceInv
  <2> QED BY <1>3, <2>1 DEF isDuplicateRequest, SharesOf, StatsOf
<1>5. /\ \A k \in DOMAIN stats :
           \E n \in received :
             nullifier(n) = nullifier(m) /\ n.epoch = m.epoch /\ shareOf(n) = stats[k]
      /\ \A k, l \in DOMAIN stats : stats[k] = stats[l] => k = l
  BY <1>2, <1>3 DEF OnceInv
<1>6. /\ \A k \in DOMAIN stats : \E n \in SentBy(nullifier(m), m.epoch) : shareOf(n) = stats[k]
      /\ \E n \in SentBy(nullifier(m), m.epoch) : shareOf(n) = shareOf(m)
  BY <1>2, <1>5 DEF SentBy
<1>7. Len(stats) + 1 <= Cardinality(SentBy(nullifier(m), m.epoch))
  BY <1>2, <1>4, <1>5, <1>6, SharesAreMessages DEF SpamInv
<1>8. Len(stats) >= Threshold /\ Len(stats) \in Nat
  BY <1>1, <1>3 DEF SpamInv, StatsOf
<1>9. Cardinality(SentBy(nullifier(m), m.epoch)) \in Nat
  <2>1. SentBy(nullifier(m), m.epoch) \in SUBSET sent
    BY DEF SentBy
  <2> QED BY <2>1, FS_Subset, FS_CardinalityType DEF SpamInv
<1>10. Cardinality(SentBy(nullifier(m), m.epoch)) > Threshold
  BY <1>7, <1>8, <1>9, ConfigAssumption
<1> QED BY <1>1, <1>10, MessageFields DEF Spammer

\* A handler that stays where it is.
LEMMA CulpritStays ==
  ASSUME TypeInv, SpamInv, [Next]_vars,
         NEW h \in Handler, pc'[h] = pc[h], msg'[h] = msg[h], culprit'[h] = culprit[h]
  PROVE  /\ pc'[h] = "getRequestStats" => Len(StatsOf(msg[h]))' >= Threshold
         /\ Suspects(h)' => Spammer(culprit[h])'
<1>1. ASSUME pc[h] = "getRequestStats" PROVE Len(StatsOf(msg[h]))' >= Threshold
  <2>1. PICK m \in Message : m = msg[h] /\ m = msg'[h]
    BY <1>1 DEF TypeInv, TypeOK, HandlerInv
  <2>2. Len(StatsOf(m)) >= Threshold
    BY <1>1, <2>1 DEF SpamInv
  <2>3. Len(StatsOf(m)') >= Threshold
    BY <2>2, StatsGrow
  <2> QED BY <2>1, <2>3 DEF StatsOf
<1>2. ASSUME Suspects(h)' PROVE Spammer(culprit[h])'
  <2>1. PICK s : s = culprit[h] /\ s = culprit'[h]
    OBVIOUS
  <2>2. Spammer(s)
    BY <1>2, <2>1 DEF SpamInv, Suspects
  <2>3. Spammer(s)'
    BY <2>2, SpamStays
  <2> QED BY <2>1, <2>3 DEF Spammer, SentBy
<1> QED BY <1>1, <1>2

LEMMA NextSpam ==
  ASSUME TypeInv, OnceInv, SpamInv, [Next]_vars
  PROVE  SpamInv'
<1>1. \A s \in Member : s \in banned => Spammer(s)'
  BY SpamStays DEF SpamInv, OnlySpammersBanned, Spammer
\* It is enough to look at the handler that moves and at whom it bans.
<1>2. ASSUME NEW h \in Handler,
             \A g \in Handler \ {h} :
               pc'[g] = pc[g] /\ msg'[g] = msg[g] /\ culprit'[g] = culprit[g],
             pc'[h] = "getRequestStats" => Len(StatsOf(msg[h]))' >= Threshold,
             Suspects(h)' => Spammer(culprit[h])',
             \A s \in banned' : Spammer(s)'
      PROVE  SpamInv'
  <2>1. \A g \in Handler :
          /\ pc'[g] = "getRequestStats" => Len(StatsOf(msg[g]))' >= Threshold
          /\ Suspects(g)' => Spammer(culprit[g])'
    BY <1>2, CulpritStays
  <2>2. OnlySpammersBanned'
    BY <1>2 DEF OnlySpammersBanned, Spammer
  <2> QED BY <2>1, <2>2, SpamStays DEF SpamInv
<1>3. banned \subseteq Member
  BY DEF TypeInv, TypeOK
<1>4. ASSUME UNCHANGED <<pc, msg, culprit, banned>> PROVE SpamInv'
  BY <1>1, <1>2, <1>3, <1>4, CulpritStays, HandlerAssumption
<1>5. CASE Tick
  BY <1>4, <1>5 DEF Tick, handlers, database
<1>6. ASSUME NEW s \in Member, NEW e \in Epoch, NEW p \in Epoch,
             NEW fits \in BOOLEAN, Send(s, e, p, fits)
      PROVE  SpamInv'
  BY <1>4, <1>6 DEF Send, handlers, database
<1>7. CASE Crash
  <2>1. \A h \in Handler : pc'[h] = "idle"
    BY <1>7 DEF Crash
  <2>2. OnlySpammersBanned'
    BY <1>1, <1>3, <1>7 DEF Crash, database, OnlySpammersBanned, Spammer
  <2> QED BY <2>1, <2>2, SpamStays DEF SpamInv, Suspects, BanSteps
<1>8. ASSUME NEW h \in Handler, NEW m \in sent, Receive(h, m) PROVE SpamInv'
  <2>1. /\ \A g \in Handler \ {h} :
             pc'[g] = pc[g] /\ msg'[g] = msg[g] /\ culprit'[g] = culprit[g]
        /\ pc'[h] \in {"idle", "isDuplicate"} /\ banned' = banned
    BY <1>8 DEF Receive, TypeInv, TypeOK, database
  <2>2. pc'[h] # "getRequestStats" /\ ~Suspects(h)'
    BY <2>1 DEF Suspects, BanSteps
  <2> QED BY <1>1, <1>2, <1>3, <2>1, <2>2
<1>9. ASSUME NEW h \in Handler, Step(h) PROVE SpamInv'
  <2>1. \A g \in Handler \ {h} :
          pc'[g] = pc[g] /\ msg'[g] = msg[g] /\ culprit'[g] = culprit[g]
    BY <1>9
    DEF Step, IsDuplicate, GetRoot, IsSpam, GetRequestStats, FindLeaf, SaveBanned,
        UpdateUser, UpdateParent, Announce, PersistMessage, SaveMessage, Publish,
        Return, GoTo, TypeInv, TypeOK
  <2>2. CASE IsSpam(h)
    <3>1. /\ UNCHANGED <<msg, requestStats, banned>> \/ pc'[h] = "idle"
          /\ banned' = banned
          /\ pc'[h] = "getRequestStats" =>
               UNCHANGED <<msg, requestStats>> /\ isSpamRequest(msg[h])
          /\ ~Suspects(h)'
      BY <2>2 DEF IsSpam, Return, GoTo, TypeInv, TypeOK, database, Suspects, BanSteps
    <3>2. pc'[h] = "getRequestStats" => Len(StatsOf(msg[h]))' >= Threshold
      BY <3>1 DEF isSpamRequest, StatsOf
    <3> QED BY <1>1, <1>2, <1>3, <2>1, <3>1, <3>2
  <2>3. CASE GetRequestStats(h)
    <3>1. PICK s \in Member : s = msg[h].sender
      BY <2>3 DEF GetRequestStats, TypeInv, TypeOK, HandlerInv, Message
    <3>2. /\ banned' = banned /\ pc'[h] \in {"findLeaf", "idle"}
          /\ pc'[h] = "findLeaf" => culprit'[h] \in {s, Stranger}
      BY <2>3, <3>1 DEF GetRequestStats, Recovered, Return, TypeInv, TypeOK, database
    <3>3. Spammer(s)
      BY <2>3, <3>1, RecoveredIsSpammer DEF GetRequestStats
    <3>4. Spammer(s)'
      BY <3>3, SpamStays
    <3>5. Suspects(h)' => Spammer(culprit[h])'
      <4>1. ASSUME Suspects(h)' PROVE culprit'[h] = s
        BY <3>2, <4>1, MemberAssumption DEF Suspects, BanSteps
      <4> QED BY <3>4, <4>1 DEF Spammer, SentBy
    <3> QED BY <1>1, <1>2, <1>3, <2>1, <3>2, <3>5
  <2>4. CASE FindLeaf(h) \/ SaveBanned(h) \/ UpdateUser(h) \/ UpdateParent(h)
    <3>1. PICK s : s = culprit[h]
      OBVIOUS
    <3>2. pc[h] \in BanSteps \cup {"findLeaf"}
      BY <2>4 DEF FindLeaf, SaveBanned, UpdateUser, UpdateParent, BanSteps
    <3>3. s \in Member => Spammer(s)'
      BY <3>1, <3>2, SpamStays DEF SpamInv, Suspects
    <3>4. /\ banned' \subseteq banned \cup {s} /\ (banned' # banned => s \in Member)
          /\ pc'[h] # "idle" => culprit'[h] = s
          /\ pc'[h] # "getRequestStats"
      BY <2>4, <3>1
      DEF FindLeaf, SaveBanned, UpdateUser, UpdateParent, Return, GoTo, TypeInv, TypeOK,
          HandlerInv, BanSteps, database
    <3>5. Suspects(h)' => Spammer(culprit[h])'
      BY <3>3, <3>4 DEF Suspects, BanSteps, Spammer, SentBy
    <3> QED BY <1>1, <1>2, <1>3, <2>1, <3>3, <3>4, <3>5
  <2>5. CASE \/ IsDuplicate(h) \/ GetRoot(h) \/ Announce(h)
             \/ PersistMessage(h) \/ SaveMessage(h) \/ Publish(h)
    <3>1. /\ banned' = banned
          /\ pc'[h] \in {"idle", "getRoot", "isSpam", "saveMessage", "publish"}
      BY <2>5
      DEF IsDuplicate, GetRoot, Announce, PersistMessage, SaveMessage, Publish,
          Return, GoTo, TypeInv, TypeOK, database
    <3>2. pc'[h] # "getRequestStats" /\ ~Suspects(h)'
      BY <3>1 DEF Suspects, BanSteps
    <3> QED BY <1>1, <1>2, <1>3, <2>1, <3>1, <3>2
  <2> QED BY <1>9, <2>2, <2>3, <2>4, <2>5 DEF Step
<1>10. CASE UNCHANGED vars
  BY <1>4, <1>10 DEF vars
<1> QED BY <1>5, <1>6, <1>7, <1>8, <1>9, <1>10 DEF Next

\* Whoever is banned has sent more than the threshold of messages for one
\* epoch, however the handlers interleaved and whenever the server was
\* restarted, provided that no message arrives twice.
THEOREM BannedAreSpammers ==
  ASSUME Redelivery = FALSE
  PROVE  Spec => []OnlySpammersBanned
<1>1. Init => TypeInv /\ OnceInv /\ SpamInv
  BY InitType, InitOnce, InitSpam
<1>2. TypeInv /\ OnceInv /\ SpamInv /\ [Next]_vars => (TypeInv /\ OnceInv /\ SpamInv)'
  BY NextType, NextOnce, NextSpam
<1>3. SpamInv => OnlySpammersBanned
  BY DEF SpamInv
<1> QED BY <1>1, <1>2, <1>3, PTL DEF Spec

------------------------------------------------------------------------------
(* Removal from the tree.                                                  *)

\* The handlers that go to change the tree, and those that have started to.
Zeroing(h) == pc[h] \in {"updateParent", "announce"}

\* Every member has at most one handler that removes it, and its leaf is
\* zeroed as soon as that handler climbs the tree.
BanInv ==
  /\ IsFiniteSet(banned)
  /\ Zeroed \subseteq banned
  /\ \A h \in Handler : Updating(h) =>
       /\ culprit[h] \in banned
       /\ culprit[h] \in Zeroed <=> Zeroing(h)
       /\ \A g \in Handler : g # h /\ Updating(g) => culprit[g] # culprit[h]

\* The leaf j is below the node n.
Over(n, j) == n[2] * 2 ^ n[1] <= j /\ j < (n[2] + 1) * 2 ^ n[1]

\* The handler that removes s has not climbed to the level of n yet.
Pending(s, n) ==
  \E h \in Handler :
    pc[h] = "updateParent" /\ culprit[h] = s /\ node[h][1] < n[1]

\* What the documents hold before a member was zeroed, and while the first
\* one is; a handler climbs from its member's leaf.
TreeInv ==
  /\ \A n \in TreeNode :
       /\ Zeroed = {} => hash[n] = SubtreeHash(Leaves({}), n)
       /\ \A s \in Member : Zeroed = {s} =>
            hash[n] = SubtreeHash(Leaves(IF Pending(s, n) THEN {} ELSE {s}), n)
  /\ \A h \in Handler : pc[h] = "updateParent" =>
       /\ Over(node[h], LeafOf[culprit[h]])
       /\ Zeroed = {culprit[h]} => nodeHash[h] = SubtreeHash(Leaves(Zeroed), node[h])

\* Whoever changes the root announces it.
ToldInv == announced = RootHash \/ \E h \in Handler : pc[h] = "announce"

\* A client signs with the root of a tree its own leaf is in.
SentInv ==
  \A m \in sent : \E zeroed \in SUBSET Member :
    m.sender \notin zeroed /\ m.root = ClientRoot(zeroed)

RemovalInv == crashes = 0 => BanInv /\ TreeInv /\ ToldInv

\* Where the leaves of a node, of its sibling and of its parent are.
LEMMA Spans ==
  ASSUME NEW n \in TreeNode, n # Root
  PROVE  \E B \in Nat \ {0}, o \in Nat :
           /\ 2 ^ n[1] = B /\ n[2] * 2 ^ n[1] = o
           /\ n[1] \in Nat /\ n[2] \in Nat
           /\ ParentOf(n)[1] = n[1] + 1
           /\ SiblingOf(n)[1] = n[1]
           /\ 2 ^ ParentOf(n)[1] = 2 * B
           /\ IsLeft(n) => /\ SiblingOf(n)[2] * B = o + B
                           /\ ParentOf(n)[2] * (2 * B) = o
           /\ ~IsLeft(n) => /\ SiblingOf(n)[2] * B = o - B
                            /\ ParentOf(n)[2] * (2 * B) = o - B
                            /\ o - B \in Nat
<1>1. PICK l \in 0 .. Levels, i \in Nat : n = <<l, i>> /\ l \in Nat
  BY NodeIsPair, CapacityFacts, LevelsAssumption DEF LeafIndex
<1>2. l + 1 \in 0 .. Levels
  BY <1>1, FamilyOfNode, LevelsAssumption DEF ParentOf, TreeNode, Node
<1>3. PICK B \in Nat \ {0} : B = 2 ^ l /\ 2 ^ (l + 1) = 2 * B
  BY <1>1, <1>2, LevelsAssumption, Powers
<1>4. PICK o \in Nat : o = i * B
  BY <1>3
<1>5. ParentOf(n) = <<l + 1, i \div 2>>
  BY <1>1 DEF ParentOf
<1>6. CASE i % 2 = 0
  <2>1. IsLeft(n) /\ SiblingOf(n) = <<l, i + 1>>
    BY <1>1, <1>6 DEF IsLeft, SiblingOf
  <2>2. PICK q \in Nat : q = i \div 2 /\ i = 2 * q
    BY <1>1, <1>6
  <2>3. (i + 1) * B = o + B /\ q * (2 * B) = o
    BY <1>1, <1>3, <1>4, <2>2
  <2> QED BY <1>1, <1>3, <1>4, <1>5, <2>1, <2>2, <2>3
<1>7. CASE i % 2 # 0
  <2>1. ~IsLeft(n) /\ SiblingOf(n) = <<l, i - 1>>
    BY <1>1, <1>7 DEF IsLeft, SiblingOf
  <2>2. PICK q \in Nat : q = i \div 2 /\ i = 2 * q + 1
    BY <1>1, <1>7
  <2>3. (i - 1) * B = o - B /\ q * (2 * B) = o - B /\ o - B \in Nat
    <3>1. (2 * q + 1) * B = 2 * q * B + B /\ q * (2 * B) = 2 * q * B /\ 2 * q * B \in Nat
      BY <1>3, <2>2
    <3> QED BY <1>1, <1>3, <1>4, <2>2, <3>1
  <2> QED BY <1>1, <1>3, <1>4, <1>5, <2>1, <2>2, <2>3
<1> QED BY <1>6, <1>7

\* The hash of a parent is made of those of its children.
LEMMA ParentHash ==
  ASSUME NEW leaf \in [LeafIndex -> LeafValue], NEW n \in TreeNode, n # Root
  PROVE  SubtreeHash(leaf, ParentOf(n)) =
           HashUp(n, SubtreeHash(leaf, n), SubtreeHash(leaf, SiblingOf(n)))
<1>1. PICK B \in Nat \ {0}, o \in Nat :
           /\ 2 ^ n[1] = B /\ n[2] * 2 ^ n[1] = o
           /\ ParentOf(n)[1] = n[1] + 1
           /\ SiblingOf(n)[1] = n[1]
           /\ 2 ^ ParentOf(n)[1] = 2 * B
           /\ IsLeft(n) => /\ SiblingOf(n)[2] * B = o + B
                           /\ ParentOf(n)[2] * (2 * B) = o
           /\ ~IsLeft(n) => /\ SiblingOf(n)[2] * B = o - B
                            /\ ParentOf(n)[2] * (2 * B) = o - B
                            /\ o - B \in Nat
  BY Spans
<1>2. PICK a \in Nat : a = IF IsLeft(n) THEN o ELSE o - B
  BY <1>1
<1> DEFINE left  == [k \in 1 .. B |-> leaf[a + k - 1]]
           right == [k \in 1 .. B |-> leaf[a + B + k - 1]]
           both  == [k \in 1 .. 2 * B |-> leaf[a + k - 1]]
<1>3. SubtreeHash(leaf, ParentOf(n)) = both
  BY <1>1, <1>2 DEF SubtreeHash
<1>4. HashUp(n, SubtreeHash(leaf, n), SubtreeHash(leaf, SiblingOf(n))) = left \o right
  <2>1. CASE IsLeft(n)
    <3>1. SubtreeHash(leaf, n) = left /\ SubtreeHash(leaf, SiblingOf(n)) = right
      BY <1>1, <1>2, <2>1 DEF SubtreeHash
    <3> QED BY <2>1, <3>1 DEF HashUp, Hash
  <2>2. CASE ~IsLeft(n)
    <3>1. a + B = o
      BY <1>1, <1>2, <2>2
    <3>2. SubtreeHash(leaf, n) = right /\ SubtreeHash(leaf, SiblingOf(n)) = left
      BY <1>1, <1>2, <2>2, <3>1 DEF SubtreeHash
    <3> QED BY <2>2, <3>2 DEF HashUp, Hash
  <2> QED BY <2>1, <2>2
<1>5. both \in HashValue
  BY <1>3, FamilyOfNode, SubtreeHashType
<1>6. /\ left \in Seq(LeafValue) /\ Len(left) = B
      /\ right \in Seq(LeafValue) /\ Len(right) = B
      /\ both \in Seq(LeafValue) /\ Len(both) = 2 * B
  <2>1. both \in Seq(LeafValue) /\ Len(both) = 2 * B
    BY <1>1, <1>5 DEF HashValue
  <2>2. \A k \in 1 .. 2 * B : leaf[a + k - 1] \in LeafValue
    <3>1. \A k \in 1 .. 2 * B : both[k] = leaf[a + k - 1]
      OBVIOUS
    <3> HIDE DEF both
    <3> QED BY <2>1, <3>1, ElementOfSeq
  <2>3. \A k \in 1 .. B : leaf[a + k - 1] \in LeafValue /\ leaf[a + B + k - 1] \in LeafValue
    <3> TAKE k \in 1 .. B
    <3>1. k \in 1 .. 2 * B /\ B + k \in 1 .. 2 * B /\ a + B + k - 1 = a + (B + k) - 1
      BY <1>1, <1>2
    <3> QED BY <2>2, <3>1
  <2>4. left \in Seq(LeafValue) /\ Len(left) = B
    BY ONLY B \in Nat \ {0}, <2>3
  <2>5. right \in Seq(LeafValue) /\ Len(right) = B
    BY ONLY B \in Nat \ {0}, <2>3
  <2> HIDE DEF left, right, both
  <2> QED BY <2>1, <2>4, <2>5
<1>7. left \o right = both
  <2>1. /\ left \o right \in Seq(LeafValue) /\ Len(left \o right) = 2 * B
        /\ \A k \in 1 .. 2 * B :
             (left \o right)[k] = IF k <= B THEN left[k] ELSE right[k - B]
    BY <1>1, <1>6, ConcatProperties
  <2>2. \A k \in 1 .. 2 * B : (left \o right)[k] = both[k]
    <3> TAKE k \in 1 .. 2 * B
    <3>1. CASE k <= B
      BY <1>1, <2>1, <3>1
    <3>2. CASE ~(k <= B)
      <4>1. k - B \in 1 .. B /\ a + B + (k - B) - 1 = a + k - 1
        BY <1>1, <1>2, <3>2
      <4> QED BY <1>1, <2>1, <3>2, <4>1
    <3> QED BY <3>1, <3>2
  <2> HIDE DEF left, right, both
  <2> QED BY <1>6, <2>1, <2>2, SeqEqual
<1> QED BY <1>3, <1>4, <1>7

\* A leaf below a node is below its parent and not below its sibling, and
\* below one node of a level only.
LEMMA OverFamily ==
  ASSUME NEW n \in TreeNode, n # Root, NEW j \in LeafIndex, Over(n, j)
  PROVE  Over(ParentOf(n), j) /\ ~Over(SiblingOf(n), j)
<1>1. PICK B \in Nat \ {0}, o \in Nat :
           /\ 2 ^ n[1] = B /\ n[2] * 2 ^ n[1] = o
           /\ n[2] \in Nat
           /\ SiblingOf(n)[1] = n[1]
           /\ 2 ^ ParentOf(n)[1] = 2 * B
           /\ IsLeft(n) => /\ SiblingOf(n)[2] * B = o + B
                           /\ ParentOf(n)[2] * (2 * B) = o
           /\ ~IsLeft(n) => /\ SiblingOf(n)[2] * B = o - B
                            /\ ParentOf(n)[2] * (2 * B) = o - B
                            /\ o - B \in Nat
  BY Spans
<1>2. SiblingOf(n)[2] \in Nat /\ ParentOf(n)[2] \in Nat
  BY FamilyOfNode, CapacityFacts DEF TreeNode, Node, LeafIndex
<1>3. j \in Nat
  BY CapacityFacts DEF LeafIndex
<1>4. (n[2] + 1) * B = o + B
  BY <1>1
<1>5. o <= j /\ j < o + B
  BY <1>1, <1>4 DEF Over
<1>6. /\ (SiblingOf(n)[2] + 1) * B = SiblingOf(n)[2] * B + B
      /\ (ParentOf(n)[2] + 1) * (2 * B) = ParentOf(n)[2] * (2 * B) + 2 * B
  BY <1>1, <1>2
<1>7. CASE IsLeft(n)
  <2>1. SiblingOf(n)[2] * B = o + B /\ ParentOf(n)[2] * (2 * B) = o
    BY <1>1, <1>7
  <2>2. Over(ParentOf(n), j)
    BY <1>1, <1>3, <1>5, <1>6, <2>1 DEF Over
  <2>3. ~Over(SiblingOf(n), j)
    BY <1>1, <1>3, <1>5, <2>1 DEF Over
  <2> QED BY <2>2, <2>3
<1>8. CASE ~IsLeft(n)
  <2>1. SiblingOf(n)[2] * B = o - B /\ ParentOf(n)[2] * (2 * B) = o - B
    BY <1>1, <1>8
  <2>2. Over(ParentOf(n), j)
    BY <1>1, <1>3, <1>5, <1>6, <2>1 DEF Over
  <2>3. ~Over(SiblingOf(n), j)
    BY <1>1, <1>3, <1>5, <1>6, <2>1 DEF Over
  <2> QED BY <2>2, <2>3
<1> QED BY <1>7, <1>8

LEMMA OverOnce ==
  ASSUME NEW n \in TreeNode, NEW m \in TreeNode, n[1] = m[1], n # m,
         NEW j \in LeafIndex, Over(n, j)
  PROVE  ~Over(m, j)
<1>1. PICK l \in 0 .. Levels, i \in Nat, k \in Nat : n = <<l, i>> /\ m = <<l, k>>
  BY NodeIsPair, CapacityFacts DEF LeafIndex
<1>2. PICK B \in Nat \ {0} : B = 2 ^ l
  BY Powers
<1>3. i # k /\ j \in Nat
  BY <1>1, CapacityFacts DEF LeafIndex
<1>4. i * B <= j /\ j < (i + 1) * B
  BY <1>1, <1>2 DEF Over
<1>5. CASE i < k
  <2>1. (k - (i + 1)) * B \in Nat
    BY <1>1, <1>2, <1>5
  <2>2. (k - (i + 1)) * B = k * B - (i + 1) * B
    BY <1>1, <1>2
  <2>3. j < k * B
    BY <1>1, <1>2, <1>3, <1>4, <2>1, <2>2
  <2> QED BY <1>1, <1>2, <1>3, <2>3 DEF Over
<1>6. CASE k < i
  <2>1. (i - (k + 1)) * B \in Nat
    BY <1>1, <1>2, <1>6
  <2>2. (i - (k + 1)) * B = i * B - (k + 1) * B
    BY <1>1, <1>2
  <2>3. (k + 1) * B <= j
    BY <1>1, <1>2, <1>3, <1>4, <2>1, <2>2
  <2> QED BY <1>1, <1>2, <1>3, <2>3 DEF Over
<1> QED BY <1>1, <1>3, <1>5, <1>6

LEMMA OverLeaf ==
  ASSUME NEW j \in LeafIndex
  PROVE  Over(<<0, j>>, j) /\ 2 ^ 0 = 1
<1>1. 2 ^ 0 = 1
  <2>1. PICK a \in Nat \ {0} : a = 2 ^ 0 /\ 2 ^ (Levels - 0) * a = Capacity
    BY LevelsAssumption, Powers
  <2>2. 2 ^ (Levels - 0) = Capacity
    BY LevelsAssumption DEF Capacity
  <2>3. Capacity * (a - 1) = 0
    BY <2>1, <2>2, CapacityFacts
  <2> QED BY <2>1, <2>3, CapacityFacts
<1> QED BY <1>1, CapacityFacts DEF Over, LeafIndex

\* Zeroing one member changes the leaf of that member.
LEMMA LeavesOfOne ==
  ASSUME NEW s \in Member
  PROVE  /\ Leaves({s})[LeafOf[s]] = Zero
         /\ \A j \in LeafIndex : j # LeafOf[s] => Leaves({s})[j] = Leaves({})[j]
<1>1. ~ \E t \in Member \ {s} : LeafOf[t] = LeafOf[s]
  BY MemberAssumption
<1>2. Leaves({s})[LeafOf[s]] = Zero
  BY <1>1, MemberAssumption DEF Leaves
<1>3. ASSUME NEW j \in LeafIndex, j # LeafOf[s] PROVE Leaves({s})[j] = Leaves({})[j]
  <2>1. \A t : t \in Member \ {s} /\ LeafOf[t] = j <=> t \in Member \ {} /\ LeafOf[t] = j
    BY <1>3
  <2>2. /\ Leaves({s})[j] = IF \E t \in Member \ {s} : LeafOf[t] = j
                              THEN CHOOSE t \in Member \ {s} : LeafOf[t] = j ELSE Zero
        /\ Leaves({})[j] = IF \E t \in Member \ {} : LeafOf[t] = j
                             THEN CHOOSE t \in Member \ {} : LeafOf[t] = j ELSE Zero
    BY DEF Leaves
  <2>3. CASE \E t \in Member \ {} : LeafOf[t] = j
    <3>1. PICK t \in Member : LeafOf[t] = j /\ t # s
      BY <1>3, <2>3
    <3>2. \A u \in Member : LeafOf[u] = j => u = t
      BY <3>1, MemberAssumption
    <3>3. (CHOOSE u \in Member \ {s} : LeafOf[u] = j) = t
      BY <3>1, <3>2
    <3>4. (CHOOSE u \in Member \ {} : LeafOf[u] = j) = t
      BY <3>1, <3>2
    <3> QED BY <2>2, <3>1, <3>3, <3>4
  <2>4. CASE ~ \E t \in Member \ {} : LeafOf[t] = j
    BY <2>1, <2>2, <2>4
  <2> QED BY <2>3, <2>4
<1> QED BY <1>2, <1>3

\* A node that is not over the leaf of a member does not see it zeroed.
LEMMA HashElsewhere ==
  ASSUME NEW s \in Member, NEW n \in TreeNode, ~Over(n, LeafOf[s])
  PROVE  SubtreeHash(Leaves({s}), n) = SubtreeHash(Leaves({}), n)
<1>1. PICK l \in 0 .. Levels, i \in LeafIndex :
        n = <<l, i>> /\ i < 2 ^ (Levels - l)
  BY NodeIsPair
<1>2. i \in Nat /\ LeafOf[s] \in Nat
  BY CapacityFacts, MemberAssumption DEF LeafIndex
<1>3. PICK B \in Nat \ {0} : B = 2 ^ l /\ 2 ^ (Levels - l) * B = Capacity
  BY Powers
<1>4. PICK o \in Nat : o = i * B /\ (i + 1) * B = o + B
  BY <1>2, <1>3
<1>5. ASSUME NEW k \in 1 .. B
      PROVE  o + k - 1 \in LeafIndex /\ o + k - 1 # LeafOf[s]
  <2>1. o + k - 1 \in LeafIndex
    <3>1. 2 ^ (Levels - l) \in Nat \ {0}
      BY Powers
    <3> QED BY <1>1, <1>2, <1>3, <1>4, <3>1, LeafBelow DEF LeafIndex
  <2>2. o + k - 1 # LeafOf[s]
    <3>1. ~(o <= LeafOf[s] /\ LeafOf[s] < o + B)
      BY <1>1, <1>3, <1>4 DEF Over
    <3> QED BY <1>2, <1>3, <1>4, <3>1
  <2> QED BY <2>1, <2>2
<1>6. \A k \in 1 .. B : Leaves({s})[o + k - 1] = Leaves({})[o + k - 1]
  BY <1>5, LeavesOfOne
<1> QED BY <1>1, <1>3, <1>4, <1>6 DEF SubtreeHash

\* What updateUser computes for the parent, after one member was zeroed.
LEMMA ClimbedHash ==
  ASSUME NEW s \in Member, NEW n \in TreeNode, n # Root, Over(n, LeafOf[s])
  PROVE  HashUp(n, SubtreeHash(Leaves({s}), n), siblingHash[n])
           = SubtreeHash(Leaves({s}), ParentOf(n))
<1>1. SiblingOf(n) \in TreeNode /\ LeafOf[s] \in LeafIndex
  BY FamilyOfNode, MemberAssumption
<1>2. siblingHash[n] = SubtreeHash(Leaves({}), SiblingOf(n))
  BY DEF siblingHash
<1>3. SubtreeHash(Leaves({}), SiblingOf(n)) = SubtreeHash(Leaves({s}), SiblingOf(n))
  BY <1>1, OverFamily, HashElsewhere
<1> QED BY <1>2, <1>3, LeavesType, ParentHash

\* The root a client computes is the hash of the top of the tree.
LEMMA ClientRootIsTop ==
  ASSUME NEW zeroed
  PROVE  SubtreeHash(Leaves(zeroed), Root) = ClientRoot(zeroed)
<1>1. 2 ^ Levels = Capacity /\ 0 * Capacity = 0
  BY CapacityFacts DEF Capacity
<1>2. SubtreeHash(Leaves(zeroed), Root)
        = [k \in 1 .. Capacity |-> Leaves(zeroed)[0 + k - 1]]
  BY <1>1 DEF SubtreeHash, Root
<1>3. \A k \in 1 .. Capacity : 0 + k - 1 = k - 1 /\ k <= Capacity
  BY CapacityFacts
<1> QED BY <1>2, <1>3 DEF ClientRoot, RootOf

\* A leaf holds its member, unless that was zeroed.
LEMMA LeafOfMember ==
  ASSUME NEW zeroed, NEW s \in Member \ zeroed
  PROVE  Leaves(zeroed)[LeafOf[s]] = s
<1>1. \A t \in Member \ zeroed : LeafOf[t] = LeafOf[s] => t = s
  BY MemberAssumption
<1>2. (CHOOSE t \in Member \ zeroed : LeafOf[t] = LeafOf[s]) = s
  BY <1>1
<1> QED BY <1>2, MemberAssumption DEF Leaves

LEMMA LeafHash ==
  ASSUME NEW zeroed, NEW j \in LeafIndex
  PROVE  SubtreeHash(Leaves(zeroed), <<0, j>>) = <<Leaves(zeroed)[j]>>
<1>1. 2 ^ 0 = 1 /\ j \in Nat
  BY OverLeaf, CapacityFacts DEF LeafIndex
<1> QED BY <1>1 DEF SubtreeHash

\* Clients with different lists of leaves compute different roots.
LEMMA RootTellsMember ==
  ASSUME NEW s \in Member, NEW zeroed \in SUBSET Member, s \notin zeroed,
         NEW others \in SUBSET Member, s \in others
  PROVE  ClientRoot(zeroed) # ClientRoot(others)
<1>1. LeafOf[s] \in LeafIndex /\ LeafOf[s] + 1 \in 1 .. Capacity
      /\ (LeafOf[s] + 1) - 1 = LeafOf[s] /\ LeafOf[s] + 1 <= Capacity
  BY MemberAssumption, CapacityFacts DEF LeafIndex
<1>2. /\ ClientRoot(zeroed)[LeafOf[s] + 1] = Leaves(zeroed)[LeafOf[s]]
      /\ ClientRoot(others)[LeafOf[s] + 1] = Leaves(others)[LeafOf[s]]
  BY <1>1 DEF ClientRoot, RootOf
<1>3. Leaves(others)[LeafOf[s]] = Zero
  <2>1. ~ \E t \in Member \ others : LeafOf[t] = LeafOf[s]
    BY MemberAssumption
  <2> QED BY <1>1, <2>1 DEF Leaves
<1>4. Leaves(zeroed)[LeafOf[s]] = s
  BY LeafOfMember
<1>5. s # Zero
  BY MemberAssumption, ZeroAssumption
<1> QED BY <1>2, <1>3, <1>4, <1>5

LEMMA InitRemoval == Init => RemovalInv /\ SentInv
<1> SUFFICES ASSUME Init PROVE BanInv /\ TreeInv /\ ToldInv /\ SentInv
  BY DEF RemovalInv
<1>1. \A s \in Member : hash[<<0, LeafOf[s]>>] = <<s>>
  <2> TAKE s \in Member
  <2>1. LeafOf[s] \in LeafIndex /\ <<0, LeafOf[s]>> \in TreeNode
    BY MemberAssumption, LeafIsNode
  <2>2. hash[<<0, LeafOf[s]>>] = SubtreeHash(Leaves({}), <<0, LeafOf[s]>>)
    BY <2>1 DEF Init
  <2> QED BY <2>1, <2>2, LeafHash, LeafOfMember
<1>2. Zeroed = {}
  BY <1>1, MemberAssumption, ZeroAssumption DEF Zeroed
<1>3. \A h \in Handler : pc[h] = "idle"
  BY DEF Init
<1>4. BanInv
  BY <1>2, <1>3, FS_EmptySet DEF BanInv, Init, Updating
<1>5. TreeInv
  BY <1>2, <1>3 DEF TreeInv, Init
<1>6. ToldInv
  BY ClientRootIsTop, RootIsNode DEF ToldInv, Init, RootHash
<1>7. SentInv
  BY DEF SentInv, Init
<1> QED BY <1>4, <1>5, <1>6, <1>7

\* What only a document of a leaf decides.
LEMMA SameZeroed ==
  ASSUME \A s \in Member : hash'[<<0, LeafOf[s]>>] = hash[<<0, LeafOf[s]>>]
  PROVE  Zeroed' = Zeroed
BY DEF Zeroed

\* A step of a handler that does not change the tree, nor start to, nor stop in
\* the middle.
LEMMA QuietRemoval ==
  ASSUME TypeInv, BanInv, TreeInv, NEW h \in Handler,
         \A g \in Handler \ {h} :
           pc'[g] = pc[g] /\ culprit'[g] = culprit[g] /\ node'[g] = node[g]
             /\ nodeHash'[g] = nodeHash[g],
         UNCHANGED <<hash, banned>>, pc[h] # "updateParent",
         ~Updating(h)' \/ UNCHANGED <<pc, culprit, node, nodeHash>>
  PROVE  BanInv' /\ TreeInv'
<1>1. Zeroed' = Zeroed
  BY SameZeroed
<1>2. \A g \in Handler : Updating(g)' =>
        Updating(g) /\ pc'[g] = pc[g] /\ culprit'[g] = culprit[g]
  BY DEF Updating
<1>3. BanInv'
  BY <1>1, <1>2 DEF BanInv, Updating, Zeroing
<1>4. \A g \in Handler :
        (pc'[g] = "updateParent" <=> pc[g] = "updateParent")
          /\ (pc[g] = "updateParent" =>
                culprit'[g] = culprit[g] /\ node'[g] = node[g] /\ nodeHash'[g] = nodeHash[g])
  BY DEF Updating
<1>5. \A s \in Member, n \in TreeNode : Pending(s, n)' <=> Pending(s, n)
  BY <1>4 DEF Pending
<1>6. TreeInv'
  BY <1>1, <1>4, <1>5 DEF TreeInv, Over
<1> QED BY <1>3, <1>6

LEMMA SaveBannedRemoval ==
  ASSUME TypeInv, BanInv, TreeInv, NEW h \in Handler, SaveBanned(h), culprit[h] \notin banned
  PROVE  BanInv' /\ TreeInv'
<1>1. /\ pc' = [pc EXCEPT ![h] = "updateUser"] /\ pc[h] = "saveBanned"
      /\ banned' = banned \cup {culprit[h]}
      /\ UNCHANGED <<culprit, node, nodeHash, hash>>
  BY DEF SaveBanned, GoTo
<1>2. pc \in [Handler -> Steps]
  BY DEF TypeInv, TypeOK
<1>3. Zeroed' = Zeroed
  BY <1>1, SameZeroed
<1>4. BanInv'
  <2>1. IsFiniteSet(banned') /\ Zeroed' \subseteq banned'
    BY <1>1, <1>3, FS_AddElement DEF BanInv
  <2>2. culprit[h] \notin Zeroed /\ ~Zeroing(h)'
    BY <1>1, <1>2 DEF BanInv, Zeroing
  <2>3. \A g \in Handler \ {h} : Updating(g)' =>
          /\ Updating(g) /\ (Zeroing(g)' <=> Zeroing(g))
          /\ culprit[g] \in banned /\ culprit[g] # culprit[h]
    BY <1>1, <1>2 DEF BanInv, Updating, Zeroing
  <2> QED BY <1>1, <1>3, <2>1, <2>2, <2>3 DEF BanInv, Updating
<1>5. \A g \in Handler : pc'[g] = "updateParent" <=> pc[g] = "updateParent"
  BY <1>1, <1>2
<1>6. \A s \in Member, n \in TreeNode : Pending(s, n)' <=> Pending(s, n)
  BY <1>1, <1>5 DEF Pending
<1>7. TreeInv'
  BY <1>1, <1>3, <1>5, <1>6 DEF TreeInv, Over
<1> QED BY <1>4, <1>7

LEMMA UpdateUserRemoval ==
  ASSUME TypeInv, BanInv, TreeInv, ToldInv, NEW h \in Handler, UpdateUser(h)
  PROVE  BanInv' /\ TreeInv' /\ ToldInv'
<1>1. PICK s \in Member : s = culprit[h]
  BY DEF UpdateUser, TypeInv, HandlerInv, BanSteps
<1>2. PICK j \in LeafIndex : j = LeafOf[s]
  BY MemberAssumption
<1>3. <<0, j>> \in TreeNode /\ <<0, j>> # Root
  BY LeafIsNode
<1>4. /\ pc \in [Handler -> Steps] /\ node \in [Handler -> TreeNode]
      /\ nodeHash \in [Handler -> HashValue] /\ hash \in [TreeNode -> HashValue]
  BY DEF TypeInv, TypeOK
<1>5. /\ pc[h] = "updateUser" /\ pc' = [pc EXCEPT ![h] = "updateParent"]
      /\ hash' = [hash EXCEPT ![<<0, j>>] = <<Zero>>]
      /\ node' = [node EXCEPT ![h] = <<0, j>>]
      /\ nodeHash' = [nodeHash EXCEPT ![h] = <<Zero>>]
      /\ UNCHANGED <<culprit, banned, announced>>
  BY <1>1, <1>2 DEF UpdateUser, channel
<1>6. s \in banned /\ s \notin Zeroed
  BY <1>1, <1>5 DEF BanInv, Updating, Zeroing
<1>7. Zeroed' = Zeroed \cup {s}
  <2>1. \A t \in Member : <<0, LeafOf[t]>> \in TreeNode /\ (LeafOf[t] = j <=> t = s)
    BY <1>2, MemberAssumption, LeafIsNode
  <2>2. \A t \in Member : hash'[<<0, LeafOf[t]>>] =
          IF t = s THEN <<Zero>> ELSE hash[<<0, LeafOf[t]>>]
    BY <1>4, <1>5, <2>1
  <2> QED BY <2>2 DEF Zeroed
<1>8. BanInv'
  <2>1. \A g \in Handler \ {h} : Updating(g)' =>
          /\ Updating(g) /\ (Zeroing(g)' <=> Zeroing(g))
          /\ culprit[g] # s
    BY <1>1, <1>4, <1>5 DEF BanInv, Updating, Zeroing
  <2>2. Updating(h)' /\ Zeroing(h)'
    BY <1>4, <1>5 DEF Updating, Zeroing
  <2> QED BY <1>1, <1>5, <1>6, <1>7, <2>1, <2>2 DEF BanInv, Updating
<1>9. TreeInv'
  <2>1. Zeroed' # {} /\ \A t \in Member : Zeroed' = {t} => t = s /\ Zeroed = {}
    BY <1>6, <1>7
  <2>2. ASSUME Zeroed = {}, NEW n \in TreeNode
        PROVE  hash'[n] = SubtreeHash(Leaves(IF Pending(s, n)' THEN {} ELSE {s}), n)
    <3>1. hash[n] = SubtreeHash(Leaves({}), n)
      BY <2>2 DEF TreeInv
    <3>2. n[1] \in Nat
      BY LevelsAssumption DEF TreeNode, Node
    <3>3. CASE n[1] = 0
      <4>1. ~Pending(s, n)'
        <5>1. \A g \in Handler : node'[g] \in TreeNode
          BY <1>3, <1>4, <1>5
        <5>2. \A m \in TreeNode : ~(m[1] < 0)
          BY LevelsAssumption DEF TreeNode, Node
        <5> QED BY <3>3, <5>1, <5>2 DEF Pending
      <4>2. CASE n = <<0, j>>
        <5>1. hash'[n] = <<Zero>>
          BY <1>3, <1>4, <1>5, <4>2
        <5>2. SubtreeHash(Leaves({s}), n) = <<Leaves({s})[j]>>
          BY <4>2, LeafHash
        <5>3. Leaves({s})[j] = Zero
          BY <1>2, LeavesOfOne
        <5> QED BY <4>1, <5>1, <5>2, <5>3
      <4>3. CASE n # <<0, j>>
        <5>1. ~Over(n, j)
          BY <1>3, <3>3, <4>3, OverLeaf, OverOnce
        <5>2. SubtreeHash(Leaves({s}), n) = SubtreeHash(Leaves({}), n)
          BY <1>2, <5>1, HashElsewhere
        <5> QED BY <1>4, <1>5, <3>1, <4>1, <4>3, <5>2
      <4> QED BY <4>2, <4>3
    <3>4. CASE n[1] > 0
      <4>1. Pending(s, n)'
        BY <1>1, <1>4, <1>5, <3>4 DEF Pending
      <4>2. n # <<0, j>>
        BY <3>4
      <4> QED BY <1>4, <1>5, <3>1, <4>1, <4>2
    <3> QED BY <3>2, <3>3, <3>4
  <2>3. Over(node'[h], LeafOf[culprit'[h]])
        /\ (Zeroed' = {culprit'[h]} => nodeHash'[h] = SubtreeHash(Leaves(Zeroed'), node'[h]))
    <3>1. node'[h] = <<0, j>> /\ nodeHash'[h] = <<Zero>> /\ culprit'[h] = s
      BY <1>1, <1>4, <1>5
    <3>2. SubtreeHash(Leaves({s}), <<0, j>>) = <<Zero>>
      <4>1. SubtreeHash(Leaves({s}), <<0, j>>) = <<Leaves({s})[j]>>
        BY LeafHash
      <4> QED BY <1>2, <4>1, LeavesOfOne
    <3> QED BY <1>2, <3>1, <3>2, OverLeaf
  <2>4. ASSUME NEW g \in Handler \ {h}, pc'[g] = "updateParent"
        PROVE  Over(node'[g], LeafOf[culprit'[g]]) /\ Zeroed' # {culprit'[g]}
    <3>1. pc[g] = "updateParent" /\ node'[g] = node[g] /\ culprit'[g] = culprit[g]
      BY <1>4, <1>5, <2>4
    <3>2. culprit[g] # s
      BY <1>1, <1>5, <3>1 DEF BanInv, Updating
    <3> QED BY <1>7, <3>1, <3>2 DEF TreeInv
  <2>5. \A n \in TreeNode :
          /\ Zeroed' = {} => hash'[n] = SubtreeHash(Leaves({}), n)
          /\ \A t \in Member : Zeroed' = {t} =>
               hash'[n] = SubtreeHash(Leaves(IF Pending(t, n)' THEN {} ELSE {t}), n)
    BY <2>1, <2>2
  <2>6. \A g \in Handler : pc'[g] = "updateParent" =>
          /\ Over(node'[g], LeafOf[culprit'[g]])
          /\ Zeroed' = {culprit'[g]} => nodeHash'[g] = SubtreeHash(Leaves(Zeroed'), node'[g])
    BY <2>3, <2>4
  <2> QED BY <2>5, <2>6 DEF TreeInv, Over, SubtreeHash
<1>10. ToldInv'
  BY <1>3, <1>4, <1>5, RootIsNode DEF ToldInv, RootHash
<1> QED BY <1>8, <1>9, <1>10

LEMMA UpdateParentRemoval ==
  ASSUME TypeInv, BanInv, TreeInv, ToldInv, NEW h \in Handler, UpdateParent(h)
  PROVE  BanInv' /\ TreeInv' /\ ToldInv'
<1>1. PICK s \in Member : s = culprit[h]
  BY DEF UpdateParent, TypeInv, HandlerInv, BanSteps
<1>2. PICK n0 \in TreeNode : n0 = node[h] /\ n0 # Root
  BY DEF UpdateParent, TypeInv, TypeOK, HandlerInv
<1>3. PICK p \in TreeNode : p = ParentOf(n0) /\ p[1] = n0[1] + 1
  BY <1>2, FamilyOfNode DEF ParentOf
<1>4. \A n \in TreeNode : n[1] \in Nat /\ n[1] <= Levels
  BY LevelsAssumption DEF TreeNode, Node
<1>5. PICK up : up = HashUp(n0, nodeHash[h], siblingHash[n0])
  OBVIOUS
<1>6. /\ pc \in [Handler -> Steps] /\ node \in [Handler -> TreeNode]
      /\ nodeHash \in [Handler -> HashValue] /\ hash \in [TreeNode -> HashValue]
  BY DEF TypeInv, TypeOK
<1>7. /\ pc[h] = "updateParent"
      /\ pc' = [pc EXCEPT ![h] = IF p = Root THEN "announce" ELSE "updateParent"]
      /\ hash' = [hash EXCEPT ![p] = up]
      /\ node' = [node EXCEPT ![h] = p]
      /\ nodeHash' = [nodeHash EXCEPT ![h] = up]
      /\ UNCHANGED <<culprit, banned, announced>>
  BY <1>2, <1>3, <1>5 DEF UpdateParent, channel
<1>8. /\ \A g \in Handler \ {h} :
           pc'[g] = pc[g] /\ node'[g] = node[g] /\ nodeHash'[g] = nodeHash[g]
      /\ pc'[h] = IF p = Root THEN "announce" ELSE "updateParent"
      /\ node'[h] = p /\ nodeHash'[h] = up
      /\ \A n \in TreeNode : hash'[n] = IF n = p THEN up ELSE hash[n]
  BY <1>6, <1>7
<1>9. s \in Zeroed /\ \A g \in Handler \ {h} : Updating(g) => culprit[g] # s
  BY <1>1, <1>7 DEF BanInv, Updating, Zeroing
<1>10. Zeroed' = Zeroed
  <2>1. \A t \in Member : <<0, LeafOf[t]>> \in TreeNode /\ <<0, LeafOf[t]>> # p
    <3>1. \A i : <<0, i>> # p
      BY <1>2, <1>3, <1>4
    <3> QED BY <3>1, MemberAssumption, LeafIsNode
  <2> QED BY <1>8, <2>1, SameZeroed
<1>11. BanInv'
  <2>1. \A g \in Handler :
          (Updating(g)' <=> Updating(g)) /\ (Zeroing(g)' <=> Zeroing(g))
    BY <1>7, <1>8 DEF Updating, Zeroing
  <2> QED BY <1>7, <1>10, <2>1 DEF BanInv
<1>12. Over(n0, LeafOf[s]) /\ Over(p, LeafOf[s])
  <2>1. Over(n0, LeafOf[s])
    BY <1>1, <1>2, <1>7 DEF TreeInv
  <2> QED BY <1>2, <1>3, <2>1, OverFamily, MemberAssumption
<1>13. ASSUME Zeroed = {s} PROVE up = SubtreeHash(Leaves({s}), p)
  <2>1. nodeHash[h] = SubtreeHash(Leaves({s}), n0)
    BY <1>1, <1>2, <1>7, <1>13 DEF TreeInv
  <2> QED BY <1>2, <1>3, <1>5, <1>12, <2>1, ClimbedHash
\* Only the moving handler is pending for its member.
<1>14. ASSUME NEW n \in TreeNode
       PROVE  /\ Pending(s, n) <=> n0[1] < n[1]
              /\ Pending(s, n)' <=> p[1] < n[1]
  <2>1. Pending(s, n) <=> n0[1] < n[1]
    BY <1>1, <1>2, <1>7, <1>9 DEF Pending, Updating
  <2>2. \A g \in Handler : pc'[g] = "updateParent" /\ culprit'[g] = s => g = h
    BY <1>7, <1>8, <1>9 DEF Updating
  <2>3. CASE p = Root
    BY <1>4, <1>8, <2>1, <2>2, <2>3 DEF Pending, Root
  <2>4. CASE p # Root
    BY <1>1, <1>7, <1>8, <2>1, <2>2, <2>4 DEF Pending
  <2> QED BY <2>3, <2>4
<1>15. ASSUME Zeroed = {s}, NEW n \in TreeNode
       PROVE  hash'[n] = SubtreeHash(Leaves(IF Pending(s, n)' THEN {} ELSE {s}), n)
  <2>1. hash[n] = SubtreeHash(Leaves(IF Pending(s, n) THEN {} ELSE {s}), n)
    BY <1>15 DEF TreeInv
  <2>2. n[1] \in Nat /\ n0[1] \in Nat /\ p[1] = n0[1] + 1
    BY <1>3, <1>4
  <2>3. CASE n[1] = p[1]
    <3>1. Pending(s, n) /\ ~Pending(s, n)'
      BY <1>14, <2>2, <2>3
    <3>2. CASE n = p
      BY <1>8, <1>13, <1>15, <3>1, <3>2
    <3>3. CASE n # p
      <4>1. ~Over(n, LeafOf[s])
        BY <1>12, <2>3, <3>3, OverOnce, MemberAssumption
      <4>2. SubtreeHash(Leaves({s}), n) = SubtreeHash(Leaves({}), n)
        BY <4>1, HashElsewhere
      <4> QED BY <1>8, <2>1, <3>1, <3>3, <4>2
    <3> QED BY <3>2, <3>3
  <2>4. CASE n[1] # p[1]
    <3>1. Pending(s, n)' <=> Pending(s, n)
      BY <1>14, <2>2, <2>4
    <3> QED BY <1>8, <2>1, <2>4, <3>1
  <2> QED BY <2>3, <2>4
<1>16. TreeInv'
  <2>1. \A n \in TreeNode :
          /\ Zeroed' = {} => hash'[n] = SubtreeHash(Leaves({}), n)
          /\ \A t \in Member : Zeroed' = {t} =>
               hash'[n] = SubtreeHash(Leaves(IF Pending(t, n)' THEN {} ELSE {t}), n)
    BY <1>9, <1>10, <1>15
  <2>2. Over(node'[h], LeafOf[culprit'[h]])
        /\ (Zeroed' = {culprit'[h]} => nodeHash'[h] = SubtreeHash(Leaves(Zeroed'), node'[h]))
    <3>1. node'[h] = p /\ nodeHash'[h] = up /\ culprit'[h] = s
      BY <1>1, <1>7, <1>8
    <3> QED BY <1>10, <1>12, <1>13, <3>1
  <2>3. ASSUME NEW g \in Handler \ {h}, pc'[g] = "updateParent"
        PROVE  Over(node'[g], LeafOf[culprit'[g]]) /\ Zeroed' # {culprit'[g]}
    <3>1. pc[g] = "updateParent" /\ node'[g] = node[g] /\ culprit'[g] = culprit[g]
      BY <1>7, <1>8, <2>3
    <3>2. culprit[g] # s
      BY <1>9, <3>1 DEF Updating
    <3> QED BY <1>9, <1>10, <3>1, <3>2 DEF TreeInv
  <2>4. \A g \in Handler : pc'[g] = "updateParent" =>
          /\ Over(node'[g], LeafOf[culprit'[g]])
          /\ Zeroed' = {culprit'[g]} => nodeHash'[g] = SubtreeHash(Leaves(Zeroed'), node'[g])
    BY <2>2, <2>3
  <2> QED BY <2>1, <2>4 DEF TreeInv, Over, SubtreeHash
<1>17. ToldInv'
  <2>1. CASE p = Root
    BY <1>8, <2>1 DEF ToldInv
  <2>2. CASE p # Root
    <3>1. RootHash' = RootHash
      BY <1>8, <2>2, RootIsNode DEF RootHash
    <3>2. \A g \in Handler : pc[g] = "announce" => pc'[g] = "announce"
      BY <1>7, <1>8
    <3> QED BY <1>7, <3>1, <3>2 DEF ToldInv
  <2> QED BY <2>1, <2>2
<1> QED BY <1>11, <1>16, <1>17

LEMMA NextRemoval == TypeInv /\ RemovalInv /\ [Next]_vars => RemovalInv'
<1> SUFFICES ASSUME TypeInv, RemovalInv, [Next]_vars, crashes' = 0
             PROVE  BanInv' /\ TreeInv' /\ ToldInv'
  BY DEF RemovalInv
<1>1. crashes = 0 /\ ~Crash
  <2>1. crashes \in Nat
    BY ConfigAssumption DEF TypeInv, TypeOK
  <2>2. ~Crash
    BY <2>1 DEF Crash
  <2>3. crashes' = crashes
    BY <2>2
    DEF Next, vars, Tick, Send, Receive, Step, IsDuplicate, GetRoot, IsSpam,
        GetRequestStats, FindLeaf, SaveBanned, UpdateUser, UpdateParent, Announce,
        PersistMessage, SaveMessage, Publish, world
  <2> QED BY <2>2, <2>3
<1>2. BanInv /\ TreeInv /\ ToldInv
  BY <1>1 DEF RemovalInv
\* A handler moves where it has nothing to do with the tree.
<1>3. ASSUME NEW h \in Handler,
             \A g \in Handler \ {h} :
               pc'[g] = pc[g] /\ culprit'[g] = culprit[g] /\ node'[g] = node[g]
                 /\ nodeHash'[g] = nodeHash[g],
             UNCHANGED <<hash, banned, announced>>,
             pc[h] \notin {"updateParent", "announce"}, ~Updating(h)'
      PROVE  BanInv' /\ TreeInv' /\ ToldInv'
  <2>1. BanInv' /\ TreeInv'
    BY <1>2, <1>3, QuietRemoval
  <2>2. ToldInv'
    BY <1>2, <1>3 DEF ToldInv, RootHash
  <2> QED BY <2>1, <2>2
<1>4. ASSUME UNCHANGED <<pc, culprit, node, nodeHash, hash, banned, announced>>
      PROVE  BanInv' /\ TreeInv' /\ ToldInv'
  <2>1. Zeroed' = Zeroed /\ (ToldInv' <=> ToldInv)
    BY <1>4 DEF Zeroed, ToldInv, RootHash
  <2>2. BanInv'
    BY <1>2, <1>4, <2>1 DEF BanInv, Updating, Zeroing
  <2>3. \A s \in Member, n \in TreeNode : Pending(s, n)' <=> Pending(s, n)
    BY <1>4 DEF Pending
  <2>4. TreeInv'
    BY <1>2, <1>4, <2>1, <2>3 DEF TreeInv, Over
  <2> QED BY <1>2, <2>1, <2>2, <2>4
<1>5. CASE Tick
  BY <1>4, <1>5 DEF Tick, handlers, database, channel
<1>6. ASSUME NEW s \in Member, NEW e \in Epoch, NEW p \in Epoch,
             NEW fits \in BOOLEAN, Send(s, e, p, fits)
      PROVE  BanInv' /\ TreeInv' /\ ToldInv'
  BY <1>4, <1>6 DEF Send, handlers, database, channel
<1>7. ASSUME NEW h \in Handler, NEW m \in sent, Receive(h, m)
      PROVE  BanInv' /\ TreeInv' /\ ToldInv'
  <2>1. /\ \A g \in Handler \ {h} : pc'[g] = pc[g]
        /\ pc[h] = "idle" /\ pc'[h] \in {"idle", "isDuplicate"}
        /\ UNCHANGED <<culprit, node, nodeHash, hash, banned, announced>>
    BY <1>7 DEF Receive, TypeInv, TypeOK, database, channel
  <2> QED BY <1>3, <2>1 DEF Updating
<1>8. ASSUME NEW h \in Handler, Step(h) PROVE BanInv' /\ TreeInv' /\ ToldInv'
  <2>1. \A g \in Handler \ {h} :
          pc'[g] = pc[g] /\ culprit'[g] = culprit[g] /\ node'[g] = node[g]
            /\ nodeHash'[g] = nodeHash[g]
    BY <1>8
    DEF Step, IsDuplicate, GetRoot, IsSpam, GetRequestStats, FindLeaf, SaveBanned,
        UpdateUser, UpdateParent, Announce, PersistMessage, SaveMessage, Publish,
        Return, GoTo, TypeInv, TypeOK
  <2>2. CASE IsDuplicate(h) \/ GetRoot(h) \/ IsSpam(h) \/ GetRequestStats(h) \/ FindLeaf(h)
    <3>1. /\ pc[h] \notin {"updateParent", "announce"}
          /\ pc'[h] \in {"idle", "getRoot", "isSpam", "getRequestStats",
                         "persistMessage", "findLeaf", "saveBanned"}
          /\ UNCHANGED <<hash, banned, announced>>
      BY <2>2
      DEF IsDuplicate, GetRoot, IsSpam, GetRequestStats, FindLeaf, Return, GoTo,
          TypeInv, TypeOK, database, channel
    <3> QED BY <1>3, <2>1, <3>1 DEF Updating
  <2>3. CASE SaveBanned(h)
    <3>1. CASE culprit[h] \in banned
      <4>1. pc[h] = "saveBanned" /\ pc'[h] = "idle" /\ UNCHANGED <<hash, banned, announced>>
        BY <2>3, <3>1 DEF SaveBanned, Return, TypeInv, TypeOK, channel
      <4> QED BY <1>3, <2>1, <4>1 DEF Updating
    <3>2. CASE culprit[h] \notin banned
      <4>1. BanInv' /\ TreeInv'
        BY <1>2, <2>3, <3>2, SaveBannedRemoval
      <4>2. /\ pc[h] = "saveBanned" /\ pc' = [pc EXCEPT ![h] = "updateUser"]
            /\ UNCHANGED <<hash, announced>>
        BY <2>3, <3>2 DEF SaveBanned, GoTo, channel
      <4>3. ToldInv'
        BY <1>2, <2>1, <4>2 DEF ToldInv, RootHash
      <4> QED BY <4>1, <4>3
    <3> QED BY <3>1, <3>2
  <2>4. CASE UpdateUser(h)
    BY <1>2, <2>4, UpdateUserRemoval
  <2>5. CASE UpdateParent(h)
    BY <1>2, <2>5, UpdateParentRemoval
  <2>6. CASE Announce(h)
    <3>1. /\ pc[h] = "announce" /\ pc'[h] = "idle" /\ UNCHANGED <<hash, banned>>
          /\ announced' = RootHash
      BY <2>6 DEF Announce, Return, TypeInv, TypeOK, database
    <3>2. BanInv' /\ TreeInv'
      BY <1>2, <2>1, <3>1, QuietRemoval DEF Updating
    <3> QED BY <3>1, <3>2 DEF ToldInv, RootHash
  <2>7. CASE PersistMessage(h) \/ SaveMessage(h) \/ Publish(h)
    <3>1. /\ pc[h] \notin {"updateParent", "announce"}
          /\ pc'[h] \in {"idle", "saveMessage", "publish"}
          /\ UNCHANGED <<hash, banned, announced>>
      BY <2>7
      DEF PersistMessage, SaveMessage, Publish, Return, GoTo, TypeInv, TypeOK,
          database, channel
    <3> QED BY <1>3, <2>1, <3>1 DEF Updating
  <2> QED BY <1>8, <2>2, <2>3, <2>4, <2>5, <2>6, <2>7 DEF Step
<1>9. CASE UNCHANGED vars
  BY <1>4, <1>9 DEF vars
<1> QED BY <1>1, <1>5, <1>6, <1>7, <1>8, <1>9 DEF Next

LEMMA NextSent == SentInv /\ [Next]_vars => SentInv'
<1> SUFFICES ASSUME SentInv, [Next]_vars PROVE SentInv'
  OBVIOUS
<1>1. CASE sent' = sent
  BY <1>1 DEF SentInv
<1>2. ASSUME NEW s \in Member, NEW e \in Epoch, NEW p \in Epoch,
             NEW fits \in BOOLEAN, Send(s, e, p, fits)
      PROVE  SentInv'
  <2>1. PICK zeroed \in SUBSET Member :
          /\ s \notin zeroed
          /\ sent' = sent \cup
               {[sender |-> s, epoch |-> e, proofEpoch |-> p, share |-> CHOOSE x \in
                   {y \in Signal : \A m \in SentBy(<<s, p>>, e) : shareOf(m) # <<y, fits>>} :
                     TRUE, fits |-> fits,
                 root |-> ClientRoot(zeroed)]}
    BY <1>2 DEF Send, Zeroed
  <2>2. ASSUME NEW m \in sent' \ sent
        PROVE  m.sender \notin zeroed /\ m.root = ClientRoot(zeroed)
    BY <2>1
  <2> QED BY <2>1, <2>2 DEF SentInv
<1> QED
  BY <1>1, <1>2
  DEF Next, vars, Tick, Crash, Receive, Step, IsDuplicate, GetRoot, IsSpam,
      GetRequestStats, FindLeaf, SaveBanned, UpdateUser, UpdateParent, Announce,
      PersistMessage, SaveMessage, Publish, world

LEMMA RemovalInvariant == Spec => [](TypeInv /\ RemovalInv /\ SentInv)
<1>1. Init => TypeInv /\ RemovalInv /\ SentInv
  BY InitType, InitRemoval
<1>2. TypeInv /\ RemovalInv /\ SentInv /\ [Next]_vars
        => (TypeInv /\ RemovalInv /\ SentInv)'
  BY NextType, NextRemoval, NextSent
<1> QED BY <1>1, <1>2, PTL DEF Spec

\* With no handler in the middle of it, the tree is that of the members left.
LEMMA QuietTree ==
  ASSUME BanInv, TreeInv, \A h \in Handler : ~Updating(h), Cardinality(Zeroed) <= 1
  PROVE  RootHash = ClientRoot(Zeroed)
<1>1. IsFiniteSet(Zeroed)
  BY FS_Subset DEF BanInv
<1>2. \A n \in TreeNode, s \in Member : ~Pending(s, n)
  BY DEF Pending, Updating
<1>3. CASE Zeroed = {}
  <2>1. RootHash = SubtreeHash(Leaves(Zeroed), Root)
    BY <1>3, RootIsNode DEF TreeInv, RootHash
  <2> QED BY <2>1, ClientRootIsTop
<1>4. CASE Zeroed # {}
  <2>1. PICK s \in Member : s \in Zeroed
    BY <1>4 DEF Zeroed
  <2>2. Zeroed = {s}
    <3>1. Cardinality(Zeroed) = 1
      BY <1>1, <1>4, FS_CardinalityType, FS_EmptySet
    <3>2. \E x : Zeroed = {x}
      BY <1>1, <3>1, FS_Singleton
    <3> QED BY <2>1, <3>2
  <2>3. RootHash = SubtreeHash(Leaves(Zeroed), Root)
    BY <1>2, <2>2, RootIsNode DEF TreeInv, RootHash
  <2> QED BY <2>3, ClientRootIsTop
<1> QED BY <1>3, <1>4

\* When no handler is changing the tree, its root is announced and, after at
\* most one removal, the one the remaining members compute from the leaves:
\* for every tree, any number of members and of concurrent handlers, as long
\* as the server is not restarted in the middle of updateUser.
THEOREM MembersAlwaysProve == Spec => [](crashes = 0 => MembersCanProve)
<1>1. TypeInv /\ RemovalInv /\ SentInv => (crashes = 0 => MembersCanProve)
  <2> SUFFICES ASSUME RemovalInv, crashes = 0, \A h \in Handler : ~Updating(h)
               PROVE  /\ announced = RootHash
                      /\ Cardinality(Zeroed) <= 1 => RootHash = ClientRoot(Zeroed)
    BY DEF MembersCanProve
  <2>1. BanInv /\ TreeInv /\ ToldInv
    BY DEF RemovalInv
  <2>2. announced = RootHash
    BY <2>1 DEF ToldInv, Updating
  <2> QED BY <2>1, <2>2, QuietTree
<1> QED BY <1>1, RemovalInvariant, PTL

\* No message of the first member that is removed passes the proof check once
\* the tree was recalculated, whatever root it was signed with and however
\* long it waited in its handler.  A server that dies inside updateUser
\* leaves a tree nobody recalculates, hence the assumption.
THEOREM RemovedNeverPost ==
  ASSUME MaxCrashes = 0
  PROVE  Spec => RemovedCannotPost
<1>1. TypeInv /\ RemovalInv /\ SentInv /\ [Next]_vars =>
        [\A h \in Handler :
           /\ pc[h] = "getRoot" /\ pc'[h] = "isSpam"
           /\ Cardinality(Zeroed) <= 1
           /\ \A g \in Handler : ~Updating(g)
           => msg[h].sender \notin Zeroed]_vars
  <2> SUFFICES ASSUME TypeInv, RemovalInv, SentInv, Next, NEW h \in Handler,
                      pc[h] = "getRoot", pc'[h] = "isSpam", Cardinality(Zeroed) <= 1,
                      \A g \in Handler : ~Updating(g)
               PROVE  msg[h].sender \notin Zeroed
    OBVIOUS
  <2>1. msg[h].root = RootHash
    <3>1. GetRoot(h)
      <4>1. pc \in [Handler -> Steps]
        BY DEF TypeInv, TypeOK
      <4>2. ~Tick /\ ~Crash /\ 
              \A s \in Member, e, p \in Epoch, fits \in BOOLEAN : ~Send(s, e, p, fits)
        BY DEF Tick, Crash, Send, handlers
      <4>3. \A g \in Handler, m \in sent : ~Receive(g, m)
        BY <4>1 DEF Receive
      <4>4. PICK g \in Handler : Step(g)
        BY <4>2, <4>3 DEF Next
      <4>5. g = h
        BY <4>1, <4>4
        DEF Step, IsDuplicate, GetRoot, IsSpam, GetRequestStats, FindLeaf, SaveBanned,
            UpdateUser, UpdateParent, Announce, PersistMessage, SaveMessage, Publish,
            Return, GoTo
      <4> QED
        BY <4>4, <4>5
        DEF Step, IsDuplicate, IsSpam, GetRequestStats, FindLeaf, SaveBanned,
            UpdateUser, UpdateParent, Announce, PersistMessage, SaveMessage, Publish
    <3> QED BY <3>1 DEF GetRoot, Return, isZkProofValid, TypeInv, TypeOK
  <2>2. RootHash = ClientRoot(Zeroed)
    <3>1. crashes = 0
      BY DEF TypeInv, TypeOK
    <3> QED BY <3>1, QuietTree DEF RemovalInv
  <2>3. PICK m \in sent : m = msg[h] /\ m.sender \in Member
    BY DEF TypeInv, TypeOK, HandlerInv, Message
  <2>4. PICK zeroed \in SUBSET Member :
          m.sender \notin zeroed /\ m.root = ClientRoot(zeroed)
    BY DEF SentInv
  <2> QED BY <2>1, <2>2, <2>3, <2>4, RootTellsMember DEF Zeroed
<1> QED BY <1>1, RemovalInvariant, PTL DEF Spec, RemovedCannotPost

==============================================================================
