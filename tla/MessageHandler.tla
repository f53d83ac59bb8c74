--------------------------- MODULE MessageHandler ----------------------------
(***************************************************************************)
(* MessageHandlerService.handleChatMessage and what it calls: every        *)
(* message runs through one handler, an async function that other handlers *)
(* and other server nodes interleave with at each of its awaits.  All of   *)
(* them share the database (request statistics, messages, banned users and *)
(* the Merkle tree) and a pub/sub channel.                                 *)
(*                                                                         *)
(* The group of members is fixed here: MerkleTree covers how it grows.     *)
(***************************************************************************)
EXTENDS TreeOps, FiniteSets

CONSTANTS
  Member,      \* identity commitments of the members
  LeafOf,      \* the leaf index of each member
  Signal,      \* contents: the x coordinate of a message's share
  Stranger,    \* an identity commitment that is in no group
  Handler,     \* concurrent invocations of handleChatMessage
  Idle,        \* no message
  Threshold,   \* spamThreshold
  EpochLength, \* SECONDS_PER_EPOCH
  Delay,       \* epochAllowedDelayThreshold, in seconds
  MaxEpoch,    \* bound: the clock stops there
  MaxSent,     \* bound: messages of each member
  FieldsAgree, \* whether the fields of a message agree with those of its
               \* proof, as generateProof makes them; the server compares
               \* neither epoch with zk_proof.epoch nor x_share with the proof
  Redelivery,  \* whether clients repeat a message: the same content twice in
               \* an epoch gives the same share
  MaxCrashes   \* bound: restarts of the server

ASSUME MemberAssumption ==
  /\ Member \subseteq Commitment
  /\ Stranger \notin Member
  /\ LeafOf \in [Member -> LeafIndex]
  /\ \A s, t \in Member : LeafOf[s] = LeafOf[t] => s = t

ASSUME HandlerAssumption == IsFiniteSet(Handler) /\ Handler # {}

ASSUME ConfigAssumption ==
  /\ Threshold \in Nat \ {0}
  /\ EpochLength \in Nat \ {0}
  /\ Delay \in Nat
  /\ MaxEpoch \in Nat /\ MaxSent \in [Member -> Nat] /\ MaxCrashes \in Nat
  /\ FieldsAgree \in BOOLEAN /\ Redelivery \in BOOLEAN

Epoch     == 0 .. MaxEpoch
Nullifier == Member \X Epoch    \* internalNullifier: of a member, for an epoch
Share     == Signal \X BOOLEAN  \* x, and whether yShare belongs to this x

VARIABLES
  clock,        \* the epoch of the server's clock
  sent,         \* messages generated by the clients
  received,     \* those that have reached the server
  pc,           \* per handler: the database call it makes next
  msg,          \* per handler: its message
  culprit,      \* per handler: the commitment recovered from the shares
  node,         \* per handler: the tree node updateUser is at ...
  nodeHash,     \* ... and the hash it holds of it in memory
  requestStats, \* per nullifier and epoch: the stored shares
  posted,       \* per nullifier and epoch: Message documents created (history)
  banned,       \* BannedUser documents
  hash,         \* hash fields of the Merkle tree documents
  broadcast,    \* messages published to all nodes
  announced,    \* the root at the last TREE_UPDATE event
  crashes       \* restarts so far

vars == <<clock, sent, received, pc, msg, culprit, node, nodeHash, requestStats,
          posted, banned, hash, broadcast, announced, crashes>>

------------------------------------------------------------------------------
\* The tree the members were appended to, and its roots

Leaves(zeroed) ==
  [i \in LeafIndex |->
     IF \E s \in Member \ zeroed : LeafOf[s] = i
       THEN CHOOSE s \in Member \ zeroed : LeafOf[s] = i
       ELSE Zero]

\* The hash of a node over given leaves.
SubtreeHash(leaf, n) ==
  [i \in 1 .. 2 ^ n[1] |-> leaf[n[2] * 2 ^ n[1] + i - 1]]

TreeNode == {n \in Node : n[2] < 2 ^ (Levels - n[1])}

\* siblingHash of every node, as appendUsers left it; updateUser never
\* writes one.
siblingHash ==
  [n \in TreeNode \ {Root} |-> SubtreeHash(Leaves({}), SiblingOf(n))]

Zeroed          == {s \in Member : hash[<<0, LeafOf[s]>>] = <<Zero>>}
RootHash        == hash[Root]
ClientRoot(zrd) == RootOf(Leaves(zrd), Capacity)

\* A message: what the body says (epoch, share) and what its proof was made
\* for (sender, proofEpoch, root, the root of the leaves the client has: the
\* current ones or, if it missed an event, those it started with).  "fits"
\* says whether the share in the body is the one of the proof.
Message == [sender : Member, epoch : Epoch, proofEpoch : Epoch,
            share : Signal, fits : BOOLEAN,
            root : {ClientRoot(zeroed) : zeroed \in SUBSET Member}]

nullifier(m) == <<m.sender, m.proofEpoch>>
shareOf(m)   == <<m.share, m.fits>>

------------------------------------------------------------------------------
Init ==
  /\ clock = 0
  /\ sent = {}
  /\ received = {}
  /\ pc = [h \in Handler |-> "idle"]
  /\ msg = [h \in Handler |-> Idle]
  /\ culprit = [h \in Handler |-> Idle]
  /\ node = [h \in Handler |-> Root]
  /\ nodeHash = [h \in Handler |-> Unset]
  /\ requestStats = [n \in Nullifier |-> [e \in Epoch |-> << >>]]
  /\ posted = [n \in Nullifier |-> [e \in Epoch |-> 0]]
  /\ banned = {}
  /\ hash = [n \in TreeNode |-> SubtreeHash(Leaves({}), n)]
  /\ broadcast = {}
  /\ announced = ClientRoot({})
  /\ crashes = 0

handlers == <<pc, msg, culprit, node, nodeHash>>
database == <<requestStats, posted, banned, hash>>
channel  == <<broadcast, announced>>
world    == <<clock, sent, received, crashes>>

\* A handler goes on with its next database call, or returns or throws.
GoTo(h, step) ==
  /\ pc' = [pc EXCEPT ![h] = step]
  /\ UNCHANGED <<msg, culprit, node, nodeHash>>

Return(h) ==
  /\ pc' = [pc EXCEPT ![h] = "idle"]
  /\ msg' = [msg EXCEPT ![h] = Idle]
  /\ culprit' = [culprit EXCEPT ![h] = Idle]
  /\ node' = [node EXCEPT ![h] = Root]
  /\ nodeHash' = [nodeHash EXCEPT ![h] = Unset]

------------------------------------------------------------------------------
\* Queries

\* RequestStats documents are filed under the epoch of the body and the
\* nullifier of the proof.
StatsOf(m)  == requestStats[nullifier(m)][m.epoch]
SharesOf(m) == {StatsOf(m)[k] : k \in DOMAIN StatsOf(m)}

isDuplicateRequest(m) == shareOf(m) \in SharesOf(m)

\* Two mutants: the limit is exceeded one message late, or one early.
isSpamRequest_late(m)  == Len(StatsOf(m)) > Threshold
isSpamRequest_early(m) == Len(StatsOf(m)) + 1 >= Threshold
isSpamRequest(m)       == Len(StatsOf(m)) >= Threshold

\* A proof is valid for the root and the epoch it names itself; the root has
\* to be the current one.
isZkProofValid_anyRoot(m) == TRUE   \* mutant: the root is not compared
isZkProofValid(m)         == m.root = RootHash

\* retrieveSecret finds the line through the first two shares; two with the
\* same x have none, and the division throws.  If one of the two is not a
\* share of the sender's secret, the result is a secret nobody has.
Recoverable(shares)  == shares[1][1] # shares[2][1]
Recovered(m, shares) == IF shares[1][2] /\ shares[2][2] THEN m.sender ELSE Stranger

------------------------------------------------------------------------------
\* The world outside the handlers

Tick ==
  /\ clock < MaxEpoch
  /\ clock' = clock + 1
  /\ UNCHANGED <<sent, received, crashes, handlers, database, channel>>

SentBy(n, e) == {m \in sent : nullifier(m) = n /\ m.epoch = e}

\* A client whose clock is at most one epoch off sends a message, with a proof
\* for epoch p.  The contents of an epoch differ, and are otherwise alike: any
\* unused one will do.
Send(s, e, p, fits) ==
  LET unused == {x \in Signal : \A m \in SentBy(<<s, p>>, e) : shareOf(m) # <<x, fits>>}
  IN
  /\ e - clock \in {-1, 0, 1}
  /\ FieldsAgree => p = e /\ fits
  /\ Cardinality({m \in sent : m.sender = s}) < MaxSent[s]
  /\ unused # {}
  /\ \E zeroed \in {{}, Zeroed} :
       /\ s \notin zeroed
       /\ sent' = sent \cup
            {[sender |-> s, epoch |-> e, proofEpoch |-> p,
              share |-> CHOOSE x \in unused : TRUE, fits |-> fits,
              root |-> ClientRoot(zeroed)]}
  /\ UNCHANGED <<clock, received, crashes, handlers, database, channel>>

\* The process dies: the handlers are gone, the database stays.
Crash ==
  /\ crashes < MaxCrashes
  /\ crashes' = crashes + 1
  /\ pc' = [h \in Handler |-> "idle"]
  /\ msg' = [h \in Handler |-> Idle]
  /\ culprit' = [h \in Handler |-> Idle]
  /\ node' = [h \in Handler |-> Root]
  /\ nodeHash' = [h \in Handler |-> Unset]
  /\ UNCHANGED <<clock, sent, received, database, channel>>

------------------------------------------------------------------------------
\* handleChatMessage up to the spam check

Distance(e) == EpochLength * (IF e > clock THEN e - clock ELSE clock - e)
EpochValid(m) == Distance(m.epoch) < Delay

\* A message reaches a handler; one out of its time is dropped at once.
Receive(h, m) ==
  /\ pc[h] = "idle"
  /\ m \in received => Redelivery
  /\ received' = received \cup {m}
  /\ IF EpochValid(m)
       THEN /\ pc' = [pc EXCEPT ![h] = "isDuplicate"]
            /\ msg' = [msg EXCEPT ![h] = m]
       ELSE UNCHANGED <<pc, msg>>
  /\ UNCHANGED <<clock, sent, crashes, culprit, node, nodeHash, database, channel>>

IsDuplicate(h) ==
  /\ pc[h] = "isDuplicate"
  /\ IF isDuplicateRequest(msg[h]) THEN Return(h) ELSE GoTo(h, "getRoot")
  /\ UNCHANGED <<world, database, channel>>

GetRoot(h) ==
  /\ pc[h] = "getRoot"
  /\ IF isZkProofValid(msg[h]) THEN GoTo(h, "isSpam") ELSE Return(h)
  /\ UNCHANGED <<world, database, channel>>

IsSpam(h) ==
  /\ pc[h] = "isSpam"
  /\ IF isSpamRequest(msg[h])
       THEN GoTo(h, "getRequestStats")
       ELSE GoTo(h, "persistMessage")
  /\ UNCHANGED <<world, database, channel>>

------------------------------------------------------------------------------
\* The spam branch: recover, ban, zero the leaf, announce the new tree

\* getRequestStats and getUserFromShares: a secret is computed from the stored
\* shares and, after them, the new one.
GetRequestStats(h) ==
  LET shares == Append(StatsOf(msg[h]), shareOf(msg[h])) IN
  /\ pc[h] = "getRequestStats"
  /\ IF Recoverable(shares)
       THEN /\ pc' = [pc EXCEPT ![h] = "findLeaf"]
            /\ culprit' = [culprit EXCEPT ![h] = Recovered(msg[h], shares)]
            /\ UNCHANGED <<msg, node, nodeHash>>
       ELSE Return(h)
  /\ UNCHANGED <<world, database, channel>>

\* banUser looks the leaf up first, and throws "The user doesn't exists" when
\* it is gone or the commitment was never in the tree.
FindLeaf(h) ==
  /\ pc[h] = "findLeaf"
  /\ IF culprit[h] \in Member \ Zeroed THEN GoTo(h, "saveBanned") ELSE Return(h)
  /\ UNCHANGED <<world, database, channel>>

\* The unique index on idCommitment refuses a second document.
SaveBanned_only(h) ==   \* mutant: the leaf is left alone
  /\ pc[h] = "saveBanned"
  /\ banned' = banned \cup {culprit[h]}
  /\ GoTo(h, "announce")
  /\ UNCHANGED <<world, requestStats, posted, hash, channel>>

SaveBanned(h) ==
  /\ pc[h] = "saveBanned"
  /\ IF culprit[h] \in banned
       THEN Return(h) /\ UNCHANGED banned
       ELSE /\ banned' = banned \cup {culprit[h]}
            /\ GoTo(h, "updateUser")
  /\ UNCHANGED <<world, requestStats, posted, hash, channel>>

\* updateUser finds the leaf and saves it with the zero value.  Nobody else
\* zeroes this leaf in between: that takes a BannedUser of the same member.
UpdateUser(h) ==
  LET leaf == <<0, LeafOf[culprit[h]]>> IN
  /\ pc[h] = "updateUser"
  /\ hash' = [hash EXCEPT ![leaf] = <<Zero>>]
  /\ node' = [node EXCEPT ![h] = leaf]
  /\ nodeHash' = [nodeHash EXCEPT ![h] = <<Zero>>]
  /\ pc' = [pc EXCEPT ![h] = "updateParent"]
  /\ UNCHANGED <<msg, culprit, world, requestStats, posted, banned, channel>>

\* One turn of its loop.  It computes with the hash it saved itself and the
\* stored siblingHash, so reading the parent and saving it are one step.
UpdateParent(h) ==
  LET parent == ParentOf(node[h])
      up     == HashUp(node[h], nodeHash[h], siblingHash[node[h]])
  IN
  /\ pc[h] = "updateParent"
  /\ hash' = [hash EXCEPT ![parent] = up]
  /\ node' = [node EXCEPT ![h] = parent]
  /\ nodeHash' = [nodeHash EXCEPT ![h] = up]
  /\ pc' = [pc EXCEPT ![h] = IF parent = Root THEN "announce" ELSE "updateParent"]
  /\ UNCHANGED <<msg, culprit, world, requestStats, posted, banned, channel>>

\* Publish TREE_UPDATE, throw "Message is a spam".
Announce(h) ==
  /\ pc[h] = "announce"
  /\ announced' = RootHash
  /\ Return(h)
  /\ UNCHANGED <<world, database, broadcast>>

------------------------------------------------------------------------------
\* The regular branch: persist, charge, publish

PersistMessage_uncharged(h) ==   \* mutant: published before it is charged
  /\ pc[h] = "persistMessage"
  /\ posted' = [posted EXCEPT ![nullifier(msg[h])][msg[h].epoch] = @ + 1]
  /\ GoTo(h, "publish")
  /\ UNCHANGED <<world, requestStats, banned, hash, channel>>

PersistMessage(h) ==
  /\ pc[h] = "persistMessage"
  /\ posted' = [posted EXCEPT ![nullifier(msg[h])][msg[h].epoch] = @ + 1]
  /\ GoTo(h, "saveMessage")
  /\ UNCHANGED <<world, requestStats, banned, hash, channel>>

SaveMessage(h) ==
  /\ pc[h] = "saveMessage"
  /\ requestStats' =
       [requestStats EXCEPT ![nullifier(msg[h])][msg[h].epoch] =
          Append(@, shareOf(msg[h]))]
  /\ GoTo(h, "publish")
  /\ UNCHANGED <<world, posted, banned, hash, channel>>

Publish(h) ==
  /\ pc[h] = "publish"
  /\ broadcast' = broadcast \cup {msg[h]}
  /\ Return(h)
  /\ UNCHANGED <<world, database, announced>>

------------------------------------------------------------------------------
Step(h) ==
  \/ IsDuplicate(h)
  \/ GetRoot(h)
  \/ IsSpam(h)
  \/ GetRequestStats(h)
  \/ FindLeaf(h)
  \/ SaveBanned(h)
  \/ UpdateUser(h)
  \/ UpdateParent(h)
  \/ Announce(h)
  \/ PersistMessage(h)
  \/ SaveMessage(h)
  \/ Publish(h)

Next ==
  \/ Tick
  \/ \E s \in Member, e, p \in Epoch, fits \in BOOLEAN : Send(s, e, p, fits)
  \/ Crash
  \/ \E h \in Handler, m \in sent : Receive(h, m)
  \/ \E h \in Handler : Step(h)

Spec == Init /\ [][Next]_vars

\* A database call that was made is answered.
FairSpec == Spec /\ \A h \in Handler : WF_vars(Step(h))

------------------------------------------------------------------------------
\* Properties

Steps == {"idle", "isDuplicate", "getRoot", "isSpam", "getRequestStats",
          "findLeaf", "saveBanned", "updateUser", "updateParent", "announce",
          "persistMessage", "saveMessage", "publish"}

TypeOK ==
  /\ clock \in Epoch
  /\ sent \subseteq Message
  /\ received \subseteq sent
  /\ pc \in [Handler -> Steps]
  /\ msg \in [Handler -> sent \cup {Idle}]
  /\ culprit \in [Handler -> Member \cup {Stranger, Idle}]
  /\ node \in [Handler -> TreeNode]
  /\ nodeHash \in [Handler -> HashValue]
  /\ requestStats \in [Nullifier -> [Epoch -> Seq(Share)]]
  /\ posted \in [Nullifier -> [Epoch -> Nat]]
  /\ banned \subseteq Member
  /\ hash \in [TreeNode -> HashValue]
  /\ broadcast \subseteq received
  /\ announced \in HashValue
  /\ crashes \in 0 .. MaxCrashes

\* The rate limit the server enforces, whatever the messages say: of those
\* with one nullifier for one epoch it posts at most Threshold, plus one for
\* every other handler that passed the spam check before the first of them was
\* charged, plus one per restart that came between posting a message and
\* charging it.  For messages whose epoch is that of their proof this is a
\* limit per member and epoch; the server does not compare the two.
RateLimit ==
  \A n \in Nullifier, e \in Epoch :
    posted[n][e] <= Threshold + Cardinality(Handler) - 1
                    + crashes * Cardinality(Handler)

\* Nobody is banned without having exceeded the limit: a member loses its
\* membership only if it sent more than Threshold messages for one epoch with
\* proofs for one epoch.
OnlySpammersBanned ==
  \A s \in banned : \E p, e \in Epoch : Cardinality(SentBy(<<s, p>>, e)) > Threshold

\* Everything published to the clients has been charged to the allowance of
\* its nullifier and is in the history.
BroadcastIsCharged ==
  \A m \in broadcast :
    shareOf(m) \in SharesOf(m) /\ posted[nullifier(m)][m.epoch] > 0

Updating(h) == pc[h] \in {"updateUser", "updateParent", "announce"}

\* When no handler is changing the tree, the clients have been told of the
\* current root, and while at most one member is banned that root is the one
\* they compute from the leaves: every remaining member can post.
MembersCanProve ==
  (\A h \in Handler : ~Updating(h)) =>
    /\ announced = RootHash
    /\ Cardinality(Zeroed) <= 1 => RootHash = ClientRoot(Zeroed)

\* A member that was removed can no longer post: once the tree has been
\* recalculated without it, no message it ever signed gets past the proof
\* check, in whichever handler that was waiting.  Like MembersCanProve this
\* is about the first ban only.
RemovedCannotPost ==
  [][\A h \in Handler :
       /\ pc[h] = "getRoot" /\ pc'[h] = "isSpam"
       /\ Cardinality(Zeroed) <= 1
       /\ \A g \in Handler : ~Updating(g)
       => msg[h].sender \notin Zeroed]_vars

\* Spam that was detected gets its sender banned and its leaf in the tree zeroed,
\* also if two handlers detect it at once: the one whose BannedUser the unique
\* index refuses must not stop the other.  This is about the messages of
\* generateProof (FieldsAgree): the secret comes out of shares that fit, and a
\* handler that computes another one stops at banUser.  And it is about a server
\* that is not restarted between the steps (MaxCrashes = 0).
DetectedIsRemoved ==
  \A s \in Member, h \in Handler :
    pc[h] = "getRequestStats" /\ msg[h].sender = s ~> s \in banned \cap Zeroed

==============================================================================
