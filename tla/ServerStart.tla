----------------------------- MODULE ServerStart -----------------------------
(***************************************************************************)
(* The start of the server: the configuration read from the environment,   *)
(* and initZKChatServer on every node of a deployment over one database:   *)
(* connecting, seeding the zero hashes of the tree, synchronising the      *)
(* group, opening the sockets, creating the default room, listening.       *)
(*                                                                         *)
(* A start that rejects ends the process (nobody awaits it), and a process *)
(* that ended is started again (restart: always of docker-compose).  Of    *)
(* the synchronisation (see Synchronizer) it keeps what a start may leave  *)
(* undone: the group has one member, who stands for all.                   *)
(***************************************************************************)
EXTENDS Integers, FiniteSets, SequencesExt

CONSTANTS
  Node,
  Levels,      \* config.merkleTreeLevels
  Threshold,   \* values of SPAM_TRESHOLD in the environment, sequences of digits
  Delay,       \* values of EPOCH_ALLOWED_DELAY_THRESHOLD
  MaxFaults    \* bound: processes killed, connections refused, fetches failed

ASSUME NodeAssumption == IsFiniteSet(Node)
ASSUME LevelsAssumption == Levels \in Nat \ {0} /\ MaxFaults \in Nat
ASSUME EnvironmentAssumption ==
  Threshold \subseteq Seq(0 .. 9) /\ Delay \subseteq Seq(0 .. 9)

VARIABLES
  env,      \* the environment the nodes are deployed with
  node,     \* the processes: where the start is, its configuration, its next level
  zeros,    \* the treeZeros collection: the hash of every level, or NoHash
  tree,     \* the leaves, and those without a path, by the node that created them
  rooms,    \* how many documents the default room has
  faults,
  lapses    \* history: what can leave a start's work undone, see Lapse

vars == <<env, node, zeros, tree, rooms, faults, lapses>>

\* A start found unfinished zeros; a fetch of the members failed; a process ended
\* between the creation of a leaf and its path; a start looked for the leaf while
\* another was at work on it.
Lapse == {"zeros", "fetch", "path", "overlap"}

Level  == 0 .. Levels - 1
NoHash == -1   \* hashes are numbered: poseidonHash of a pair of the n-th is n + 1

------------------------------------------------------------------------------
\* Configuration

NaN == -1

\* parseInt: the longest prefix of digits of the radix.
ParseInt(digits, radix) ==
  LET valid == {n \in 0 .. Len(digits) : \A i \in 1 .. n : digits[i] < radix}
      n     == CHOOSE k \in valid : \A j \in valid : j <= k
  IN IF n = 0 THEN NaN
     ELSE FoldLeft(LAMBDA value, d : value * radix + d, 0, SubSeq(digits, 1, n))

\* parseInt(variable || text, radix) || default
Setting(variable, text, radix, default) ==
  LET value == ParseInt(IF variable = <<>> THEN text ELSE variable, radix)
  IN IF value \in {NaN, 0} THEN default ELSE value

Config(e) ==
  [spamThreshold |-> Setting(e.threshold, <<2>>, 2, 2),
   epochAllowedDelayThreshold |-> Setting(e.delay, <<2, 0>>, 20, 20)]

------------------------------------------------------------------------------

NotRunning ==   \* with the defaults of ZKServerConfigBuilder
  [pc |-> "ended", level |-> 0,
   config |-> [spamThreshold |-> 2, epochAllowedDelayThreshold |-> 20]]

Init ==
  /\ env \in [threshold : Threshold, delay : Delay]
  /\ node = [n \in Node |-> NotRunning]
  /\ zeros = [l \in Level |-> NoHash]
  /\ tree = [leaves |-> {}, unlinked |-> {}] /\ rooms = 0
  /\ faults = 0 /\ lapses = {}

Goto(n, pc) == node' = [node EXCEPT ![n].pc = pc]
At(n, pc)   == node[n].pc = pc
Ends(n)     == node' = [node EXCEPT ![n] = NotRunning]

\* createAppServer: the builder collects the configuration.
Start(n) ==
  /\ At(n, "ended")
  /\ node' = [node EXCEPT ![n] = [pc |-> "connecting", level |-> 0, config |-> Config(env)]]
  /\ UNCHANGED <<env, zeros, tree, rooms, faults, lapses>>

\* initDb
InitDb(n) ==
  /\ At(n, "connecting")
  /\ Goto(n, "finding zeros")
  /\ UNCHANGED <<env, zeros, tree, rooms, faults, lapses>>

\* The database refuses the connection, or the process is killed.
Fault(n) ==
  /\ ~ At(n, "ended") /\ faults < MaxFaults
  /\ faults' = faults + 1
  /\ lapses' = lapses \cup {l \in {"path"} : At(n, "linking")}
  /\ Ends(n)
  /\ UNCHANGED <<env, zeros, tree, rooms>>

\* seedZeros: nothing is seeded if there is any zero already.
Seeded == {l \in Level : zeros[l] # NoHash}

FindZeros(n) ==
  /\ At(n, "finding zeros")
  /\ Goto(n, IF Seeded = {} THEN "seeding" ELSE "synchronising")
  /\ lapses' = lapses \cup {l \in {"zeros"} : Seeded \notin {{}, Level}}
  /\ UNCHANGED <<env, zeros, tree, rooms, faults>>

\* One iteration: the zero of a level is hashed from the zero of the level below
\* that this start computed.  The unique index on the level refuses a second one,
\* and the start rejects.
CreateZero_swallowed(n) ==   \* mutant: a level that exists ends the loop
  LET l == node[n].level
  IN /\ At(n, "seeding")
     /\ IF zeros[l] # NoHash
          THEN Goto(n, "synchronising") /\ UNCHANGED zeros
          ELSE /\ zeros' = [zeros EXCEPT ![l] = l]
               /\ node' = [node EXCEPT ![n].level = l + 1,
                             ![n].pc = IF l + 1 = Levels THEN "synchronising" ELSE "seeding"]
     /\ UNCHANGED <<env, tree, rooms, faults, lapses>>

CreateZero(n) ==
  LET l == node[n].level
  IN /\ At(n, "seeding")
     /\ IF zeros[l] # NoHash
          THEN Ends(n) /\ UNCHANGED zeros
          ELSE /\ zeros' = [zeros EXCEPT ![l] = l]
               /\ node' = [node EXCEPT ![n].level = l + 1,
                             ![n].pc = IF l + 1 = Levels THEN "synchronising" ELSE "seeding"]
     /\ UNCHANGED <<env, tree, rooms, faults, lapses>>

\* loadGroupMembers, and in appendUsers the search for the leaf.  A fetch that
\* fails is an empty list, and the start goes on.
LoadMembers(n) ==
  /\ At(n, "synchronising")
  /\ Goto(n, IF tree.leaves = {} THEN "creating leaf" ELSE "creating room")
  /\ lapses' = lapses \cup
       {l \in {"overlap"} : \E m \in Node : At(m, "creating leaf") \/ At(m, "linking")}
  /\ UNCHANGED <<env, zeros, tree, rooms, faults>>

LoadFails(n) ==
  /\ At(n, "synchronising") /\ faults < MaxFaults
  /\ faults' = faults + 1
  /\ lapses' = lapses \cup {"fetch"}
  /\ Goto(n, "creating room")
  /\ UNCHANGED <<env, zeros, tree, rooms>>

StoreLeaf(n) ==
  /\ At(n, "creating leaf")
  /\ tree' = [leaves |-> tree.leaves \cup {n}, unlinked |-> tree.unlinked \cup {n}]
  /\ Goto(n, "linking")
  /\ UNCHANGED <<env, zeros, rooms, faults, lapses>>

\* Without the zero of a level, or with a neighbour that has no path, the leaf gets
\* none; the error is caught, and the leaf is passed over from then on.  (With two
\* leaves at work either may come first.)  The sockets are opened and the broadcasts
\* of the other nodes subscribed to without another await.
LinkLeaf(n) ==
  /\ At(n, "linking")
  /\ \/ Seeded = Level /\ tree' = [tree EXCEPT !.unlinked = @ \ {n}]
     \/ (Seeded # Level \/ tree.unlinked # {n}) /\ UNCHANGED tree
  /\ Goto(n, "creating room")
  /\ UNCHANGED <<env, zeros, rooms, faults, lapses>>

\* tryCreateDefaultChatroom: the unique index on the uuid refuses a second room,
\* and that error is swallowed.  The cleanup job is scheduled, then app.listen.
TryCreateDefaultChatroom_rethrown(n) ==   \* mutant
  /\ At(n, "creating room")
  /\ rooms' = 1
  /\ IF rooms = 1 THEN Ends(n) ELSE Goto(n, "listening")
  /\ UNCHANGED <<env, zeros, tree, faults, lapses>>

TryCreateDefaultChatroom(n) ==
  /\ At(n, "creating room")
  /\ rooms' = 1
  /\ Goto(n, "listening")
  /\ UNCHANGED <<env, zeros, tree, faults, lapses>>

InitZKChatServer(n) ==
  \/ InitDb(n) \/ FindZeros(n) \/ CreateZero(n)
  \/ LoadMembers(n) \/ LoadFails(n) \/ StoreLeaf(n) \/ LinkLeaf(n)
  \/ TryCreateDefaultChatroom(n)

Next == \E n \in Node : Start(n) \/ InitZKChatServer(n) \/ Fault(n)

Fairness == \A n \in Node : WF_vars(Start(n) \/ InitZKChatServer(n))

Spec == Init /\ [][Next]_vars /\ Fairness

------------------------------------------------------------------------------
\* Properties

\* Every variable has its type.
TypeOK ==
  /\ env \in [threshold : Threshold, delay : Delay]
  /\ node \in [Node ->
       [pc : {"ended", "connecting", "finding zeros", "seeding", "synchronising",
              "creating leaf", "linking", "creating room", "listening"},
        level : 0 .. Levels,
        config : [spamThreshold : Nat, epochAllowedDelayThreshold : Nat]]]
  /\ zeros \in [Level -> Level \cup {NoHash}]
  /\ tree \in [leaves : SUBSET Node, unlinked : SUBSET Node] /\ rooms \in 0 .. 1
  /\ faults \in 0 .. MaxFaults /\ lapses \subseteq Lapse

\* The zeros are the chain of hashes of the zero value, seeded from the leaves up
\* without a hole, whichever nodes seed them and wherever their starts end.
ZerosAreAChain ==
  \A l \in Seeded : zeros[l] = l /\ \A k \in 0 .. l : k \in Seeded

\* What a node that listens has under it, and what alone can take it away.  The
\* default room: nothing.  All the zeros: a start that found the zeros another was
\* seeding, or had left unfinished, and took them for complete.  A tree: a fetch that
\* failed.  The path of every leaf: either of these, a process that ended half way
\* through one, or two starts that synchronised at once.
ListeningIsComplete ==
  \A n \in Node : At(n, "listening") =>
    /\ rooms = 1
    /\ "zeros" \notin lapses => Seeded = Level
    /\ "fetch" \notin lapses => tree.leaves # {}
    /\ lapses = {} => tree.unlinked = {}

\* Every node listens in the end: starts that reject because another node seeds the
\* zeros, or creates the room, are not repeated for ever.
ListensEventually == \A n \in Node : <>[] At(n, "listening")

==============================================================================
