# A formal model of zk-chat

TLA+ specifications of the zk-chat server and client libraries, the TLC
configurations that check them on small instances, and proofs about them for
the TLAPS proof system. Paths are relative to the repository; `server-lib` is
`zk-chat-server-lib/src`, `client-lib` is `zk-chat-client-lib/src`.

    tlc -workers 2 -config MerkleTree_safety.cfg MCMerkleTree.tla
    tlapm MerkleTree_proofs.tla

## 1. The system

zk-chat is an anonymous chat with a rate limit. Members of Semaphore groups are
the leaves of one Merkle tree kept by the server. A client proves with every
message that it is one of the leaves, without saying which, and attaches a share
of its secret; two different shares of one epoch reveal the secret. A member that
posts more than `spamThreshold` messages in one epoch, made as the client library
makes them, gives itself away: the server recovers its secret, bans it and sets
its leaf to zero.

| Component | State | Operations | Talks to |
|---|---|---|---|
| **Merkle tree** `server-lib/services/user.service.ts`, `persistence/model/merkle_tree` | node documents (address, hash, sibling hash, parent), seeded zero hashes | `appendUsers`, `removeUsersByIndexes`, `updateUser`, `getRoot`, `getLeaves`, `getPath` | called by the synchroniser and the message handler, read by REST |
| **Message handler** `services/message_handler_service.ts`, `request_stats.service.ts`, `util/proof_utils.ts` | request statistics (the shares), messages, banned users | `handleChatMessage`, `banUser` | called per WebSocket message; changes the tree; publishes to pub/sub |
| **Semaphore synchroniser** `semaphore/` | group records (size, leaves) | `syncCommitmentsFromSemaphore` at start and on a timer | calls the tree, publishes TREE_UPDATE |
| **InterRep synchroniser** `interrep/` | the same | paginated predecessor that no module imports | |
| **Fan-out** `communication/` | Redis subscription, open sockets | publish, broadcast | delivers messages and TREE_UPDATE to every client of every node |
| **Key exchange (server)** `services/key_exchange_service.ts` | bundles, their own request statistics | create, get, delete bundles, under the same rate limit but without a ban | reads the root |
| **History (server)** `services/chat.service.ts`, `message.statics.ts`, `jobs/cleanup.ts` | messages | time-range pages, daily clean-up | |
| **Public rooms** `services/public_room_service.ts` | rooms | create, query; a default room at start-up | |
| **Chat manager (client)** `client-lib/chat` | root freshness flag, local history | send, receive, refresh root, synchronise history | REST, WebSocket |
| **Key exchange (client)** `client-lib/key-exchange` | pending rooms | post, fetch, derive, delete on a timer | profile, REST |
| **Profile (client)** `client-lib/profile` | rooms, contacts, keys, leaves; saved to local storage | create, join, export, recover | |
| **Start-up (client)** `client-lib/index.ts` | the managers | `init`, registration, recovery | all of the client |
| **App** `app/src` | redux store of rooms, messages, contacts; routes, dialogs | reducers, components | client library |
| **Configuration, start** `server/src/config.ts`, `create_server.ts`, `server-lib/create_server.ts`, `util/seed.ts` | numbers parsed from the environment, the seeded zeros | parse, connect, seed, synchronise, create the default room, listen | all of the server |

### What makes it hard

* **Awaits.** Every handler is an async function over one database shared with
  all other handlers and server nodes. There are no transactions and no locks:
  whatever was read before an `await` may be stale after it. The spam check
  reads a count that the same handler increases five awaits later.
* **Partial writes.** A leaf is created long before its path is linked; a ban is
  recorded before the leaf is zeroed; a message is stored before it is charged.
  A reader, a second handler, or a restart may come in between.
* **Redundant state.** `siblingHash` repeats what another document holds, a
  group's `size` what the tree holds, a client's root what the server holds.
* **Redelivery and lateness.** Messages may be repeated or late by up to the
  epoch tolerance; events may arrive while the client is acting on an older one.
* **Promises nobody waits for.** Timers do not wait for their last run, key
  derivations are not awaited, and the page goes on while `init()` runs: another
  manager, profile or list may be in place when an answer arrives.

What each component has to get right:

* **Merkle tree**: one root, one leaf per member, the root commits to the leaves
  a client can fetch, no index outside the tree, an append-only list to others.
* **Message handler**: the limit is enforced for every nullifier and epoch, only
  members that exceed it are banned, a banned member is removed and cannot post, everything published is
  charged, the other members can go on proving.
* **Synchroniser**: the tree follows the group, nobody is lost when a fetch
  fails or a batch stops half way, clients hear of every change.
* **Root refresh, history**: a client learns that its leaves are old, and gets
  every message, whatever arrives meanwhile.
* **Start**: what listens is complete, and every node listens in the end. (The
  limits should be those written in the environment, and are not: section 2.)
* **Key exchange**: both sides derive one key, a bundle is deleted only when it
  was used, and the requests are charged and limited.
* **Profile, store**: what the user was told to have is stored; what is shown is
  what is stored, no more often and without a hole.

The hazards, each at its line, are in `PROJECT.json`.

## 2. Modules

| Module | Models | Proofs |
|---|---|---|
| `TreeOps` | addresses, hashes, zero hashes, the reference root | |
| `MemberList` | the abstract specification of the tree: an append-only list whose entries may be zeroed | |
| `MerkleTree` | `UserService` and the node collection | `MerkleTree_proofs` |
| `MessageHandler` | `handleChatMessage` and all it calls | `MessageHandler_proofs` |
| `HistorySync` | the history of one client: server pages, pagination loop, live messages, local database | `HistorySync_proofs` |
| `Synchronizer` | the timer that copies a Semaphore group into the tree | `ServerStart_proofs` |
| `RootSync` | TREE_UPDATE from Redis to a client, `init()`'s requests and sockets, `checkRootUpToDate` | `RootSync_proofs` |
| `ServerStart` | configuration and `initZKChatServer` on several nodes | `ServerStart_proofs` |
| `KeyExchangeService` | extends `ServerStart`: key exchange requests on those nodes | `ServerStart_proofs` |
| `KeyExchange` | direct rooms, bundles, the client's timer, derivations | `KeyExchange_proofs` |
| `Profile` | `ProfileManager`, the operations that change it, `init()`, public rooms | `Profile_proofs` |
| `RoomList` | the application's rooms, active room, contacts, dialogs and routes | `RoomList_proofs` |
| `ChatStore` | the application's messages: synchronised, live, read by the page, deleted | `RootSync_proofs` |

`MCMerkleTree`, `MCMessageHandler`, `MCHistorySync`, `MCSynchronizer`,
`MCRootSync`, `MCServer` (of `KeyExchangeService`), `MCKeyExchange`, `MCProfile`,
`MCRoomList` and `MCChatStore` are the small instances. Two proof modules treat
two specifications each: `ServerStart_proofs` what a server does besides
messages, `RootSync_proofs` the running client. So that one module can extend
both, the definitions of `Synchronizer` and `ChatStore` that every module has
carry a letter of their own (`SInit`, `SNext`, `SSpec`, `STypeOK`; `CInit`,
`CNext`, `CSpec`, `CTypeOK`), as those of `KeyExchangeService` do (`KSpec`).

How they fit together:

* `MerkleTree` declares `Members == INSTANCE MemberList WITH ...` and is shown to
  implement it. `MessageHandler` does not instantiate `MerkleTree`: it needs the
  *parallel* updates of the tree by several handlers, which `MerkleTree` (one
  call at a time, but with appends) leaves out. Parallel *appends*, and restarts
  within one, are `Synchronizer`'s, which keeps of the inner nodes which there are
  and of a leaf whether its path got to the top. `ServerStart` keeps of this what
  the first synchronisation of a start can leave undone.
* `KeyExchangeService` is composed with `ServerStart`: requests are handled by
  nodes that start, listen and are killed, any number at one time on each, and
  the limit is the one the start parsed.
* `Profile`, `KeyExchange`, `RoomList` and `ChatStore` cut the client in four:
  what is stored, the keys of direct rooms, what is listed, what messages are
  shown. An event that two of them see (a login, a page closed, a room created)
  is an action of both. `HistorySync` is the loop that one step of `ChatStore`
  stands for.

Some definitions have a sibling marked as a mutant (`IsFull_offByOne` beside
`IsFull`): a plausible bug of the code, not used by the specification. Putting
it in the place of the real one makes TLC refute the property that
`PROJECT.json` names, which shows that the property watches that code.

### Hashes

A Poseidon hash is modelled by what it commits to: the hash of a subtree is the
sequence of the leaf values under it, and the hash of a pair is the
concatenation. For two children of one level this is injective, which is all
that collision resistance promises. A hash over the wrong sibling, or over the
right one in the wrong order, is a different value.

### MerkleTree and the code

| Variable | Code |
|---|---|
| `stored`, `hash`, `siblingHash`, `linked`, `slotOf` | the documents of `MerkleTreeNode`: which exist, `hash`, `siblingHash`, whether `parent` is set, `key.groupId` with `key.indexInGroup` |
| `before` | the order of insertion, in which `findOne` looks: for every document those that were there first |
| `pc`, `todo`, `cur` | where the running call is, the rest of its batch, `currentNode` or `node` |
| `updates` | history: calls of `updateUser`, used by properties only (and as a bound) |

| Action | Code in `user.service.ts` |
|---|---|
| `AppendUsers`, `SkipUser`, `TreeFull`, `CreateLeaf` | the loop over the users, up to the creation of the leaf (61-99) |
| `CreateParent`, `LinkLeft` | the loop over the levels, even index, where the parent is new: created (101-125), then referred to (127-129) |
| `AppendLeft`, `AppendRight`, `UserAppended` | even with a parent that exists, odd, and the end (101-155) |
| `RemoveUsersByIndexes`, `RemoveIndex`, `RemoveUnknown` | the loop over the indexes (162-185) |
| `BanMember` | `updateUser` as the message handler calls it |
| `UpdateLevel`, `UserUpdated` | the while loop of `updateUser` (197-209) |

A step is one loop iteration; a reader sees the collection after each of them.
Within an iteration the documents are saved one by one. The creation of a parent
is a step of its own, because `findRoot` sees it: until the child refers to it
there are two documents without a parent. The other saves of an iteration change
hashes, and those the properties speak of at the end of the path only; their
order matters to a second writer, which `MerkleTree` does not have.

### MessageHandler and the code

A handler's `pc` names the database call it makes next; the code between two
awaits belongs to the action before it. All variables of the database are
shared by all handlers, on whatever node they run.

| Variable | Code |
|---|---|
| `clock`, `sent`, `received` | the server's epoch; messages made by clients; those that arrived |
| `pc`, `msg`, `culprit`, `node`, `nodeHash` | the locals of each running `handleChatMessage` |
| `requestStats` | `RequestStats` documents by the nullifier of the proof and the epoch of the body. A nullifier stands for a member and the epoch of its proof |
| `posted`, `banned`, `hash` | `Message` and `BannedUser` documents; `hash` of the tree documents |
| `broadcast`, `announced` | what was published: messages, and the root a client reads on the last TREE_UPDATE |
| `crashes` | history and bound: restarts |

| Action | Code in `message_handler_service.ts` unless stated |
|---|---|
| `Receive` | format and epoch (43-51) |
| `IsDuplicate`, `GetRoot`, `IsSpam` | 53-71 |
| `GetRequestStats` | 72-74, `getUserFromShares` |
| `FindLeaf`, `SaveBanned` | `banUser` (user.service.ts 216-230) with the unique index of `BannedUser` |
| `UpdateUser`, `UpdateParent` | `updateUser` (187-209) |
| `Announce` | 83-90 |
| `PersistMessage`, `SaveMessage`, `Publish` | 93-103 |
| `Send`, `Tick`, `Crash` | clients, time, restarts |

A zero-knowledge proof is modelled by what the server may conclude from it: some
member's leaf is under the named root, and the nullifier is that of this member
and the epoch of the *proof*. What the body says is another matter. The server
compares neither `epoch` with `zk_proof.epoch` nor `x_share` with the proof, so
that a message also has an epoch of its own and a share that `fits` or does not.
`FieldsAgree` says whether clients send what `generateProof` makes, where both
agree. The client names the root of the leaves it holds; these are the current
ones or, if it missed every event, the initial ones. A client's clock is at most
one epoch off.

### HistorySync and the code

One client, the `Message` collection, the messages on their way to the open
sockets, and the client's IndexedDB. A message is its number, the epoch its
sender named and the server's timestamp; time is counted in ticks. A session
starts with a synchronisation, ends it, registers the callback for live messages
and may end anywhere.

| Variable | Code |
|---|---|
| `clock`, `posted`, `stored`, `onWire` | the server's time, the messages ever posted, the collection, what is stored and not yet published |
| `local`, `copies` | `ZKChatDB.messages`, and how often each message is in it |
| `phase`, `from`, `to`, `page` | where the session is, `fromTimestamp`, `toTimestamp`, `messageData` |
| `due` | history: what was in the range of this synchronisation when it started |

| Action | Code |
|---|---|
| `Persist`, `Cleanup` | `persistMessage` with the epochs `verifyEpoch` admits; `jobs/cleanup.ts` |
| `Deliver` | `messageHandlerForRooms`, if the callback is registered |
| `StartSync`, `ReadMax` | `sync_message_history` (client-lib/index.ts:287), `syncMessagesForAllRooms` (174-184) |
| `FetchPage`, `FetchNull` | the request, with `ChatService.getMessagesInTimeRange` and `message.statics.ts:13-28` |
| `SavePage` | saving a page, and the decision of the loop (186-198, 211-220) |
| `Register`, `Close` | `AppWrapper` (62-74); the browser page is closed, perhaps in the middle of saving |

The order within an epoch is the database's choice. Decryption succeeds for
the messages in `Readable`. A user who registers does not synchronise, having no
rooms; this first session, and deleting a room's messages, are in `ChatStore`.

### Synchronizer and the code

| Variable | Code |
|---|---|
| `onNet`, `removed` | the group on Semaphore's side: its length, and that a member was replaced by zero |
| `groupInDb` | the `Group` document: `size`, `number_of_leaves` |
| `leaves` | the leaf documents: slot, index, whether the path was linked to the top |
| `inner` | which documents of inner nodes there are |
| `announced` | whether TREE_UPDATE came after the last change |
| `run` | the invocations of `syncCommitmentsFromSemaphore`, each at an await, with its locals |
| `restarts`, `cut`, `alone` | history: restarts, one of them in the middle of a path, no two runs at a time |

A run reads the record, fetches (a failure is an empty list), appends the members
(index counted, leaf created, then level by level `FindParent` and `SaveNode`),
looks for removals, updates the record and publishes. A node on the right needs
its left sibling and the parent that the sibling was linked to. If a restart or
another run has left one of them out, null is dereferenced (`PathBreaks`): the
error ends `appendUsers`, the synchroniser logs it, and the leaf stays unlinked
for good, since the next run finds it and passes over it. `getRemovedMembersForGroup` returns objects where
`removeUsersByIndexes` wants indexes: the call throws, and no removal is ever
applied. The model says so. Two runs at one time create doubled leaves and
indexes; that, too, is in the model, and the properties say `alone` where it
matters.

### RootSync and the code

The tree is its version number. `tree`, `published` and `wire` are the server,
Redis and the updates socket with its back-pressure; `sockets`, `phase` and
`waiting` are `init()` (client-lib/index.ts) with its wait for three open
events; `leaves`, `upToDate` and `sending` are the profile, `root_up_to_date`
and the calls of `sendMessage` that refresh it. Requests are answered in one
step and arrive in another. The root that is fetched with the leaves, by a
second request, is stored and never read, so that the two cannot disagree to
any effect.

### ServerStart, KeyExchangeService and the code

`node` holds where the start of each process is and its parsed `config`; `zeros`,
`tree` (the leaves, and those without a path) and `rooms` are the database. The
first synchronisation is a fetch (`LoadMembers`, or `LoadFails`, which is no
error), the creation of a leaf and its path (`StoreLeaf`, `LinkLeaf`); `lapses`
remembers which of the four things happened that can leave it undone. `ParseInt` is JavaScript's: the longest
prefix of digits that the radix knows. `server/src/config.ts` gives the radix as
2 for `SPAM_TRESHOLD` and 20 for `EPOCH_ALLOWED_DELAY_THRESHOLD`: "3" falls back
to the default 2, "12" is 1; a delay of "20" is 40, "100" is 400. A start that rejects ends the
process, and `restart: always` starts it again. A request is checked (duplicate,
proof, limit), charged (`SaveMessage`), then served, one database call per step.
A `Worker` is a request being handled, the n-th at one time on its node: express
handles them as they come, and each gives way at its awaits. As in the message
handler, the statistics are kept by the epoch and the nullifier that a request
brings, and nothing compares this epoch with that of the proof.

### KeyExchange and the code

`rooms` are the direct rooms of each user with the DH key they were made with
and the symmetric key they have; `posting` is `create_direct_room` after it
stored the room; `bundles` the server's collection; `run` the invocations of
`runKeyExchangeProtocol` that timers started; `deriving` the derivations nobody
awaits. A bundle is (owner, recipient, number of the DH key). A page may be
closed, and a profile recovered, at any time.

### Profile and the code

`storage` and `memory` are the profile in the local storage and that of every
`ProfileManager` made so far; `current` and `keyExchange` say which of them the
library and the key exchange manager use. Every change writes the whole profile
(`Persist`), or the storage throws after the memory was changed
(`PersistFails`). `calls` are `create_public_room` and `join_public_room`
between their request and the entry in the profile.

### RoomList, ChatStore and the code

`RoomList` has the profile, the manager's state, `init()`'s progress, the route
and the spinner, the reducer's `rooms` (as a count per room), `currentActiveRoom`
and contacts, the dialog, and the promises that wait for the server. GET_ROOMS is
where the code dispatches it: on mounting the dashboard and after `init()`.

`ChatStore` has the local database and `chatHistory` as bags of messages, the
pages being read (`loadRooms`, `loadRoom`), the managers registered for live
messages, and the closures of the list on the screen (`list`): the timestamp of
the first message it knew when it was drawn. Messages are numbered as they come,
and `TimeOf` gives them the server's milliseconds, which several can share: a
page is one of those the database may return, and the next one begins strictly
before its first timestamp. `due` is what is on the server and not stored; a
synchronisation brings all of it that is in its range, or a part (an answer was
null), and some of it twice (pages overlap), and the page registers either way.
`skipped` remembers what such a cut left out, `raced` the rooms whose list was
changed behind a load.

## 3. Runs

| Run | `.cfg` | Question | Outcome |
|---|---|---|---|
| `tree_safety` | `MerkleTree_safety` | Is the tree right at every loop iteration, and does every member of a batch get its leaf? | holds, 592k states |
| `tree_recalculated` | `MerkleTree_recalculated` | Does `updateUser` recalculate the tree? | **violated** |
| `handler` | `MessageHandler_members` | Do bans, removals and proofs stay right while handlers race? | holds, 57k states |
| `handler_limit` | `MessageHandler_limit` | How far is the limit exceeded, with a restart, repeated messages and fields that do not agree? | holds, 141k states |
| `history_safety` | `HistorySync_safety` | Does a synchronisation bring everything, and end? | holds, 1.1M states |
| `synchronizer` | `Synchronizer_mirror` | Does the tree follow the group over overlaps, failures, broken paths and a restart? | holds, 375k states |
| `root_sync` | `RootSync_fresh` | Does a client learn that its leaves are old? | holds, 94k states |
| `key_exchange` | `KeyExchange_keys` | Do both sides get one key, and are used bundles deleted? | holds, 197k states |
| `server` | `Server_listening` | What listens, and are requests limited across nodes and awaits? | holds, 459k states |
| `profile` | `Profile_kept` | Is what the user was told to have stored, once? | holds, 1.0M states |
| `room_list` | `RoomList_shown` | Does the list show the profile's rooms, once each? | holds, 809k states |
| `chat_store` | `ChatStore_shown` | Are messages shown as stored, without a hole, and not after deletion? | holds, 3.5M states |

The type invariants are proved (section 4) rather than run; any of them can be
added to its configuration (`TypeOK`, or `KTypeOK`, `STypeOK`, `CTypeOK`).

### What holds

* `NodesConsistent`, `RootCommitsToLeaves`: between two elements of a batch the
  tree is consistent and its root is the root of the leaves, **while at most one
  leaf was zeroed**. The condition is exact, see `TreeIsRecalculated`.
* `OneRoot`: `findRoot` takes the oldest document without a parent. While a leaf
  is being linked there are others; from the end of the first path on the true
  root is the oldest. Before, a reader gets the first leaf, or a node on its path.
* `OneLeafPerSlot`: syncing a group again, also after a ban, adds nobody twice.
* `ImplementsMemberList`: to everybody else the tree is a bounded list that
  grows at the end and whose entries change to zero only, although a removed
  member is looked up by hash and the leaf found may be another one.
* `AppendedEventually`: a known or zeroed member in a batch never stops the ones
  after it.
* `RateLimit`: of the messages with one nullifier for one epoch at most
  `Threshold + |Handler| - 1` are posted, and `|Handler|` more per restart. This
  is the real bound: the code promises `Threshold`, concurrency costs the rest.
  It is one per *member* and epoch for messages whose two epochs agree, which the
  server takes for granted.
* `OnlySpammersBanned`: without repeated messages, whoever is banned has sent
  more than `Threshold` messages for one epoch, with proofs for one epoch.
* `BroadcastIsCharged`: what the clients see was charged to its nullifier and
  epoch, also across restarts.
* `MembersCanProve`: TREE_UPDATE comes last, so the clients have the root of the
  tree; until a second member is banned it is the root of the leaves as well.
* `RemovedCannotPost`: once the first removed member's leaf is zeroed and the
  path recalculated, no message of it passes the proof check any more. After a
  second ban this is *not* guaranteed: a root computed from stale sibling hashes
  may contain the first member's commitment again.
* `DetectedIsRemoved`: without a restart, and for messages whose fields agree, a
  member whose spam was detected is banned and its leaf zeroed; whichever handler
  loses the race in `banUser` throws, and the winner finishes the job.
* `NothingSkipped`: a synchronisation that ends has brought every message of its
  range, although pages are cut by one field and continued by another, messages
  arrive late and old ones are deleted between two pages. It needs clocks that
  agree (`ClocksAgree`): a message is stored after its epoch began.
* `CursorAdvances`, `SyncEnds`: no page is asked for again, and the loop ends,
  **while fewer than `Limit` messages of begun epochs have yet to arrive**
  (`MaxBacklog < Limit`). The condition is exact, see below.
* `StoredAtMostThrice`: nothing in the local database is unique, but a message
  that was stored in its own epoch is there at most three times: the page after
  a full one starts inside the last epoch again, and it may have come live.
* `NobodyIsLost`: whatever runs overlap or fail, the group record never counts a
  member that has no leaf. `LeavesInOrder`, `AllAnnounced`: with one run at a
  time indexes and slots are unique; unless a restart came in the middle of a
  path (`cut`) only a leaf at work is unlinked; and every change is announced
  unless a restart or a full tree cut the run short.
  `JoinedEventually`: the members get their leaves again and again, while there
  is room, and their paths too if no runs overlapped and nothing was `cut`.
* `StaleIsNoticed`, `NoticedEventually`: a running client with old leaves has
  been told, or is being told. The exceptions set `missed`: leaves that could not
  be fetched; an event between the answer to `init()`, or to a refresh, and the
  line that raises the flag; a socket that was closed. Each of them leaves the
  client with old leaves until the next change of the tree.
* `ConnectedEventually`: `waitForConnections` registers for one open event after
  the other; it does not hang as long as sockets open in the order they were
  created (`InOrder`), which browsers see to and the `ws` library does not.
* `ListeningIsComplete`: what listens has one default room; and its zeros, a tree
  and linked paths, but for the lapses that alone can take these away. Zeros that
  a start found unfinished (`zeros`): that start, and every later one, takes them
  for complete, and a leaf is left without its path; a fresh deployment of two
  nodes gets there without any fault. A `fetch` that failed is an empty group, and
  the node listens without a tree until the timer brings it. A process that ended
  between a leaf and its path (`path`), or two starts that synchronised at once
  (`overlap`), leave a leaf that later runs pass over.
* `RequestsLimited`: key exchange requests of a nullifier and epoch are limited to
  the threshold and one for every other request at work, on the same node or on
  another, also across restarts, because they are charged before they are served.
  The threshold is the parsed one. `ListensEventually`: every node does.
* `KeysAgree`: both derive the same key, unless a profile was recovered: the
  older profile makes a second DH key while the first bundle is on the server.
* `BundleWasUsed`: a bundle is deleted unused only if its receiver closed the page
  or recovered a profile between the start and the end of a derivation.
  `KeyEventually`, `DeletedEventually`: the key comes; the used bundle goes,
  unless the deletion failed or was refused once, for it is not tried again.
* `ProfilesConsistent`, `NothingIsLost`: no room or contact key is doubled, and
  what the user was told to have is stored. The exceptions set `lost`: a room
  added before `init()` has the profile vanishes without an error, and after a
  second `init()` the key exchange writes the profile of the first manager over
  that of the second.
* `ListedOnce`, `OwnedIsListed`, `ShownIsOwned`: the dashboard lists the rooms of
  the profile, each once. The exceptions: a direct room is listed twice if the
  list is read while its bundle is posted; one whose creation fails after it was
  stored is hidden until the list is read again; the active room of a former
  profile stays after a login.
* `NoGap`, `ShownAsStored`, `ShownIsStored`: the list of a room has no hole, shows
  a message at most as often as it is stored, and nothing that is deleted. The
  exceptions set `raced`: DELETE of a room takes the histories
  of the others out of the store; a live message during a load, or the closure of
  a list drawn earlier, makes a page come twice or too late. Or `skipped`, see
  below.

### What does not hold

* `TreeIsRecalculated` (`message_handler_service.ts:80`: "Set user leaf to 0 and
  recalculate merkle tree"). `updateUser` hashes with the `siblingHash` stored in
  its node, and zeroing the sibling does not change it. Zero the leaves 0 and 1:
  the parent of leaf 1 is computed from the old value of leaf 0. From then on the
  root is that of no list of leaves, and no client can make a valid proof.

The conditions of the properties above mark what else does not hold. Each can be
seen by changing a constant in a configuration:

* *Every spammer is removed* (`README.md:26`) is false: concurrent messages all
  pass the spam check before the first is charged; hence the slack of `RateLimit`.
* `DetectedIsRemoved` with `MaxCrashes = 1` (`README.md:34`): stop after
  `bannedUser.save()` and the leaf stays; later attempts fail on the unique index.
* `OnlySpammersBanned` with `Redelivery = TRUE` (`README.md:27`): the second copy
  of a message passes the duplicate check before the first is charged.
* `SyncEnds` with `MaxBacklog = 3` (`chat/index.ts:171`): the next request starts
  at the last message's *epoch* + 1 ms and selects by *timestamp*: if a full page
  has one epoch and later timestamps, it comes again.
* `NothingSkipped` with `ClocksAgree = FALSE` (`chat/index.ts:167`): the page's
  last epoch may be later than timestamps not yet fetched.
* `DetectedIsRemoved` with `FieldsAgree = FALSE`: two shares of which one is not
  the sender's give a secret of nobody (`proof_utils.ts:37`), and `banUser` throws
  that the user does not exist. Likewise the limit per *member* and epoch: one
  epoch of bodies can have several epochs of proofs, so several nullifiers.
* `LeavesInOrder` without `~ cut`, or without `alone`: a leaf without inner nodes
  stays behind; the next leaf to its right breaks on it (`user.service.ts:131`)
  and the rest of its batch waits for the next run; no run mends a path.
* `NoGap` without `skipped` (`chat/db.ts:43`): of messages with one timestamp a
  page may bring some, and the next one, strictly before that timestamp, none of
  the others. They are stored, with older ones shown below, until the next load.
* *No message is shown twice*: the page after a full one starts inside the last
  epoch again (`chat/index.ts:193`) and `put()` has an automatic key, so that a
  message is stored, and shown, twice; after a login the two managers both store
  and show what they can decrypt (the Lobby's messages).
* *A page that listens has everything*: a synchronisation that got a null answer
  ends as any other (`chat/index.ts:188`) and the page registers. What arrives
  between the end of its range and the registration, or before a login, comes
  with no later load of this page either.
* *The limits are those in the environment*: see `ParseInt` in section 2. Nor is
  the tolerated difference the threshold in seconds (`proof_utils.ts:15`).
* `ConnectedEventually` without `InOrder`, as explained above.

Visible in a definition, without a property: the branch "only message history for
the given day" (`chat/index.ts:177`) tests for -1 after adding 1 and is never
taken, so that a first synchronisation loads everything (`FirstFrom`); a contact
keeps its name only by being deleted, since `updateTrustedContact` refuses the
old name (`UpdateTrustedContact`); a login always makes a new profile over the
stored one (`InitProfile`).

### Bounds

* *Tree.* Four leaves (two levels) is the smallest tree with an inner level, so
  with siblings above the leaves; five users of two groups overfill it, two of
  them with one commitment and one that is zero already. Batches of two are
  enough for a known, an unknown and a refused member in one batch, three
  updates for two neighbouring leaves and one more.
* *Handler.* Two handlers make every race of a pair. Four messages with
  `Threshold` 2 leave a regular message, a limit, a ban and a racing ban, and a
  second member tells what a ban does to the others. In `handler_limit` two epochs
  (`MaxEpoch` 1) and two messages with `Threshold` 1 give messages for either
  epoch with proofs for either and shares that fit or not, repeated, so that one
  nullifier can be posted beyond the limit; one restart is enough because it forgets everything but the
  database.
* *History.* `Limit` 3 and five messages, two late ones (`MaxBacklog`) included,
  give a full page and one that overlaps it; epochs of two ticks and five ticks
  give messages in and after their epoch, several sessions and clean-ups
  (`Retention` 3). `copies` counts up to `MaxCopies` = 4, one more than
  the property allows. `MaxBacklog` is a bound of the environment on both sides
  of the page size.
* *Synchroniser.* Two runs, two members, two places in the tree (`Depth` 1), one
  restart: two runs that append the same member, a tree that doubled leaves fill,
  a run that goes on where a restart left off, a leaf on the right whose neighbour
  on the left has no parent.
* *Root.* Three changes and a socket that holds one event: a skipped event, one
  under way and one refreshed; two sends at once.
* *Start, requests.* Two nodes; two levels, so that a start can find the zeros
  empty, begun and complete; one fault, at any step, or one failed fetch. Two
  create requests of one member with one share and a delete request, each received
  once, by two workers of one node while the other starts or ends; a threshold
  that the radix cuts short.
* *Key exchange.* Two users, two runs, one failure and one interruption: each
  hazard once, with both directions of a pair and both overlaps.
* *Profile, list.* Two public rooms, one private and one direct, two names for
  one key, two calls, two managers, one failed write; `MaxCopies` 2 is one more
  than a list should have. *Store.* Two rooms, pages of one message, three
  messages, two with one timestamp: a page before, at and after what is shown, and
  a cut between equal timestamps; two copies of what is synchronised; one login.
* Symmetry: handlers and contents, names of contacts and calls, in runs without
  liveness only.
* `CHECK_DEADLOCK FALSE` stands where the bounds or the clients may let the model
  come to its end (handler, history, key exchange, server runs).

### Fairness

* `MerkleTree`: `WF_vars(Loop)`; `MessageHandler`: `WF_vars(Step(h))` for every
  handler. A call that was started goes on, since the driver answers its queries.
  Nothing forces a call to be made, a message to arrive or the clock to move.
* `HistorySync`: `WF_vars(Sync)`. A request is answered or fails, and what was
  received is saved.
* `Synchronizer`: `WF` of every step of a run (the timer fires, the database
  answers), `SF` of a fetch that succeeds: not every fetch fails.
* `RootSync`: `WF` of delivery, of `init()` and of every refresh. The tree, the
  user and the network's failures are not fair.
* `KeyExchange`: `WF` of derivations and runs, `SF` of every user's timer, which is
  enabled only while fewer than `Runs` runs are under way.
* `ServerStart`: `WF` of every node's start, since its queries are answered and
  `restart: always` starts an ended process; faults are bounded, clients free.

## 4. Proofs

All theorems hold for all values of the constants, under the assumptions the
modules name. `LevelsAssumption` of `TreeOps` contains a few facts on powers of
two, because no installed prover decides exponentiation; TLC evaluates them in
every run. `NodeAssumption`, `WorkerAssumption` and `RequestAssumption` say that
there are finitely many nodes, requests at one time and requests, without which a
limit that counts them means nothing.

Every safety invariant and every action property of the passing runs is stated
by a theorem: `THEOREM ... == Spec => []Inv` from an inductive invariant, which is
`Init => IInv`, `IInv /\ [Next]_vars => IInv'` with one lemma per action, and
`IInv => Inv`. Some theorems have a hypothesis on a constant or on a history
variable; it is the condition of the property, explained in section 3, and what
happens without it is described there.

*Recursion without induction.* The models count with folds of the community
modules (the requests of a member, `parseInt` over digits), and a tree goes on for
any number of levels. The induction theorems of the library take
predicates as parameters, which the provers cannot instantiate. The proofs use
sets instead: the set of arguments at which the claim fails has, if it is not
empty, a least element (`Least`, or `NoDescent` for levels; `SubsetInduction` for
subsets of a finite set), and the equation for that element contradicts it.
A function that satisfies a fold's equations exists before anything is said of its
values (`FoldExists`). The count of a page in `ChatStore` needs none of this: no
theorem depends on how many messages a page has.

**MerkleTree_proofs.** The inductive invariant is
`IInv == ShapeInv /\ HashInv /\ FreshInv`.
`ShapeInv` says which documents exist: no gap on any level, a left child under
every inner node, a parent over every node but the one `appendUsers` is at, which
is the last of its level; the node a loop is at exists. `HashInv` says that an
inner node off the walk hashes its children, and what the one on the walk lacks.
`FreshInv` says that every remembered `siblingHash` is right until a leaf is
zeroed, and while the first one is zeroed those still to be read are; it is why
`NodesConsistent` stops at one update. Theorems: `TypeCorrect` (in particular no
leaf outside the tree), `TreeConsistent`, `SlotsAreUnique`, and `MembersRefined`:
`Spec => ImplementsMemberList`, the refinement. `RootInv` says that no node lies outside the tree, and `OrderInv` in which order the
documents came: once the top of the first path is linked, whatever was there before
the root is linked, and whatever has no parent yet came after it. Hence the root
is what `findRoot` returns: `RootIsUnique`. `RootIsThatOfLeaves` combines the local consistency of every node
into a statement about all leaves, for any number of levels: a node whose hash is
not that of the leaves under it has a child of which the same is true, and the
levels below it end (`NoDescent`).

**MessageHandler_proofs.** `TypeCorrect`; `RateIsLimited`: the invariant counts,
the messages of a nullifier and epoch are those charged, those a handler is about
to charge, and those lost in restarts; while one is charged below the threshold,
the handlers that have passed the spam check bound what may still come. Neither
this nor the other theorems of the module assume `FieldsAgree`.
`PublishedIsCharged`. `BannedAreSpammers`: `Redelivery = FALSE` implies
`Spec => []OnlySpammersBanned`; every share is in the hands of one handler or
stored once (`OnceInv`), so the stored shares and the one at hand are distinct
messages, and a handler whose two shares give a member bans the sender (`SpamInv`).
`MembersAlwaysProve` and `RemovedNeverPost` rest on `RemovalInv`, which says who
owns a ban and how far it is (`BanInv`), what every node of the tree is while
handlers are on its paths (`TreeInv`), and which of them has yet to announce
(`ToldInv`); and on `SentInv`, that a client names the root of the leaves it
holds. Both need that no server was restarted in the middle of `updateUser`:
such a tree is half updated for good, nobody announces it and nobody removes
the member. `MembersAlwaysProve` says so by `crashes = 0`, `RemovedNeverPost` by
`MaxCrashes = 0`, as the run does.

**HistorySync_proofs.** `TypeCorrect`. `NothingIsSkipped`: `ClocksAgree = TRUE`
implies `Spec => []NothingSkipped`; every message that is due has been saved, or
is on the page at hand, or is ahead of the cursor after that page (`SyncInv`).
`TheCursorAdvances`: `MaxBacklog < Limit` implies `Spec => CursorAdvances`; a full
page of epochs behind the cursor would be a backlog of `Limit` messages at the
time before the cursor (`FullPageIsAhead`). `NothingStoredOften`, under the same
condition: the invariant says how often a message is stored, for where the
cursor is (`CountInv`). One that the cursor has yet to pass has been stored once at
most, by a page of this synchronisation that left the cursor in the middle of the
message's epoch; the page that brings it again leaves the cursor past that epoch,
and past it for every later session; and live a message comes once.

**ServerStart_proofs.** `ZerosChained`, `ListeningNodesComplete` from one
invariant: a start that seeds has made every level below its own (`SeedersInv`);
one that is past the seeding has seen all zeros, or `zeros` lapsed (`PassedInv`);
one that has synchronised has a tree, or a `fetch` failed; and while nothing lapsed
one start at most is at work on the leaf, which alone is without its path
(`TreeInv`). `ServingNodesComplete` carries it over to `KSpec`, since every step of a request
leaves the start alone (`StartsOnly`). `KTypeCorrect`, `RequestsAreCharged`: what
a request has left to serve is its own, and it is charged from the save on
(`HandlingInv`).
`StartTypeCorrect`: `parseInt` is a fold over digits of any number and value, and
its result is a number, so that the limits are.
`RequestsAreLimited`: the requests charged to a nullifier, together with those that
are between the check and the save for it (`Savers`), are at most the threshold
plus one for every other worker (`LimitInv`); a check that passes adds a worker
while the sum is below, a save moves one from there to the charged, and a node
that is killed only lowers the sum.
*Synchroniser:* `SyncTypeCorrect`, `NobodyIsEverLost`, `LoneRunsKeepOrder`,
`ChangesAreAnnounced`, for any number of members and of runs, and a tree of any
depth. `SyncInv` says what
the record each run holds still implies, whatever others did since
(`RunInv`: the members its loop is past have leaves); what a run that is alone may
rely on besides (`AloneInv`); which run will announce what is not announced
yet (`AnnounceInv`); and that without overlaps and cuts a level has no gap and every
node its parent, but for the one at work (`PathInv`), so that no path breaks.

**KeyExchange_proofs.** `TypeCorrect`, `KeysAlwaysAgree`, `DeletedWereUsed`. The
invariant says that until a recovery every bundle under way or posted carries the
DH key its room has now, that every key came from a bundle of the other side, and
that what a run found is still there, or its user was interrupted.

**RootSync_proofs.** `TypeCorrect`, `StaleAlwaysNoticed`. The invariant extends
the property to `init()` before it has returned: an answer that is old already is
covered by an event that is not yet delivered, or by the exceptions.
*Chat store:* `ChatTypeCorrect`, `ShownWithoutGap`, `NothingShownAgain`,
`OnlyStoredIsShown`, for any number of rooms and messages, any timestamps that do
not decrease, and any page size. `ChatInv` says of every page that was read and
waits to be shown that it ends before the timestamp it was asked for, has no hole
in what the database holds before it, and no more copies (`PagesInv` for the pages
of a load of all rooms, `OlderInv` for an older one), unless its room is `raced`.

**Profile_proofs.** `TypeCorrect`, `ProfilesAreConsistent`, `PublicRoomsAreThere`,
`NothingEverLost`, `MemoryIsStored`. A step either changes no profile
(`QuietStep`) or puts one in the current manager and perhaps in the storage
(`WriteStep`); a derivation by another manager is the third kind and sets `lost`.
`KeptInv` has to hold of both profiles, in memory and stored, because either may
become the other.

**RoomList_proofs.** `TypeCorrect`, `NoRoomListedTwice`, `OwnedRoomsListed`,
`ShownRoomsOwned`, `DialogIsCurrent`. The invariant says of every pending promise
what it may still append (`PendingInv`), and of a page without a profile that all
it shows is accounted for as stray (`EarlyInv`), so that the moment the profile
is loaded finds the property true.

Each invariant was first checked by TLC on the instances above, or is made of
what was.

**Only model-checked.** Liveness (`AppendedEventually`, `DetectedIsRemoved`,
`SyncEnds`, `JoinedEventually`, `NoticedEventually`, `ConnectedEventually`,
`KeyEventually`, `DeletedEventually`, `ListensEventually`), since fairness and
`ENABLED` are out of the prover's reach.

## 5. Plan

Done: every module of section 2, and a theorem for every safety property. What is
left:

1. A module `RateLimiter`, the limit with its slack as an abstract specification,
   implemented by `MessageHandler` and by `KeyExchangeService`: a check grants, a
   save charges, and what is granted and not charged is bounded by who may race.
2. `HistorySync` as an implementation of the one step that `ChatStore` has for a
   synchronisation (`HistorySynced`: any part of its range, in up to so many copies).

## 6. Not modelled

* `interrep/`: dead code, the server takes one type from it and starts no InterRep
  synchroniser. Its pagination loop
  (`while (members.length + limit <= to)`) would skip a last partial page.
* `RecoverModal` and `ExchangeKeysModal`: no component uses them. The recovery of
  a profile itself is in `Profile` and `KeyExchange`.
* WebCrypto, IndexedDB, fetch, WebSocket and Redis clients: no protocol state of
  their own; where a call of theirs can fail or come late, the model has it.
* The REST controllers: each parses a request and calls one service. The circuits
  and the SNARK verifier: external, they appear as what they guarantee. The
  passport extension (`rln-pcd.ts`, `zk-keeper`): external.
* The validation of a message's fields: a malformed message is refused before
  anything else happens.
* The tree of `Synchronizer` with the hashes of `MerkleTree`: what two writers of
  one path leave in it.
* Settings other than the two limits are passed on unchanged. (Two of them deserve
  a reader's attention all the same: `config.ts` reads `MESSAGES_BROADCAST` where
  docker-compose sets `MESSAGES_BROADCAST_CHANNEL`, and the default delay of the
  server, 40, is not that of the library, 20.)
* Two calls of `init()` at one time; changing `MERKLE_TREE_LEVELS` once the zeros
  are seeded.
* Layout, themes, formatting, the user handle.
