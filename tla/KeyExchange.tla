----------------------------- MODULE KeyExchange -----------------------------
(***************************************************************************)
(* The keys of direct rooms: create_direct_room and KeyExchangeManager of  *)
(* the client library, KeyExchangeService of the server.                   *)
(*                                                                         *)
(* To create a room a user makes a DH key pair, stores the room without a  *)
(* key and posts a bundle with the public half to the recipient.  A timer  *)
(* of every client fetches the bundles meant for it, derives the key of    *)
(* the room with their sender, if there is one without a key, and deletes  *)
(* those bundles.  The derivation is not awaited.  The timer does not wait *)
(* for its last run.  Posting and deleting take a proof and count against  *)
(* the limit per epoch; the client does not look at the result.            *)
(*                                                                         *)
(* DH keys are numbered per room; a bundle is its sender, its receiver and *)
(* that number.  The key of a room is the bundle it was derived from.      *)
(***************************************************************************)
EXTENDS Naturals, FiniteSets

CONSTANTS
  User,
  Runs,             \* runs of the protocol under way at one time
  NoRoom,           \* the profile has no such room
  NoKey,            \* symmetric_key: ""
  NoUser,
  MaxFailures,      \* bound: requests that fail or are refused
  MaxInterruptions  \* bound: pages closed and profiles recovered

Pair == {p \in User \X User : p[1] # p[2]}   \* owner of a room, recipient

ASSUME BoundsAssumption == MaxFailures \in Nat /\ MaxInterruptions \in Nat
ASSUME NoneAssumption ==
  /\ NoKey \notin [pair : Pair, dh : Nat]
  /\ NoRoom \notin [dh : Nat, key : [pair : Pair, dh : Nat] \cup {NoKey}]

VARIABLES
  rooms,          \* [Pair -> room]: rooms.direct of the owner
  dhKeys,         \* [Pair -> number of DH key pairs made for this room]
  online,         \* users whose page is open
  bundles,        \* the keyExchangeBundles collection
  posting,        \* [Pair -> saveKeyExchangeBundle of create_direct_room]
  run,            \* [Runs -> runKeyExchangeProtocol]
  deriving,       \* deriveRoomSecretKey under way
  failures,       \* history: failed requests
  interruptions,  \* history: pages closed and profiles recovered
  posted,         \* history: bundles ever saved
  interrupted,    \* history: users that closed the page or recovered
  recovered,      \* history: users that recovered a profile
  kept            \* history: bundles whose deletion failed or was refused

history == <<failures, interruptions, posted, interrupted, recovered, kept>>
vars == <<rooms, dhKeys, online, bundles, posting, run, deriving, history>>

Bundle == [pair : Pair, dh : Nat]
Room   == [dh : Nat, key : Bundle \cup {NoKey}]

\* "proof" and "sent" are a request before and after it left the client.
NotPosting == [pc |-> "idle", dh |-> 0]

\* user: whose timer it was; found: the rooms without a key when the timer fired; current: they are still
\* objects of the profile; marked: bundlesToDeleteFromServer.
NotRunning == [pc |-> "idle", user |-> NoUser, found |-> {}, current |-> TRUE, marked |-> {}]

Init ==
  /\ rooms = [p \in Pair |-> NoRoom]
  /\ dhKeys = [p \in Pair |-> 0]
  /\ online = User /\ bundles = {}
  /\ posting = [p \in Pair |-> NotPosting]
  /\ run = [t \in Runs |-> NotRunning]
  /\ deriving = {}
  /\ failures = 0 /\ interruptions = 0
  /\ posted = {} /\ interrupted = {} /\ recovered = {} /\ kept = {}

------------------------------------------------------------------------------
\* create_direct_room

\* "Room already exists" is checked and the room stored; then the posting
\* starts.
CreateDirectRoom_retried(p) ==   \* mutant
  /\ p[1] \in online /\ posting[p].pc = "idle" /\ dhKeys[p] < 2
  /\ rooms[p] # NoRoom => rooms[p].key = NoKey
  /\ dhKeys' = [dhKeys EXCEPT ![p] = @ + 1]
  /\ rooms' = [rooms EXCEPT ![p] = [dh |-> dhKeys'[p], key |-> NoKey]]
  /\ posting' = [posting EXCEPT ![p].pc = "proof", ![p].dh = dhKeys'[p]]
  /\ UNCHANGED <<online, bundles, run, deriving, history>>

CreateDirectRoom(p) ==
  /\ p[1] \in online /\ rooms[p] = NoRoom /\ posting[p].pc = "idle"
  /\ dhKeys' = [dhKeys EXCEPT ![p] = @ + 1]
  /\ rooms' = [rooms EXCEPT ![p] = [dh |-> dhKeys'[p], key |-> NoKey]]
  /\ posting' = [posting EXCEPT ![p].pc = "proof", ![p].dh = dhKeys'[p]]
  /\ UNCHANGED <<online, bundles, run, deriving, history>>

\* generateProof and the request.
PostBundle(p) ==
  /\ posting[p].pc = "proof"
  /\ posting' = [posting EXCEPT ![p].pc = "sent"]
  /\ UNCHANGED <<rooms, dhKeys, online, bundles, run,
                 deriving, history>>

CreateBundle(p) ==
  /\ posting[p].pc = "sent"
  /\ LET new == [pair |-> p, dh |-> posting[p].dh]
     IN bundles' = bundles \cup {new} /\ posted' = posted \cup {new}
  /\ posting' = [posting EXCEPT ![p] = NotPosting]
  /\ UNCHANGED <<rooms, dhKeys, online, run, deriving, failures,
                 interruptions, interrupted, recovered, kept>>

\* The request fails or validateMessageRules throws.  The client is told null,
\* which it does not look at: the room stays, without a bundle.
CreateFails(p) ==
  /\ posting[p].pc = "sent" /\ failures < MaxFailures
  /\ failures' = failures + 1
  /\ posting' = [posting EXCEPT ![p] = NotPosting]
  /\ UNCHANGED <<rooms, dhKeys, online, bundles, run,
                 deriving, interruptions, posted, interrupted, recovered, kept>>

------------------------------------------------------------------------------
\* The timer

\* getAllRoomsAvailableForKeyExchange.  Runs that find none change nothing.
WithoutKey_reversed(u) ==   \* mutant
  {p \in Pair : p[1] = u /\ rooms[p] # NoRoom /\ rooms[p].key # NoKey}
WithoutKey(u) ==
  {p \in Pair : p[1] = u /\ rooms[p] # NoRoom /\ rooms[p].key = NoKey}

Tick(t, u) ==
  /\ u \in online /\ run[t].pc = "idle" /\ WithoutKey(u) # {}
  /\ run' = [run EXCEPT ![t] =
       [NotRunning EXCEPT !.pc = "get", !.user = u, !.found = WithoutKey(u)]]
  /\ UNCHANGED <<rooms, dhKeys, online, bundles,
                 posting, deriving, history>>

\* The bundles for the user whose sender has one of the rooms found.
Matching(t) == {b \in bundles : <<b.pair[2], b.pair[1]>> \in run[t].found}

\* getKeyExchangeBundles and the loop.  A derivation in a room object that a
\* recovery has replaced has no effect.
GetBundles(t) ==
  /\ run[t].pc = "get"
  /\ deriving' = IF run[t].current THEN deriving \cup Matching(t) ELSE deriving
  /\ IF Matching(t) = {}
       THEN run' = [run EXCEPT ![t] = NotRunning]
       ELSE run' = [run EXCEPT ![t].pc = "proof", ![t].marked = Matching(t)]
  /\ UNCHANGED <<rooms, dhKeys, online, bundles,
                 posting, history>>

\* for ... of null
GetFails(t) ==
  /\ run[t].pc = "get" /\ failures < MaxFailures
  /\ failures' = failures + 1
  /\ run' = [run EXCEPT ![t] = NotRunning]
  /\ UNCHANGED <<rooms, dhKeys, online, bundles,
                 posting, deriving, interruptions, posted, interrupted,
                 recovered, kept>>

\* deriveRoomSecretKey ends.
DeriveRoomSecretKey_copy(b) ==   \* mutant
  /\ b \in deriving
  /\ deriving' = deriving \ {b}
  /\ UNCHANGED <<rooms, dhKeys, online, bundles, posting, run, history>>

DeriveRoomSecretKey(b) ==
  /\ b \in deriving
  /\ deriving' = deriving \ {b}
  /\ rooms' = [rooms EXCEPT ![<<b.pair[2], b.pair[1]>>].key = b]
  /\ UNCHANGED <<dhKeys, online, bundles, posting, run,
                 history>>

RequestDeletion(t) ==
  /\ run[t].pc = "proof"
  /\ run' = [run EXCEPT ![t].pc = "sent"]
  /\ UNCHANGED <<rooms, dhKeys, online, bundles,
                 posting, deriving, history>>

\* The bundles are removed by content hash and receiver.
DeleteBundles_uncounted(t) ==   \* mutant
  /\ run[t].pc = "sent"
  /\ UNCHANGED bundles
  /\ run' = [run EXCEPT ![t] = NotRunning]
  /\ UNCHANGED <<rooms, dhKeys, online, posting, deriving, history>>

DeleteBundles(t) ==
  /\ run[t].pc = "sent"
  /\ bundles' = bundles \ run[t].marked
  /\ run' = [run EXCEPT ![t] = NotRunning]
  /\ UNCHANGED <<rooms, dhKeys, online, posting, deriving, history>>

DeleteFails(t) ==
  /\ run[t].pc = "sent" /\ failures < MaxFailures
  /\ failures' = failures + 1
  /\ kept' = kept \cup run[t].marked
  /\ run' = [run EXCEPT ![t] = NotRunning]
  /\ UNCHANGED <<rooms, dhKeys, online, bundles,
                 posting, deriving, interruptions, posted, interrupted, recovered>>

------------------------------------------------------------------------------
\* The page and the profile

\* Requests that were sent go on.
Close(u) ==
  /\ u \in online /\ interruptions < MaxInterruptions
  /\ interruptions' = interruptions + 1
  /\ online' = online \ {u} /\ interrupted' = interrupted \cup {u}
  /\ posting' = [p \in Pair |->
       IF p[1] = u /\ posting[p].pc = "proof" THEN NotPosting ELSE posting[p]]
  /\ run' = [t \in Runs |->
       IF run[t].user = u /\ run[t].pc \in {"get", "proof"} THEN NotRunning ELSE run[t]]
  /\ deriving' = {b \in deriving : b.pair[2] # u}
  /\ UNCHANGED <<rooms, dhKeys, bundles, failures,
                 posted, recovered, kept>>

Open(u) ==
  /\ u \notin online
  /\ online' = online \cup {u}
  /\ UNCHANGED <<rooms, dhKeys, bundles, posting, run,
                 deriving, history>>

\* What a room can be in a file exported at some time: absent, without a key,
\* or as it is.
Exported(p) ==
  {NoRoom, rooms[p]} \cup [dh : 1 .. dhKeys[p], key : {NoKey}]

RecoverProfile(u) ==
  /\ u \in online /\ interruptions < MaxInterruptions
  /\ interruptions' = interruptions + 1
  /\ interrupted' = interrupted \cup {u} /\ recovered' = recovered \cup {u}
  /\ rooms' \in [Pair -> UNION {Exported(p) : p \in Pair}]
  /\ \A p \in Pair :
       rooms'[p] \in IF p[1] = u THEN Exported(p) ELSE {rooms[p]}
  /\ run' = [t \in Runs |->
       IF run[t].user = u THEN [run[t] EXCEPT !.current = FALSE] ELSE run[t]]
  /\ deriving' = {b \in deriving : b.pair[2] # u}
  /\ UNCHANGED <<dhKeys, online, bundles, posting,
                 failures, posted, kept>>

------------------------------------------------------------------------------

Post(p) == PostBundle(p) \/ CreateBundle(p) \/ CreateFails(p)

Run(t) ==
  \/ GetBundles(t) \/ GetFails(t)
  \/ RequestDeletion(t) \/ DeleteBundles(t) \/ DeleteFails(t)

Derive == \E b \in deriving : DeriveRoomSecretKey(b)

Next ==
  \/ Derive
  \/ \E p \in Pair : CreateDirectRoom(p) \/ Post(p)
  \/ \E t \in Runs : Run(t) \/ \E u \in User : Tick(t, u)
  \/ \E u \in User : Close(u) \/ Open(u) \/ RecoverProfile(u)

Spec == Init /\ [][Next]_vars

\* The timers fire, requests end and derivations end.  Users are not fair.
\* (Strong fairness: a timer never waits for the runs of others, which share
\* the places in Runs only here.)
FairSpec ==
  /\ Spec
  /\ WF_vars(Derive)
  /\ \A t \in Runs : WF_vars(Run(t))
  /\ \A u \in User : SF_vars(\E t \in Runs : Tick(t, u))

------------------------------------------------------------------------------
\* Properties

\* Types.
TypeOK ==
  /\ rooms \in [Pair -> Room \cup {NoRoom}]
  /\ dhKeys \in [Pair -> Nat] /\ online \subseteq User /\ bundles \subseteq Bundle
  /\ posting \in [Pair -> [pc : {"idle", "proof", "sent"}, dh : Nat]]
  /\ run \in [Runs -> [pc : {"idle", "get", "proof", "sent"},
                       user : User \cup {NoUser}, found : SUBSET Pair, current : BOOLEAN,
                       marked : SUBSET Bundle]]
  /\ deriving \subseteq Bundle
  /\ failures \in Nat /\ interruptions \in Nat /\ posted \subseteq Bundle
  /\ interrupted \subseteq User /\ recovered \subseteq User /\ kept \subseteq Bundle

HasKey(p) == rooms[p] # NoRoom /\ rooms[p].key # NoKey
Back(p)   == <<p[2], p[1]>>

\* Two users that both have a key for their room have the same: each was
\* derived with the DH key of the other's room, whatever the order of the two
\* creations and of the overlapping runs.  Not so after a recovery: the room it
\* takes away is created again, with another DH key, while the first bundle is
\* still on the server.
KeysAgree ==
  \A p \in Pair :
    (HasKey(p) /\ HasKey(Back(p)) /\ recovered = {}) =>
      /\ rooms[p].key = [pair |-> Back(p), dh |-> rooms[Back(p)].dh]
      /\ rooms[Back(p)].key = [pair |-> p, dh |-> rooms[p].dh]

\* A bundle is not deleted for nothing: its receiver has a key, or is deriving
\* it, unless the page was closed (the derivation is not awaited before the
\* bundle is deleted) or another profile put in place in the meantime.
BundleWasUsed ==
  \A b \in posted \ bundles :
    HasKey(Back(b.pair)) \/ b \in deriving \/ b.pair[2] \in interrupted

\* Where both have a room and the bundle arrived, a key is derived.
KeyEventually ==
  \A p \in Pair :
    (/\ \E b \in bundles : b.pair = p
     /\ rooms[Back(p)] # NoRoom /\ p[2] \notin interrupted)
      ~> (HasKey(Back(p)) \/ p[2] \in interrupted)

\* A bundle that was used is deleted, unless the request was refused, for the
\* limit for instance, or the receiver closed the page: the room has a key
\* then, so that no later run looks at the bundle again.
DeletedEventually ==
  \A p \in Pair :
    HasKey(p) ~> \/ \A b \in bundles : b.pair = Back(p) => b \in kept
                 \/ p[1] \in interrupted \/ recovered # {}

==============================================================================
