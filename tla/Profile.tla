------------------------------- MODULE Profile -------------------------------
(***************************************************************************)
(* The profile of a user: ProfileManager, the operations of the client     *)
(* library that change it, init(), and the public rooms of the server.     *)
(*                                                                         *)
(* A ProfileManager keeps the profile in memory and writes the whole of it *)
(* to the local storage after every change.  init() makes a new manager    *)
(* and fetches the root and the leaves before the profile is in it; the    *)
(* application calls init() when the page is loaded, on a login and after  *)
(* a recovery.  The key exchange keeps the manager of the first init()     *)
(* that succeeded.  The page of a public room can be used before init()    *)
(* has returned.                                                           *)
(*                                                                         *)
(* Rooms are model values, one per symmetric key or recipient.  The user   *)
(* name, the root and the leaves are left out of the profile.              *)
(***************************************************************************)
EXTENDS Naturals, FiniteSets

CONSTANTS
  Public, Private, Direct,  \* rooms of each kind
  defaultChatroom,          \* the public room "Lobby"
  Name, Key, NoContact,     \* trusted contacts
  NoProfile,
  Files,                    \* profiles exported earlier or elsewhere
  Call,                     \* create_public_room and join_public_room at one time
  MaxInits,                 \* bound: calls of init() per page
  MaxFailures               \* bound: writes to the local storage that throw

Room == Public \cup Private \cup Direct

ASSUME RoomAssumption ==
  /\ defaultChatroom \in Public
  /\ \A r \in Direct : r \notin Public \cup Private
  /\ Public \cap Private = {}
ASSUME BoundsAssumption  == MaxInits \in Nat /\ MaxFailures \in Nat
ASSUME ContactAssumption == NoContact \notin Key

\* rooms counts the entries of rooms.public, rooms.private and rooms.direct;
\* keyed: the direct rooms with a symmetric key.
ProfileRecord ==
  [rooms : [Room -> Nat], keyed : SUBSET Direct,
   contacts : [Name -> Key \cup {NoContact}]]
NoRoomTwice(profile) == \A r \in Room : profile.rooms[r] <= 1
ContactsDiffer(profile) ==
  \A n, m \in Name :
    (profile.contacts[n] = profile.contacts[m] /\ profile.contacts[n] # NoContact)
      => n = m

ASSUME ProfileAssumption == NoProfile \notin ProfileRecord
\* What exportProfile returned.
ASSUME FilesAssumption ==
  /\ Files \subseteq ProfileRecord
  /\ \A file \in Files : NoRoomTwice(file) /\ ContactsDiffer(file)

VARIABLES
  storage,      \* the profile in the local storage
  memory,       \* [manager -> inMemoryProfile]
  current,      \* the number of profile_manager, 0 before init()
  keyExchange,  \* the number of the manager that key_exchange_manager holds, or 0
  phase,        \* of init(): "idle", or "load" or "register" while it fetches
  publicRooms,  \* the server's collection of public rooms
  calls,        \* [Call -> operation on a public room]
  failures,     \* history: writes that threw
  reported,     \* history: rooms that the user was told to have
  derived,      \* history: direct rooms whose key was derived
  lost          \* history: what is to blame if one of them is missing

page == <<memory, current, keyExchange, phase, calls>>
vars == <<storage, page, publicRooms, failures, reported, derived, lost>>

Manager == 1 .. MaxInits
Here == IF current = 0 THEN NoProfile ELSE memory[current]
Has(profile, r) == profile # NoProfile /\ profile.rooms[r] > 0

NewProfile ==
  [rooms |-> [r \in Room |-> IF r = defaultChatroom THEN 1 ELSE 0], keyed |-> {},
   contacts |-> [n \in Name |-> NoContact]]

NoCall == [pc |-> "idle", room |-> defaultChatroom]

Init ==
  /\ storage = NoProfile
  /\ memory = [m \in Manager |-> NoProfile]
  /\ current = 0 /\ keyExchange = 0 /\ phase = "idle"
  /\ publicRooms \in {rooms \in SUBSET Public : defaultChatroom \in rooms}
  /\ calls = [c \in Call |-> NoCall]
  /\ failures = 0 /\ reported = {} /\ derived = {} /\ lost = {}

------------------------------------------------------------------------------
\* persistProfile: the manager m has the new profile; it is written, or the
\* storage throws and with it the operation.
Change(m, profile) == memory' = [memory EXCEPT ![m] = profile]

Persist(m, profile) ==
  Change(m, profile) /\ storage' = profile /\ UNCHANGED failures

PersistFails(m, profile) ==
  /\ failures < MaxFailures
  /\ failures' = failures + 1
  /\ Change(m, profile) /\ UNCHANGED storage

\* An update of the profile in memory that nobody has to be told of.
Update(profile) == Persist(current, profile) \/ PersistFails(current, profile)

\* addPublicRoom, addPrivateRoom and addDirectRoom: nothing happens, and
\* nothing is thrown, if there is no profile yet; "Room already exists" is
\* thrown if there is such a room.
MayAdd_unchecked(r) == TRUE   \* mutant
MayAdd(r) == Here.rooms[r] = 0

AddRoom_unsaved(r) ==   \* mutant
  /\ Here # NoProfile /\ MayAdd(r)
  /\ Change(current, [Here EXCEPT !.rooms[r] = @ + 1])
  /\ reported' = reported \cup {r} /\ UNCHANGED <<storage, failures, lost>>

AddRoom(r) ==
  \/ /\ Here = NoProfile
     /\ reported' = reported \cup {r} /\ lost' = lost \cup {"no profile"}
     /\ UNCHANGED <<storage, memory, failures>>
  \/ /\ Here # NoProfile /\ MayAdd(r)
     /\ Persist(current, [Here EXCEPT !.rooms[r] = @ + 1])
     /\ reported' = reported \cup {r} /\ UNCHANGED lost
  \/ /\ Here # NoProfile /\ MayAdd(r)
     /\ PersistFails(current, [Here EXCEPT !.rooms[r] = @ + 1])
     /\ UNCHANGED <<reported, lost>>
  \/ /\ Here # NoProfile /\ ~ MayAdd(r)
     /\ UNCHANGED <<storage, memory, failures, reported, lost>>

------------------------------------------------------------------------------
\* init()

\* A new manager without a profile; with an identity commitment, "register".
StartInit(how) ==
  /\ phase = "idle" /\ current < MaxInits
  /\ current' = current + 1 /\ phase' = how
  /\ UNCHANGED <<storage, memory, keyExchange, publicRooms, calls, failures,
                 reported, derived, lost>>

\* The key exchange manager is made once.
KeyExchange == IF keyExchange = 0 THEN current ELSE keyExchange

\* initProfile overwrites what is stored.
InitProfile ==
  /\ phase = "register"
  /\ \/ Persist(current, NewProfile) /\ keyExchange' = KeyExchange
     \/ PersistFails(current, NewProfile) /\ UNCHANGED keyExchange
  /\ reported' = {} /\ derived' = {} /\ lost' = {}
  /\ phase' = "idle"
  /\ UNCHANGED <<current, publicRooms, calls>>

\* loadProfile; updateRootHash and updateLeaves write the profile back.
LoadProfile ==
  /\ phase = "load"
  /\ storage # NoProfile
  /\ phase' = "idle"
  /\ \/ Persist(current, storage) /\ keyExchange' = KeyExchange
     \/ PersistFails(current, storage) /\ UNCHANGED keyExchange
  /\ UNCHANGED <<current, publicRooms, calls, reported, derived, lost>>

\* "No profile exists"
NothingToLoad ==
  /\ phase = "load" /\ storage = NoProfile
  /\ phase' = "idle"
  /\ UNCHANGED <<storage, memory, current, keyExchange, publicRooms, calls,
                 failures, reported, derived, lost>>

\* The page is closed or loaded again.
Reload ==
  /\ current # 0
  /\ memory' = [m \in Manager |-> NoProfile]
  /\ current' = 0 /\ keyExchange' = 0 /\ phase' = "idle"
  /\ calls' = [c \in Call |-> NoCall]
  /\ UNCHANGED <<storage, publicRooms, failures, reported, derived, lost>>

------------------------------------------------------------------------------
\* Rooms

Waits(c, where, r) == calls' = [calls EXCEPT ![c] = [pc |-> where, room |-> r]]
Returns(c)         == calls' = [calls EXCEPT ![c] = NoCall]

\* create_public_room, with a new key.
CreatePublicRoom(c, r) ==
  /\ current # 0 /\ calls[c].pc = "idle"
  /\ r \notin publicRooms /\ \A d \in Call : calls[d].pc # "idle" => calls[d].room # r
  /\ Waits(c, "create", r)
  /\ UNCHANGED <<storage, memory, current, keyExchange, phase, publicRooms,
                 failures, reported, derived, lost>>

\* saveRoom of the PublicRoomService
SavedWith(r) == publicRooms \cup {r}

SaveRoom(c) ==
  /\ calls[c].pc = "create"
  /\ publicRooms' = SavedWith(calls[c].room)
  /\ Waits(c, "add", calls[c].room)
  /\ UNCHANGED <<storage, memory, current, keyExchange, phase, failures,
                 reported, derived, lost>>

\* join_public_room goes on if getRoomById throws: there is no such room, or no
\* profile.
JoinPublicRoom(c, r) ==
  /\ current # 0 /\ calls[c].pc = "idle"
  /\ ~ Has(Here, r)
  /\ Waits(c, "get", r)
  /\ UNCHANGED <<storage, memory, current, keyExchange, phase, publicRooms,
                 failures, reported, derived, lost>>

\* findRoomById
FindRoomById(r) == {room \in publicRooms : room = r}

FindRoom(c) ==
  /\ calls[c].pc = "get" /\ FindRoomById(calls[c].room) # {}
  /\ Waits(c, "add", calls[c].room)
  /\ UNCHANGED <<storage, memory, current, keyExchange, phase, publicRooms,
                 failures, reported, derived, lost>>

\* "Room could not be created" or "Unknown room"; a room that is lost on the way
\* back stays on the server.
CallFails(c) ==
  /\ calls[c].pc # "idle"
  /\ Returns(c)
  /\ UNCHANGED <<storage, memory, current, keyExchange, phase, publicRooms,
                 failures, reported, derived, lost>>

\* addPublicRoom of the manager there is now.
AddPublicRoom(c) ==
  /\ calls[c].pc = "add"
  /\ AddRoom(calls[c].room)
  /\ Returns(c)
  /\ UNCHANGED <<current, keyExchange, phase, publicRooms, derived>>

\* create_private_room, join_private_room, create_direct_room; the posting of
\* the key exchange bundle is in the module KeyExchange.
AddOtherRoom(r) ==
  /\ current # 0
  /\ AddRoom(r)
  /\ UNCHANGED <<current, keyExchange, phase, publicRooms, calls, derived>>

\* deriveRoomSecretKey of the key exchange, which persists the profile of ITS
\* manager.
DeriveRoomSecretKey(r) ==
  /\ keyExchange # 0
  /\ Has(memory[keyExchange], r) /\ r \notin memory[keyExchange].keyed
  /\ LET profile == [memory[keyExchange] EXCEPT !.keyed = @ \cup {r}]
     IN \/ Persist(keyExchange, profile) /\ derived' = derived \cup {r}
        \/ PersistFails(keyExchange, profile) /\ UNCHANGED derived
  /\ lost' = IF keyExchange # current THEN lost \cup {"two managers"} ELSE lost
  /\ UNCHANGED <<current, keyExchange, phase, publicRooms, calls, reported>>

------------------------------------------------------------------------------
\* The rest of the profile

\* updateUsername, updateRootHash, updateLeaves: the profile is written.
UpdateProfile ==
  /\ Here # NoProfile
  /\ Update(Here)
  /\ UNCHANGED <<current, keyExchange, phase, publicRooms, calls, reported,
                 derived, lost>>

NewKey(key, ignored) ==
  \A n \in Name \ ignored : Here.contacts[n] # key

ChangeContacts(contacts) ==
  /\ Update([Here EXCEPT !.contacts = contacts])
  /\ UNCHANGED <<current, keyExchange, phase, publicRooms, calls, reported,
                 derived, lost>>

InsertTrustedContact(n, key) ==
  /\ Here # NoProfile
  /\ Here.contacts[n] = NoContact /\ NewKey(key, {})
  /\ ChangeContacts([Here.contacts EXCEPT ![n] = key])

\* A contact cannot keep its name: the new name must not exist.
UpdateTrustedContact(old, new, key) ==
  /\ Here # NoProfile
  /\ Here.contacts[old] # NoContact /\ Here.contacts[new] = NoContact
  /\ NewKey(key, {old})
  /\ ChangeContacts([Here.contacts EXCEPT ![old] = NoContact, ![new] = key])

DeleteTrustedContact(n) ==
  /\ Here # NoProfile /\ Here.contacts[n] # NoContact
  /\ ChangeContacts([Here.contacts EXCEPT ![n] = NoContact])

\* recoverProfile of a valid file; its public rooms were made on this server.
RecoverProfile(file) ==
  /\ current # 0
  /\ \A r \in Public : file.rooms[r] > 0 => r \in publicRooms
  /\ Update(file)
  /\ reported' = {} /\ derived' = {} /\ lost' = {}
  /\ UNCHANGED <<current, keyExchange, phase, publicRooms, calls>>

------------------------------------------------------------------------------

Next ==
  \/ \E how \in {"load", "register"} : StartInit(how)
  \/ InitProfile \/ LoadProfile \/ NothingToLoad \/ Reload
  \/ \E c \in Call :
       \/ \E r \in Public : CreatePublicRoom(c, r) \/ JoinPublicRoom(c, r)
       \/ SaveRoom(c) \/ FindRoom(c) \/ CallFails(c) \/ AddPublicRoom(c)
  \/ \E r \in Private \cup Direct : AddOtherRoom(r)
  \/ \E r \in Direct : DeriveRoomSecretKey(r)
  \/ UpdateProfile
  \/ \E file \in Files : RecoverProfile(file)
  \/ \E n \in Name : DeleteTrustedContact(n)
  \/ \E n \in Name, key \in Key : InsertTrustedContact(n, key)
  \/ \E n, m \in Name, key \in Key : UpdateTrustedContact(n, m, key)

Spec == Init /\ [][Next]_vars

------------------------------------------------------------------------------
\* Properties

Profiles == {storage} \cup {memory[m] : m \in Manager}

\* Types.
TypeOK ==
  /\ Profiles \subseteq ProfileRecord \cup {NoProfile}
  /\ memory \in [Manager -> ProfileRecord \cup {NoProfile}]
  /\ current \in 0 .. MaxInits /\ keyExchange \in 0 .. MaxInits
  /\ phase \in {"idle", "load", "register"}
  /\ publicRooms \subseteq Public
  /\ calls \in [Call -> [pc : {"idle", "create", "get", "add"}, room : Public]]
  /\ failures \in Nat
  /\ reported \subseteq Room /\ derived \subseteq Direct
  /\ lost \subseteq {"no profile", "two managers"}

\* No profile, in memory or stored, has a room twice, whatever joins
\* of it run at one time, or two contacts with one key.
ProfilesConsistent ==
  \A profile \in Profiles \ {NoProfile} : NoRoomTwice(profile) /\ ContactsDiffer(profile)

\* A public room in a profile can be joined by others: the server has it.
PublicRoomsExist ==
  \A profile \in Profiles \ {NoProfile} : \A r \in Public :
    profile.rooms[r] > 0 => r \in publicRooms

\* What the user was told to have is stored, and will be there when the page is
\* loaded again; and so are the keys that were derived.  The exceptions are
\* the two that set "lost": a room that was added before init() had the profile
\* vanishes without an error, and once a second init() was called a derivation
\* writes the profile of the first manager over that of the second.
NothingIsLost ==
  (lost = {} /\ storage # NoProfile) =>
    /\ \A r \in reported : storage.rooms[r] > 0
    /\ derived \subseteq storage.keyed

\* The profile in memory and the stored one are the same after every operation,
\* whatever fails but the storage itself.  The exception is again a derivation by
\* the first manager once there is a second.
ContinuouslySynced ==
  (Here # NoProfile /\ failures = 0 /\ "two managers" \notin lost) => storage = Here

==============================================================================
