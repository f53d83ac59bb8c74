--------------------------- MODULE Profile_proofs ----------------------------
(***************************************************************************)
(* Types, ProfilesConsistent, PublicRoomsExist, NothingIsLost and          *)
(* ContinuouslySynced of Profile, for any rooms, contacts, files, number   *)
(* of concurrent calls, of calls of init() and of failing writes.          *)
(***************************************************************************)
EXTENDS Profile, TLAPS

CallRecord == [pc : {"idle", "create", "get", "add"}, room : Public]

\* A profile that is consistent, in itself and with the rooms of the server.
Good(profile) ==
  /\ NoRoomTwice(profile) /\ ContactsDiffer(profile)
  /\ \A r \in Public : profile.rooms[r] > 0 => r \in publicRooms

GoodInv == /\ storage # NoProfile => Good(storage)
           /\ \A m \in Manager : memory[m] # NoProfile => Good(memory[m])

\* A room is added only after the server saved or found it.
CallsInv ==
  /\ defaultChatroom \in publicRooms
  /\ \A c \in Call : calls[c].pc = "add" => calls[c].room \in publicRooms

KeptBy(profile) ==
  /\ \A r \in reported : profile.rooms[r] > 0
  /\ derived \subseteq profile.keyed

\* What the user was told of is stored, and in the profile that is written next.
KeptInv ==
  lost = {} =>
    /\ storage # NoProfile => KeptBy(storage)
    /\ Here # NoProfile => KeptBy(Here)

\* A new manager is without a profile, and init() makes one.
ManagerInv == /\ \A m \in Manager : m > current => memory[m] = NoProfile
              /\ phase # "idle" => current # 0

\* TypeOK, with the profiles one by one.
Typed ==
  /\ storage \in ProfileRecord \cup {NoProfile}
  /\ memory \in [Manager -> ProfileRecord \cup {NoProfile}]
  /\ current \in 0 .. MaxInits /\ keyExchange \in 0 .. MaxInits
  /\ phase \in {"idle", "load", "register"}
  /\ publicRooms \subseteq Public
  /\ calls \in [Call -> CallRecord]
  /\ failures \in Nat
  /\ reported \subseteq Room /\ derived \subseteq Direct
  /\ lost \subseteq {"no profile", "two managers"}

Inv == Typed /\ GoodInv /\ CallsInv /\ KeptInv /\ ContinuouslySynced /\ ManagerInv

------------------------------------------------------------------------------

LEMMA HereType ==
  ASSUME Typed
  PROVE  /\ Here \in ProfileRecord \cup {NoProfile}
         /\ current # 0 => current \in Manager /\ Here = memory[current]
         /\ Here # NoProfile => current # 0
<1>1. current \in 0 .. MaxInits /\ memory \in [Manager -> ProfileRecord \cup {NoProfile}]
  BY DEF Typed
<1>2. current # 0 => current \in Manager
  BY <1>1, BoundsAssumption DEF Manager
<1>3. CASE current = 0
  BY <1>3 DEF Here
<1>4. CASE current # 0
  BY <1>1, <1>2, <1>4 DEF Here
<1> QED BY <1>2, <1>3, <1>4

LEMMA InitInv == ASSUME Init PROVE Inv
<1>1. NoCall \in CallRecord
  BY RoomAssumption DEF NoCall, CallRecord
<1>2. 0 \in 0 .. MaxInits /\ publicRooms \subseteq Public /\ defaultChatroom \in publicRooms
  BY BoundsAssumption DEF Init
<1>3. memory \in [Manager -> ProfileRecord \cup {NoProfile}] /\ calls \in [Call -> CallRecord]
  BY <1>1 DEF Init
<1>4. Typed
  BY <1>2, <1>3 DEF Init, Typed
<1>5. GoodInv /\ CallsInv /\ ManagerInv
  BY <1>2 DEF Init, GoodInv, CallsInv, ManagerInv, NoCall
<1>6. KeptInv /\ ContinuouslySynced
  BY DEF Init, KeptInv, ContinuouslySynced, Here
<1> QED BY <1>4, <1>5, <1>6 DEF Inv

\* Facts of arithmetic.
LEMMA Counted ==
  ASSUME NEW n \in Nat, NEW m, m = n \/ m = n + 1
  PROVE  m \in Nat /\ (m = 0 => m = n /\ m # n + 1)
BY SMT

LEMMA Later ==
  ASSUME NEW n \in Nat, NEW m \in Nat, m > n
  PROVE  m # n
BY SMT

LEMMA IsManager == ASSUME NEW m \in 0 .. MaxInits, m # 0 PROVE m \in Manager
BY BoundsAssumption DEF Manager

LEMMA Numbers == (\A m \in Manager : m \in Nat) /\ (\A m \in 0 .. MaxInits : m \in Nat)
BY BoundsAssumption DEF Manager

\* The current manager gets a profile, which is written or not.
LEMMA WriteStep ==
  ASSUME Inv, current # 0, NEW q \in ProfileRecord, Good(q),
         Persist(current, q) \/ PersistFails(current, q),
         UNCHANGED <<current, publicRooms>>,
         keyExchange' \in 0 .. MaxInits, phase' \in {"idle", "load", "register"},
         calls' \in [Call -> CallRecord],
         \A c \in Call : calls'[c].pc = "add" => calls[c].pc = "add" /\ calls'[c] = calls[c],
         reported' \subseteq Room, derived' \subseteq Direct,
         lost' \subseteq {"no profile", "two managers"},
         lost' = {} => KeptBy(q)',
         lost' = {} /\ storage' = storage /\ storage # NoProfile => KeptBy(storage)'
  PROVE  Inv'
<1>1. /\ current \in Manager /\ memory \in [Manager -> ProfileRecord \cup {NoProfile}]
      /\ storage \in ProfileRecord \cup {NoProfile} /\ failures \in Nat
      /\ current \in 0 .. MaxInits /\ publicRooms \subseteq Public
  BY HereType DEF Inv, Typed
<1>2. q # NoProfile
  BY ProfileAssumption
<1>3. memory' = [memory EXCEPT ![current] = q]
  BY DEF Persist, PersistFails, Change
<1>4. \/ storage' = q /\ failures' = failures
      \/ storage' = storage /\ failures' = failures + 1
  BY DEF Persist, PersistFails
<1>5. /\ memory' \in [Manager -> ProfileRecord \cup {NoProfile}] /\ memory'[current] = q
      /\ \A m \in Manager \ {current} : memory'[m] = memory[m]
  BY <1>1, <1>3
<1>6. storage' \in ProfileRecord \cup {NoProfile}
  BY <1>1, <1>4
<1>14. failures' \in Nat /\ (failures' = 0 => failures' = failures /\ failures' # failures + 1)
  <2>1. failures' = failures \/ failures' = failures + 1
    BY <1>4
  <2> QED BY <1>1, <2>1, Counted
<1>7. Typed'
  BY <1>1, <1>5, <1>6, <1>14 DEF Typed
<1>8. Here' = q
  BY <1>5 DEF Here
<1>9. GoodInv'
  <2>1. storage' # NoProfile => Good(storage')
    BY <1>4 DEF Inv, GoodInv
  <2>2. \A m \in Manager : memory'[m] # NoProfile => Good(memory'[m])
    BY <1>5 DEF Inv, GoodInv
  <2> QED BY <2>1, <2>2 DEF GoodInv, Good
<1>10. CallsInv'
  BY DEF Inv, CallsInv
<1>11. KeptInv'
  BY <1>4, <1>8 DEF KeptInv, KeptBy
<1>12. ContinuouslySynced'
  <2> SUFFICES ASSUME failures' = 0 PROVE storage' = Here'
    BY DEF ContinuouslySynced
  <2> QED BY <1>4, <1>8, <1>14
<1>13. ManagerInv'
  <2> SUFFICES ASSUME NEW m \in Manager, m > current PROVE memory'[m] = NoProfile
    BY DEF ManagerInv
  <2>1. current \in Nat /\ m \in Nat
    BY <1>1, Numbers
  <2>2. m # current
    BY <2>1, Later
  <2> QED BY <1>5, <2>2 DEF Inv, ManagerInv
<1> QED BY <1>7, <1>9, <1>10, <1>11, <1>12, <1>13 DEF Inv

\* No profile changes.
LEMMA QuietStep ==
  ASSUME Inv, UNCHANGED <<storage, memory, current, keyExchange, failures, derived>>,
         phase' \in {"idle", "load", "register"}, phase' \in {"idle", phase},
         publicRooms \subseteq publicRooms', publicRooms' \subseteq Public,
         calls' \in [Call -> CallRecord], CallsInv',
         reported' \subseteq Room,
         lost' \subseteq {"no profile", "two managers"}, lost \subseteq lost',
         reported' = reported \/ lost' # {}
  PROVE  Inv'
<1>1. Typed'
  BY DEF Inv, Typed
<1>2. GoodInv'
  <2>1. \A p : Good(p) => Good(p)'
    BY DEF Good, NoRoomTwice, ContactsDiffer
  <2> QED BY <2>1 DEF Inv, GoodInv
<1>3. Here' = Here
  BY DEF Here
<1>4. KeptInv'
  BY <1>3 DEF Inv, KeptInv, KeptBy
<1>5. ContinuouslySynced'
  BY <1>3 DEF Inv, ContinuouslySynced
<1>6. ManagerInv'
  BY DEF Inv, ManagerInv
<1> QED BY <1>1, <1>2, <1>4, <1>5, <1>6 DEF Inv

\* A profile with one room more, with a key more, with other contacts.
LEMMA RoomAdded ==
  ASSUME NEW profile \in ProfileRecord, Good(profile), NEW r \in Room,
         profile.rooms[r] = 0, r \in Public => r \in publicRooms
  PROVE  /\ [profile EXCEPT !.rooms[r] = @ + 1] \in ProfileRecord
         /\ Good([profile EXCEPT !.rooms[r] = @ + 1])
         /\ [profile EXCEPT !.rooms[r] = @ + 1].keyed = profile.keyed
         /\ [profile EXCEPT !.rooms[r] = @ + 1].rooms[r] > 0
         /\ \A t \in Room : profile.rooms[t] > 0 =>
              [profile EXCEPT !.rooms[r] = @ + 1].rooms[t] > 0
<1> DEFINE q == [profile EXCEPT !.rooms[r] = @ + 1]
<1>1. /\ profile.rooms \in [Room -> Nat] /\ profile.keyed \in SUBSET Direct
      /\ profile.contacts \in [Name -> Key \cup {NoContact}]
  BY DEF ProfileRecord
<1>2. profile.rooms[r] + 1 = 1
  BY SMT
<1>3. /\ q.rooms = [profile.rooms EXCEPT ![r] = 1]
      /\ q.keyed = profile.keyed /\ q.contacts = profile.contacts
  BY <1>2 DEF ProfileRecord
<1>4. q.rooms \in [Room -> Nat] /\ q.rooms[r] = 1 /\ \A t \in Room \ {r} : q.rooms[t] = profile.rooms[t]
  BY <1>1, <1>3
<1>5. q \in ProfileRecord
  <2>1. q.rooms \in [Room -> Nat] /\ q.keyed \in SUBSET Direct /\ q.contacts \in [Name -> Key \cup {NoContact}]
    BY <1>1, <1>3, <1>4
  <2>2. q = [rooms |-> q.rooms, keyed |-> q.keyed, contacts |-> q.contacts]
    BY DEF ProfileRecord
  <2> QED BY <2>1, <2>2 DEF ProfileRecord
<1>6. NoRoomTwice(q)
  BY <1>4 DEF Good, NoRoomTwice
<1>7. ContactsDiffer(q)
  BY <1>3 DEF Good, ContactsDiffer
<1>8. \A t \in Public : q.rooms[t] > 0 => t \in publicRooms
  BY <1>4 DEF Good, Room
<1>9. q.rooms[r] > 0 /\ \A t \in Room : profile.rooms[t] > 0 => q.rooms[t] > 0
  BY <1>4
<1>10. Good(q)
  BY <1>6, <1>7, <1>8 DEF Good
<1> QED BY <1>3, <1>5, <1>9, <1>10

LEMMA KeyAdded ==
  ASSUME NEW profile \in ProfileRecord, Good(profile), NEW r \in Direct
  PROVE  /\ [profile EXCEPT !.keyed = @ \cup {r}] \in ProfileRecord
         /\ Good([profile EXCEPT !.keyed = @ \cup {r}])
         /\ [profile EXCEPT !.keyed = @ \cup {r}].rooms = profile.rooms
         /\ [profile EXCEPT !.keyed = @ \cup {r}].keyed = profile.keyed \cup {r}
BY DEF ProfileRecord, Good, NoRoomTwice, ContactsDiffer

LEMMA ContactsChanged ==
  ASSUME NEW profile \in ProfileRecord, Good(profile),
         NEW contacts \in [Name -> Key \cup {NoContact}],
         \A n, m \in Name : contacts[n] = contacts[m] /\ contacts[n] # NoContact => n = m
  PROVE  /\ [profile EXCEPT !.contacts = contacts] \in ProfileRecord
         /\ Good([profile EXCEPT !.contacts = contacts])
         /\ [profile EXCEPT !.contacts = contacts].rooms = profile.rooms
         /\ [profile EXCEPT !.contacts = contacts].keyed = profile.keyed
BY DEF ProfileRecord, Good, NoRoomTwice, ContactsDiffer

LEMMA NewProfileType ==
  ASSUME Typed, CallsInv
  PROVE  NewProfile \in ProfileRecord /\ Good(NewProfile)
<1>1. defaultChatroom \in Room
  BY RoomAssumption DEF Room
<1>2. NewProfile \in ProfileRecord
  BY DEF NewProfile, ProfileRecord
<1>3. Good(NewProfile)
  BY <1>1 DEF NewProfile, Good, NoRoomTwice, ContactsDiffer, CallsInv, Room
<1> QED BY <1>2, <1>3

LEMMA CallChanged ==
  ASSUME Inv, NEW c \in Call, NEW call \in CallRecord,
         calls' = [calls EXCEPT ![c] = call], publicRooms \subseteq publicRooms',
         call.pc = "add" => call.room \in publicRooms'
  PROVE  /\ calls' \in [Call -> CallRecord] /\ CallsInv' /\ calls'[c] = call
         /\ \A d \in Call \ {c} : calls'[d] = calls[d]
<1>1. calls \in [Call -> CallRecord]
  BY DEF Inv, Typed
<1>2. /\ calls' \in [Call -> CallRecord] /\ calls'[c] = call
      /\ \A d \in Call \ {c} : calls'[d] = calls[d]
  BY <1>1
<1>3. CallsInv'
  BY <1>2 DEF Inv, CallsInv
<1> QED BY <1>2, <1>3

LEMMA NoCallType == NoCall \in CallRecord /\ NoCall.pc # "add"
BY RoomAssumption DEF NoCall, CallRecord

------------------------------------------------------------------------------
\* The steps that change no profile.

LEMMA CallStep ==
  ASSUME Inv, NEW c \in Call,
         \/ \E r \in Public : CreatePublicRoom(c, r) \/ JoinPublicRoom(c, r)
         \/ SaveRoom(c) \/ FindRoom(c) \/ CallFails(c)
  PROVE  Inv'
<1>1. /\ \A d \in Call : calls[d] \in CallRecord
      /\ publicRooms \subseteq Public /\ phase \in {"idle", "load", "register"}
      /\ reported \subseteq Room /\ lost \subseteq {"no profile", "two managers"}
  BY DEF Inv, Typed
<1>2. /\ UNCHANGED <<storage, memory, current, keyExchange, failures, derived>>
      /\ phase' = phase /\ reported' = reported /\ lost' = lost
  BY DEF CreatePublicRoom, JoinPublicRoom, SaveRoom, FindRoom, CallFails
<1>3. calls[c].room \in Public
  BY <1>1 DEF CallRecord
<1>4. publicRooms \subseteq publicRooms' /\ publicRooms' \subseteq Public
  BY <1>1, <1>3 DEF CreatePublicRoom, JoinPublicRoom, SaveRoom, FindRoom, CallFails, SavedWith
<1>5. \E call \in CallRecord :
        /\ calls' = [calls EXCEPT ![c] = call]
        /\ call.pc = "add" => call.room \in publicRooms'
  <2>1. ASSUME NEW r \in Public, CreatePublicRoom(c, r) \/ JoinPublicRoom(c, r)
        PROVE  \E call \in CallRecord :
                 calls' = [calls EXCEPT ![c] = call] /\ call.pc # "add"
    <3>1. [pc |-> "create", room |-> r] \in CallRecord /\ [pc |-> "get", room |-> r] \in CallRecord
      BY DEF CallRecord
    <3> QED BY <2>1, <3>1 DEF CreatePublicRoom, JoinPublicRoom, Waits
  <2>2. [pc |-> "add", room |-> calls[c].room] \in CallRecord
    BY <1>3 DEF CallRecord
  <2>3. ASSUME SaveRoom(c) \/ FindRoom(c)
        PROVE  /\ calls' = [calls EXCEPT ![c] = [pc |-> "add", room |-> calls[c].room]]
               /\ calls[c].room \in publicRooms'
    BY <2>3 DEF SaveRoom, FindRoom, FindRoomById, SavedWith, Waits
  <2>4. ASSUME CallFails(c) PROVE calls' = [calls EXCEPT ![c] = NoCall]
    BY <2>4 DEF CallFails, Returns
  <2>5. CASE SaveRoom(c) \/ FindRoom(c)
    BY <2>2, <2>3, <2>5
  <2>6. CASE CallFails(c)
    BY <2>4, <2>6, NoCallType
  <2>7. CASE \E r \in Public : CreatePublicRoom(c, r) \/ JoinPublicRoom(c, r)
    BY <2>1, <2>7
  <2> QED BY <2>5, <2>6, <2>7
<1>6. calls' \in [Call -> CallRecord] /\ CallsInv'
  BY <1>4, <1>5, CallChanged
<1> QED BY <1>1, <1>2, <1>4, <1>6, QuietStep

LEMMA NothingToLoadStep == ASSUME Inv, NothingToLoad PROVE Inv'
<1>1. /\ UNCHANGED <<storage, memory, current, keyExchange, failures, derived>>
      /\ phase' = "idle" /\ UNCHANGED <<publicRooms, calls, reported, lost>>
  BY DEF NothingToLoad
<1>2. CallsInv'
  BY <1>1 DEF Inv, CallsInv
<1>3. /\ publicRooms \subseteq Public /\ calls \in [Call -> CallRecord]
      /\ reported \subseteq Room /\ lost \subseteq {"no profile", "two managers"}
  BY DEF Inv, Typed
<1> QED BY <1>1, <1>2, <1>3, QuietStep

LEMMA StartInitStep ==
  ASSUME Inv, NEW how \in {"load", "register"}, StartInit(how)
  PROVE  Inv'
<1>1. /\ UNCHANGED <<storage, memory, keyExchange, publicRooms, calls, failures,
                    reported, derived, lost>>
      /\ current' = current + 1 /\ phase' = how /\ current < MaxInits
  BY DEF StartInit
<1>2. current \in 0 .. MaxInits
  BY DEF Inv, Typed
<1>3. current' \in 0 .. MaxInits /\ current' \in Manager /\ current' > current /\ current' # 0
  BY <1>1, <1>2, BoundsAssumption DEF Manager
<1>4. Typed'
  BY <1>1, <1>3 DEF Inv, Typed
<1>5. GoodInv'
  BY <1>1 DEF Inv, GoodInv, Good
<1>6. CallsInv'
  BY <1>1 DEF Inv, CallsInv
<1>7. Here' = NoProfile
  BY <1>1, <1>3 DEF Here, Inv, ManagerInv
<1>8. KeptInv' /\ ContinuouslySynced'
  BY <1>1, <1>7 DEF Inv, KeptInv, KeptBy, ContinuouslySynced
<1>9. ManagerInv'
  <2> SUFFICES ASSUME NEW m \in Manager, m > current' PROVE memory[m] = NoProfile
    BY <1>1, <1>3 DEF ManagerInv
  <2>1. m > current
    BY <1>1, <1>2, Numbers, BoundsAssumption
  <2> QED BY <2>1 DEF Inv, ManagerInv
<1> QED BY <1>4, <1>5, <1>6, <1>8, <1>9 DEF Inv

LEMMA ReloadStep == ASSUME Inv, Reload PROVE Inv'
<1>1. /\ memory' = [m \in Manager |-> NoProfile] /\ current' = 0 /\ keyExchange' = 0
      /\ phase' = "idle" /\ calls' = [c \in Call |-> NoCall]
      /\ UNCHANGED <<storage, publicRooms, failures, reported, derived, lost>>
  BY DEF Reload
<1>2. /\ 0 \in 0 .. MaxInits
      /\ calls' \in [Call -> CallRecord]
      /\ memory' \in [Manager -> ProfileRecord \cup {NoProfile}]
  BY <1>1, NoCallType, BoundsAssumption
<1>3. Typed'
  BY <1>1, <1>2 DEF Inv, Typed
<1>4. GoodInv'
  BY <1>1 DEF Inv, GoodInv, Good
<1>5. CallsInv' /\ ManagerInv'
  BY <1>1, NoCallType DEF Inv, CallsInv, ManagerInv
<1>6. Here' = NoProfile
  BY <1>1 DEF Here
<1>7. KeptInv' /\ ContinuouslySynced'
  BY <1>1, <1>6 DEF Inv, KeptInv, KeptBy, ContinuouslySynced
<1> QED BY <1>3, <1>4, <1>5, <1>7 DEF Inv

------------------------------------------------------------------------------
\* The steps that write a profile.

LEMMA InitProfileStep == ASSUME Inv, InitProfile PROVE Inv'
<1>1. PICK q : q = NewProfile
  OBVIOUS
<1>2. q \in ProfileRecord /\ Good(q)
  BY <1>1, NewProfileType DEF Inv
<1>3. /\ current # 0 /\ current \in 0 .. MaxInits /\ keyExchange \in 0 .. MaxInits
      /\ calls \in [Call -> CallRecord]
  BY DEF Inv, Typed, ManagerInv, InitProfile
<1>4. /\ Persist(current, q) \/ PersistFails(current, q)
      /\ UNCHANGED <<current, publicRooms, calls>>
      /\ phase' = "idle" /\ reported' = {} /\ derived' = {} /\ lost' = {}
  BY <1>1 DEF InitProfile
<1>5. keyExchange' \in 0 .. MaxInits
  BY <1>3 DEF InitProfile, KeyExchange
<1>6. KeptBy(q)' /\ KeptBy(storage)'
  BY <1>4 DEF KeptBy
<1> QED BY <1>2, <1>3, <1>4, <1>5, <1>6, WriteStep

LEMMA LoadProfileStep == ASSUME Inv, LoadProfile PROVE Inv'
<1>1. PICK q : q = storage
  OBVIOUS
<1>2. q \in ProfileRecord /\ Good(q)
  BY <1>1 DEF Inv, Typed, GoodInv, LoadProfile
<1>3. /\ current # 0 /\ current \in 0 .. MaxInits /\ keyExchange \in 0 .. MaxInits
      /\ calls \in [Call -> CallRecord] /\ reported \subseteq Room /\ derived \subseteq Direct
      /\ lost \subseteq {"no profile", "two managers"}
  BY DEF Inv, Typed, ManagerInv, LoadProfile
<1>4. /\ Persist(current, q) \/ PersistFails(current, q)
      /\ UNCHANGED <<current, publicRooms, calls, reported, derived, lost>>
      /\ phase' = "idle" /\ storage # NoProfile
  BY <1>1 DEF LoadProfile
<1>5. keyExchange' \in 0 .. MaxInits
  BY <1>3 DEF LoadProfile, KeyExchange
<1>6. lost' = {} => KeptBy(q)'
  BY <1>1, <1>4 DEF KeptBy, Inv, KeptInv
<1>7. lost' = {} /\ storage' = storage => KeptBy(storage)'
  BY <1>4 DEF KeptBy, Inv, KeptInv
<1> QED BY <1>2, <1>3, <1>4, <1>5, <1>6, <1>7, WriteStep

\* The rooms and keys of the current manager's profile are kept.
LEMMA KeepingStep ==
  ASSUME Inv, Here # NoProfile, NEW q \in ProfileRecord, Good(q),
         Persist(current, q) \/ PersistFails(current, q),
         UNCHANGED <<current, keyExchange, phase, publicRooms, calls, reported,
                     derived, lost>>,
         \A r \in Room : Here.rooms[r] > 0 => q.rooms[r] > 0,
         Here.keyed \subseteq q.keyed
  PROVE  Inv'
<1>1. /\ current # 0 /\ current \in 0 .. MaxInits /\ keyExchange \in 0 .. MaxInits
      /\ phase \in {"idle", "load", "register"}
      /\ calls \in [Call -> CallRecord] /\ reported \subseteq Room /\ derived \subseteq Direct
      /\ lost \subseteq {"no profile", "two managers"}
  BY HereType DEF Inv, Typed
<1>2. lost' = {} => KeptBy(q)'
  BY <1>1 DEF KeptBy, Inv, KeptInv
<1>3. lost' = {} /\ storage' = storage /\ storage # NoProfile => KeptBy(storage)'
  BY DEF KeptBy, Inv, KeptInv
<1> QED BY <1>1, <1>2, <1>3, WriteStep

LEMMA HereGood ==
  ASSUME Inv, Here # NoProfile
  PROVE  Here \in ProfileRecord /\ Good(Here) /\ current # 0
BY HereType DEF Inv, GoodInv

LEMMA UpdateProfileStep == ASSUME Inv, UpdateProfile PROVE Inv'
<1>1. PICK q : q = Here
  OBVIOUS
<1>2. q \in ProfileRecord /\ Good(q) /\ Here # NoProfile
  BY <1>1, HereGood DEF UpdateProfile
<1>3. /\ Persist(current, q) \/ PersistFails(current, q)
      /\ UNCHANGED <<current, keyExchange, phase, publicRooms, calls, reported, derived, lost>>
  BY <1>1 DEF UpdateProfile, Update
<1> QED BY <1>1, <1>2, <1>3, KeepingStep

LEMMA ContactsStep ==
  ASSUME Inv, Here # NoProfile,
         NEW contacts \in [Name -> Key \cup {NoContact}],
         \A n, m \in Name : contacts[n] = contacts[m] /\ contacts[n] # NoContact => n = m,
         ChangeContacts(contacts)
  PROVE  Inv'
<1>1. PICK q : q = [Here EXCEPT !.contacts = contacts]
  OBVIOUS
<1>2. q \in ProfileRecord /\ Good(q) /\ q.rooms = Here.rooms /\ q.keyed = Here.keyed
  BY <1>1, HereGood, ContactsChanged
<1>3. /\ Persist(current, q) \/ PersistFails(current, q)
      /\ UNCHANGED <<current, keyExchange, phase, publicRooms, calls, reported, derived, lost>>
  BY <1>1 DEF ChangeContacts, Update
<1> QED BY <1>2, <1>3, KeepingStep

LEMMA RecoverProfileStep ==
  ASSUME Inv, NEW file \in Files, RecoverProfile(file)
  PROVE  Inv'
<1>1. file \in ProfileRecord /\ Good(file)
  BY FilesAssumption DEF RecoverProfile, Good
<1>2. /\ current # 0 /\ keyExchange \in 0 .. MaxInits
      /\ phase \in {"idle", "load", "register"} /\ calls \in [Call -> CallRecord]
  BY DEF Inv, Typed, RecoverProfile
<1>3. /\ Persist(current, file) \/ PersistFails(current, file)
      /\ UNCHANGED <<current, keyExchange, phase, publicRooms, calls>>
      /\ reported' = {} /\ derived' = {} /\ lost' = {}
  BY DEF RecoverProfile, Update
<1>4. KeptBy(file)' /\ KeptBy(storage)'
  BY <1>3 DEF KeptBy
<1> QED BY <1>1, <1>2, <1>3, <1>4, WriteStep

\* A contact that gets a key gets one that no other has.
LEMMA InsertStep ==
  ASSUME Inv, NEW n \in Name, NEW key \in Key, InsertTrustedContact(n, key)
  PROVE  Inv'
<1>1. PICK contacts : contacts = [Here.contacts EXCEPT ![n] = key]
  OBVIOUS
<1>2. /\ Here # NoProfile /\ ChangeContacts(contacts)
      /\ \A m \in Name : Here.contacts[m] # key
  BY <1>1 DEF InsertTrustedContact, NewKey
<1>3. /\ Here.contacts \in [Name -> Key \cup {NoContact}] /\ ContactsDiffer(Here)
  BY <1>2, HereGood DEF Good, ProfileRecord
<1>4. contacts \in [Name -> Key \cup {NoContact}]
  BY <1>1, <1>3
<1>5. \A m, o \in Name : contacts[m] = contacts[o] /\ contacts[m] # NoContact => m = o
  BY <1>1, <1>2, <1>3 DEF ContactsDiffer
<1> QED BY <1>2, <1>4, <1>5, ContactsStep

LEMMA UpdateStep ==
  ASSUME Inv, NEW old \in Name, NEW new \in Name, NEW key \in Key,
         UpdateTrustedContact(old, new, key)
  PROVE  Inv'
<1>1. PICK contacts : contacts = [Here.contacts EXCEPT ![old] = NoContact, ![new] = key]
  OBVIOUS
<1>2. /\ Here # NoProfile /\ ChangeContacts(contacts) /\ old # new
      /\ \A m \in Name \ {old} : Here.contacts[m] # key
  BY <1>1 DEF UpdateTrustedContact, NewKey
<1>3. /\ Here.contacts \in [Name -> Key \cup {NoContact}] /\ ContactsDiffer(Here)
  BY <1>2, HereGood DEF Good, ProfileRecord
<1>4. /\ contacts \in [Name -> Key \cup {NoContact}]
      /\ contacts[new] = key /\ contacts[old] = NoContact
      /\ \A m \in Name \ {old, new} : contacts[m] = Here.contacts[m]
  BY <1>1, <1>2, <1>3
<1>5. \A m, o \in Name : contacts[m] = contacts[o] /\ contacts[m] # NoContact => m = o
  BY <1>2, <1>3, <1>4 DEF ContactsDiffer
<1> QED BY <1>2, <1>4, <1>5, ContactsStep

LEMMA DeleteStep ==
  ASSUME Inv, NEW n \in Name, DeleteTrustedContact(n)
  PROVE  Inv'
<1>1. PICK contacts : contacts = [Here.contacts EXCEPT ![n] = NoContact]
  OBVIOUS
<1>2. /\ Here # NoProfile /\ ChangeContacts(contacts)
  BY <1>1 DEF DeleteTrustedContact
<1>3. /\ Here.contacts \in [Name -> Key \cup {NoContact}] /\ ContactsDiffer(Here)
  BY <1>2, HereGood DEF Good, ProfileRecord
<1>4. contacts \in [Name -> Key \cup {NoContact}]
  BY <1>1, <1>3
<1>5. \A m, o \in Name : contacts[m] = contacts[o] /\ contacts[m] # NoContact => m = o
  BY <1>1, <1>3 DEF ContactsDiffer
<1> QED BY <1>2, <1>4, <1>5, ContactsStep

\* A room is added: it is on the server if it is public.
LEMMA AddRoomStep ==
  ASSUME Inv, NEW r \in Room, r \in Public => r \in publicRooms, AddRoom(r),
         UNCHANGED <<current, keyExchange, phase, publicRooms, derived>>,
         calls' \in [Call -> CallRecord], CallsInv',
         \A c \in Call : calls'[c].pc = "add" => calls[c].pc = "add" /\ calls'[c] = calls[c]
  PROVE  Inv'
<1>1. /\ publicRooms \subseteq Public /\ reported \subseteq Room /\ derived \subseteq Direct
      /\ keyExchange \in 0 .. MaxInits /\ phase \in {"idle", "load", "register"}
      /\ lost \subseteq {"no profile", "two managers"}
  BY DEF Inv, Typed
<1>2. CASE Here = NoProfile
  <2>1. /\ UNCHANGED <<storage, memory, failures>>
        /\ reported' = reported \cup {r} /\ lost' = lost \cup {"no profile"}
    BY <1>2 DEF AddRoom
  <2>2. /\ reported' \subseteq Room /\ lost' \subseteq {"no profile", "two managers"}
        /\ lost \subseteq lost' /\ lost' # {}
    BY <1>1, <2>1
  <2> QED BY <1>1, <2>1, <2>2, QuietStep
<1>3. CASE Here # NoProfile /\ ~ MayAdd(r)
  <2>1. UNCHANGED <<storage, memory, failures, reported, lost>>
    BY <1>3 DEF AddRoom
  <2> QED BY <1>1, <2>1, QuietStep
<1>4. CASE Here # NoProfile /\ MayAdd(r)
  <2>1. PICK q : q = [Here EXCEPT !.rooms[r] = @ + 1]
    OBVIOUS
  <2>2. Here \in ProfileRecord /\ Good(Here) /\ current # 0 /\ Here.rooms[r] = 0
    BY <1>4, HereGood DEF MayAdd
  <2>3. /\ q \in ProfileRecord /\ Good(q) /\ q.keyed = Here.keyed /\ q.rooms[r] > 0
        /\ \A t \in Room : Here.rooms[t] > 0 => q.rooms[t] > 0
    BY <2>1, <2>2, RoomAdded
  <2>4. /\ lost' = lost
        /\ \/ Persist(current, q) /\ reported' = reported \cup {r}
           \/ PersistFails(current, q) /\ reported' = reported
    BY <1>4, <2>1 DEF AddRoom
  <2>5. reported' \subseteq Room
    BY <1>1, <2>4
  <2>6. lost' = {} => KeptBy(q)'
    BY <1>1, <1>4, <2>3, <2>4 DEF KeptBy, Inv, KeptInv
  <2>7. Persist(current, q) => storage' = q
    BY DEF Persist
  <2>8. lost' = {} /\ storage' = storage /\ storage # NoProfile => KeptBy(storage)'
    <3> SUFFICES ASSUME lost' = {}, storage' = storage, storage # NoProfile
                 PROVE  KeptBy(storage)'
      OBVIOUS
    <3>1. CASE reported' = reported
      BY <2>4, <3>1 DEF KeptBy, Inv, KeptInv
    <3>2. CASE Persist(current, q)
      BY <2>6, <2>7, <3>2 DEF KeptBy
    <3> QED BY <2>4, <3>1, <3>2
  <2>9. Persist(current, q) \/ PersistFails(current, q)
    BY <2>4
  <2> QED BY <1>1, <2>2, <2>3, <2>4, <2>5, <2>6, <2>8, <2>9, WriteStep
<1> QED BY <1>2, <1>3, <1>4

LEMMA AddPublicRoomStep ==
  ASSUME Inv, NEW c \in Call, AddPublicRoom(c)
  PROVE  Inv'
<1>1. calls[c] \in CallRecord /\ calls[c].room \in publicRooms /\ publicRooms \subseteq Public
  BY DEF Inv, Typed, CallsInv, AddPublicRoom
<1>2. PICK r : r = calls[c].room
  OBVIOUS
<1>3. /\ AddRoom(r) /\ UNCHANGED <<current, keyExchange, phase, publicRooms, derived>>
      /\ calls' = [calls EXCEPT ![c] = NoCall]
  BY <1>2 DEF AddPublicRoom, Returns
<1>4. /\ calls' \in [Call -> CallRecord] /\ CallsInv' /\ calls'[c] = NoCall
      /\ \A d \in Call \ {c} : calls'[d] = calls[d]
  BY <1>3, NoCallType, CallChanged
<1>5. \A d \in Call : calls'[d].pc = "add" => calls[d].pc = "add" /\ calls'[d] = calls[d]
  BY <1>4, NoCallType
<1>6. r \in Room /\ r \in publicRooms
  BY <1>1, <1>2 DEF Room
<1> QED BY <1>3, <1>4, <1>5, <1>6, AddRoomStep

LEMMA AddOtherRoomStep ==
  ASSUME Inv, NEW r \in Private \cup Direct, AddOtherRoom(r)
  PROVE  Inv'
<1>1. AddRoom(r) /\ UNCHANGED <<current, keyExchange, phase, publicRooms, calls, derived>>
  BY DEF AddOtherRoom
<1>2. calls' \in [Call -> CallRecord] /\ CallsInv'
  BY <1>1 DEF Inv, Typed, CallsInv
<1>3. r \in Room /\ r \notin Public
  BY RoomAssumption DEF Room
<1> QED BY <1>1, <1>2, <1>3, AddRoomStep

\* A derivation by the first manager once there is a second is recorded in lost.
LEMMA DeriveStep ==
  ASSUME Inv, NEW r \in Direct, DeriveRoomSecretKey(r)
  PROVE  Inv'
<1>1. PICK old : old = memory[keyExchange]
  OBVIOUS
<1>2. PICK q : q = [old EXCEPT !.keyed = @ \cup {r}]
  OBVIOUS
<1>3. /\ keyExchange # 0 /\ Has(old, r)
      /\ \/ Persist(keyExchange, q) /\ derived' = derived \cup {r}
         \/ PersistFails(keyExchange, q) /\ derived' = derived
      /\ lost' = IF keyExchange # current THEN lost \cup {"two managers"} ELSE lost
      /\ UNCHANGED <<current, keyExchange, phase, publicRooms, calls, reported>>
  BY <1>1, <1>2 DEF DeriveRoomSecretKey
<1>4. /\ publicRooms \subseteq Public /\ reported \subseteq Room /\ derived \subseteq Direct
      /\ keyExchange \in 0 .. MaxInits /\ phase \in {"idle", "load", "register"}
      /\ current \in 0 .. MaxInits /\ failures \in Nat
      /\ lost \subseteq {"no profile", "two managers"} /\ calls \in [Call -> CallRecord]
      /\ storage \in ProfileRecord \cup {NoProfile}
      /\ memory \in [Manager -> ProfileRecord \cup {NoProfile}]
  BY DEF Inv, Typed
<1>5. keyExchange \in Manager
  BY <1>3, <1>4, IsManager
<1>6. old # NoProfile /\ old \in ProfileRecord /\ Good(old)
  BY <1>1, <1>3, <1>4, <1>5 DEF Has, Inv, GoodInv
<1>7. /\ q \in ProfileRecord /\ Good(q) /\ q.rooms = old.rooms /\ q.keyed = old.keyed \cup {r}
  BY <1>2, <1>6, KeyAdded
<1>8. derived' \subseteq Direct /\ lost' \subseteq {"no profile", "two managers"}
  BY <1>3, <1>4
<1>9. CASE keyExchange = current
  <2>1. Here = old /\ lost' = lost /\ current # 0
    BY <1>1, <1>3, <1>9 DEF Here
  <2>2. \/ Persist(current, q) /\ derived' = derived \cup {r}
        \/ PersistFails(current, q) /\ derived' = derived
    BY <1>3, <1>9
  <2>3. lost' = {} => KeptBy(q)'
    <3> SUFFICES ASSUME lost' = {} PROVE KeptBy(q)'
      OBVIOUS
    <3>1. KeptBy(old)
      BY <1>6, <2>1 DEF Inv, KeptInv
    <3>2. \A t \in reported' : q.rooms[t] > 0
      BY <1>3, <1>7, <3>1 DEF KeptBy
    <3>3. derived' \subseteq q.keyed
      BY <1>7, <2>2, <3>1 DEF KeptBy
    <3> QED BY <3>2, <3>3 DEF KeptBy
  <2>4. lost' = {} /\ storage' = storage /\ storage # NoProfile => KeptBy(storage)'
    <3> SUFFICES ASSUME lost' = {}, storage' = storage, storage # NoProfile
                 PROVE  KeptBy(storage)'
      OBVIOUS
    <3>1. CASE derived' = derived
      BY <1>3, <2>1, <3>1 DEF KeptBy, Inv, KeptInv
    <3>2. CASE Persist(current, q)
      BY <2>3, <3>2 DEF KeptBy, Persist
    <3> QED BY <2>2, <3>1, <3>2
  <2>5. Persist(current, q) \/ PersistFails(current, q)
    BY <2>2
  <2> QED BY <1>3, <1>4, <1>7, <1>8, <2>1, <2>3, <2>4, <2>5, WriteStep
<1>10. CASE keyExchange # current
  <2>1. "two managers" \in lost' /\ lost' # {}
    BY <1>3, <1>10
  <2>2. memory' = [memory EXCEPT ![keyExchange] = q]
    BY <1>3 DEF Persist, PersistFails, Change
  <2>3. /\ memory' \in [Manager -> ProfileRecord \cup {NoProfile}] /\ memory'[keyExchange] = q
        /\ \A m \in Manager \ {keyExchange} : memory'[m] = memory[m]
    BY <1>4, <1>5, <1>7, <2>2
  <2>4. storage' = q \/ storage' = storage
    BY <1>3 DEF Persist, PersistFails
  <2>5. failures' = failures \/ failures' = failures + 1
    BY <1>3 DEF Persist, PersistFails
  <2>6. failures' \in Nat
    BY <1>4, <2>5, Counted
  <2>7. storage' \in ProfileRecord \cup {NoProfile}
    BY <1>4, <1>7, <2>4
  <2>8. Typed'
    BY <1>3, <1>4, <1>8, <2>3, <2>6, <2>7 DEF Typed
  <2>9. GoodInv'
    <3>1. storage' # NoProfile => Good(storage')
      BY <1>7, <2>4 DEF Inv, GoodInv
    <3>2. \A m \in Manager : memory'[m] # NoProfile => Good(memory'[m])
      BY <1>7, <2>3 DEF Inv, GoodInv
    <3> QED BY <1>3, <3>1, <3>2 DEF GoodInv, Good
  <2>10. CallsInv'
    BY <1>3 DEF Inv, CallsInv
  <2>11. KeptInv' /\ ContinuouslySynced'
    BY <2>1 DEF KeptInv, ContinuouslySynced
  <2>12. ManagerInv'
    <3>1. ~ (keyExchange > current)
      BY <1>1, <1>5, <1>6 DEF Inv, ManagerInv
    <3> QED BY <1>3, <2>3, <3>1 DEF Inv, ManagerInv
  <2> QED BY <2>8, <2>9, <2>10, <2>11, <2>12 DEF Inv
<1> QED BY <1>9, <1>10

------------------------------------------------------------------------------

LEMMA StepInv == ASSUME Inv, [Next]_vars PROVE Inv'
<1>1. CASE UNCHANGED vars
  BY <1>1 DEF vars, page, Inv, Typed, GoodInv, Good, CallsInv, KeptInv, KeptBy, Here,
     ContinuouslySynced, ManagerInv
<1>2. CASE \E how \in {"load", "register"} : StartInit(how)
  BY <1>2, StartInitStep
<1>3. CASE InitProfile \/ LoadProfile \/ NothingToLoad \/ Reload
  BY <1>3, InitProfileStep, LoadProfileStep, NothingToLoadStep, ReloadStep
<1>4. CASE \E c \in Call :
             \/ \E r \in Public : CreatePublicRoom(c, r) \/ JoinPublicRoom(c, r)
             \/ SaveRoom(c) \/ FindRoom(c) \/ CallFails(c) \/ AddPublicRoom(c)
  BY <1>4, CallStep, AddPublicRoomStep
<1>5. CASE \E r \in Private \cup Direct : AddOtherRoom(r)
  BY <1>5, AddOtherRoomStep
<1>6. CASE \E r \in Direct : DeriveRoomSecretKey(r)
  BY <1>6, DeriveStep
<1>7. CASE UpdateProfile
  BY <1>7, UpdateProfileStep
<1>8. CASE \E file \in Files : RecoverProfile(file)
  BY <1>8, RecoverProfileStep
<1>9. CASE \/ \E n \in Name : DeleteTrustedContact(n)
           \/ \E n \in Name, key \in Key : InsertTrustedContact(n, key)
           \/ \E n, m \in Name, key \in Key : UpdateTrustedContact(n, m, key)
  BY <1>9, DeleteStep, InsertStep, UpdateStep
<1> QED
  BY <1>1, <1>2, <1>3, <1>4, <1>5, <1>6, <1>7, <1>8, <1>9 DEF Next

LEMMA InvAlways == Spec => []Inv
BY InitInv, StepInv, PTL DEF Spec

\* The types of Profile.
THEOREM TypeCorrect == Spec => []TypeOK
<1>1. Inv => TypeOK
  BY DEF Inv, Typed, TypeOK, Profiles, CallRecord
<1> QED BY <1>1, InvAlways, PTL

\* addPublicRoom and the contact operations never make a room double or give one
\* key to two contacts, whatever runs at one time: in any number of calls.
THEOREM ProfilesAreConsistent == Spec => []ProfilesConsistent
<1>1. Inv => ProfilesConsistent
  BY DEF Inv, GoodInv, Good, ProfilesConsistent, Profiles
<1> QED BY <1>1, InvAlways, PTL

\* A public room in a profile is a room of the server.
THEOREM PublicRoomsAreThere == Spec => []PublicRoomsExist
<1>1. Inv => PublicRoomsExist
  BY DEF Inv, GoodInv, Good, PublicRoomsExist, Profiles
<1> QED BY <1>1, InvAlways, PTL

\* The two exceptions are the only ones: without them the stored profile has every
\* room and key that the user was told of, whatever writes fail.
THEOREM NothingEverLost == Spec => []NothingIsLost
<1>1. Inv => NothingIsLost
  BY DEF Inv, KeptInv, KeptBy, NothingIsLost
<1> QED BY <1>1, InvAlways, PTL

\* Without a failed write and a second manager the two profiles are the same.
THEOREM MemoryIsStored == Spec => []ContinuouslySynced
<1>1. Inv => ContinuouslySynced
  BY DEF Inv
<1> QED BY <1>1, InvAlways, PTL

==============================================================================
