------------------------------- MODULE RoomList -------------------------------
(***************************************************************************)
(* The application's copy of the profile: the room list, the active room   *)
(* and the trusted contacts in the store, the screens and dialogs that     *)
(* change them.                                                            *)
(*                                                                         *)
(* Every operation of the profile is followed by an action of the store:   *)
(* a new room is appended to the list when its promise is fulfilled, the   *)
(* contacts are read again.  The list is read from the profile when the    *)
(* dashboard is mounted and when init() is done.  Promises that only wait  *)
(* for the local storage are one step with what follows them; those that   *)
(* wait for a server, or for a proof, may end on another screen and under  *)
(* another profile.                                                        *)
(*                                                                         *)
(* A room is a model value, one per symmetric key or recipient.  Writes to *)
(* the local storage that throw are in the module Profile.                 *)
(***************************************************************************)
EXTENDS Naturals, FiniteSets

CONSTANTS
  Public, Private, Direct,  \* rooms of each kind
  defaultChatroom,          \* the public room "Lobby"
  Name, Key, NoContact,     \* trusted contacts
  None,                     \* no room, no contact
  NoProfile,
  MaxInits,                 \* bound: calls of init() per page
  MaxCopies                 \* bound: how often a direct room is listed

Room == Public \cup Private \cup Direct

ASSUME RoomAssumption ==
  /\ defaultChatroom \in Public /\ None \notin Room \cup Name
  /\ Public \cap Private = {} /\ (Public \cup Private) \cap Direct = {}
ASSUME BoundsAssumption ==
  MaxInits \in Nat /\ MaxCopies \in Nat \ {0, 1} /\ NoContact \notin Key

ProfileRecord == [rooms : SUBSET Room, contacts : [Name -> Key \cup {NoContact}]]
ASSUME ProfileAssumption == NoProfile \notin ProfileRecord

VARIABLES
  storage,    \* the profile in the local storage
  manager,    \* profile_manager: "none", "empty" or "loaded" with the profile
  init,       \* init(): what is under way, and how often it was called
  path,       \* the route
  syncing,    \* chatHistorySyncing: a spinner takes the place of the screen
  list,       \* [Room -> how often it is in the store's rooms]
  active,     \* currentActiveRoom
  contacts,   \* trustedContacts of the store
  dialog,     \* the trusted contacts dialog: "closed", "open" or "opened early"
  pending,    \* promises that wait for the server: [what, room]
  overtaken,  \* history: rooms that were pending when the list was read
  unlisted,   \* history: rooms stored since without being appended
  stray       \* history: rooms shown that the profile did not get, or lost

vars == <<storage, manager, init, path, syncing, list, active, contacts, dialog,
          pending, overtaken, unlisted, stray>>

Loaded    == manager = "loaded"
HasRoom(r) == Loaded /\ r \in storage.rooms
Mounted   == path = "dashboard" /\ ~ syncing
Pending(what) == {p.room : p \in {q \in pending : q.what = what}}

NewProfile == [rooms |-> {defaultChatroom}, contacts |-> [n \in Name |-> NoContact]]
NoRooms    == [r \in Room |-> 0]

Init ==
  /\ storage \in {NoProfile, NewProfile}
  /\ manager = "none" /\ init = [step |-> "load", calls |-> 1]
  /\ path \in {"dashboard", "public", "r-procedure"} /\ syncing = FALSE
  /\ list = NoRooms /\ active = None
  /\ contacts = [n \in Name |-> NoContact] /\ dialog = "closed"
  /\ pending = {} /\ overtaken = {} /\ unlisted = {} /\ stray = {}

page    == <<manager, init, path, syncing, dialog>>
history == <<overtaken, unlisted, stray>>

------------------------------------------------------------------------------
\* Reading the profile

\* getRooms, and getTrustedContacts, which throws if there is no profile, of a
\* manager in the state m.
RoomsOf(m, profile)    == IF m = "loaded" THEN profile.rooms ELSE {}
ContactsOf(m, profile) == IF m = "loaded" THEN profile.contacts ELSE contacts

\* GET_ROOMS of a manager in the state m; "init() not called" is thrown if there is
\* no manager, and nothing changes.
GetRooms(m, profile) ==
  IF m = "none" THEN UNCHANGED <<list, overtaken, unlisted>>
  ELSE /\ list' = [r \in Room |-> IF r \in RoomsOf(m, profile) THEN 1 ELSE 0]
       /\ overtaken' = Pending("post") /\ unlisted' = {}

\* The dashboard is on the screen, and was not before: ChatRooms and the dialogs
\* are mounted.
Mount(m) ==
  IF ~ Mounted /\ Mounted'
    THEN GetRooms(m, storage) /\ contacts' = ContactsOf(m, storage)
    ELSE UNCHANGED <<list, overtaken, unlisted, contacts>>

------------------------------------------------------------------------------
\* init(), routes

\* AppWrapper calls init() when the page is loaded, RegisterOrRecover with the
\* identity commitment of the passport.
Login ==
  /\ path = "r-procedure" /\ ~ syncing
  /\ init.step = "idle" /\ init.calls < MaxInits
  /\ init' = [step |-> "register", calls |-> init.calls + 1]
  /\ UNCHANGED <<storage, manager, path, syncing, list, active, contacts, dialog,
                 pending, history>>

\* A new manager, without a profile; the root and the leaves are fetched.
NewManager ==
  /\ init.step \in {"load", "register"}
  /\ manager' = "empty"
  /\ init' = [init EXCEPT !.step = IF @ = "load" THEN "loading" ELSE "registering"]
  /\ UNCHANGED <<storage, path, syncing, list, active, contacts, dialog, pending, history>>

InitProfile_readBefore ==   \* mutant
  /\ init.step = "registering"
  /\ storage' = NewProfile /\ manager' = "loaded"
  /\ init' = [init EXCEPT !.step = "idle"]
  /\ path' = "dashboard" /\ UNCHANGED syncing
  /\ GetRooms("loaded", IF storage = NoProfile THEN NewProfile ELSE storage)
  /\ contacts' = IF ~ Mounted /\ Mounted' THEN NewProfile.contacts ELSE contacts
  /\ stray' = stray \cup Pending("post") \cup ({active} \ {None})
  /\ UNCHANGED <<active, dialog, pending>>

\* The new profile takes the place of the stored one.
InitProfile ==
  /\ init.step = "registering"
  /\ storage' = NewProfile /\ manager' = "loaded"
  /\ init' = [init EXCEPT !.step = "idle"]
  /\ path' = "dashboard" /\ UNCHANGED syncing
  /\ GetRooms("loaded", NewProfile)
  /\ contacts' = IF ~ Mounted /\ Mounted' THEN NewProfile.contacts ELSE contacts
  /\ stray' = stray \cup Pending("post") \cup ({active} \ {None})
  /\ UNCHANGED <<active, dialog, pending>>

\* The dashboard is shown, unless the page was opened for an invitation, and the
\* messages are synchronised behind the spinner.
LoadProfile ==
  /\ init.step = "loading" /\ storage # NoProfile
  /\ manager' = "loaded" /\ init' = [init EXCEPT !.step = "idle"]
  /\ path' = IF path = "public" THEN path ELSE "dashboard"
  /\ syncing' = TRUE /\ dialog' = "closed"
  /\ GetRooms("loaded", storage)
  /\ UNCHANGED <<storage, active, contacts, pending, stray>>

\* init() rejects.
InitFails ==
  /\ init.step \in {"load", "register", "loading", "registering"}
  /\ init.step = "loading" => storage = NoProfile
  /\ init' = [init EXCEPT !.step = "idle"]
  /\ path' = "r-procedure" /\ dialog' = "closed"
  /\ UNCHANGED <<storage, manager, syncing, list, active, contacts, pending, history>>

HistorySynced ==
  /\ syncing /\ syncing' = FALSE
  /\ UNCHANGED path /\ Mount(manager)
  /\ UNCHANGED <<storage, manager, init, active, dialog, pending, stray>>

\* A link or the browser's history.
Navigate_unread(p) ==   \* mutant
  /\ p # path /\ path' = p /\ dialog' = "closed"
  /\ UNCHANGED <<storage, manager, init, syncing, list, contacts, active, pending, history>>

Navigate(p) ==
  /\ p # path /\ path' = p /\ dialog' = "closed"
  /\ UNCHANGED syncing /\ Mount(manager)
  /\ UNCHANGED <<storage, manager, init, active, pending, stray>>

------------------------------------------------------------------------------
\* Rooms

\* The reducer of CREATE_PUBLIC_ROOM, CREATE_PRIVATE_ROOM and CREATE_DIRECT_ROOM.
Append(r) ==
  /\ list' = [list EXCEPT ![r] = @ + 1]
  /\ active' = r
  /\ unlisted' = unlisted \ {r}

\* addPublicRoom, addPrivateRoom: without a profile nothing is stored, and nothing
\* is thrown.
Store(r) == storage' = IF Loaded THEN [storage EXCEPT !.rooms = @ \cup {r}] ELSE storage

StoreAndAppend(r) ==
  /\ Store(r) /\ Append(r)
  /\ stray' = IF Loaded THEN stray ELSE stray \cup {r}

\* A new room has a new identifier and a new key.
New(r) ==
  /\ Mounted /\ manager # "none" /\ r # defaultChatroom
  /\ storage # NoProfile => r \notin storage.rooms
  /\ list[r] = 0 /\ active # r /\ \A p \in pending : p.room # r

Waits(what, r) == pending' = pending \cup {[what |-> what, room |-> r]}
Ends(what, r) ==
  /\ [what |-> what, room |-> r] \in pending
  /\ pending' = pending \ {[what |-> what, room |-> r]}

CreatePublicRoom(r) ==
  /\ New(r) /\ Waits("create", r)
  /\ UNCHANGED <<storage, page, list, active, contacts, history>>

PublicRoomCreated(r) ==
  /\ Ends("create", r)
  /\ StoreAndAppend(r)
  /\ UNCHANGED <<page, contacts, overtaken>>

CreatePrivateRoom(r) ==
  /\ New(r)
  /\ StoreAndAppend(r)
  /\ UNCHANGED <<page, contacts, pending, overtaken>>

\* An invitation is decrypted with the key of the profile; "Room already exists" if
\* it was used before.
JoinPrivateRoom_again(r) ==   \* mutant
  /\ Mounted /\ Loaded
  /\ StoreAndAppend(r)
  /\ UNCHANGED <<page, contacts, pending, overtaken>>

JoinPrivateRoom(r) ==
  /\ Mounted /\ Loaded /\ r \notin storage.rooms
  /\ StoreAndAppend(r)
  /\ UNCHANGED <<page, contacts, pending, overtaken>>

\* addDirectRoom, then a proof is made and the bundle posted.
CreateDirectRoom(r) ==
  /\ Mounted /\ manager # "none" /\ ~ HasRoom(r) /\ r \notin Pending("post")
  /\ list[r] < MaxCopies
  /\ Store(r) /\ Waits("post", r)
  /\ stray' = IF Loaded THEN stray ELSE stray \cup {r}
  /\ UNCHANGED <<page, list, active, contacts, overtaken, unlisted>>

DirectRoomPosted(r) ==
  /\ Ends("post", r)
  /\ Append(r)
  /\ UNCHANGED <<storage, page, contacts, overtaken, stray>>

\* The public key is none, or no proof is made: the room is stored, the action
\* fails.
DirectRoomFails(r) ==
  /\ Ends("post", r)
  /\ unlisted' = IF HasRoom(r) THEN unlisted \cup {r} ELSE unlisted
  /\ UNCHANGED <<storage, page, list, active, contacts, overtaken, stray>>

\* An invitation to a public room; "Room already exists as part of your profile".
JoinPublicRoom(r) ==
  /\ path = "public" /\ ~ syncing /\ manager # "none" /\ ~ HasRoom(r)
  /\ \A p \in pending : p.room # r
  /\ Waits("join", r)
  /\ UNCHANGED <<storage, page, list, active, contacts, history>>

\* Nothing is dispatched: the list is read when the dashboard is mounted.
PublicRoomJoined(r) ==
  /\ Ends("join", r)
  /\ Store(r)
  /\ unlisted' = IF Mounted /\ Loaded /\ ~ HasRoom(r) THEN unlisted \cup {r} ELSE unlisted
  /\ UNCHANGED <<page, list, active, contacts, overtaken, stray>>

RequestFails(what, r) ==
  /\ what \in {"create", "join"} /\ Ends(what, r)
  /\ UNCHANGED <<storage, page, list, active, contacts, history>>

AddActiveChatRoom(r) ==
  /\ Mounted /\ active # r /\ (r # None => list[r] > 0)
  /\ active' = r
  /\ UNCHANGED <<storage, page, list, contacts, pending, history>>

------------------------------------------------------------------------------
\* Trusted contacts

\* The dialog reads the contacts whenever it is opened or closed.
ToggleTrustedContacts ==
  /\ Mounted
  /\ dialog' = IF dialog # "closed" THEN "closed" ELSE
               IF Loaded /\ init.step = "idle" THEN "open" ELSE "opened early"
  /\ contacts' = ContactsOf(manager, storage)
  /\ UNCHANGED <<storage, manager, init, path, syncing, list, active, pending, history>>

\* A contact is changed in the profile, and the contacts are read again.
SetContacts(new) ==
  /\ storage' = [storage EXCEPT !.contacts = new]
  /\ contacts' = new
  /\ UNCHANGED <<page, list, active, pending, history>>

NewKey(key, ignored) == \A n \in Name \ ignored : storage.contacts[n] # key

\* Saving a new contact (old is None) or one of those shown.  An update must give
\* the contact another name.
HandleContactSaving(old, new, key) ==
  /\ Mounted /\ dialog # "closed" /\ Loaded
  /\ old # None => contacts[old] # NoContact /\ storage.contacts[old] # NoContact
  /\ storage.contacts[new] = NoContact /\ NewKey(key, {old})
  /\ SetContacts([n \in Name |-> CASE n = new -> key
                                   [] n = old /\ old # new -> NoContact
                                   [] OTHER -> storage.contacts[n]])

HandleContactDeleting(n) ==
  /\ Mounted /\ dialog # "closed" /\ Loaded
  /\ contacts[n] # NoContact /\ storage.contacts[n] # NoContact
  /\ SetContacts([storage.contacts EXCEPT ![n] = NoContact])

------------------------------------------------------------------------------

\* The page is loaded again; requests that were sent are not waited for.
Reload(p) ==
  /\ manager' = "none" /\ init' = [step |-> "load", calls |-> 1]
  /\ path' = p /\ syncing' = FALSE
  /\ list' = NoRooms /\ active' = None
  /\ contacts' = [n \in Name |-> NoContact] /\ dialog' = "closed"
  /\ pending' = {} /\ overtaken' = {} /\ unlisted' = {} /\ stray' = {}
  /\ UNCHANGED storage

Next ==
  \/ Login \/ NewManager \/ InitProfile \/ LoadProfile \/ InitFails \/ HistorySynced
  \/ \E p \in {"dashboard", "public", "r-procedure"} : Navigate(p) \/ Reload(p)
  \/ \E r \in Public :
       \/ CreatePublicRoom(r) \/ PublicRoomCreated(r)
       \/ JoinPublicRoom(r) \/ PublicRoomJoined(r)
       \/ \E what \in {"create", "join"} : RequestFails(what, r)
  \/ \E r \in Private : CreatePrivateRoom(r) \/ JoinPrivateRoom(r)
  \/ \E r \in Direct : CreateDirectRoom(r) \/ DirectRoomPosted(r) \/ DirectRoomFails(r)
  \/ \E r \in Room \cup {None} : AddActiveChatRoom(r)
  \/ ToggleTrustedContacts
  \/ \E n \in Name : HandleContactDeleting(n)
  \/ \E old \in Name \cup {None}, new \in Name, key \in Key :
       HandleContactSaving(old, new, key)

Spec == Init /\ [][Next]_vars

------------------------------------------------------------------------------
\* Properties

\* Types.
TypeOK ==
  /\ storage \in ProfileRecord \cup {NoProfile}
  /\ manager \in {"none", "empty", "loaded"} /\ (Loaded => storage # NoProfile)
  /\ init \in [step : {"idle", "load", "register", "loading", "registering"}, calls : Nat]
  /\ path \in {"dashboard", "public", "r-procedure"} /\ syncing \in BOOLEAN
  /\ list \in [Room -> 0 .. MaxCopies] /\ active \in Room \cup {None}
  /\ contacts \in [Name -> Key \cup {NoContact}]
  /\ dialog \in {"closed", "open", "opened early"}
  /\ pending \subseteq [what : {"create", "join", "post"}, room : Room]
  /\ overtaken \subseteq Direct /\ unlisted \subseteq Room /\ stray \subseteq Room

\* No room is listed twice, whatever promises end between the readings of the
\* list.  The exceptions are a direct room whose bundle was being posted when the
\* list was read (it is in the profile by then, and is appended again), and one
\* that the profile did not get, which can be created again.
ListedOnce == \A r \in Room : list[r] <= 1 \/ r \in overtaken \cup stray

\* The dashboard lists every room of the profile.  The exceptions are a direct room
\* whose creation failed after it was stored, or is not through yet, and a public
\* room that was joined after the dashboard was mounted.
OwnedIsListed ==
  (Mounted /\ Loaded) =>
    \A r \in storage.rooms : list[r] > 0 \/ r \in unlisted \cup Pending("post")

\* The rooms listed, and the one that is open, are rooms of the profile.  The
\* exceptions are rooms created before init() had the profile, and what was open,
\* or being posted, when a new profile took the place of the old one.
ShownIsOwned ==
  (Mounted /\ Loaded) =>
    \A r \in Room : (list[r] > 0 \/ active = r) => r \in storage.rooms \cup stray

\* The contacts in the dialog are those of the profile, unless it was opened before
\* init() was done.
ContactsShown == dialog = "open" => contacts = storage.contacts

==============================================================================
