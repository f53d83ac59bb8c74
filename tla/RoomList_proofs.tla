--------------------------- MODULE RoomList_proofs ---------------------------
(***************************************************************************)
(* ListedOnce, OwnedIsListed, ShownIsOwned and ContactsShown of RoomList,  *)
(* for any rooms and contacts and any number of calls of init(), by one    *)
(* inductive invariant: what a promise that is pending may still append,   *)
(* and what a page that has no profile yet may show.                       *)
(***************************************************************************)
EXTENDS RoomList, TLAPS

Steps  == {"idle", "load", "register", "loading", "registering"}
Places == {"dashboard", "public", "r-procedure"}
PendingRecord == [what : {"create", "join", "post"}, room : Room]

Waiting(what, r) == [what |-> what, room |-> r] \in pending
Posted == {r \in Room : Waiting("post", r)}

\* What a promise that is pending may still do.
PendingInv ==
  /\ \A r \in Room : Waiting("create", r) =>
       /\ r \in Public \ {defaultChatroom} /\ list[r] = 0 /\ ~ Waiting("join", r)
       /\ storage # NoProfile => r \notin storage.rooms
  /\ \A r \in Room : Waiting("join", r) => r \in Public
  /\ \A r \in Room : Waiting("post", r) =>
       /\ r \in Direct /\ list[r] < MaxCopies
       /\ list[r] = 0 \/ r \in overtaken \cup stray

OnceInv == ListedOnce /\ \A r \in Public \cup Private : list[r] <= 1

Shown(r) == list[r] > 0 \/ active = r \/ Waiting("post", r)

\* What the page shows, or is going to, under its profile, and before it has one.
ShownInv ==
  Loaded => /\ \A r \in Room : Shown(r) => r \in storage.rooms \cup stray
            /\ \A r \in Private : list[r] > 0 => r \in storage.rooms

EarlyInv ==
  init.step \in {"load", "loading"} =>
    ~ Loaded /\ \A r \in Room : Shown(r) => r \in stray

\* OwnedIsListed, by the promises.
OwnedInv ==
  (Mounted /\ Loaded) =>
    \A r \in storage.rooms : list[r] > 0 \/ r \in unlisted \cup Posted

DialogInv ==
  /\ dialog # "closed" => path = "dashboard"
  /\ dialog = "open" => Loaded /\ init.step = "idle" /\ contacts = storage.contacts

Inv == TypeOK /\ PendingInv /\ OnceInv /\ ShownInv /\ EarlyInv /\ OwnedInv /\ DialogInv

------------------------------------------------------------------------------

LEMMA PendingRooms ==
  ASSUME TypeOK
  PROVE  Pending("post") = Posted
<1>1. pending \subseteq PendingRecord
  BY DEF TypeOK, PendingRecord
<1>2. ASSUME NEW p \in pending, p.what = "post" PROVE p.room \in Posted
  <2>1. p = [what |-> "post", room |-> p.room] /\ p.room \in Room
    BY <1>1, <1>2 DEF PendingRecord
  <2> QED BY <2>1 DEF Posted, Waiting
<1>3. ASSUME NEW r \in Posted PROVE r \in Pending("post")
  <2>1. /\ [what |-> "post", room |-> r] \in pending
        /\ [what |-> "post", room |-> r].what = "post" /\ [what |-> "post", room |-> r].room = r
    BY DEF Posted, Waiting
  <2> QED BY <2>1 DEF Pending
<1> QED BY <1>2, <1>3 DEF Pending

LEMMA NewProfileType ==
  NewProfile \in ProfileRecord /\ NewProfile # NoProfile /\ NewProfile.rooms = {defaultChatroom}
BY RoomAssumption, ProfileAssumption DEF NewProfile, ProfileRecord, Room

LEMMA InitInv == ASSUME Init PROVE Inv
<1>1. TypeOK
  <2>1. list \in [Room -> 0 .. MaxCopies]
    BY BoundsAssumption DEF Init, NoRooms
  <2>2. init \in [step : Steps, calls : Nat]
    BY DEF Init, Steps
  <2> QED BY <2>1, <2>2, NewProfileType DEF Init, TypeOK, Loaded, Steps
<1>2. PendingInv /\ DialogInv
  BY DEF Init, PendingInv, DialogInv, Waiting
<1>3. \A r \in Room : list[r] = 0
  BY DEF Init, NoRooms
<1>4. OnceInv
  BY <1>3 DEF OnceInv, ListedOnce, Room
<1>5. \A r \in Room : ~ Shown(r)
  BY <1>3, RoomAssumption DEF Init, Shown, Waiting
<1>6. ShownInv /\ EarlyInv /\ OwnedInv
  BY <1>5 DEF Init, ShownInv, EarlyInv, OwnedInv, Loaded
<1> QED BY <1>1, <1>2, <1>4, <1>6 DEF Inv

LEMMA ReloadStep ==
  ASSUME Inv, NEW p \in Places, Reload(p)
  PROVE  Inv'
<1>1. list' \in [Room -> 0 .. MaxCopies] /\ contacts' \in [Name -> Key \cup {NoContact}]
  BY BoundsAssumption DEF Reload, NoRooms
<1>2. init' \in [step : Steps, calls : Nat]
  BY DEF Reload, Steps
<1>3. \A r \in Room : ~ Shown(r)'
  BY RoomAssumption DEF Reload, NoRooms, Shown, Waiting
<1>4. TypeOK'
  BY <1>1, <1>2 DEF Inv, TypeOK, Loaded, Reload, Places, Steps
<1>5. PendingInv'
  BY DEF Inv, PendingInv, Waiting, Reload, NoRooms, Places
<1>6. OnceInv'
  BY DEF Inv, OnceInv, ListedOnce, Room, Reload, NoRooms, Places
<1>7. ShownInv'
  BY <1>3 DEF ShownInv, Loaded, Reload
<1>8. EarlyInv'
  BY <1>3 DEF EarlyInv, Loaded, Reload
<1>9. OwnedInv'
  BY DEF Inv, OwnedInv, Posted, Waiting, Mounted, Loaded, Reload, NoRooms, Places
<1>10. DialogInv'
  BY DEF Inv, DialogInv, Loaded, Reload, NoRooms, Places
<1> QED BY <1>4, <1>5, <1>6, <1>7, <1>8, <1>9, <1>10 DEF Inv

LEMMA LoginStep ==
  ASSUME Inv, Login
  PROVE  Inv'
<1>1. init' \in [step : Steps, calls : Nat]
  <2>1. init.calls \in Nat
    BY DEF Inv, TypeOK
  <2>2. init.calls + 1 \in Nat
    BY <2>1
  <2> QED BY <2>2 DEF Login, Steps
<1>2. TypeOK'
  BY <1>1 DEF Inv, TypeOK, Loaded, Login, Steps, page, history
<1>3. PendingInv'
  BY DEF Inv, PendingInv, Waiting, Login, page, history
<1>4. OnceInv'
  BY DEF Inv, OnceInv, ListedOnce, Room, Login, page, history
<1>5. ShownInv'
  BY DEF Inv, ShownInv, Shown, Waiting, Loaded, Login, page, history
<1>6. EarlyInv'
  BY DEF Inv, EarlyInv, Shown, Waiting, Loaded, Login, page, history
<1>7. OwnedInv'
  BY DEF Inv, OwnedInv, Posted, Waiting, Mounted, Loaded, Login, page, history
<1>8. DialogInv'
  BY DEF Inv, DialogInv, Loaded, Login, page, history
<1> QED BY <1>2, <1>3, <1>4, <1>5, <1>6, <1>7, <1>8 DEF Inv

LEMMA NewManagerStep ==
  ASSUME Inv, NewManager
  PROVE  Inv'
<1>1. init' \in [step : Steps, calls : Nat] /\ (init'.step = "loading" => init.step = "load")
      /\ init'.step \in {"loading", "registering"}
  <2>1. PICK step : step = IF init.step = "load" THEN "loading" ELSE "registering"
    OBVIOUS
  <2>2. init' = [init EXCEPT !.step = step]
    BY <2>1 DEF NewManager
  <2>3. init \in [step : Steps, calls : Nat] /\ step \in Steps
    BY <2>1 DEF Inv, TypeOK, Steps
  <2>4. init' \in [step : Steps, calls : Nat] /\ init'.step = step
    BY <2>2, <2>3
  <2> QED BY <2>1, <2>4 DEF NewManager
<1>2. TypeOK'
  BY <1>1 DEF Inv, TypeOK, Loaded, NewManager, Steps, page, history
<1>3. PendingInv'
  BY DEF Inv, PendingInv, Waiting, NewManager, page, history
<1>4. OnceInv'
  BY DEF Inv, OnceInv, ListedOnce, Room, NewManager, page, history
<1>5. ShownInv'
  BY DEF Inv, ShownInv, Shown, Waiting, Loaded, NewManager, page, history
<1>6. EarlyInv'
  BY <1>1 DEF Inv, EarlyInv, Shown, Waiting, Loaded, NewManager, history
<1>7. OwnedInv'
  BY DEF Inv, OwnedInv, Posted, Waiting, Mounted, Loaded, NewManager, page, history
<1>8. DialogInv'
  BY DEF Inv, DialogInv, Loaded, NewManager, page, history
<1> QED BY <1>2, <1>3, <1>4, <1>5, <1>6, <1>7, <1>8 DEF Inv

LEMMA InitFailsStep ==
  ASSUME Inv, InitFails
  PROVE  Inv'
<1>1. TypeOK'
  BY DEF Inv, TypeOK, Loaded, InitFails, page, history
<1>2. PendingInv'
  BY DEF Inv, PendingInv, Waiting, InitFails, page, history
<1>3. OnceInv'
  BY DEF Inv, OnceInv, ListedOnce, Room, InitFails, page, history
<1>4. ShownInv'
  BY DEF Inv, ShownInv, Shown, Waiting, Loaded, InitFails, page, history
<1>5. EarlyInv'
  BY DEF Inv, EarlyInv, Shown, Waiting, Loaded, InitFails, page, history
<1>6. OwnedInv'
  BY DEF Inv, OwnedInv, Posted, Waiting, Mounted, Loaded, InitFails, page, history
<1>7. DialogInv'
  BY DEF Inv, DialogInv, Loaded, InitFails, page, history
<1> QED BY <1>1, <1>2, <1>3, <1>4, <1>5, <1>6, <1>7 DEF Inv

LEMMA CreatePublicRoomStep ==
  ASSUME Inv, NEW r \in Public, CreatePublicRoom(r)
  PROVE  Inv'
<1>1. pending' \subseteq PendingRecord
  <2>1. [what |-> "create", room |-> r] \in PendingRecord
    BY DEF PendingRecord, Room
  <2>2. pending \subseteq PendingRecord
    BY DEF Inv, TypeOK, PendingRecord
  <2> QED BY <2>1, <2>2 DEF CreatePublicRoom, Waits
<1>2. TypeOK'
  BY <1>1 DEF Inv, TypeOK, Loaded, CreatePublicRoom, PendingRecord, page, history
<1>3. PendingInv'
  BY DEF Inv, PendingInv, Waiting, CreatePublicRoom, New, Waits, page, history
<1>4. OnceInv'
  BY DEF Inv, OnceInv, ListedOnce, Room, CreatePublicRoom, New, Waits, page, history
<1>5. ShownInv'
  BY DEF Inv, ShownInv, Shown, Waiting, Loaded, CreatePublicRoom, New, Waits, page, history
<1>6. EarlyInv'
  BY DEF Inv, EarlyInv, Shown, Waiting, Loaded, CreatePublicRoom, New, Waits, page, history
<1>7. OwnedInv'
  BY DEF Inv, OwnedInv, Posted, Waiting, Mounted, Loaded, CreatePublicRoom, New, Waits, page, history
<1>8. DialogInv'
  BY DEF Inv, DialogInv, Loaded, CreatePublicRoom, New, Waits, page, history
<1> QED BY <1>2, <1>3, <1>4, <1>5, <1>6, <1>7, <1>8 DEF Inv

LEMMA JoinPublicRoomStep ==
  ASSUME Inv, NEW r \in Public, JoinPublicRoom(r)
  PROVE  Inv'
<1>1. pending' \subseteq PendingRecord
  <2>1. [what |-> "join", room |-> r] \in PendingRecord
    BY DEF PendingRecord, Room
  <2>2. pending \subseteq PendingRecord
    BY DEF Inv, TypeOK, PendingRecord
  <2> QED BY <2>1, <2>2 DEF JoinPublicRoom, Waits
<1>2. TypeOK'
  BY <1>1 DEF Inv, TypeOK, Loaded, JoinPublicRoom, PendingRecord, page, history
<1>3. PendingInv'
  BY DEF Inv, PendingInv, Waiting, JoinPublicRoom, HasRoom, Waits, page, history
<1>4. OnceInv'
  BY DEF Inv, OnceInv, ListedOnce, Room, JoinPublicRoom, HasRoom, Waits, page, history
<1>5. ShownInv'
  BY DEF Inv, ShownInv, Shown, Waiting, Loaded, JoinPublicRoom, HasRoom, Waits, page, history
<1>6. EarlyInv'
  BY DEF Inv, EarlyInv, Shown, Waiting, Loaded, JoinPublicRoom, HasRoom, Waits, page, history
<1>7. OwnedInv'
  BY DEF Inv, OwnedInv, Posted, Waiting, Mounted, Loaded, JoinPublicRoom, HasRoom, Waits, page, history
<1>8. DialogInv'
  BY DEF Inv, DialogInv, Loaded, JoinPublicRoom, HasRoom, Waits, page, history
<1> QED BY <1>2, <1>3, <1>4, <1>5, <1>6, <1>7, <1>8 DEF Inv

LEMMA RequestFailsStep ==
  ASSUME Inv, NEW r \in Public, NEW what, RequestFails(what, r)
  PROVE  Inv'
<1>1. TypeOK'
  BY DEF Inv, TypeOK, Loaded, RequestFails, Ends, page, history
<1>2. PendingInv'
  BY DEF Inv, PendingInv, Waiting, RequestFails, Ends, page, history
<1>3. OnceInv'
  BY DEF Inv, OnceInv, ListedOnce, Room, RequestFails, Ends, page, history
<1>4. ShownInv'
  BY DEF Inv, ShownInv, Shown, Waiting, Loaded, RequestFails, Ends, page, history
<1>5. EarlyInv'
  BY DEF Inv, EarlyInv, Shown, Waiting, Loaded, RequestFails, Ends, page, history
<1>6. OwnedInv'
  BY DEF Inv, OwnedInv, Posted, Waiting, Mounted, Loaded, RequestFails, Ends, page, history
<1>7. DialogInv'
  BY DEF Inv, DialogInv, Loaded, RequestFails, Ends, page, history
<1> QED BY <1>1, <1>2, <1>3, <1>4, <1>5, <1>6, <1>7 DEF Inv

LEMMA AddActiveStep ==
  ASSUME Inv, NEW r \in Room \cup {None}, AddActiveChatRoom(r)
  PROVE  Inv'
<1>1. \A t \in Room : Shown(t)' => Shown(t)
  BY RoomAssumption DEF AddActiveChatRoom, Shown, Waiting
<1>2. TypeOK'
  BY DEF Inv, TypeOK, Loaded, AddActiveChatRoom, page, history
<1>3. PendingInv'
  BY DEF Inv, PendingInv, Waiting, AddActiveChatRoom, page, history
<1>4. OnceInv'
  BY DEF Inv, OnceInv, ListedOnce, Room, AddActiveChatRoom, page, history
<1>5. ShownInv'
  BY <1>1 DEF Inv, ShownInv, Loaded, AddActiveChatRoom, page, history
<1>6. EarlyInv'
  BY <1>1 DEF Inv, EarlyInv, Loaded, AddActiveChatRoom, page, history
<1>7. OwnedInv'
  BY DEF Inv, OwnedInv, Posted, Waiting, Mounted, Loaded, AddActiveChatRoom, page, history
<1>8. DialogInv'
  BY DEF Inv, DialogInv, Loaded, AddActiveChatRoom, page, history
<1> QED BY <1>2, <1>3, <1>4, <1>5, <1>6, <1>7, <1>8 DEF Inv

LEMMA ToggleStep ==
  ASSUME Inv, ToggleTrustedContacts
  PROVE  Inv'
<1>1. /\ dialog' \in {"closed", "open", "opened early"}
      /\ dialog' = "open" => Loaded /\ init.step = "idle"
  BY DEF ToggleTrustedContacts
<1>2. contacts' = IF Loaded THEN storage.contacts ELSE contacts
  BY DEF ToggleTrustedContacts, ContactsOf, Loaded
<1>3. /\ UNCHANGED <<storage, manager, init, path, syncing, list, active, pending, history>>
      /\ path = "dashboard"
  BY DEF ToggleTrustedContacts, Mounted
<1>4. contacts' \in [Name -> Key \cup {NoContact}]
  BY <1>2 DEF Inv, TypeOK, ProfileRecord
<1>5. TypeOK'
  BY <1>1, <1>3, <1>4 DEF Inv, TypeOK, Loaded, history
<1>6. PendingInv'
  BY DEF Inv, PendingInv, Waiting, ToggleTrustedContacts, ContactsOf, page, history
<1>7. OnceInv'
  BY DEF Inv, OnceInv, ListedOnce, Room, ToggleTrustedContacts, ContactsOf, page, history
<1>8. ShownInv'
  BY DEF Inv, ShownInv, Shown, Waiting, Loaded, ToggleTrustedContacts, ContactsOf, page, history
<1>9. EarlyInv'
  BY DEF Inv, EarlyInv, Shown, Waiting, Loaded, ToggleTrustedContacts, ContactsOf, page, history
<1>10. OwnedInv'
  BY DEF Inv, OwnedInv, Posted, Waiting, Mounted, Loaded, ToggleTrustedContacts, ContactsOf, page, history
<1>11. DialogInv'
  BY <1>1, <1>2, <1>3 DEF Inv, DialogInv, Loaded
<1> QED BY <1>5, <1>6, <1>7, <1>8, <1>9, <1>10, <1>11 DEF Inv

\* The contacts are changed: nothing else is.
LEMMA ContactsStep ==
  ASSUME Inv, NEW new \in [Name -> Key \cup {NoContact}], Loaded, SetContacts(new)
  PROVE  Inv'
<1>1. /\ storage # NoProfile /\ storage \in ProfileRecord
      /\ storage' = [storage EXCEPT !.contacts = new] /\ contacts' = new
      /\ UNCHANGED <<page, list, active, pending, history>>
  BY DEF Inv, TypeOK, SetContacts
<1>2. storage' \in ProfileRecord /\ storage'.rooms = storage.rooms /\ storage'.contacts = new
  BY <1>1 DEF ProfileRecord
<1>3. storage' # NoProfile
  BY <1>2, ProfileAssumption
<1>4. TypeOK'
  BY <1>1, <1>2, <1>3 DEF Inv, TypeOK, Loaded, page, history
<1>5. PendingInv'
  BY <1>1, <1>2 DEF Inv, PendingInv, Waiting, history
<1>6. OnceInv'
  BY <1>1 DEF Inv, OnceInv, ListedOnce, history
<1>7. ShownInv' /\ EarlyInv'
  BY <1>1, <1>2 DEF Inv, ShownInv, EarlyInv, Shown, Waiting, Loaded, page, history
<1>8. OwnedInv'
  BY <1>1, <1>2 DEF Inv, OwnedInv, Posted, Waiting, Mounted, Loaded, page, history
<1>9. DialogInv'
  BY <1>1, <1>2 DEF Inv, DialogInv, Loaded, page
<1> QED BY <1>4, <1>5, <1>6, <1>7, <1>8, <1>9 DEF Inv

LEMMA DeletingStep ==
  ASSUME Inv, NEW n \in Name, HandleContactDeleting(n)
  PROVE  Inv'
<1>1. PICK new : new = [storage.contacts EXCEPT ![n] = NoContact]
  OBVIOUS
<1>2. Loaded /\ SetContacts(new) /\ storage \in ProfileRecord
  BY <1>1 DEF HandleContactDeleting, Inv, TypeOK
<1>3. new \in [Name -> Key \cup {NoContact}]
  BY <1>1, <1>2 DEF ProfileRecord
<1> QED BY <1>2, <1>3, ContactsStep

LEMMA SavingStep ==
  ASSUME Inv, NEW old \in Name \cup {None}, NEW n \in Name, NEW key \in Key,
         HandleContactSaving(old, n, key)
  PROVE  Inv'
<1>1. PICK new : new = [m \in Name |-> CASE m = n -> key
                                     [] m = old /\ old # n -> NoContact
                                     [] OTHER -> storage.contacts[m]]
  OBVIOUS
<1>2. Loaded /\ SetContacts(new) /\ storage \in ProfileRecord
  BY <1>1 DEF HandleContactSaving, Inv, TypeOK
<1>3. \A m \in Name : new[m] \in Key \cup {NoContact}
  BY <1>1, <1>2 DEF ProfileRecord
<1>4. new \in [Name -> Key \cup {NoContact}]
  BY <1>1, <1>3
<1> QED BY <1>2, <1>4, ContactsStep

------------------------------------------------------------------------------
\* Reading the list

\* What GET_ROOMS does to the list if it reads the rooms that the manager has.
LEMMA ReadList ==
  ASSUME NEW rooms \in SUBSET Room,
         list' = [r \in Room |-> IF r \in rooms THEN 1 ELSE 0]
  PROVE  /\ list' \in [Room -> 0 .. MaxCopies]
         /\ \A r \in Room : list'[r] \in {0, 1} /\ list'[r] <= 1 /\ list'[r] < MaxCopies
         /\ \A r \in Room : (list'[r] > 0 <=> r \in rooms) /\ (list'[r] = 0 <=> r \notin rooms)
<1>1. 0 \in 0 .. MaxCopies /\ 1 \in 0 .. MaxCopies /\ 0 < MaxCopies /\ 1 < MaxCopies
  BY BoundsAssumption
<1>2. \A r \in Room : list'[r] = IF r \in rooms THEN 1 ELSE 0
  OBVIOUS
<1> QED BY <1>1, <1>2

\* The list is read from the profile there is then.
LEMMA ReadStep ==
  ASSUME Inv, TypeOK',
         NEW rooms \in SUBSET Room, list' = [r \in Room |-> IF r \in rooms THEN 1 ELSE 0],
         \A r \in rooms : storage' # NoProfile /\ r \in storage'.rooms,
         Loaded' => rooms = storage'.rooms,
         overtaken' = Posted, unlisted' = {}, stray \subseteq stray',
         UNCHANGED <<active, pending>>,
         storage' = storage \/ (storage' # NoProfile /\ storage'.rooms = {defaultChatroom}),
         Loaded' => \A r \in Room : active = r \/ Waiting("post", r) => r \in storage'.rooms \cup stray',
         init'.step \in {"load", "loading"} => EarlyInv' ,
         DialogInv'
  PROVE  Inv'
<1>1. /\ \A r \in Room : list'[r] <= 1 /\ list'[r] < MaxCopies
      /\ \A r \in Room : (list'[r] > 0 <=> r \in rooms) /\ (list'[r] = 0 <=> r \notin rooms)
  BY ReadList
<1>2. PendingInv'
  BY <1>1 DEF Inv, PendingInv, Waiting, Posted
<1>3. OnceInv'
  BY <1>1 DEF OnceInv, ListedOnce, Room
<1>4. ShownInv'
  BY <1>1 DEF ShownInv, Shown, Waiting, Room
<1>5. EarlyInv'
  BY DEF EarlyInv
<1>6. OwnedInv'
  BY <1>1 DEF OwnedInv, TypeOK
<1> QED BY <1>2, <1>3, <1>4, <1>5, <1>6 DEF Inv

\* The dashboard is mounted: if there is a manager, the list is read.
LEMMA MountStep ==
  ASSUME Inv, Mount(manager),
         UNCHANGED <<storage, manager, init, active, pending, stray>>,
         path' \in Places, syncing' \in BOOLEAN,
         dialog' \in {"closed", dialog}, dialog' = "closed" \/ path' = path
  PROVE  Inv'
<1> DEFINE reads == ~ Mounted /\ Mounted'
<1>1. IF reads THEN GetRooms(manager, storage) /\ contacts' = ContactsOf(manager, storage)
      ELSE UNCHANGED <<list, overtaken, unlisted, contacts>>
  BY DEF Mount
<1> HIDE DEF reads
<1>2. contacts' \in [Name -> Key \cup {NoContact}] /\ (Loaded => contacts' = contacts \/ contacts' = storage.contacts)
  BY <1>1 DEF Inv, TypeOK, ContactsOf, Loaded, ProfileRecord
<1>3. DialogInv'
  <2>1. CASE dialog' = "closed"
    BY <2>1 DEF DialogInv
  <2>2. CASE dialog' = dialog /\ path' = path
    BY <1>2, <2>2 DEF Inv, DialogInv, Loaded
  <2> QED BY <2>1, <2>2
<1>4. CASE ~ reads \/ manager = "none"
  <2>1. UNCHANGED <<list, overtaken, unlisted>>
    BY <1>1, <1>4 DEF GetRooms
  <2>2. TypeOK'
    BY <1>2, <2>1 DEF Inv, TypeOK, Loaded, Places
  <2>3. PendingInv' /\ OnceInv'
    BY <2>1 DEF Inv, PendingInv, OnceInv, ListedOnce, Waiting
  <2>4. ShownInv' /\ EarlyInv'
    BY <2>1 DEF Inv, ShownInv, EarlyInv, Shown, Waiting, Loaded
  <2>5. OwnedInv'
    BY <1>4, <2>1 DEF Inv, OwnedInv, Posted, Waiting, Loaded, reads
  <2> QED BY <1>3, <2>2, <2>3, <2>4, <2>5 DEF Inv
<1>5. CASE reads /\ manager # "none"
  <2>1. PICK rooms : rooms = RoomsOf(manager, storage)
    OBVIOUS
  <2>2. /\ list' = [r \in Room |-> IF r \in rooms THEN 1 ELSE 0]
        /\ overtaken' = Posted /\ unlisted' = {}
    BY <1>1, <1>5, <2>1, PendingRooms DEF GetRooms, Inv
  <2>3. rooms \in SUBSET Room /\ (rooms # {} => Loaded) /\ (Loaded => rooms = storage.rooms /\ storage # NoProfile)
    BY <2>1 DEF RoomsOf, Inv, TypeOK, Loaded, ProfileRecord
  <2>4. list' \in [Room -> 0 .. MaxCopies] /\ \A r \in Room : list'[r] > 0 <=> r \in rooms
    BY <2>2, <2>3, ReadList
  <2>5. Posted \subseteq Direct
    BY DEF Inv, PendingInv, Posted
  <2>6. TypeOK'
    BY <1>2, <2>2, <2>4, <2>5 DEF Inv, TypeOK, Loaded, Places
  <2>7. \A r \in rooms : storage' # NoProfile /\ r \in storage'.rooms
    BY <2>3
  <2>8. Loaded' = Loaded /\ (Loaded' => rooms = storage'.rooms)
    BY <2>3 DEF Loaded
  <2>9. Loaded' => \A r \in Room : active = r \/ Waiting("post", r) => r \in storage'.rooms \cup stray'
    BY <2>8 DEF Inv, ShownInv, Shown
  <2>10. ASSUME init'.step \in {"load", "loading"} PROVE EarlyInv'
    <3>1. ~ Loaded /\ \A r \in Room : Shown(r) => r \in stray
      BY <2>10 DEF Inv, EarlyInv
    <3>2. \A r \in Room : Shown(r)' => Shown(r)
      BY <2>3, <2>4, <3>1 DEF Shown, Waiting
    <3> QED BY <2>8, <3>1, <3>2 DEF EarlyInv
  <2> QED BY <1>3, <2>2, <2>3, <2>6, <2>7, <2>8, <2>9, <2>10, ReadStep
<1> QED BY <1>4, <1>5

LEMMA NavigateStep ==
  ASSUME Inv, \/ HistorySynced
              \/ \E p \in Places : Navigate(p)
  PROVE  Inv'
<1>1. CASE HistorySynced
  <2>1. path' \in Places /\ syncing' \in BOOLEAN /\ dialog' = dialog /\ path' = path
    BY <1>1 DEF HistorySynced, Inv, TypeOK, Places
  <2>2. Mount(manager) /\ UNCHANGED <<storage, manager, init, active, pending, stray>>
    BY <1>1 DEF HistorySynced
  <2> QED BY <2>1, <2>2, MountStep
<1>2. CASE \E p \in Places : Navigate(p)
  <2>1. path' \in Places /\ syncing' \in BOOLEAN /\ dialog' = "closed"
    BY <1>2 DEF Navigate, Inv, TypeOK
  <2>2. Mount(manager) /\ UNCHANGED <<storage, manager, init, active, pending, stray>>
    BY <1>2 DEF Navigate
  <2> QED BY <2>1, <2>2, MountStep
<1> QED BY <1>1, <1>2

LEMMA InitProfileStep == ASSUME Inv, InitProfile PROVE Inv'
<1>1. /\ storage' = NewProfile /\ manager' = "loaded" /\ path' = "dashboard"
      /\ init.step = "registering"
      /\ stray' = stray \cup Posted \cup ({active} \ {None})
      /\ UNCHANGED <<active, dialog, pending, syncing>>
  BY PendingRooms DEF InitProfile, Inv
<1>2. PICK rooms : rooms = {defaultChatroom}
  OBVIOUS
<1>3. rooms \in SUBSET Room /\ rooms = NewProfile.rooms
  BY <1>2, NewProfileType, RoomAssumption DEF Room
<1>4. /\ list' = [r \in Room |-> IF r \in rooms THEN 1 ELSE 0]
      /\ overtaken' = Posted /\ unlisted' = {}
  BY <1>3, PendingRooms DEF InitProfile, GetRooms, RoomsOf, Inv
<1>5. init' \in [step : Steps, calls : Nat] /\ init'.step = "idle"
  BY DEF InitProfile, Inv, TypeOK, Steps
<1>6. contacts' \in [Name -> Key \cup {NoContact}]
  BY NewProfileType DEF InitProfile, Inv, TypeOK, ProfileRecord
<1>7. list' \in [Room -> 0 .. MaxCopies]
  BY <1>3, <1>4, ReadList
<1>8. Posted \subseteq Direct /\ Posted \subseteq Room
  BY DEF Inv, PendingInv, Posted
<1>9. stray' \subseteq Room
  BY <1>1, <1>8 DEF Inv, TypeOK
<1>10. TypeOK'
  BY <1>1, <1>4, <1>5, <1>6, <1>7, <1>8, <1>9, NewProfileType DEF Inv, TypeOK, Loaded, Steps
<1>11. dialog' # "open"
  BY <1>1 DEF Inv, DialogInv
<1>12. DialogInv'
  BY <1>1, <1>11 DEF DialogInv
<1>13. \A r \in rooms : storage' # NoProfile /\ r \in storage'.rooms
  BY <1>1, <1>3, NewProfileType
<1>14. \A r \in Room : active = r \/ Waiting("post", r) => r \in stray'
  BY <1>1, RoomAssumption DEF Posted
<1>15. stray \subseteq stray' /\ rooms = storage'.rooms
  BY <1>1, <1>3
<1>16. storage' # NoProfile /\ storage'.rooms = {defaultChatroom} /\ UNCHANGED <<active, pending>>
  BY <1>1, NewProfileType
<1>17. init'.step \notin {"load", "loading"}
  BY <1>5
<1> QED BY <1>3, <1>4, <1>10, <1>12, <1>13, <1>14, <1>15, <1>16, <1>17, ReadStep

LEMMA LoadProfileStep == ASSUME Inv, LoadProfile PROVE Inv'
<1>1. /\ storage # NoProfile /\ init.step = "loading"
      /\ manager' = "loaded" /\ syncing' = TRUE /\ dialog' = "closed"
      /\ path' \in Places
      /\ UNCHANGED <<storage, active, contacts, pending, stray>>
  BY DEF LoadProfile, Inv, TypeOK, Places
<1>2. PICK rooms : rooms = storage.rooms
  OBVIOUS
<1>3. rooms \in SUBSET Room
  BY <1>1, <1>2 DEF Inv, TypeOK, ProfileRecord
<1>4. /\ list' = [r \in Room |-> IF r \in rooms THEN 1 ELSE 0]
      /\ overtaken' = Posted /\ unlisted' = {}
  BY <1>2, PendingRooms DEF LoadProfile, GetRooms, RoomsOf, Inv
<1>5. init' \in [step : Steps, calls : Nat] /\ init'.step = "idle"
  BY DEF LoadProfile, Inv, TypeOK, Steps
<1>6. list' \in [Room -> 0 .. MaxCopies]
  BY <1>3, <1>4, ReadList
<1>7. Posted \subseteq Direct
  BY DEF Inv, PendingInv, Posted
<1>8. TypeOK'
  BY <1>1, <1>4, <1>5, <1>6, <1>7 DEF Inv, TypeOK, Loaded, Steps, Places
<1>9. DialogInv'
  BY <1>1 DEF DialogInv
<1>10. \A r \in Room : active = r \/ Waiting("post", r) => r \in stray'
  BY <1>1 DEF Inv, EarlyInv, Shown
<1>11. rooms = storage'.rooms /\ \A r \in rooms : storage' # NoProfile /\ r \in storage'.rooms
  BY <1>1, <1>2
<1>12. stray \subseteq stray' /\ UNCHANGED <<active, pending>> /\ storage' = storage
  BY <1>1
<1>13. init'.step \notin {"load", "loading"}
  BY <1>5
<1> QED BY <1>3, <1>4, <1>8, <1>9, <1>10, <1>11, <1>12, <1>13, ReadStep

------------------------------------------------------------------------------
\* Rooms

\* A room is stored if there is a profile.
LEMMA StoreType ==
  ASSUME Inv, NEW r \in Room, Store(r)
  PROVE  /\ storage' \in ProfileRecord \cup {NoProfile}
         /\ storage' # NoProfile <=> storage # NoProfile
         /\ Loaded => /\ storage' # NoProfile /\ storage # NoProfile
                      /\ storage'.rooms = storage.rooms \cup {r}
                      /\ storage'.contacts = storage.contacts
         /\ ~ Loaded => storage' = storage
         /\ storage # NoProfile => storage'.rooms \subseteq storage.rooms \cup {r}
<1>1. storage \in ProfileRecord \cup {NoProfile} /\ (Loaded => storage # NoProfile)
  BY DEF Inv, TypeOK
<1>2. CASE ~ Loaded
  BY <1>1, <1>2 DEF Store
<1>3. CASE Loaded
  <2>1. PICK q : q = [storage EXCEPT !.rooms = @ \cup {r}]
    OBVIOUS
  <2>2. /\ q \in ProfileRecord /\ q.rooms = storage.rooms \cup {r}
        /\ q.contacts = storage.contacts
    BY <1>1, <1>3, <2>1 DEF ProfileRecord
  <2>3. storage' = q
    BY <1>3, <2>1 DEF Store
  <2> QED BY <1>1, <1>3, <2>2, <2>3, ProfileAssumption
<1> QED BY <1>2, <1>3

LEMMA AppendType ==
  ASSUME Inv, NEW r \in Room, Append(r), list[r] < MaxCopies
  PROVE  /\ list' \in [Room -> 0 .. MaxCopies] /\ list'[r] = list[r] + 1 /\ list'[r] > 0
         /\ list[r] = 0 => list'[r] = 1 /\ list'[r] <= 1 /\ list'[r] < MaxCopies
         /\ \A t \in Room \ {r} : list'[t] = list[t]
         /\ active' = r /\ unlisted' = unlisted \ {r}
<1>1. list \in [Room -> 0 .. MaxCopies] /\ list' = [list EXCEPT ![r] = @ + 1]
  BY DEF Inv, TypeOK, Append
<1>2. list[r] + 1 \in 0 .. MaxCopies /\ list[r] + 1 > 0
  BY <1>1, BoundsAssumption
<1>3. list'[r] = list[r] + 1 /\ list' \in [Room -> 0 .. MaxCopies]
  BY <1>1, <1>2
<1>4. 0 + 1 = 1 /\ 1 <= 1 /\ 1 < MaxCopies
  BY BoundsAssumption
<1> QED BY <1>1, <1>2, <1>3, <1>4 DEF Append

\* A public or private room that is not listed is stored and appended.
LEMMA AppendStep ==
  ASSUME Inv, NEW r \in Public \cup Private, StoreAndAppend(r), list[r] = 0,
         pending' \subseteq pending, Posted' = Posted, ~ Waiting("create", r)',
         UNCHANGED <<page, contacts, overtaken>>
  PROVE  Inv'
<1>1. r \in Room /\ r \notin Direct /\ list[r] < MaxCopies
  BY RoomAssumption, BoundsAssumption DEF Room
<1>2. /\ list' \in [Room -> 0 .. MaxCopies] /\ list'[r] > 0 /\ list'[r] <= 1
      /\ \A t \in Room \ {r} : list'[t] = list[t]
      /\ active' = r /\ unlisted' = unlisted \ {r}
  BY <1>1, AppendType DEF StoreAndAppend
<1>3. /\ storage' \in ProfileRecord \cup {NoProfile}
      /\ storage' # NoProfile <=> storage # NoProfile
      /\ Loaded => /\ storage' # NoProfile /\ storage # NoProfile
                   /\ storage'.rooms = storage.rooms \cup {r}
                   /\ storage'.contacts = storage.contacts
      /\ ~ Loaded => storage' = storage
      /\ storage # NoProfile => storage'.rooms \subseteq storage.rooms \cup {r}
  BY <1>1, StoreType DEF StoreAndAppend
<1>4. /\ stray' = IF Loaded THEN stray ELSE stray \cup {r}
      /\ stray \subseteq stray' /\ stray' \subseteq Room
  BY <1>1 DEF StoreAndAppend, Inv, TypeOK
<1>5. TypeOK'
  BY <1>1, <1>2, <1>3, <1>4 DEF Inv, TypeOK, Loaded, page
<1>6. \A w, t : Waiting(w, t)' => Waiting(w, t)
  BY DEF Waiting
<1>7. PendingInv'
  <2>1. ASSUME NEW t \in Room, Waiting("create", t)'
        PROVE  /\ t # r /\ t \in Public \ {defaultChatroom} /\ list'[t] = 0
               /\ ~ Waiting("join", t)'
    BY <1>2, <1>6, <2>1 DEF Inv, PendingInv
  <2>2. ASSUME NEW t \in Room, Waiting("create", t)', storage' # NoProfile
        PROVE  t \notin storage'.rooms
    BY <1>3, <1>6, <2>1, <2>2 DEF Inv, PendingInv
  <2>3. ASSUME NEW t \in Room, Waiting("join", t)' PROVE t \in Public
    BY <1>6, <2>3 DEF Inv, PendingInv
  <2>4. ASSUME NEW t \in Room, Waiting("post", t)'
        PROVE  /\ t \in Direct /\ list'[t] < MaxCopies
               /\ list'[t] = 0 \/ t \in overtaken' \cup stray'
    BY <1>1, <1>2, <1>4, <1>6, <2>4 DEF Inv, PendingInv
  <2> QED BY <2>1, <2>2, <2>3, <2>4 DEF PendingInv
<1>8. OnceInv'
  BY <1>2, <1>4 DEF Inv, OnceInv, ListedOnce, Room
<1>9. Loaded' = Loaded /\ Mounted' = Mounted
  BY DEF Loaded, Mounted, page
<1>10. \A t \in Room \ {r} : Shown(t)' => Shown(t)
  BY <1>2, <1>6 DEF Shown
<1>11. ShownInv'
  <2> SUFFICES ASSUME Loaded
               PROVE  /\ \A t \in Room : Shown(t)' => t \in storage'.rooms \cup stray'
                      /\ \A t \in Private : list'[t] > 0 => t \in storage'.rooms
    BY <1>9 DEF ShownInv
  <2>1. \A t \in Room : Shown(t)' => t \in storage'.rooms \cup stray'
    BY <1>3, <1>4, <1>10 DEF Inv, ShownInv
  <2>2. \A t \in Private : list'[t] > 0 => t \in storage'.rooms
    BY <1>2, <1>3 DEF Inv, ShownInv, Room
  <2> QED BY <2>1, <2>2
<1>12. EarlyInv'
  <2> SUFFICES ASSUME init.step \in {"load", "loading"}
               PROVE  ~ Loaded /\ \A t \in Room : Shown(t)' => t \in stray'
    BY <1>9 DEF EarlyInv, page
  <2> QED BY <1>4, <1>10 DEF Inv, EarlyInv
<1>13. OwnedInv'
  <2> SUFFICES ASSUME Mounted, Loaded, NEW t \in storage'.rooms
               PROVE  list'[t] > 0 \/ t \in unlisted' \cup Posted'
    BY <1>9 DEF OwnedInv
  <2>1. CASE t = r
    BY <1>2, <2>1
  <2>2. CASE t # r
    <3>1. t \in storage.rooms /\ t \in Room
      BY <1>3, <2>2 DEF Inv, TypeOK, ProfileRecord
    <3>2. list[t] > 0 \/ t \in unlisted \/ t \in Posted
      BY <3>1 DEF Inv, OwnedInv
    <3> QED BY <1>2, <2>2, <3>1, <3>2
  <2> QED BY <2>1, <2>2
<1>14. DialogInv'
  BY <1>3 DEF Inv, DialogInv, Loaded, page
<1> QED BY <1>5, <1>7, <1>8, <1>11, <1>12, <1>13, <1>14 DEF Inv

LEMMA PublicRoomCreatedStep ==
  ASSUME Inv, NEW r \in Public, PublicRoomCreated(r)
  PROVE  Inv'
<1>1. /\ StoreAndAppend(r) /\ UNCHANGED <<page, contacts, overtaken>>
      /\ Waiting("create", r)
      /\ pending' = pending \ {[what |-> "create", room |-> r]}
  BY DEF PublicRoomCreated, Ends, Waiting
<1>2. r \in Room /\ list[r] = 0
  BY <1>1 DEF Inv, PendingInv, Room
<1>3. pending' \subseteq pending /\ ~ Waiting("create", r)'
  BY <1>1 DEF Waiting
<1>4. Posted' = Posted
  BY <1>1 DEF Posted, Waiting
<1> QED BY <1>1, <1>2, <1>3, <1>4, AppendStep

LEMMA PrivateRoomStep ==
  ASSUME Inv, NEW r \in Private, CreatePrivateRoom(r) \/ JoinPrivateRoom(r)
  PROVE  Inv'
<1>1. StoreAndAppend(r) /\ UNCHANGED <<page, contacts, pending, overtaken>>
  BY DEF CreatePrivateRoom, JoinPrivateRoom
<1>2. r \in Room /\ r \notin Public
  BY RoomAssumption DEF Room
<1>3. list[r] = 0
  <2>1. CASE CreatePrivateRoom(r)
    BY <2>1 DEF CreatePrivateRoom, New
  <2>2. CASE JoinPrivateRoom(r)
    <3>1. ~ (list[r] > 0)
      BY <2>2 DEF JoinPrivateRoom, Inv, ShownInv
    <3>2. list[r] \in 0 .. MaxCopies
      BY <1>2 DEF Inv, TypeOK
    <3> QED BY <3>1, <3>2, BoundsAssumption
  <2> QED BY <2>1, <2>2
<1>4. ~ Waiting("create", r) /\ pending' = pending
  BY <1>1, <1>2 DEF Inv, PendingInv
<1>5. Posted' = Posted /\ ~ Waiting("create", r)'
  BY <1>4 DEF Posted, Waiting
<1> QED BY <1>1, <1>3, <1>4, <1>5, AppendStep

LEMMA PublicRoomJoinedStep ==
  ASSUME Inv, NEW r \in Public, PublicRoomJoined(r)
  PROVE  Inv'
<1>1. /\ Store(r) /\ UNCHANGED <<page, list, active, contacts, overtaken, stray>>
      /\ Waiting("join", r) /\ pending' = pending \ {[what |-> "join", room |-> r]}
      /\ unlisted' = IF Mounted /\ Loaded /\ r \notin storage.rooms THEN unlisted \cup {r} ELSE unlisted
  BY DEF PublicRoomJoined, Ends, Waiting, HasRoom
<1>2. r \in Room /\ ~ Waiting("create", r)
  BY <1>1 DEF Inv, PendingInv, Room
<1>3. /\ storage' \in ProfileRecord \cup {NoProfile}
      /\ storage' # NoProfile <=> storage # NoProfile
      /\ Loaded => /\ storage' # NoProfile /\ storage # NoProfile
                   /\ storage'.rooms = storage.rooms \cup {r}
                   /\ storage'.contacts = storage.contacts
      /\ ~ Loaded => storage' = storage
      /\ storage # NoProfile => storage'.rooms \subseteq storage.rooms \cup {r}
  BY <1>1, <1>2, StoreType
<1>4. Loaded' = Loaded /\ Mounted' = Mounted
  BY <1>1 DEF Loaded, Mounted, page
<1>5. /\ Posted' = Posted /\ \A t \in Room : Shown(t)' = Shown(t)
      /\ \A w, t : Waiting(w, t)' => Waiting(w, t)
  BY <1>1 DEF Posted, Waiting, Shown
<1>6. TypeOK'
  BY <1>1, <1>2, <1>3 DEF Inv, TypeOK, Loaded, page
<1>7. PendingInv'
  <2>1. ASSUME NEW t \in Room, Waiting("create", t)', storage' # NoProfile
        PROVE  t \notin storage'.rooms
    BY <1>2, <1>3, <1>5, <2>1 DEF Inv, PendingInv
  <2>2. \A t \in Room : /\ Waiting("create", t)' => Waiting("create", t)
                        /\ Waiting("join", t)' => Waiting("join", t)
                        /\ Waiting("post", t)' => Waiting("post", t)
    BY <1>5
  <2> QED BY <1>1, <2>1, <2>2 DEF Inv, PendingInv
<1>8. OnceInv'
  BY <1>1 DEF Inv, OnceInv, ListedOnce
<1>9. ShownInv'
  BY <1>1, <1>3, <1>4, <1>5 DEF Inv, ShownInv
<1>10. EarlyInv'
  BY <1>1, <1>4, <1>5 DEF Inv, EarlyInv, page
<1>11. OwnedInv'
  BY <1>1, <1>3, <1>4, <1>5 DEF Inv, OwnedInv
<1>12. DialogInv'
  BY <1>1, <1>3 DEF Inv, DialogInv, Loaded, page
<1> QED BY <1>6, <1>7, <1>8, <1>9, <1>10, <1>11, <1>12 DEF Inv

LEMMA CreateDirectRoomStep ==
  ASSUME Inv, NEW r \in Direct, CreateDirectRoom(r)
  PROVE  Inv'
<1>1. r \in Room /\ r \notin Public \cup Private
  BY RoomAssumption DEF Room
<1>2. /\ Store(r) /\ UNCHANGED <<page, list, active, contacts, overtaken, unlisted>>
      /\ pending' = pending \cup {[what |-> "post", room |-> r]}
      /\ stray' = IF Loaded THEN stray ELSE stray \cup {r}
      /\ list[r] < MaxCopies /\ (Loaded => r \notin storage.rooms)
  BY DEF CreateDirectRoom, Waits, HasRoom
<1>3. /\ storage' \in ProfileRecord \cup {NoProfile}
      /\ storage' # NoProfile <=> storage # NoProfile
      /\ Loaded => /\ storage' # NoProfile /\ storage # NoProfile
                   /\ storage'.rooms = storage.rooms \cup {r}
                   /\ storage'.contacts = storage.contacts
      /\ ~ Loaded => storage' = storage
      /\ storage # NoProfile => storage'.rooms \subseteq storage.rooms \cup {r}
  BY <1>1, <1>2, StoreType
<1>4. Loaded' = Loaded /\ Mounted' = Mounted
  BY <1>2 DEF Loaded, Mounted, page
<1>5. \A w, t : Waiting(w, t)' => Waiting(w, t) \/ (w = "post" /\ t = r)
  BY <1>2 DEF Waiting
<1>6. Posted' = Posted \cup {r} /\ \A t \in Room \ {r} : Shown(t)' = Shown(t)
  BY <1>1, <1>2 DEF Posted, Waiting, Shown
<1>7. TypeOK'
  <2>1. [what |-> "post", room |-> r] \in PendingRecord
    BY <1>1 DEF PendingRecord
  <2>2. pending' \subseteq PendingRecord /\ stray' \subseteq Room
    BY <1>1, <1>2, <2>1 DEF Inv, TypeOK, PendingRecord
  <2> QED BY <1>2, <1>3, <2>2 DEF Inv, TypeOK, Loaded, PendingRecord, page
<1>8. PendingInv'
  <2>1. ASSUME NEW t \in Room, Waiting("create", t)'
        PROVE  /\ t \in Public \ {defaultChatroom} /\ list'[t] = 0 /\ ~ Waiting("join", t)'
               /\ storage' # NoProfile => t \notin storage'.rooms
    <3>1. Waiting("create", t) /\ t # r
      BY <1>1, <1>5, <2>1 DEF Inv, PendingInv
    <3> QED BY <1>2, <1>3, <1>5, <3>1 DEF Inv, PendingInv
  <2>2. ASSUME NEW t \in Room, Waiting("join", t)' PROVE t \in Public
    BY <1>5, <2>2 DEF Inv, PendingInv
  <2>3. ASSUME NEW t \in Room, Waiting("post", t)'
        PROVE  /\ t \in Direct /\ list'[t] < MaxCopies
               /\ list'[t] = 0 \/ t \in overtaken' \cup stray'
    <3>1. CASE t = r
      <4>1. list[r] \in 0 .. MaxCopies
        BY <1>1 DEF Inv, TypeOK
      <4>2. list[r] = 0 \/ list[r] > 0
        BY <4>1, BoundsAssumption
      <4> QED BY <1>1, <1>2, <3>1, <4>2 DEF Inv, ShownInv, Shown
    <3>2. CASE t # r
      BY <1>2, <1>5, <2>3, <3>2 DEF Inv, PendingInv
    <3> QED BY <3>1, <3>2
  <2> QED BY <2>1, <2>2, <2>3 DEF PendingInv
<1>9. OnceInv'
  BY <1>2 DEF Inv, OnceInv, ListedOnce
<1>10. ShownInv'
  BY <1>2, <1>3, <1>4, <1>6 DEF Inv, ShownInv
<1>11. EarlyInv'
  BY <1>2, <1>4, <1>6 DEF Inv, EarlyInv, page
<1>12. OwnedInv'
  BY <1>2, <1>3, <1>4, <1>6 DEF Inv, OwnedInv
<1>13. DialogInv'
  BY <1>2, <1>3 DEF Inv, DialogInv, Loaded, page
<1> QED BY <1>7, <1>8, <1>9, <1>10, <1>11, <1>12, <1>13 DEF Inv

LEMMA DirectRoomPostedStep ==
  ASSUME Inv, NEW r \in Direct, DirectRoomPosted(r)
  PROVE  Inv'
<1>1. /\ Append(r) /\ UNCHANGED <<storage, page, contacts, overtaken, stray>>
      /\ Waiting("post", r) /\ pending' = pending \ {[what |-> "post", room |-> r]}
  BY DEF DirectRoomPosted, Ends, Waiting
<1>2. /\ r \in Room /\ r \notin Public \cup Private /\ list[r] < MaxCopies
      /\ list[r] = 0 \/ r \in overtaken \cup stray
  BY <1>1, RoomAssumption DEF Inv, PendingInv, Room
<1>3. /\ list' \in [Room -> 0 .. MaxCopies] /\ list'[r] > 0 /\ (list[r] = 0 => list'[r] <= 1)
      /\ \A t \in Room \ {r} : list'[t] = list[t]
      /\ active' = r /\ unlisted' = unlisted \ {r}
  BY <1>1, <1>2, AppendType
<1>4. Loaded' = Loaded /\ Mounted' = Mounted
  BY <1>1 DEF Loaded, Mounted, page
<1>5. \A w, t : Waiting(w, t)' => Waiting(w, t) /\ ~ (w = "post" /\ t = r)
  BY <1>1 DEF Waiting
<1>6. Posted' = Posted \ {r} /\ \A t \in Room : Shown(t)' => Shown(t)
  BY <1>1, <1>3 DEF Posted, Waiting, Shown
<1>7. TypeOK'
  BY <1>1, <1>2, <1>3 DEF Inv, TypeOK, Loaded, page
<1>8. PendingInv'
  <2>1. ASSUME NEW t \in Room, Waiting("create", t)'
        PROVE  /\ t \in Public \ {defaultChatroom} /\ list'[t] = 0 /\ ~ Waiting("join", t)'
               /\ storage' # NoProfile => t \notin storage'.rooms
    <3>1. Waiting("create", t) /\ t # r
      BY <1>2, <1>5, <2>1 DEF Inv, PendingInv
    <3> QED BY <1>1, <1>3, <1>5, <3>1 DEF Inv, PendingInv
  <2>2. ASSUME NEW t \in Room, Waiting("join", t)' PROVE t \in Public
    BY <1>5, <2>2 DEF Inv, PendingInv
  <2>3. ASSUME NEW t \in Room, Waiting("post", t)'
        PROVE  /\ t \in Direct /\ list'[t] < MaxCopies
               /\ list'[t] = 0 \/ t \in overtaken' \cup stray'
    <3>1. t # r /\ Waiting("post", t)
      BY <1>5, <2>3
    <3> QED BY <1>1, <1>3, <3>1 DEF Inv, PendingInv
  <2> QED BY <2>1, <2>2, <2>3 DEF PendingInv
<1>9. OnceInv'
  BY <1>1, <1>2, <1>3 DEF Inv, OnceInv, ListedOnce, Room
<1>10. ShownInv'
  BY <1>1, <1>2, <1>3, <1>4, <1>6 DEF Inv, ShownInv, Room
<1>11. EarlyInv'
  BY <1>1, <1>4, <1>6 DEF Inv, EarlyInv, page
<1>12. OwnedInv'
  <2> SUFFICES ASSUME Mounted, Loaded, NEW t \in storage.rooms
               PROVE  list'[t] > 0 \/ t \in unlisted' \cup Posted'
    BY <1>1, <1>4 DEF OwnedInv
  <2>1. t \in Room /\ (list[t] > 0 \/ t \in unlisted \cup Posted)
    BY DEF Inv, OwnedInv, TypeOK, ProfileRecord
  <2> QED BY <1>3, <1>6, <2>1
<1>13. DialogInv'
  BY <1>1 DEF Inv, DialogInv, Loaded, page
<1> QED BY <1>7, <1>8, <1>9, <1>10, <1>11, <1>12, <1>13 DEF Inv

LEMMA DirectRoomFailsStep ==
  ASSUME Inv, NEW r \in Direct, DirectRoomFails(r)
  PROVE  Inv'
<1>1. /\ UNCHANGED <<storage, page, list, active, contacts, overtaken, stray>>
      /\ pending' = pending \ {[what |-> "post", room |-> r]}
      /\ unlisted' = IF Loaded /\ r \in storage.rooms THEN unlisted \cup {r} ELSE unlisted
  BY DEF DirectRoomFails, Ends, HasRoom
<1>2. r \in Room
  BY DEF Room
<1>3. Loaded' = Loaded /\ Mounted' = Mounted
  BY <1>1 DEF Loaded, Mounted, page
<1>4. /\ \A w, t : Waiting(w, t)' => Waiting(w, t)
      /\ Posted' = Posted \ {r} /\ \A t \in Room : Shown(t)' => Shown(t)
  BY <1>1 DEF Posted, Waiting, Shown
<1>5. TypeOK'
  BY <1>1, <1>2 DEF Inv, TypeOK, Loaded, page
<1>6. PendingInv'
  <2>1. \A t \in Room : /\ Waiting("create", t)' => Waiting("create", t)
                        /\ Waiting("join", t)' => Waiting("join", t)
                        /\ Waiting("post", t)' => Waiting("post", t)
    BY <1>4
  <2> QED BY <1>1, <2>1 DEF Inv, PendingInv
<1>7. OnceInv'
  BY <1>1 DEF Inv, OnceInv, ListedOnce
<1>8. ShownInv' /\ EarlyInv'
  BY <1>1, <1>3, <1>4 DEF Inv, ShownInv, EarlyInv, page
<1>9. OwnedInv'
  BY <1>1, <1>3, <1>4 DEF Inv, OwnedInv
<1>10. DialogInv'
  BY <1>1 DEF Inv, DialogInv, Loaded, page
<1> QED BY <1>5, <1>6, <1>7, <1>8, <1>9, <1>10 DEF Inv

------------------------------------------------------------------------------

LEMMA StepInv == ASSUME Inv, [Next]_vars PROVE Inv'
<1>1. CASE UNCHANGED vars
  <2>1. UNCHANGED <<storage, manager, init, path, syncing, list, active, contacts, dialog,
                    pending, overtaken, unlisted, stray>>
    BY <1>1 DEF vars
  <2>2. TypeOK' /\ DialogInv'
    BY <2>1 DEF Inv, TypeOK, DialogInv, Loaded
  <2>3. PendingInv' /\ OnceInv'
    BY <2>1 DEF Inv, PendingInv, OnceInv, ListedOnce, Waiting
  <2>4. ShownInv' /\ EarlyInv'
    BY <2>1 DEF Inv, ShownInv, EarlyInv, Shown, Waiting, Loaded
  <2>5. OwnedInv'
    BY <2>1 DEF Inv, OwnedInv, Posted, Waiting, Loaded, Mounted
  <2> QED BY <2>2, <2>3, <2>4, <2>5 DEF Inv
<1>2. CASE Login \/ NewManager \/ InitProfile \/ LoadProfile \/ InitFails \/ HistorySynced
  BY <1>2, LoginStep, NewManagerStep, InitProfileStep, LoadProfileStep, InitFailsStep,
     NavigateStep
<1>3. CASE \E p \in {"dashboard", "public", "r-procedure"} : Navigate(p) \/ Reload(p)
  BY <1>3, NavigateStep, ReloadStep DEF Places
<1>4. CASE \E r \in Public :
             \/ CreatePublicRoom(r) \/ PublicRoomCreated(r)
             \/ JoinPublicRoom(r) \/ PublicRoomJoined(r)
             \/ \E what \in {"create", "join"} : RequestFails(what, r)
  BY <1>4, CreatePublicRoomStep, PublicRoomCreatedStep, JoinPublicRoomStep,
     PublicRoomJoinedStep, RequestFailsStep
<1>5. CASE \E r \in Private : CreatePrivateRoom(r) \/ JoinPrivateRoom(r)
  BY <1>5, PrivateRoomStep
<1>6. CASE \E r \in Direct : CreateDirectRoom(r) \/ DirectRoomPosted(r) \/ DirectRoomFails(r)
  BY <1>6, CreateDirectRoomStep, DirectRoomPostedStep, DirectRoomFailsStep
<1>7. CASE \E r \in Room \cup {None} : AddActiveChatRoom(r)
  BY <1>7, AddActiveStep
<1>8. CASE ToggleTrustedContacts
  BY <1>8, ToggleStep
<1>9. CASE \/ \E n \in Name : HandleContactDeleting(n)
           \/ \E old \in Name \cup {None}, new \in Name, key \in Key :
                HandleContactSaving(old, new, key)
  BY <1>9, DeletingStep, SavingStep
<1> QED
  BY <1>1, <1>2, <1>3, <1>4, <1>5, <1>6, <1>7, <1>8, <1>9 DEF Next

LEMMA InvAlways == Spec => []Inv
BY InitInv, StepInv, PTL DEF Spec

\* The types of RoomList.
THEOREM TypeCorrect == Spec => []TypeOK
<1>1. Inv => TypeOK
  BY DEF Inv
<1> QED BY <1>1, InvAlways, PTL

\* Only a direct room whose promise was overtaken by a reading of the list, or that
\* the profile did not get, is ever listed twice.
THEOREM NoRoomListedTwice == Spec => []ListedOnce
<1>1. Inv => ListedOnce
  BY DEF Inv, OnceInv
<1> QED BY <1>1, InvAlways, PTL

\* Every room of the profile is listed, or accounted for.
THEOREM OwnedRoomsListed == Spec => []OwnedIsListed
<1>1. Inv => OwnedIsListed
  <2>1. Inv => Pending("post") = Posted
    BY PendingRooms DEF Inv
  <2> QED BY <2>1 DEF Inv, OwnedInv, OwnedIsListed
<1> QED BY <1>1, InvAlways, PTL

\* What the dashboard shows is the profile's, or accounted for.
THEOREM ShownRoomsOwned == Spec => []ShownIsOwned
<1>1. Inv => ShownIsOwned
  BY DEF Inv, ShownInv, Shown, ShownIsOwned
<1> QED BY <1>1, InvAlways, PTL

\* An open dialog never shows contacts that the profile does not have, or lacks one
\* that it has, whatever changes them and whenever the page is mounted.
THEOREM DialogIsCurrent == Spec => []ContactsShown
<1>1. Inv => ContactsShown
  BY DEF Inv, DialogInv, ContactsShown
<1> QED BY <1>1, InvAlways, PTL

==============================================================================
