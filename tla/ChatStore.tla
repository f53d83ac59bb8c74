------------------------------ MODULE ChatStore ------------------------------
(***************************************************************************)
(* What the application shows of the messages and rooms of the client      *)
(* library: the redux store, the components that fill it, and the local    *)
(* database of messages underneath.                                        *)
(*                                                                         *)
(* When the page is opened with a profile, the history is synchronised;    *)
(* then the page registers for live messages and loads the newest page of  *)
(* every room into the store.  A live message goes into the database and   *)
(* into the store.  The list of messages asks for an older page when it is *)
(* scrolled to its top.  A login makes a new profile with the one default  *)
(* room, and a chat manager with a registration of its own over the one    *)
(* connection; the managers before it stay registered.                     *)
(*                                                                         *)
(* Messages are numbered in the order they are sent; several can have one  *)
(* timestamp.  The list is sorted when it is drawn, so that a history is a *)
(* bag of messages.  The clock is the server's.  (CInit, CNext and CSpec:  *)
(* RootSync is the client library on the same page, and both are extended  *)
(* at once.)                                                               *)
(***************************************************************************)
EXTENDS Naturals, FiniteSets

CONSTANTS
  Room,
  Lobby,        \* the default room
  NoRoom,       \* no active room
  NoHistory,    \* chatHistory has no entry for a room
  Page,         \* MAX_NUMBER_OF_MESSAGES_TO_FETCH_FROM_DB
  MaxMessages,  \* bound: messages
  TimeOf,       \* the timestamps the server gives them: milliseconds
  MaxCopies,    \* bound: how often one synchronisation stores a message
  MaxInits      \* bound: calls of init()

ASSUME ChatAssumption ==
  /\ Page \in Nat \ {0} /\ MaxMessages \in Nat /\ MaxInits \in Nat /\ MaxCopies \in Nat
  /\ TimeOf \in [1 .. MaxMessages -> Nat \ {0}]
  /\ \A n, m \in 1 .. MaxMessages : n <= m => TimeOf[n] <= TimeOf[m]
ASSUME NoneAssumption == NoRoom \notin Room /\ Lobby \in Room

VARIABLES
  db,        \* [Room -> bag]: the messages stored locally
  due,       \* [Room -> set]: the messages of the server that are not stored, until the
             \* history has been synchronised
  last,      \* the newest message
  managers,  \* [Room -> registered chat managers that have its key]
  inits,     \* calls of init()
  page,      \* on the screen: "spinner", "dashboard", "away": another route, or
             \* "opened": nothing yet
  upTo,      \* toTimestamp of the synchronisation
  rooms,     \* the rooms of the profile
  history,   \* chatHistory
  loadRooms, \* loadMessagesForRooms under way: what was read, and what is to be
  loadRoom,  \* loadMessagesForRoom under way
  deleting,  \* rooms of handleMessagesDeleting under way
  active,    \* currentActiveRoom
  list,      \* the ChatMessagesWrapper on the page: its closures
  raced,     \* history: the rooms whose list was changed under a load or a list
             \* made before
  skipped    \* history: what a list was continued without, for it has the timestamp
             \* the list began with

session == <<managers, inits, page, upTo, rooms>>
cvars == <<db, due, last, session, history, loadRooms, loadRoom, deleting, active, list,
           raced, skipped>>

Message == 1 .. MaxMessages
Bag     == [Message -> Nat]
Empty   == [n \in Message |-> 0]
In(bag) == {n \in Message : bag[n] > 0}
Plus(a, b) == [n \in Message |-> a[n] + b[n]]

NoLoad     == [todo |-> {}, from |-> 0, read |-> {}, pages |-> [r \in Room |-> Empty]]
NoLoadRoom == [room |-> NoRoom, from |-> 0, page |-> Empty, read |-> FALSE]
NoList     == [room |-> NoRoom, first |-> 0, listens |-> FALSE]

MinOf(a, b) == IF a < b THEN a ELSE b

\* The clock is at the newest message, or a little later.
Clock == IF last = 0 THEN 0 ELSE TimeOf[last]

\* The page is opened after others: a message may be stored already; or not stored
\* yet, or deleted.
CInit ==
  /\ last \in 0 .. MinOf(1, MaxMessages)
  /\ \E r \in Room, stored \in 0 .. MaxCopies :
       /\ db = [q \in Room |-> [n \in Message |-> IF q = r /\ n <= last THEN stored ELSE 0]]
       /\ due = [q \in Room |-> IF q = r /\ stored = 0 THEN 1 .. last ELSE {}]
  /\ managers = [r \in Room |-> 0] /\ inits = 0 /\ page = "opened"
  /\ upTo = 0 /\ rooms = Room
  /\ history = [r \in Room |-> NoHistory]
  /\ loadRooms = NoLoad /\ loadRoom = NoLoadRoom /\ deleting = {}
  /\ active = NoRoom /\ list = NoList
  /\ raced = {} /\ skipped = {}

Shown(r) == IF history[r] = NoHistory THEN {} ELSE In(history[r])

\* The timestamp the list of a room begins with.
Oldest(r) == LET times == {TimeOf[n] : n \in Shown(r)}
             IN IF times = {} THEN 0 ELSE CHOOSE t \in times : \A u \in times : t <= u

\* A page of the room has been read and is not shown yet.
Read(r) == r \in loadRooms.read \/ (loadRoom.room = r /\ loadRoom.read)

FlagIf(race, r) == raced' = IF race THEN raced \cup {r} ELSE raced

\* getMessagesForRoom: the newest messages with a timestamp before "from", a page at
\* most; copies count, and messages with one timestamp come in any order.
Copies(bag) ==
  LET sum[n \in 0 .. MaxMessages] == IF n = 0 THEN 0 ELSE bag[n] + sum[n - 1]
  IN sum[MaxMessages]

PageBefore_older(r, from) ==   \* mutant: not reversed
  {p \in [Message -> 0 .. Page] :
     /\ Copies(p) <= Page
     /\ \A n \in Message : p[n] <= (IF TimeOf[n] < from THEN db[r][n] ELSE 0)
     /\ \A n \in Message : TimeOf[n] < from /\ p[n] < db[r][n] =>
          Copies(p) = Page /\ \A m \in In(p) : TimeOf[m] <= TimeOf[n]}

PageBefore_inclusive(r, from) ==   \* mutant
  {p \in [Message -> 0 .. Page] :
     /\ Copies(p) <= Page
     /\ \A n \in Message : p[n] <= (IF TimeOf[n] <= from THEN db[r][n] ELSE 0)
     /\ \A n \in Message : TimeOf[n] <= from /\ p[n] < db[r][n] =>
          Copies(p) = Page /\ \A m \in In(p) : TimeOf[n] <= TimeOf[m]}

PageBefore(r, from) ==
  {p \in [Message -> 0 .. Page] :
     /\ Copies(p) <= Page
     /\ \A n \in Message : p[n] <= (IF TimeOf[n] < from THEN db[r][n] ELSE 0)
     /\ \A n \in Message : TimeOf[n] < from /\ p[n] < db[r][n] =>
          Copies(p) = Page /\ \A m \in In(p) : TimeOf[n] <= TimeOf[m]}

------------------------------------------------------------------------------
\* Live messages

\* registerReceiveMessageHandler of a new manager with the keys of these rooms; that
\* of an earlier manager on this page stays.
RegisterReceiveMessageHandler(rs) ==
  managers' = [r \in Room |-> IF r \in rs THEN managers[r] + 1 ELSE managers[r]]

\* messageHandlerForRooms of every manager that is registered: the message is
\* saved, and ADD_MESSAGE_TO_ROOM is dispatched.  Without one, only the
\* synchronisation can bring it.
ReceiveMessage(r) ==
  /\ last < MaxMessages
  /\ last' = last + 1
  /\ IF managers[r] = 0
       THEN /\ due' = IF page \in {"opened", "spinner"} THEN [due EXCEPT ![r] = @ \cup {last'}]
                     ELSE due
            /\ UNCHANGED <<db, history>>
       ELSE /\ db' = [db EXCEPT ![r][last'] = managers[r]]
            /\ history' = [history EXCEPT ![r] =
                 [(IF @ = NoHistory THEN Empty ELSE @) EXCEPT ![last'] = managers[r]]]
            /\ UNCHANGED due
  /\ FlagIf(r \in loadRooms.todo \cup loadRooms.read, r)
  /\ UNCHANGED <<session, loadRooms, loadRoom, deleting, active, list, skipped>>

------------------------------------------------------------------------------
\* AppWrapper: init(), runSyncMessageHistory and loadMessagesFromDb.  Meanwhile a
\* spinner replaces the page.

\* A list made when the dashboard is shown.
ListShown ==
  IF active = NoRoom THEN NoList
  ELSE [room |-> active, first |-> Oldest(active), listens |-> loadRoom = NoLoadRoom]

RunSyncMessageHistory ==
  /\ page = "opened" /\ inits < MaxInits
  /\ inits' = inits + 1 /\ page' = "spinner" /\ upTo' = Clock + 1
  /\ UNCHANGED <<db, due, last, managers, rooms, history, loadRooms, loadRoom,
                 deleting, active, list, raced, skipped>>

\* LOAD_MESSAGES_FOR_ROOMS is dispatched.
LoadMessagesForRooms(rs) ==
  loadRooms' = [NoLoad EXCEPT !.todo = rs, !.from = Clock + 1]

\* The synchronisation brings messages newer than the newest stored one and older than
\* the time it started: all of them, or those of the pages that came before an answer
\* failed; and twice what is in two pages.  (Which, and how often: HistorySync.)
\* However it ends, the load starts, and receive_message registers the manager.
HistorySynced ==
  /\ page = "spinner"
  /\ page' = "dashboard" /\ upTo' = 0 /\ RegisterReceiveMessageHandler(rooms)
  /\ LET stored == {n \in Message : \E r \in Room : db[r][n] > 0}
         inRange == {n \in Message : TimeOf[n] < upTo /\ \A m \in stored : TimeOf[m] < TimeOf[n]}
     IN \E brought \in [Message -> 0 .. MaxCopies] :
          /\ In(brought) \subseteq inRange \cap UNION {due[r] : r \in rooms}
          /\ db' = [r \in Room |-> [n \in Message |->
                     IF n \in due[r] THEN db[r][n] + brought[n] ELSE db[r][n]]]
          /\ due' = [r \in Room |-> {}]
  /\ LoadMessagesForRooms(rooms)
  /\ UNCHANGED <<last, inits, rooms, history, loadRoom, deleting, active, list, raced,
                 skipped>>

\* RegisterOrRecover: a new profile.  Nothing is synchronised, and nothing loaded.
Login ==
  /\ page \in {"opened", "away"} /\ inits < MaxInits
  /\ inits' = inits + 1 /\ page' = "dashboard" /\ rooms' = {Lobby}
  /\ RegisterReceiveMessageHandler({Lobby})
  /\ list' = ListShown
  /\ UNCHANGED <<db, due, last, upTo, history, loadRooms, loadRoom, deleting, active,
                 raced, skipped>>

\* Another route, and back.
Navigate ==
  /\ page \in {"dashboard", "away"}
  /\ IF page = "dashboard" THEN page' = "away" /\ list' = NoList
                           ELSE page' = "dashboard" /\ list' = ListShown
  /\ UNCHANGED <<db, due, last, managers, inits, upTo, rooms, history, loadRooms,
                 loadRoom, deleting, active, raced, skipped>>

\* getMessagesForRooms reads room after room.
ReadRooms(r) ==
  /\ r \in loadRooms.todo
  /\ \E p \in PageBefore(r, loadRooms.from) :
       loadRooms' = [loadRooms EXCEPT !.todo = @ \ {r}, !.read = @ \cup {r}, !.pages[r] = p]
  /\ UNCHANGED <<db, due, last, session, history, loadRoom, deleting, active, list,
                 raced, skipped>>

\* LOAD_MESSAGES_FOR_ROOMS: the pages replace the histories, right or wrong.
MessagesForRoomsLoaded ==
  /\ loadRooms.todo = {} /\ loadRooms.read # {}
  /\ history' = [r \in Room |-> IF r \in loadRooms.read THEN loadRooms.pages[r] ELSE history[r]]
  /\ loadRooms' = NoLoad
  /\ UNCHANGED <<db, due, last, session, loadRoom, deleting, active, list, raced, skipped>>

------------------------------------------------------------------------------
\* The list of messages

\* A room is made active.  A list that is on the page already keeps its scroll
\* handler, with the room and the history of the time it was made.
AddActiveChatRoom(r) ==
  /\ page = "dashboard" /\ r # active /\ r \in rooms
  /\ active' = r
  /\ list' = IF list.room # NoRoom THEN list
             ELSE [room |-> r, first |-> Oldest(r), listens |-> loadRoom = NoLoadRoom]
  /\ UNCHANGED <<db, due, last, session, history, loadRooms, loadRoom, deleting,
                 raced, skipped>>

HandleActiveChatClosing ==
  /\ page = "dashboard" /\ active # NoRoom
  /\ active' = NoRoom /\ list' = NoList
  /\ UNCHANGED <<db, due, last, session, history, loadRooms, loadRoom, deleting,
                 raced, skipped>>

\* LOAD_MESSAGES_FOR_ROOM is dispatched.
LoadMessagesForRoom(r, from) == loadRoom' = [NoLoadRoom EXCEPT !.room = r, !.from = from]

\* fetchNewMessages.  The spinner replaces the element the handler was attached
\* to: it is not called again.  (Without a first message it throws.)
FetchNewMessages ==
  /\ list.listens /\ list.first # 0
  /\ LoadMessagesForRoom(list.room, list.first)
  /\ list' = [list EXCEPT !.listens = FALSE]
  /\ FlagIf(list.first # Oldest(list.room), list.room)
  /\ UNCHANGED <<db, due, last, session, history, loadRooms, deleting, active, skipped>>

ReadRoom ==
  /\ loadRoom.room # NoRoom /\ ~ loadRoom.read
  /\ \E p \in PageBefore(loadRoom.room, loadRoom.from) :
       loadRoom' = [loadRoom EXCEPT !.read = TRUE, !.page = p]
  /\ UNCHANGED <<db, due, last, session, history, loadRooms, deleting, active, list,
                 raced, skipped>>

\* LOAD_MESSAGES_FOR_ROOM: the page is put before the history; the reducer
\* throws if there is none.  What has the timestamp the list began with and was cut
\* from the page before is in neither.
MessagesForRoomLoaded ==
  /\ loadRoom.read
  /\ loadRoom' = NoLoadRoom
  /\ LET r == loadRoom.room
     IN /\ history' = IF history[r] = NoHistory THEN history
                      ELSE [history EXCEPT ![r] = Plus(loadRoom.page, @)]
        /\ skipped' = skipped \cup {n \in In(db[r]) \ Shown(r) : TimeOf[n] = loadRoom.from}
        /\ FlagIf(Oldest(r) # loadRoom.from, r)
  /\ UNCHANGED <<db, due, last, session, loadRooms, deleting, active, list>>

------------------------------------------------------------------------------
\* handleMessagesDeleting: the messages are deleted, and once more by the action
\* that is dispatched then.

Delete(r) == db' = [db EXCEPT ![r] = Empty]

DeleteAllMessagesForRoom(r) ==
  /\ page = "dashboard" /\ r = active /\ r \notin deleting
  /\ deleting' = deleting \cup {r}
  /\ Delete(r)
  /\ FlagIf(Read(r), r)
  /\ UNCHANGED <<due, last, session, history, loadRooms, loadRoom, active, list, skipped>>

\* DELETE_MESSAGES_FOR_ROOM: the histories of all other rooms go with it.
MessagesDeleted_kept(r) ==   \* mutant
  /\ r \in deleting
  /\ deleting' = deleting \ {r}
  /\ Delete(r)
  /\ UNCHANGED <<due, last, session, history, loadRooms, loadRoom, active, list, raced,
                 skipped>>

MessagesDeleted(r) ==
  /\ r \in deleting
  /\ deleting' = deleting \ {r}
  /\ Delete(r)
  /\ history' = [q \in Room |-> IF q = r THEN Empty ELSE NoHistory]
  /\ FlagIf(Read(r), r)
  /\ UNCHANGED <<due, last, session, loadRooms, loadRoom, active, list, skipped>>

------------------------------------------------------------------------------

CNext ==
  \/ RunSyncMessageHistory \/ HistorySynced \/ MessagesForRoomsLoaded
  \/ Login \/ Navigate
  \/ HandleActiveChatClosing \/ FetchNewMessages \/ ReadRoom \/ MessagesForRoomLoaded
  \/ \E r \in Room : \/ ReceiveMessage(r) \/ ReadRooms(r) \/ AddActiveChatRoom(r)
                     \/ DeleteAllMessagesForRoom(r) \/ MessagesDeleted(r)

CSpec == CInit /\ [][CNext]_cvars

------------------------------------------------------------------------------
\* Properties

\* Every variable has its type, and an older page is asked for only before a
\* timestamp.
CTypeOK ==
  /\ db \in [Room -> Bag]
  /\ due \in [Room -> SUBSET Message]
  /\ last \in 0 .. MaxMessages /\ managers \in [Room -> Nat] /\ inits \in Nat
  /\ page \in {"spinner", "dashboard", "away", "opened"} /\ rooms \subseteq Room
  /\ upTo \in Nat /\ skipped \subseteq Message
  /\ history \in [Room -> Bag \cup {NoHistory}]
  /\ loadRooms \in [todo : SUBSET Room, from : Nat, read : SUBSET Room, pages : [Room -> Bag]]
  /\ loadRoom \in [room : Room, from : Nat \ {0}, page : Bag, read : BOOLEAN]
                \cup {NoLoadRoom}
  /\ deleting \subseteq Room /\ raced \subseteq Room /\ active \in Room \cup {NoRoom}
  /\ list \in [room : Room \cup {NoRoom}, first : Nat, listens : BOOLEAN]

\* The messages of a room are shown without a hole, down to the oldest: what the
\* synchronisation, a page or a live message put into the database is in the list
\* between the messages around it.  Not if the list was changed behind a load (raced);
\* and of several messages with one timestamp the older page that is put before the
\* first of them brings none (skipped).
NoGap ==
  \A r \in Room : \A n \in In(db[r]) :
    (/\ n \notin Shown(r) /\ \E m \in Shown(r) : TimeOf[m] < TimeOf[n])
      => r \in raced \/ n \in skipped

\* A message is shown as often as it is stored at most, however pages, live messages
\* and the synchronisation follow each other, and however often each of them and each
\* registered chat manager stored it: no page brings again what is in the list.
ShownAsStored ==
  \A r \in Room : \A n \in Shown(r) \cap In(db[r]) :
    r \notin raced => history[r][n] <= db[r][n]

\* What is shown is stored: deleted messages do not stay, or come back, unless a
\* page of them had been read before.
ShownIsStored ==
  \A r \in Room :
    (r \notin raced /\ r \notin deleting) => Shown(r) \subseteq In(db[r])

==============================================================================
