----------------------------- MODULE HistorySync -----------------------------
(***************************************************************************)
(* The chat history of one client: the Message collection it is paged from *)
(* (ChatService.getMessagesInTimeRange), the pagination loop of the client *)
(* (ChatManager.syncMessagesForAllRooms), the live messages that arrive    *)
(* once the app has registered its callback, and the local database both   *)
(* write to.  Sessions end at any point, requests fail, the server deletes *)
(* old messages.                                                           *)
(***************************************************************************)
EXTENDS Integers, FiniteSets

CONSTANTS
  MaxTime,      \* bound: the clock stops there
  MaxMessages,  \* bound: messages ever posted
  Readable,     \* which of them are for a room of this client
  Limit,        \* MESSAGE_COUNT_LIMIT
  EpochLength,  \* SECONDS_PER_EPOCH, in ticks of the clock
  Delay,        \* epochAllowedDelayThreshold
  Day,          \* the time range of a first synchronisation
  Retention,    \* deleteMessagesOlderThanDays
  ClocksAgree,  \* no client's clock is ahead, and messages take a tick at least
  MaxBacklog,   \* bound: messages of begun epochs that have yet to arrive
  Failures      \* whether the server may be unavailable

ASSUME HistoryAssumption ==
  /\ MaxTime \in Nat /\ MaxMessages \in Nat /\ MaxBacklog \in Nat
  /\ Limit \in Nat \ {0} /\ EpochLength \in Nat \ {0}
  /\ Delay \in Nat /\ Day \in Nat /\ Retention \in Nat
  /\ ClocksAgree \in BOOLEAN /\ Failures \in BOOLEAN
  /\ Readable \subseteq 1 .. MaxMessages

Time       == 0 .. MaxTime
EpochOf(t) == t - (t % EpochLength)
\* The epochs a client can name, its clock being ahead by less than Delay.
Epoch      == {e \in 0 .. MaxTime + Delay : e % EpochLength = 0}

\* A document: the epoch is the client's, the timestamp the server's.
Message == [id : 1 .. MaxMessages, epoch : Epoch, timestamp : Time]

VARIABLES
  clock,   \* the server's and, for the range of a synchronisation, the client's
  posted,  \* messages posted so far
  stored,  \* the Message collection
  onWire,  \* messages stored and not yet published
  local,   \* the messages in the client's database ...
  copies,  \* ... and how often each was put there, up to MaxCopies
  phase,   \* what the session is doing
  from,    \* fromTimestamp of the next request
  to,      \* toTimestamp
  page,    \* the page being saved
  due      \* what it has to bring, unless the server deletes it (history)

vars == <<clock, posted, stored, onWire, local, copies, phase, from, to, page,
          due>>
server  == <<clock, posted, stored, onWire>>
history == <<local, copies>>
session == <<phase, from, to, page, due>>

MaxCopies == 4

------------------------------------------------------------------------------
Init ==
  /\ clock = 0
  /\ posted = 0
  /\ stored = {}
  /\ onWire = {}
  /\ local = {}
  /\ copies = [i \in 1 .. MaxMessages |-> 0]
  /\ phase = "closed"
  /\ from = 0
  /\ to = 0
  /\ page = {}
  /\ due = {}

------------------------------------------------------------------------------
\* The server

Tick ==
  /\ clock < MaxTime
  /\ clock' = clock + 1
  /\ UNCHANGED <<posted, stored, onWire, history, session>>

\* Messages whose epoch began by t and that arrive after t.
Backlog(messages, t) == {m \in messages : m.epoch <= t /\ m.timestamp > t}

\* persistMessage, for a message the epoch check has let through.
Persist(e) ==
  LET message == [id |-> posted + 1, epoch |-> e, timestamp |-> clock] IN
  /\ posted < MaxMessages
  /\ e - EpochOf(clock) < Delay /\ EpochOf(clock) - e < Delay
  /\ ClocksAgree => e < clock
  /\ posted' = posted + 1
  /\ stored' = stored \cup {message}
  /\ onWire' = onWire \cup {message}
  /\ \A t \in Time : Cardinality(Backlog(stored', t)) <= MaxBacklog
  /\ UNCHANGED <<clock, history, session>>

\* deleteMessagesOlderThanDate
Old == {m \in stored : m.timestamp < clock - Retention}

Cleanup ==
  /\ Old # {}
  /\ stored' = stored \ Old
  /\ due' = due \ Old
  /\ UNCHANGED <<clock, posted, onWire, history, phase, from, to, page>>

------------------------------------------------------------------------------
\* The local database.  put() under an automatic key never replaces anything.

Save(messages) ==
  /\ local' = local \cup messages
  /\ copies' = [i \in 1 .. MaxMessages |->
                  IF (\E m \in messages : m.id = i) /\ copies[i] < MaxCopies
                    THEN copies[i] + 1
                    ELSE copies[i]]

\* decryptMessage finds a room whose key fits.
Decryptable(messages)     == {m \in messages : m.id \in Readable}

\* The message is published, and every open session that has registered its
\* callback saves it.
Deliver(m) ==
  /\ onWire' = onWire \ {m}
  /\ IF phase = "live" THEN Save(Decryptable({m})) ELSE UNCHANGED history
  /\ UNCHANGED <<clock, posted, stored, session>>

\* getMaxTimestampForAllMessages
MaxTimestamps ==
  IF local = {} THEN {-1}
  ELSE {m.timestamp : m \in {n \in local : \A o \in local : o.timestamp <= n.timestamp}}

------------------------------------------------------------------------------
\* syncMessagesForAllRooms

\* sync_message_history reads the clock before anything else.
StartSync ==
  /\ phase = "closed"
  /\ phase' = "max"
  /\ to' = clock
  /\ UNCHANGED <<server, history, from, page, due>>

\* "The stored messages + 1ms", and a test for no messages after the addition.
FirstFrom_again(max) == max   \* mutant
FirstFrom(max)       == IF max + 1 = -1 THEN to - Day ELSE max + 1

InRange(messages, f, t) == {m \in messages : f <= m.timestamp /\ m.timestamp < t}

ReadMax ==
  /\ phase = "max"
  /\ \E max \in MaxTimestamps :
       /\ from' = FirstFrom(max)
       /\ due' = Decryptable(InRange(stored, from', to))
  /\ phase' = "fetch"
  /\ UNCHANGED <<server, history, to, page>>

\* getMessagesInTimeRange: the first messages in the order of their epochs,
\* in any order within an epoch.
InEpochOrder(messages, all) ==
  \A m \in messages, n \in all \ messages : m.epoch <= n.epoch

Pages(all) ==
  {messages \in SUBSET all :
     /\ \/ messages = all /\ Cardinality(all) <= Limit
        \/ Cardinality(messages) = Limit
     /\ InEpochOrder(messages, all)}

\* The answer is null for an empty range, which the service refuses, and if the
\* server is not available.
ValidRange == from < to

FetchPage ==
  /\ phase = "fetch"
  /\ ValidRange
  /\ page' \in Pages(InRange(stored, from, to))
  /\ phase' = "save"
  /\ UNCHANGED <<server, history, from, to, due>>

FetchNull ==
  /\ phase = "fetch"
  /\ ValidRange => Failures
  /\ phase' = IF ValidRange THEN "broken" ELSE "synced"
  /\ UNCHANGED <<server, history, from, to, page, due>>

\* returnedToTimestamp: the epoch of the last message of the page.
ReturnedTo(messages) ==
  {m.epoch : m \in {n \in messages : \A o \in messages : o.epoch <= n.epoch}}

\* The loop goes on after a full page, behind the last epoch it brought.
NextFrom_same(returnedTo) == returnedTo   \* mutant
NextFrom(returnedTo)      == returnedTo + 1

IsFullPage_never(messages) == FALSE   \* mutant: one page is all
IsFullPage(messages)       == Cardinality(messages) = Limit

SavePage ==
  /\ phase = "save"
  /\ Save(Decryptable(page))
  /\ page' = {}
  /\ IF IsFullPage(page)
       THEN /\ \E returnedTo \in ReturnedTo(page) : from' = NextFrom(returnedTo)
            /\ phase' = "fetch"
       ELSE /\ phase' = "synced"
            /\ UNCHANGED from
  /\ UNCHANGED <<server, to, due>>

\* The app loads what is in the local database and registers its callback.
Register ==
  /\ phase \in {"synced", "broken"}
  /\ phase' = "live"
  /\ UNCHANGED <<server, history, from, to, page, due>>

\* The browser page is closed, and may leave a page of messages half saved:
\* they are saved one by one, in the order they came in.
Close ==
  /\ phase # "closed"
  /\ \E saved \in SUBSET page :
       InEpochOrder(saved, page) /\ Save(Decryptable(saved))
  /\ phase' = "closed"
  /\ from' = 0
  /\ to' = 0
  /\ page' = {}
  /\ due' = {}
  /\ UNCHANGED server

------------------------------------------------------------------------------
Sync == ReadMax \/ FetchPage \/ FetchNull \/ SavePage

Next ==
  \/ Tick
  \/ \E e \in Epoch : Persist(e)
  \/ Cleanup
  \/ \E m \in onWire : Deliver(m)
  \/ StartSync
  \/ Sync
  \/ Register
  \/ Close

Spec     == Init /\ [][Next]_vars
\* Requests are answered, pages are saved.
FairSpec == Spec /\ WF_vars(Sync)

------------------------------------------------------------------------------
\* Properties

TypeOK ==
  /\ clock \in Time
  /\ posted \in 0 .. MaxMessages
  /\ stored \subseteq Message
  /\ onWire \subseteq Message
  /\ local \subseteq {m \in Message : m.id \in Readable}
  /\ copies \in [1 .. MaxMessages -> 0 .. MaxCopies]
  /\ phase \in {"closed", "max", "fetch", "save", "synced", "broken", "live"}
  /\ from \in Int
  /\ to \in Time
  /\ page \subseteq Message
  /\ due \subseteq stored

\* A synchronisation that came to its end has brought every message for this
\* client that was in its range when it started, although the pages are cut by
\* the clients' epochs and the range by the server's timestamps, messages
\* arrive late, and others come and go meanwhile.
NothingSkipped == phase = "synced" => due \subseteq local

\* The cursor only moves forward, so no page is fetched again for ever.  This
\* needs fewer than Limit messages to be in the backlog of one epoch.
CursorAdvances == [][phase = "save" /\ phase' = "fetch" => from' > from]_vars

\* A message that was handled in its own epoch is in the local database at
\* most three times: the pages of one synchronisation overlap in one epoch,
\* and it may arrive live as well; no later session brings it again.
StoredAtMostThrice ==
  \A m \in local : m.timestamp < m.epoch + EpochLength => copies[m.id] <= 3

\* The pagination loop ends.
SyncEnds == phase \in {"fetch", "save"} ~> phase \notin {"fetch", "save"}

==============================================================================
