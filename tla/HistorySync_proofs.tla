------------------------- MODULE HistorySync_proofs --------------------------
(***************************************************************************)
(* Theorems about HistorySync, for every number of messages, page size,    *)
(* epoch length and tolerance.                                             *)
(***************************************************************************)
EXTENDS HistorySync, FiniteSetTheorems, TLAPS

LEMMA HistoryTypes ==
  /\ Time \subseteq Nat
  /\ Epoch \subseteq Nat
  /\ \A m \in Message :
       /\ m.id \in 1 .. MaxMessages /\ m.epoch \in Nat /\ m.timestamp \in Time
       /\ m.timestamp \in Nat
BY HistoryAssumption DEF Time, Epoch, Message

\* What Save makes of the local database.
LEMMA SaveType ==
  ASSUME NEW S \in SUBSET Message, TypeOK, Save(Decryptable(S))
  PROVE  /\ local' \subseteq {m \in Message : m.id \in Readable}
         /\ copies' \in [1 .. MaxMessages -> 0 .. MaxCopies]
         /\ local' = local \cup Decryptable(S)
<1>1. local' \subseteq {m \in Message : m.id \in Readable}
  BY DEF Save, Decryptable, TypeOK
<1>2. \A i \in 1 .. MaxMessages :
        copies[i] \in 0 .. MaxCopies
        /\ (copies[i] < MaxCopies => copies[i] + 1 \in 0 .. MaxCopies)
  BY DEF TypeOK, MaxCopies
<1>. QED
  BY <1>1, <1>2 DEF Save

\* Type correctness: what is in the client's database came from the server and
\* is for a room of the client, and what a synchronisation still has to bring
\* is on the server.
LEMMA TypeInit == Init => TypeOK
BY HistoryAssumption DEF Init, TypeOK, Time, MaxCopies

LEMMA TypeNext == TypeOK /\ [Next]_vars => TypeOK'
<1>. SUFFICES ASSUME TypeOK, [Next]_vars PROVE TypeOK'
  OBVIOUS
<1>. USE DEF TypeOK
<1>1. CASE Tick
  <2>1. clock' \in Time
    BY <1>1, HistoryAssumption DEF Tick, Time
  <2>. QED
    BY <1>1, <2>1 DEF Tick, history, session
<1>2. ASSUME NEW e \in Epoch, Persist(e) PROVE TypeOK'
  <2>1. posted + 1 \in 1 .. MaxMessages /\ posted' \in 0 .. MaxMessages
    BY <1>2, HistoryAssumption DEF Persist
  <2>2. [id |-> posted + 1, epoch |-> e, timestamp |-> clock] \in Message
    BY <2>1 DEF Message
  <2>. QED
    BY <1>2, <2>1, <2>2 DEF Persist, history, session
<1>3. CASE Cleanup
  BY <1>3 DEF Cleanup, Old, history
<1>4. ASSUME NEW m \in onWire, Deliver(m) PROVE TypeOK'
  <2>1. CASE phase = "live"
    <3>1. /\ local' \subseteq {n \in Message : n.id \in Readable}
          /\ copies' \in [1 .. MaxMessages -> 0 .. MaxCopies]
      BY <1>4, <2>1, SaveType DEF Deliver
    <3>. QED
      BY <1>4, <2>1, <3>1 DEF Deliver, session
  <2>2. CASE phase # "live"
    BY <1>4, <2>2 DEF Deliver, session, history
  <2>. QED
    BY <2>1, <2>2
<1>5. CASE StartSync
  BY <1>5 DEF StartSync, server, history
<1>6. CASE ReadMax
  <2>1. PICK max \in MaxTimestamps :
          from' = FirstFrom(max) /\ due' = Decryptable(InRange(stored, from', to))
    BY <1>6 DEF ReadMax
  <2>2. max \in Int
    BY HistoryTypes DEF MaxTimestamps
  <2>3. from' \in Int
    BY <2>1, <2>2, HistoryTypes, HistoryAssumption DEF FirstFrom
  <2>4. due' \subseteq stored
    BY <2>1 DEF Decryptable, InRange
  <2>. QED
    BY <1>6, <2>3, <2>4 DEF ReadMax, server, history
<1>7. CASE FetchPage
  BY <1>7 DEF FetchPage, Pages, InRange, server, history
<1>8. CASE FetchNull
  BY <1>8 DEF FetchNull, server, history
<1>9. CASE SavePage
  <2>1. /\ local' \subseteq {m \in Message : m.id \in Readable}
        /\ copies' \in [1 .. MaxMessages -> 0 .. MaxCopies]
    BY <1>9, SaveType DEF SavePage
  <2>2. from' \in Int
    BY <1>9, HistoryTypes DEF SavePage, ReturnedTo, NextFrom
  <2>. QED
    BY <1>9, <2>1, <2>2 DEF SavePage, server
<1>10. CASE Register
  BY <1>10 DEF Register, server, history
<1>11. CASE Close
  <2>1. PICK saved \in SUBSET page : Save(Decryptable(saved))
    BY <1>11 DEF Close
  <2>2. /\ local' \subseteq {m \in Message : m.id \in Readable}
        /\ copies' \in [1 .. MaxMessages -> 0 .. MaxCopies]
    BY <2>1, SaveType
  <2>3. to' \in Time
    BY <1>11, HistoryAssumption DEF Close, Time
  <2>. QED
    BY <1>11, <2>2, <2>3 DEF Close, server
<1>12. CASE UNCHANGED vars
  BY <1>12 DEF vars
<1>. QED
  BY <1>1, <1>2, <1>3, <1>4, <1>5, <1>6, <1>7, <1>8, <1>9, <1>10, <1>11, <1>12
     DEF Next, Sync

THEOREM TypeCorrect == Spec => []TypeOK
BY TypeInit, TypeNext, PTL DEF Spec

------------------------------------------------------------------------------
(* Nothing is skipped.                                                     *)

\* With clocks that agree a message is stored after its epoch began.
TimeInv == \A m \in stored : m.epoch < m.timestamp

\* Every message that is due has been saved, or is in the page at hand, or is
\* ahead of the cursor, that is of the cursor after a full page.
Ahead(m) ==
  /\ IsFullPage(page)
  /\ \A e \in ReturnedTo(page) : NextFrom(e) <= m.timestamp

SyncInv ==
  /\ phase \in {"fetch", "save"} =>
       \A m \in due : m.timestamp < to /\ m.id \in Readable
  /\ phase = "fetch" => \A m \in due : m \in local \/ from <= m.timestamp
  /\ phase = "save"  => \A m \in due : m \in local \/ m \in page \/ Ahead(m)
  /\ phase = "synced" => due \subseteq local

SkipInv == TypeOK /\ TimeInv /\ SyncInv

LEMMA SkipInit == Init => SkipInv
BY TypeInit DEF Init, SkipInv, TimeInv, SyncInv

\* The actions outside the synchronisation take nothing from it.
LEMMA SyncKept ==
  ASSUME SyncInv, due' \subseteq due, local \subseteq local',
         UNCHANGED <<phase, from, to, page>>
  PROVE  SyncInv'
BY DEF SyncInv, Ahead, IsFullPage, ReturnedTo, NextFrom

\* A message in the range that did not fit into the page comes after it in the
\* order of the epochs, and so lies ahead of the cursor.
LEMMA PageCovers ==
  ASSUME SkipInv, FetchPage, NEW m \in due
  PROVE  m \in local \/ m \in page' \/ Ahead(m)'
<1>. DEFINE all == InRange(stored, from, to)
<1>1. page' \in SUBSET all /\ InEpochOrder(page', all)
      /\ (page' = all \/ Cardinality(page') = Limit)
  BY DEF FetchPage, Pages
<1>2. phase = "fetch" /\ m \in stored /\ m.timestamp < to
      /\ (m \in local \/ from <= m.timestamp)
  BY DEF FetchPage, SkipInv, SyncInv, TypeOK
<1>3. SUFFICES ASSUME m \in all, m \notin page' PROVE Ahead(m)'
  BY <1>2 DEF InRange
<1>4. Cardinality(page') = Limit
  BY <1>1, <1>3
<1>5. \A n \in page' : n.epoch <= m.epoch
  BY <1>1, <1>3 DEF InEpochOrder
<1>6. \A n \in page' : n.epoch + 1 <= m.timestamp
  <2>1. m.epoch < m.timestamp /\ m \in Message
    BY <1>2 DEF SkipInv, TimeInv, TypeOK
  <2>2. page' \subseteq Message
    BY <1>1 DEF InRange, SkipInv, TypeOK
  <2>. QED
    BY <1>5, <2>1, <2>2, HistoryTypes
<1>. QED
  BY <1>4, <1>6 DEF Ahead, IsFullPage, ReturnedTo, NextFrom

LEMMA SkipNext ==
  ASSUME ClocksAgree = TRUE, SkipInv, [Next]_vars
  PROVE  SkipInv'
<1>1. TypeOK'
  BY TypeNext DEF SkipInv
<1>. SUFFICES TimeInv' /\ SyncInv'
  BY <1>1 DEF SkipInv
<1>. USE DEF SkipInv
<1>2. CASE Tick
  BY <1>2, SyncKept DEF Tick, TimeInv, history, session
<1>3. ASSUME NEW e \in Epoch, Persist(e) PROVE TimeInv' /\ SyncInv'
  <2>1. TimeInv'
    BY <1>3 DEF Persist, TimeInv
  <2>2. SyncInv'
    BY <1>3, SyncKept DEF Persist, history, session
  <2>. QED
    BY <2>1, <2>2
<1>4. CASE Cleanup
  BY <1>4, SyncKept DEF Cleanup, Old, TimeInv, history
<1>5. ASSUME NEW m \in onWire, Deliver(m) PROVE TimeInv' /\ SyncInv'
  <2>1. local \subseteq local'
    BY <1>5 DEF Deliver, Save, history
  <2>. QED
    BY <1>5, <2>1, SyncKept DEF Deliver, TimeInv, session
<1>6. CASE StartSync
  BY <1>6 DEF StartSync, TimeInv, SyncInv, server, history
<1>7. CASE ReadMax
  <2>1. \A m \in due' : from' <= m.timestamp /\ m.timestamp < to /\ m.id \in Readable
    BY <1>7 DEF ReadMax, Decryptable, InRange
  <2>. QED
    BY <1>7, <2>1 DEF ReadMax, TimeInv, SyncInv, server, history
<1>8. CASE FetchPage
  <2>1. \A m \in due : m \in local \/ m \in page' \/ Ahead(m)'
    BY <1>8, PageCovers
  <2>. QED
    BY <1>8, <2>1 DEF FetchPage, TimeInv, SyncInv, server, history
<1>9. CASE FetchNull
  <2>1. phase' = "synced" => due \subseteq local
    <3>1. SUFFICES ASSUME ~ ValidRange, NEW m \in due PROVE m \in local
      BY <1>9 DEF FetchNull
    <3>2. m.timestamp < to /\ m.timestamp \in Nat /\ to \in Nat /\ from \in Int
      BY <1>9, HistoryTypes DEF FetchNull, SyncInv, TypeOK
    <3>3. m \in local \/ from <= m.timestamp
      BY <1>9 DEF FetchNull, SyncInv
    <3>. QED
      BY <3>1, <3>2, <3>3 DEF ValidRange
  <2>. QED
    BY <1>9, <2>1 DEF FetchNull, TimeInv, SyncInv, server, history
<1>10. CASE SavePage
  <2>1. local' = local \cup Decryptable(page)
    BY <1>10 DEF SavePage, Save
  <2>2. \A m \in due : m \in local' \/ Ahead(m)
    BY <1>10, <2>1 DEF SavePage, SyncInv, Decryptable
  <2>3. CASE IsFullPage(page)
    <3>1. PICK returnedTo \in ReturnedTo(page) : from' = NextFrom(returnedTo)
      BY <1>10, <2>3 DEF SavePage
    <3>2. \A m \in due : m \in local' \/ from' <= m.timestamp
      BY <2>2, <3>1 DEF Ahead
    <3>. QED
      BY <1>10, <2>3, <3>2 DEF SavePage, TimeInv, SyncInv, server
  <2>4. CASE ~IsFullPage(page)
    BY <1>10, <2>2, <2>4 DEF SavePage, TimeInv, SyncInv, Ahead, server
  <2>. QED
    BY <2>3, <2>4
<1>11. CASE Register
  BY <1>11 DEF Register, TimeInv, SyncInv, server, history
<1>12. CASE Close
  BY <1>12 DEF Close, TimeInv, SyncInv, server, history
<1>13. CASE UNCHANGED vars
  BY <1>13, SyncKept DEF vars, TimeInv
<1>. QED
  BY <1>2, <1>3, <1>4, <1>5, <1>6, <1>7, <1>8, <1>9, <1>10, <1>11, <1>12, <1>13
     DEF Next, Sync

\* If no client's clock is ahead of the server's, a synchronisation that came
\* to its end has brought every message it had to, for every page size and
\* however late messages arrive.
THEOREM NothingIsSkipped ==
  ASSUME ClocksAgree = TRUE
  PROVE  Spec => []NothingSkipped
<1>1. SkipInv => NothingSkipped
  BY DEF SkipInv, SyncInv, NothingSkipped
<1>. QED
  BY <1>1, SkipInit, SkipNext, PTL DEF Spec

------------------------------------------------------------------------------
(* The cursor advances.                                                    *)

BacklogInv ==
  /\ IsFiniteSet(stored)
  /\ \A t \in Time : Cardinality(Backlog(stored, t)) <= MaxBacklog

\* A full page brings a message of an epoch the cursor has not passed.
PageInv == phase = "save" /\ IsFullPage(page) => \E m \in page : from <= m.epoch

CursorInv == TypeOK /\ BacklogInv /\ PageInv

LEMMA CursorInit == Init => CursorInv
<1>. SUFFICES ASSUME Init PROVE BacklogInv /\ PageInv
  BY TypeInit DEF CursorInv
<1>1. \A t \in Time : Backlog(stored, t) = {}
  BY DEF Init, Backlog
<1>2. \A t \in Time : Cardinality(Backlog(stored, t)) = 0
  BY <1>1, FS_EmptySet
<1>3. IsFiniteSet(stored)
  BY FS_EmptySet DEF Init
<1>4. \A t \in Time : Cardinality(Backlog(stored, t)) <= MaxBacklog
  BY <1>2, HistoryAssumption
<1>5. PageInv
  BY DEF Init, PageInv
<1>. QED
  BY <1>3, <1>4, <1>5 DEF BacklogInv

\* Only as many messages as the backlog holds can arrive behind the cursor, and
\* they do not fill a page.
LEMMA FullPageIsAhead ==
  ASSUME MaxBacklog < Limit, CursorInv, FetchPage, IsFullPage(page')
  PROVE  \E m \in page' : from <= m.epoch
<1>. SUFFICES ASSUME \A m \in page' : ~(from <= m.epoch) PROVE FALSE
  OBVIOUS
<1>1. /\ page' \subseteq InRange(stored, from, to) /\ from < to
      /\ page' \subseteq stored
  BY DEF FetchPage, ValidRange, Pages, InRange
<1>2. Cardinality(page') = Limit
  BY DEF IsFullPage
<1>3. /\ from \in Int /\ to \in Time /\ to \in Nat /\ stored \subseteq Message
      /\ IsFiniteSet(stored)
  BY HistoryTypes DEF CursorInv, TypeOK, BacklogInv
<1>4. page' # {}
  BY <1>2, FS_EmptySet, HistoryAssumption
<1>5. from - 1 \in Time
  <2>1. PICK m \in page' : m.epoch \in Nat /\ ~(from <= m.epoch)
    BY <1>1, <1>3, <1>4, HistoryTypes
  <2>. QED
    BY <1>1, <1>3, <2>1, HistoryAssumption DEF Time
<1>6. page' \subseteq Backlog(stored, from - 1)
  <2>1. ASSUME NEW m \in page'
        PROVE  m \in stored /\ m.epoch <= from - 1 /\ m.timestamp > from - 1
    <3>1. m \in stored /\ from <= m.timestamp /\ ~(from <= m.epoch)
      BY <1>1 DEF InRange
    <3>2. m.epoch \in Nat /\ m.timestamp \in Nat
      BY <1>3, <3>1, HistoryTypes
    <3>. QED
      BY <1>3, <3>1, <3>2
  <2>. QED
    BY <2>1 DEF Backlog
<1>7. Backlog(stored, from - 1) \subseteq stored
  BY DEF Backlog
<1>8. IsFiniteSet(Backlog(stored, from - 1))
  BY <1>3, <1>7, FS_Subset
<1>9. /\ Cardinality(page') <= Cardinality(Backlog(stored, from - 1))
      /\ Cardinality(Backlog(stored, from - 1)) \in Nat
  BY <1>6, <1>8, FS_Subset, FS_CardinalityType
<1>10. Cardinality(Backlog(stored, from - 1)) <= MaxBacklog
  BY <1>5 DEF CursorInv, BacklogInv
<1>. QED
  BY <1>2, <1>9, <1>10, HistoryAssumption

\* Cleaning up makes no backlog longer.
LEMMA CleanupBacklog ==
  ASSUME BacklogInv, Cleanup
  PROVE  BacklogInv'
<1>1. stored' \subseteq stored
  BY DEF Cleanup
<1>2. IsFiniteSet(stored) /\ IsFiniteSet(stored')
  BY <1>1, FS_Subset DEF BacklogInv
<1>3. ASSUME NEW t \in Time PROVE Cardinality(Backlog(stored', t)) <= MaxBacklog
  <2>1. Backlog(stored', t) \subseteq Backlog(stored, t) /\ Backlog(stored, t) \subseteq stored
    BY <1>1 DEF Backlog
  <2>2. IsFiniteSet(Backlog(stored, t)) /\ IsFiniteSet(Backlog(stored', t))
    BY <1>2, <2>1, FS_Subset
  <2>3. Cardinality(Backlog(stored', t)) <= Cardinality(Backlog(stored, t))
    BY <2>1, <2>2, FS_Subset
  <2>4. Cardinality(Backlog(stored', t)) \in Nat /\ Cardinality(Backlog(stored, t)) \in Nat
    BY <2>2, FS_CardinalityType
  <2>5. Cardinality(Backlog(stored, t)) <= MaxBacklog
    BY DEF BacklogInv
  <2>. QED
    BY <2>3, <2>4, <2>5, HistoryAssumption
<1>. QED
  BY <1>2, <1>3 DEF BacklogInv

LEMMA CursorNext ==
  ASSUME MaxBacklog < Limit, CursorInv, [Next]_vars
  PROVE  CursorInv'
<1>1. TypeOK'
  BY TypeNext DEF CursorInv
<1>. SUFFICES BacklogInv' /\ PageInv'
  BY <1>1 DEF CursorInv
<1>. USE DEF CursorInv
<1>2. CASE Tick
  BY <1>2 DEF Tick, BacklogInv, PageInv, IsFullPage, history, session
<1>3. ASSUME NEW e \in Epoch, Persist(e) PROVE BacklogInv' /\ PageInv'
  <2>1. IsFiniteSet(stored')
    BY <1>3, FS_AddElement DEF Persist, BacklogInv
  <2>2. \A t \in Time : Cardinality(Backlog(stored', t)) <= MaxBacklog
    BY <1>3 DEF Persist
  <2>3. PageInv'
    BY <1>3 DEF Persist, PageInv, IsFullPage, session
  <2>. QED
    BY <2>1, <2>2, <2>3 DEF BacklogInv
<1>4. CASE Cleanup
  <2>1. PageInv'
    BY <1>4 DEF Cleanup, PageInv, IsFullPage
  <2>. QED
    BY <1>4, <2>1, CleanupBacklog
<1>5. ASSUME NEW m \in onWire, Deliver(m) PROVE BacklogInv' /\ PageInv'
  BY <1>5 DEF Deliver, BacklogInv, PageInv, IsFullPage, session
<1>6. CASE StartSync
  BY <1>6 DEF StartSync, BacklogInv, PageInv, server
<1>7. CASE ReadMax
  BY <1>7 DEF ReadMax, BacklogInv, PageInv, server
<1>8. CASE FetchPage
  <2>1. IsFullPage(page') => \E m \in page' : from <= m.epoch
    BY <1>8, FullPageIsAhead
  <2>. QED
    BY <1>8, <2>1 DEF FetchPage, BacklogInv, PageInv, IsFullPage, server
<1>9. CASE FetchNull
  BY <1>9 DEF FetchNull, BacklogInv, PageInv, server
<1>10. CASE SavePage
  BY <1>10 DEF SavePage, BacklogInv, PageInv, server
<1>11. CASE Register
  BY <1>11 DEF Register, BacklogInv, PageInv, server
<1>12. CASE Close
  BY <1>12 DEF Close, BacklogInv, PageInv, server
<1>13. CASE UNCHANGED vars
  BY <1>13 DEF vars, BacklogInv, PageInv, IsFullPage
<1>. QED
  BY <1>2, <1>3, <1>4, <1>5, <1>6, <1>7, <1>8, <1>9, <1>10, <1>11, <1>12, <1>13
     DEF Next, Sync

LEMMA CursorStep ==
  ASSUME CursorInv, [Next]_vars, phase = "save", phase' = "fetch"
  PROVE  from' > from
<1>1. SavePage
  BY DEF Next, Sync, vars, Tick, Persist, Cleanup, Deliver, StartSync, ReadMax,
         FetchPage, FetchNull, Register, Close, session
<1>2. IsFullPage(page)
  BY <1>1 DEF SavePage
<1>3. PICK returnedTo \in ReturnedTo(page) : from' = returnedTo + 1
  BY <1>1, <1>2 DEF SavePage, NextFrom
<1>4. PICK m \in page : from <= m.epoch
  BY <1>2 DEF CursorInv, PageInv
<1>5. m.epoch <= returnedTo
  BY <1>3 DEF ReturnedTo
<1>6. returnedTo \in Nat /\ m.epoch \in Nat /\ from \in Int
  BY <1>3, HistoryTypes DEF ReturnedTo, CursorInv, TypeOK
<1>. QED
  BY <1>3, <1>4, <1>5, <1>6

\* As long as fewer than Limit messages of begun epochs have yet to arrive, no
\* request of a synchronisation asks for the same range again.
THEOREM TheCursorAdvances ==
  ASSUME MaxBacklog < Limit
  PROVE  Spec => CursorAdvances
<1>1. CursorInv /\ [Next]_vars => [phase = "save" /\ phase' = "fetch" => from' > from]_vars
  BY CursorStep
<1>. QED
  BY <1>1, CursorInit, CursorNext, PTL DEF Spec, CursorAdvances

------------------------------------------------------------------------------
(* Nothing is stored more than three times.                                *)

Known == stored \cup onWire \cup local \cup page

\* The server numbers the messages, and what was counted is there.
IdentityInv ==
  /\ \A m \in Known : m.id <= posted
  /\ \A m, n \in Known : m.id = n.id => m = n
  /\ \A i \in 1 .. MaxMessages : copies[i] > 0 => \E m \in local : m.id = i

\* A page was asked for from the cursor on.
RangeInv ==
  /\ page # {} => phase = "save"
  /\ \A m \in page : from <= m.timestamp

\* Handled in its own epoch.
Timely(m) == m.timestamp < m.epoch + EpochLength

\* A message that may still arrive live has been saved twice at most; one that the
\* cursor has yet to pass has been saved once at most, by this synchronisation,
\* whose cursor is in the middle of its epoch.
CountInv ==
  \A m \in local : Timely(m) =>
    /\ copies[m.id] <= IF m \in onWire THEN 2 ELSE 3
    /\ phase \in {"fetch", "save"} /\ from <= m.timestamp =>
         copies[m.id] <= 1 /\ m.epoch < from

CopiesInv == CursorInv /\ IdentityInv /\ RangeInv /\ CountInv

LEMMA CopiesInit == Init => CopiesInv
BY CursorInit DEF Init, CopiesInv, IdentityInv, RangeInv, CountInv, Known

\* Epochs are a whole number of lengths apart.
LEMMA NextEpoch ==
  ASSUME NEW d \in Epoch, NEW e \in Epoch, d < e
  PROVE  d + EpochLength <= e
<1>1. /\ d \in Nat /\ e \in Nat /\ d % EpochLength = 0 /\ e % EpochLength = 0
      /\ EpochLength \in Nat \ {0}
  BY HistoryAssumption DEF Epoch
<1>2. PICK L \in Nat \ {0} : L = EpochLength
  BY <1>1
<1>3. PICK p \in Nat : d = L * p
  <2>1. d \div L \in Nat /\ d = L * (d \div L) + (d % L)
    BY <1>1, <1>2
  <2> QED BY <1>1, <1>2, <2>1
<1>4. PICK q \in Nat : e = L * q
  <2>1. e \div L \in Nat /\ e = L * (e \div L) + (e % L)
    BY <1>1, <1>2
  <2> QED BY <1>1, <1>2, <2>1
<1>5. p < q
  <2>1. SUFFICES ASSUME q <= p PROVE FALSE
    OBVIOUS
  <2>2. PICK k \in Nat : p = q + k
    BY <2>1
  <2>3. L * p = L * q + L * k /\ L * k >= 0
    BY <2>2
  <2> QED BY <1>3, <1>4, <2>3
<1>6. PICK k \in Nat : q = p + 1 + k
  BY <1>5
<1>7. L * q = L * p + L + L * k /\ L * k >= 0
  BY <1>6
<1> QED BY <1>2, <1>3, <1>4, <1>7

\* The actions that change neither the client's database nor the session, and let
\* nothing appear on the wire.
LEMMA CountKept ==
  ASSUME CopiesInv, onWire' \subseteq onWire, UNCHANGED <<local, copies>>,
         \/ UNCHANGED <<phase, from, page>>
         \/ phase' \notin {"fetch", "save"} /\ page' = {}
  PROVE  RangeInv' /\ CountInv'
<1>1. RangeInv'
  BY DEF CopiesInv, RangeInv
<1>2. ASSUME NEW m \in local, Timely(m)
      PROVE  /\ copies[m.id] <= IF m \in onWire' THEN 2 ELSE 3
             /\ phase' \in {"fetch", "save"} /\ from' <= m.timestamp =>
                  copies[m.id] <= 1 /\ m.epoch < from'
  <2>1. copies[m.id] \in 0 .. MaxCopies
    BY HistoryTypes DEF CopiesInv, CursorInv, TypeOK
  <2>2. /\ copies[m.id] <= IF m \in onWire THEN 2 ELSE 3
        /\ phase \in {"fetch", "save"} /\ from <= m.timestamp =>
             copies[m.id] <= 1 /\ m.epoch < from
    BY <1>2 DEF CopiesInv, CountInv
  <2>3. copies[m.id] <= IF m \in onWire' THEN 2 ELSE 3
    BY <2>1, <2>2 DEF MaxCopies
  <2> QED BY <2>2, <2>3
<1>3. CountInv'
  BY <1>2 DEF CountInv, Timely
<1> QED BY <1>1, <1>3

\* What Save makes of the counts.
LEMMA SaveCounts ==
  ASSUME NEW S \in SUBSET Message, CopiesInv, S \subseteq Known, Save(Decryptable(S)),
         \A m, n \in Known : m.id = n.id => m = n
  PROVE  /\ \A m \in local' : m \in Known /\ m \in Message /\ m.id \in 1 .. MaxMessages
         /\ \A m \in local' : copies'[m.id] \in Nat /\ copies[m.id] \in Nat
         /\ \A m \in local' \ S : m \in local /\ copies'[m.id] = copies[m.id]
         /\ \A m \in local' : copies'[m.id] <= copies[m.id] + 1
         /\ \A m \in local' \ local : m \in S /\ copies[m.id] = 0
         /\ \A i \in 1 .. MaxMessages : copies'[i] > 0 => \E m \in local' : m.id = i
<1>1. /\ local' = local \cup Decryptable(S) /\ Decryptable(S) \subseteq S
      /\ \A i \in 1 .. MaxMessages :
           copies'[i] = IF (\E m \in Decryptable(S) : m.id = i) /\ copies[i] < MaxCopies
                          THEN copies[i] + 1 ELSE copies[i]
  BY DEF Save, Decryptable
<1>2. /\ copies \in [1 .. MaxMessages -> 0 .. MaxCopies] /\ local \subseteq Message
      /\ \A i \in 1 .. MaxMessages : copies[i] > 0 => \E m \in local : m.id = i
  BY DEF CopiesInv, CursorInv, TypeOK, IdentityInv
<1>3. \A m \in local' : m \in Known /\ m \in Message /\ m.id \in 1 .. MaxMessages
  BY <1>1, <1>2, HistoryTypes DEF Known
<1>4. \A m \in local' : copies'[m.id] \in Nat /\ copies[m.id] \in Nat
  BY <1>1, <1>2, <1>3
<1>5. \A m \in local' \ S : m \in local /\ copies'[m.id] = copies[m.id]
  BY <1>1, <1>3 DEF Known
<1>6. \A m \in local' : copies'[m.id] <= copies[m.id] + 1
  BY <1>1, <1>3, <1>4
<1>7. ASSUME NEW m \in local' \ local PROVE m \in S /\ copies[m.id] = 0
  <2>1. m \in S /\ m \in Known /\ m.id \in 1 .. MaxMessages /\ copies[m.id] \in Nat
    BY <1>1, <1>3, <1>4, <1>7
  <2>2. SUFFICES ASSUME copies[m.id] > 0 PROVE FALSE
    BY <2>1
  <2>3. PICK n \in local : n.id = m.id
    BY <1>2, <2>1, <2>2
  <2> QED BY <1>7, <2>1, <2>3 DEF Known
<1>8. ASSUME NEW i \in 1 .. MaxMessages, copies'[i] > 0 PROVE \E m \in local' : m.id = i
  <2>1. CASE copies'[i] = copies[i]
    BY <1>1, <1>2, <1>8, <2>1
  <2>2. CASE copies'[i] # copies[i]
    BY <1>1, <2>2
  <2> QED BY <2>1, <2>2
<1> QED BY <1>3, <1>4, <1>5, <1>6, <1>7, <1>8

\* What was saved of the page at hand.
LEMMA SavedPage ==
  ASSUME CopiesInv, NEW S \in SUBSET page, Save(Decryptable(S))
  PROVE  /\ \A m \in local' : Timely(m) => copies'[m.id] <= IF m \in onWire THEN 2 ELSE 3
         /\ \A i \in 1 .. MaxMessages : copies'[i] > 0 => \E m \in local' : m.id = i
         /\ local' \subseteq Known
<1>1. S \subseteq Message /\ S \subseteq Known /\ \A m, n \in Known : m.id = n.id => m = n
  BY DEF CopiesInv, CursorInv, TypeOK, Known, IdentityInv
<1>2. /\ \A m \in local' : m \in Known /\ m \in Message /\ m.id \in 1 .. MaxMessages
      /\ \A m \in local' : copies'[m.id] \in Nat /\ copies[m.id] \in Nat
      /\ \A m \in local' \ S : m \in local /\ copies'[m.id] = copies[m.id]
      /\ \A m \in local' : copies'[m.id] <= copies[m.id] + 1
      /\ \A m \in local' \ local : m \in S /\ copies[m.id] = 0
      /\ \A i \in 1 .. MaxMessages : copies'[i] > 0 => \E m \in local' : m.id = i
  BY <1>1, SaveCounts
<1>3. ASSUME NEW m \in local', Timely(m)
      PROVE  copies'[m.id] <= IF m \in onWire THEN 2 ELSE 3
  <2>1. copies'[m.id] \in Nat /\ copies[m.id] \in Nat /\ copies'[m.id] <= copies[m.id] + 1
    BY <1>2
  <2>2. CASE m \notin S
    BY <1>2, <1>3, <2>2 DEF CopiesInv, CountInv
  <2>3. CASE m \in S /\ m \in local
    <3>1. copies[m.id] <= 1
      BY <1>3, <2>3 DEF CopiesInv, CountInv, RangeInv
    <3> QED BY <2>1, <3>1
  <2>4. CASE m \notin local
    BY <1>2, <2>1, <2>4
  <2> QED BY <2>2, <2>3, <2>4
<1> QED BY <1>2, <1>3

\* After a full page the cursor is in the middle of the epoch of what is ahead of it
\* and was saved, or past it.
LEMMA PassedOrOnce ==
  ASSUME CopiesInv, SavePage, phase' = "fetch",
         NEW m \in local', Timely(m), from' <= m.timestamp
  PROVE  copies'[m.id] <= 1 /\ m.epoch < from'
<1>1. page \subseteq Message /\ page \subseteq Known
      /\ \A x, y \in Known : x.id = y.id => x = y
  BY DEF CopiesInv, CursorInv, TypeOK, Known, IdentityInv
<1>2. /\ m \in Message /\ copies'[m.id] \in Nat /\ copies[m.id] \in Nat
      /\ m \notin page => m \in local /\ copies'[m.id] = copies[m.id]
      /\ copies'[m.id] <= copies[m.id] + 1
      /\ m \notin local => m \in page /\ copies[m.id] = 0
  BY <1>1, SaveCounts DEF SavePage
<1>3. PICK r \in ReturnedTo(page) : from' = r + 1
  BY DEF SavePage, NextFrom
<1>4. r \in Epoch /\ \A n \in page : n.epoch <= r
  BY <1>1, <1>3 DEF ReturnedTo, Message
<1>5. phase = "save" /\ from' > from
  <2>1. phase = "save" /\ CursorInv /\ [Next]_vars
    BY DEF SavePage, CopiesInv, Next, Sync
  <2> QED BY <2>1, CursorStep
<1>6. /\ m.epoch \in Nat /\ m.epoch \in Epoch /\ m.timestamp \in Nat /\ r \in Nat
      /\ from \in Int /\ from' \in Int /\ EpochLength \in Nat
  BY <1>2, <1>3, <1>4, HistoryTypes, HistoryAssumption
     DEF Message, CopiesInv, CursorInv, TypeOK
<1>7. m \in local => copies[m.id] <= 1 /\ m.epoch < from
  BY <1>5, <1>6 DEF CopiesInv, CountInv
<1>8. CASE m \notin page
  BY <1>2, <1>5, <1>6, <1>7, <1>8
<1>9. CASE m \in page /\ m \notin local
  BY <1>2, <1>3, <1>4, <1>6, <1>9
<1>10. CASE m \in page /\ m \in local
  <2>1. m.epoch < r
    BY <1>3, <1>5, <1>6, <1>7, <1>10
  <2>2. m.epoch + EpochLength <= r
    BY <1>4, <1>6, <2>1, NextEpoch
  <2> QED BY <1>3, <1>6, <2>2 DEF Timely
<1> QED BY <1>8, <1>9, <1>10

\* A message that is delivered has not been before.
LEMMA DeliveredOnce ==
  ASSUME CopiesInv, NEW d \in onWire, Deliver(d)
  PROVE  IdentityInv' /\ RangeInv' /\ CountInv'
<1>1. CASE phase # "live"
  <2>1. UNCHANGED <<local, copies, stored, page, posted, phase, from>>
        /\ onWire' \subseteq onWire
    BY <1>1 DEF Deliver, history, session
  <2>2. IdentityInv'
    BY <2>1 DEF CopiesInv, IdentityInv, Known
  <2> QED BY <2>1, <2>2, CountKept
<1>2. CASE phase = "live"
  <2>1. /\ Save(Decryptable({d})) /\ onWire' = onWire \ {d}
        /\ UNCHANGED <<stored, page, posted, phase, from>>
    BY <1>2 DEF Deliver, session
  <2>2. {d} \subseteq Message /\ {d} \subseteq Known /\ d \in Known
        /\ \A x, y \in Known : x.id = y.id => x = y
    BY DEF CopiesInv, CursorInv, TypeOK, Known, IdentityInv
  <2>3. /\ \A m \in local' : m \in Known /\ m \in Message /\ m.id \in 1 .. MaxMessages
        /\ \A m \in local' : copies'[m.id] \in Nat /\ copies[m.id] \in Nat
        /\ \A m \in local' \ {d} : m \in local /\ copies'[m.id] = copies[m.id]
        /\ \A m \in local' : copies'[m.id] <= copies[m.id] + 1
        /\ \A m \in local' \ local : m \in {d} /\ copies[m.id] = 0
        /\ \A i \in 1 .. MaxMessages : copies'[i] > 0 => \E m \in local' : m.id = i
    BY <2>1, <2>2, SaveCounts
  <2>4. IdentityInv'
    <3>1. Known' \subseteq Known
      BY <2>1, <2>3 DEF Known
    <3> QED BY <2>1, <2>3, <3>1 DEF CopiesInv, IdentityInv
  <2>5. RangeInv'
    BY <2>1 DEF CopiesInv, RangeInv
  <2>6. ASSUME NEW m \in local', Timely(m)
        PROVE  copies'[m.id] <= IF m \in onWire' THEN 2 ELSE 3
    <3>1. CASE m # d
      BY <2>1, <2>3, <2>6, <3>1 DEF CopiesInv, CountInv
    <3>2. CASE m = d
      <4>1. copies[m.id] <= 2
        BY <2>3, <2>6, <3>2 DEF CopiesInv, CountInv
      <4> QED BY <2>1, <2>3, <3>2, <4>1
    <3> QED BY <3>1, <3>2
  <2>7. CountInv'
    BY <1>2, <2>1, <2>6 DEF CountInv, Timely
  <2> QED BY <2>4, <2>5, <2>7
<1> QED BY <1>1, <1>2

\* Every message of the client's database is behind the cursor of a
\* synchronisation that starts.
LEMMA StartsBehind ==
  ASSUME CopiesInv, ReadMax, NEW m \in local
  PROVE  m.timestamp < from'
<1>1. PICK max \in MaxTimestamps : from' = FirstFrom(max)
  BY DEF ReadMax
<1>2. local \subseteq Message
  BY DEF CopiesInv, CursorInv, TypeOK
<1>3. PICK n \in local : max = n.timestamp /\ \A o \in local : o.timestamp <= n.timestamp
  BY <1>1 DEF MaxTimestamps
<1>4. m.timestamp \in Nat /\ max \in Nat /\ m.timestamp <= max
  BY <1>2, <1>3, HistoryTypes
<1> QED BY <1>1, <1>4 DEF FirstFrom

LEMMA CopiesNext ==
  ASSUME MaxBacklog < Limit, CopiesInv, [Next]_vars
  PROVE  CopiesInv'
<1>1. CursorInv'
  BY CursorNext DEF CopiesInv
<1> SUFFICES IdentityInv' /\ RangeInv' /\ CountInv'
  BY <1>1 DEF CopiesInv
<1>2. CASE Tick \/ UNCHANGED vars
  <2>1. UNCHANGED <<posted, stored, onWire, local, copies, phase, from, page>>
    BY <1>2 DEF Tick, history, session, vars
  <2>2. IdentityInv'
    BY <2>1 DEF CopiesInv, IdentityInv, Known
  <2> QED BY <2>1, <2>2, CountKept
<1>3. ASSUME NEW e \in Epoch, Persist(e) PROVE IdentityInv' /\ RangeInv' /\ CountInv'
  <2> DEFINE message == [id |-> posted + 1, epoch |-> e, timestamp |-> clock]
  <2>1. /\ posted' = posted + 1 /\ posted \in Nat /\ posted < MaxMessages
        /\ stored' = stored \cup {message} /\ onWire' = onWire \cup {message}
        /\ UNCHANGED <<local, copies, phase, from, page>>
    BY <1>3 DEF Persist, CopiesInv, CursorInv, TypeOK, history, session
  <2>2. message.id = posted + 1
    OBVIOUS
  <2> HIDE DEF message
  <2>3. Known' = Known \cup {message}
    BY <2>1 DEF Known
  <2>4. \A m \in Known : m \in Message /\ m.id \in Nat /\ m.id <= posted
    BY HistoryTypes DEF CopiesInv, IdentityInv, CursorInv, TypeOK, Known
  <2>5. \A m \in Known : m.id # message.id
    BY <2>1, <2>2, <2>4
  <2>6. IdentityInv'
    <3>1. \A m \in Known' : m.id <= posted'
      BY <2>1, <2>2, <2>3, <2>4
    <3>2. \A m, n \in Known' : m.id = n.id => m = n
      BY <2>3, <2>5 DEF CopiesInv, IdentityInv
    <3>3. \A i \in 1 .. MaxMessages : copies'[i] > 0 => \E m \in local' : m.id = i
      BY <2>1 DEF CopiesInv, IdentityInv
    <3> QED BY <3>1, <3>2, <3>3 DEF IdentityInv
  <2>7. message \notin local
    BY <2>5 DEF Known
  <2>8. RangeInv' /\ CountInv'
    BY <2>1, <2>7 DEF CopiesInv, RangeInv, CountInv, Timely
  <2> QED BY <2>6, <2>8
<1>4. CASE Cleanup
  <2>1. /\ stored' \subseteq stored
        /\ UNCHANGED <<posted, onWire, local, copies, phase, from, page>>
    BY <1>4 DEF Cleanup, history
  <2>2. IdentityInv'
    BY <2>1 DEF CopiesInv, IdentityInv, Known
  <2> QED BY <2>1, <2>2, CountKept
<1>5. ASSUME NEW m \in onWire, Deliver(m) PROVE IdentityInv' /\ RangeInv' /\ CountInv'
  BY <1>5, DeliveredOnce
<1>6. CASE StartSync \/ FetchNull \/ Register
  <2>1. /\ UNCHANGED <<posted, stored, onWire, local, copies, page>>
        /\ phase' \notin {"fetch", "save"} /\ phase # "save"
    BY <1>6 DEF StartSync, FetchNull, Register, server, history
  <2>2. page' = {}
    BY <2>1 DEF CopiesInv, RangeInv
  <2>3. IdentityInv'
    BY <2>1 DEF CopiesInv, IdentityInv, Known
  <2> QED BY <2>1, <2>2, <2>3, CountKept
<1>7. CASE ReadMax
  <2>1. UNCHANGED <<posted, stored, onWire, local, copies, page>> /\ phase = "max"
    BY <1>7 DEF ReadMax, server, history
  <2>2. page' = {}
    BY <2>1 DEF CopiesInv, RangeInv
  <2>3. IdentityInv'
    BY <2>1 DEF CopiesInv, IdentityInv, Known
  <2>4. ASSUME NEW m \in local PROVE ~(from' <= m.timestamp)
    <3>1. m.timestamp \in Nat /\ from' \in Int
      BY <1>1, HistoryTypes DEF CopiesInv, CursorInv, TypeOK
    <3> QED BY <1>7, <3>1, StartsBehind
  <2>5. CountInv'
    BY <2>1, <2>4 DEF CopiesInv, CountInv, Timely
  <2> QED BY <2>2, <2>3, <2>5 DEF RangeInv
<1>8. CASE FetchPage
  <2>1. /\ UNCHANGED <<posted, stored, onWire, local, copies, from>>
        /\ phase = "fetch" /\ phase' = "save" /\ page' \subseteq InRange(stored, from, to)
    BY <1>8 DEF FetchPage, Pages, server, history
  <2>2. Known' \subseteq Known
    BY <2>1 DEF Known, InRange
  <2>3. IdentityInv'
    BY <2>1, <2>2 DEF CopiesInv, IdentityInv
  <2>4. RangeInv'
    BY <2>1 DEF RangeInv, InRange
  <2>5. CountInv'
    BY <2>1 DEF CopiesInv, CountInv, Timely
  <2> QED BY <2>3, <2>4, <2>5
<1>9. CASE SavePage
  <2>1. /\ Save(Decryptable(page)) /\ page' = {} /\ phase' # "save"
        /\ UNCHANGED <<posted, stored, onWire>>
    BY <1>9 DEF SavePage, server
  <2>2. /\ \A m \in local' : Timely(m) => copies'[m.id] <= IF m \in onWire THEN 2 ELSE 3
        /\ \A i \in 1 .. MaxMessages : copies'[i] > 0 => \E m \in local' : m.id = i
        /\ local' \subseteq Known
    BY <2>1, SavedPage
  <2>3. Known' \subseteq Known
    BY <2>1, <2>2 DEF Known
  <2>4. IdentityInv'
    BY <2>1, <2>2, <2>3 DEF CopiesInv, IdentityInv
  <2>5. CountInv'
    BY <1>9, <2>1, <2>2, PassedOrOnce DEF CountInv, Timely
  <2> QED BY <2>1, <2>4, <2>5 DEF RangeInv
<1>10. CASE Close
  <2>1. PICK saved \in SUBSET page : Save(Decryptable(saved))
    BY <1>10 DEF Close
  <2>2. page' = {} /\ phase' = "closed" /\ UNCHANGED <<posted, stored, onWire>>
    BY <1>10 DEF Close, server
  <2>3. /\ \A m \in local' : Timely(m) => copies'[m.id] <= IF m \in onWire THEN 2 ELSE 3
        /\ \A i \in 1 .. MaxMessages : copies'[i] > 0 => \E m \in local' : m.id = i
        /\ local' \subseteq Known
    BY <2>1, SavedPage
  <2>4. Known' \subseteq Known
    BY <2>2, <2>3 DEF Known
  <2>5. IdentityInv'
    BY <2>2, <2>3, <2>4 DEF CopiesInv, IdentityInv
  <2>6. CountInv'
    BY <2>2, <2>3 DEF CountInv, Timely
  <2> QED BY <2>2, <2>5, <2>6 DEF RangeInv
<1> QED
  BY <1>2, <1>3, <1>4, <1>5, <1>6, <1>7, <1>8, <1>9, <1>10 DEF Next, Sync

\* As long as fewer than Limit messages of begun epochs have yet to arrive, a message
\* that was handled in its own epoch is stored three times at most, in any number of
\* sessions, wherever they end.
THEOREM NothingStoredOften ==
  ASSUME MaxBacklog < Limit
  PROVE  Spec => []StoredAtMostThrice
<1>1. CopiesInv => StoredAtMostThrice
  <2> SUFFICES ASSUME CopiesInv, NEW m \in local, Timely(m) PROVE copies[m.id] <= 3
    BY DEF StoredAtMostThrice, Timely
  <2>1. copies[m.id] <= IF m \in onWire THEN 2 ELSE 3
    BY DEF CopiesInv, CountInv
  <2>2. copies[m.id] \in 0 .. MaxCopies
    BY HistoryTypes DEF CopiesInv, CursorInv, TypeOK
  <2> QED BY <2>1, <2>2 DEF MaxCopies
<1> QED
  BY <1>1, CopiesInit, CopiesNext, PTL DEF Spec

==============================================================================
