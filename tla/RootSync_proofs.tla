--------------------------- MODULE RootSync_proofs ---------------------------
(***************************************************************************)
(* Types and StaleIsNoticed of RootSync, for any number of messages sent   *)
(* at once, any back-pressure and any order in which the sockets open.     *)
(*                                                                         *)
(* NoGap, ShownAsStored and ShownIsStored of ChatStore, what the same page *)
(* shows, for any rooms, messages, timestamps and size of a page.          *)
(***************************************************************************)
EXTENDS RootSync, ChatStore, WellFoundedInduction, NaturalsInduction, TLAPS

Place == {"idle", "recovered", "root", "leaves", "answered"}

\* The calls that refresh the leaves belong to the session of the page, and init()
\* waits while there is a socket to wait for.
SessionInv ==
  /\ \A m \in Sending : sending[m].pc # "idle" => phase = "running"
  /\ phase = "connecting" => waiting < 3

\* An event will come.
Announced == published > 0 \/ wire > 0

Told == \/ ~ upToDate \/ Announced
        \/ \E m \in Sending : sending[m].pc = "recovered"

\* The leaves init() has, or will have, are those of the tree, or the client is
\* told; and old leaves that a refresh is about to store cannot silence the event
\* that is coming for them.
ToldInv ==
  ~ missed =>
    /\ phase \in {"answered", "subscribe", "running"} /\ Holds # tree => Told
    /\ Overtaken => Announced

Inv == TypeOK /\ SessionInv /\ ToldInv

------------------------------------------------------------------------------

LEMMA InitInv == ASSUME Init PROVE Inv
<1>1. TypeOK
  <2>1. /\ tree \in Version /\ published \in Nat /\ wire \in 0 .. MaxBackpressure
        /\ waiting \in 0 .. 3
    BY BoundsAssumption DEF Init, Version
  <2>2. /\ sockets \in [Sockets -> {"none", "connecting", "open", "closed"}]
        /\ answer \in Leaves /\ leaves \in Leaves
        /\ sending \in [Sending -> [pc : Place, got : Leaves]]
    BY DEF Init, Leaves, Idle, Place
  <2>3. /\ stored \in BOOLEAN /\ identity \in BOOLEAN /\ upToDate \in BOOLEAN
        /\ missed \in BOOLEAN /\ phase = "closed"
    BY DEF Init
  <2> QED BY <2>1, <2>2, <2>3 DEF TypeOK, Place
<1>2. SessionInv /\ ToldInv
  BY DEF Init, SessionInv, ToldInv, Overtaken, Idle
<1> QED BY <1>1, <1>2 DEF Inv

\* Steps of the events: they change neither what the client has nor the calls.
LEMMA EventStep ==
  ASSUME Inv, UNCHANGED <<tree, phase, init, leaves, sending>>,
         TypeOK', missed => missed',
         ~ missed' /\ Harm => (Announced => Announced' \/ ~ upToDate') /\ (~ upToDate => ~ upToDate'),
         ~ missed' /\ Overtaken => (Announced => Announced')
  PROVE  Inv'
<1>1. Overtaken' = Overtaken /\ Holds' = Holds
  BY DEF Overtaken, Holds, init
<1>2. SessionInv'
  BY DEF Inv, SessionInv, init
<1>3. ToldInv'
  <2> SUFFICES ASSUME ~ missed' PROVE ToldInv'
    BY DEF ToldInv
  <2>1. ToldInv /\ ~ missed
    BY DEF Inv
  <2>2. Overtaken => Announced'
    BY <2>1 DEF ToldInv
  <2>3. phase \in {"answered", "subscribe", "running"} /\ Holds # tree => Told'
    BY <2>1 DEF ToldInv, Told, Harm
  <2> QED BY <1>1, <2>2, <2>3 DEF ToldInv
<1> QED BY <1>2, <1>3 DEF Inv

LEMMA BroadcastInv == ASSUME Inv, BroadcastEvent PROVE Inv'
<1>1. /\ published \in Nat /\ published > 0 /\ published' = published - 1
      /\ wire \in 0 .. MaxBackpressure /\ MaxBackpressure \in Nat \ {0}
      /\ wire' = IF sockets[updates_socket] = "open" /\ HasRoom THEN wire + 1 ELSE wire
      /\ missed' = (missed \/ (sockets[updates_socket] # "open" /\ Harm))
      /\ missed \in BOOLEAN
  BY BoundsAssumption DEF Inv, TypeOK, BroadcastEvent
<1>2. UNCHANGED <<tree, sockets, phase, init, leaves, upToDate, sending>>
  BY DEF BroadcastEvent
<1>3. wire' \in 0 .. MaxBackpressure /\ published' \in Nat
  BY <1>1 DEF HasRoom
<1>4. TypeOK'
  BY <1>1, <1>2, <1>3 DEF Inv, TypeOK, init
<1>5. missed => missed'
  BY <1>1
<1>6. sockets[updates_socket] = "open" => wire' > 0
  BY <1>1 DEF HasRoom
<1>7. ~ missed' /\ Harm => Announced'
  BY <1>1, <1>6 DEF Announced
<1>8. Overtaken => Harm
  BY DEF Harm
<1> QED BY <1>2, <1>4, <1>5, <1>7, <1>8, EventStep DEF Announced

LEMMA ReceiveInv == ASSUME Inv, ReceiveEvent PROVE Inv'
<1>1. /\ wire > 0 /\ wire' = wire - 1 /\ wire \in 0 .. MaxBackpressure
      /\ MaxBackpressure \in Nat \ {0} /\ missed \in BOOLEAN /\ upToDate \in BOOLEAN
      /\ UNCHANGED <<tree, published, sockets, phase, init, leaves, sending>>
  BY BoundsAssumption DEF Inv, TypeOK, ReceiveEvent, server
<1>2. /\ phase = "running" => upToDate' = FALSE /\ missed' = (missed \/ Overtaken)
      /\ phase # "running" => upToDate' = upToDate /\ missed' = (missed \/ Harm)
  BY DEF ReceiveEvent
<1>3. wire' \in 0 .. MaxBackpressure
  BY <1>1
<1>4. missed' \in BOOLEAN /\ upToDate' \in BOOLEAN
  BY <1>1, <1>2
<1>5. TypeOK'
  BY <1>1, <1>3, <1>4 DEF Inv, TypeOK, init
<1>6. missed => missed'
  BY <1>2
<1>7. Overtaken => Harm
  BY DEF Harm
<1>8. ~ missed' /\ Harm => ~ upToDate'
  BY <1>2
<1>9. ~ missed' => ~ Overtaken
  BY <1>2, <1>7
<1> QED BY <1>1, <1>5, <1>6, <1>8, <1>9, EventStep

LEMMA DisconnectInv == ASSUME Inv, Disconnect PROVE Inv'
<1>1. /\ sockets' = [sockets EXCEPT ![updates_socket] = "closed"] /\ wire' = 0
      /\ missed' = (missed \/ (wire > 0 /\ Harm)) /\ missed \in BOOLEAN
      /\ wire \in 0 .. MaxBackpressure /\ MaxBackpressure \in Nat \ {0}
      /\ UNCHANGED <<tree, published, phase, init, leaves, upToDate, sending>>
  BY BoundsAssumption DEF Inv, TypeOK, Disconnect, server
<1>2. wire' \in 0 .. MaxBackpressure /\ missed' \in BOOLEAN
  BY <1>1
<1>3. sockets' \in [Sockets -> {"none", "connecting", "open", "closed"}]
  BY <1>1 DEF Inv, TypeOK
<1>4. TypeOK'
  BY <1>1, <1>2, <1>3 DEF Inv, TypeOK, init
<1>5. Overtaken => Harm
  BY DEF Harm
<1>6. ~ missed' /\ Harm => (Announced => Announced')
  BY <1>1 DEF Announced
<1> QED BY <1>1, <1>4, <1>5, <1>6, EventStep

LEMMA ChangeInv == ASSUME Inv, ChangeTree PROVE Inv'
<1>1. /\ tree < MaxTree /\ tree' = tree + 1 /\ published' = published + 1
      /\ tree \in Version /\ published \in Nat /\ MaxTree \in Nat
      /\ UNCHANGED <<wire, sockets, phase, init, leaves, upToDate, sending, missed>>
  BY BoundsAssumption DEF ChangeTree, Inv, TypeOK
<1>2. tree' \in Version /\ published' \in Nat /\ published' > 0
  BY <1>1 DEF Version
<1>3. TypeOK'
  BY <1>1, <1>2 DEF Inv, TypeOK, init
<1>4. SessionInv' /\ ToldInv'
  BY <1>1, <1>2 DEF Inv, SessionInv, ToldInv, Told, Announced, init
<1> QED BY <1>3, <1>4 DEF Inv

\* Steps outside a session, or of init(), while no call is under way.
LEMMA InitStep ==
  ASSUME Inv, TypeOK', UNCHANGED <<tree, published, upToDate, sending>>,
         wire' = wire, phase # "running", phase' = "connecting" => waiting' < 3,
         phase' \in {"answered", "subscribe", "running"} =>
           \/ missed'
           \/ Holds' = tree
           \/ phase \in {"answered", "subscribe"} /\ Holds' = Holds /\ missed' = missed
  PROVE  Inv'
<1>1. \A m \in Sending : sending[m].pc = "idle"
  BY DEF Inv, SessionInv
<1>2. SessionInv'
  BY <1>1 DEF SessionInv
<1>3. ~ Overtaken'
  BY <1>1 DEF Overtaken
<1>4. Told' = Told
  BY DEF Told, Announced
<1>5. ToldInv'
  BY <1>3, <1>4 DEF Inv, ToldInv
<1> QED BY <1>2, <1>5 DEF Inv

LEMMA SocketInv == ASSUME Inv, NEW s \in Sockets, OpenSocket(s) PROVE Inv'
<1>1. /\ sockets' = [sockets EXCEPT ![s] = "open"]
      /\ UNCHANGED <<tree, published, wire, stored, identity, answer, leaves, upToDate,
                     sending, missed>>
      /\ waiting \in 0 .. 3
  BY DEF OpenSocket, server, Inv, TypeOK
<1>2. CASE phase = "connecting" /\ WaitOrder[waiting + 1] = s
  <2>1. waiting' = waiting + 1 /\ phase' = IF waiting' = 3 THEN "root" ELSE phase
    BY <1>2 DEF OpenSocket
  <2>2. phase' \in {"root", "connecting"}
    BY <1>2, <2>1
  <2>3. waiting' \in 0 .. 3
    BY <1>1, <1>2, <2>1 DEF Inv, SessionInv
  <2>4. TypeOK'
    BY <1>1, <2>2, <2>3 DEF Inv, TypeOK
  <2>5. phase' = "connecting" => waiting' < 3
    BY <1>1, <2>1, <2>3
  <2> QED BY <1>1, <1>2, <2>2, <2>4, <2>5, InitStep
<1>3. CASE ~ (phase = "connecting" /\ WaitOrder[waiting + 1] = s)
  <2>1. UNCHANGED <<waiting, phase>>
    BY <1>3 DEF OpenSocket
  <2>2. TypeOK'
    BY <1>1, <2>1 DEF Inv, TypeOK
  <2>3. Holds' = Holds /\ Overtaken' = Overtaken /\ Told' = Told /\ Announced' = Announced
    BY <1>1, <2>1 DEF Holds, Overtaken, Told, Announced
  <2>4. SessionInv' /\ ToldInv'
    BY <1>1, <2>1, <2>3 DEF Inv, SessionInv, ToldInv
  <2> QED BY <2>2, <2>4 DEF Inv
<1> QED BY <1>2, <1>3

LEMMA ContinueInv == ASSUME Inv, Continue PROVE Inv'
<1>0. /\ missed \in BOOLEAN /\ answer \in Leaves /\ tree \in Leaves /\ NoLeaves \in Leaves
  BY DEF Inv, TypeOK, Leaves
<1>1. ASSUME GetRlnRoot PROVE Inv'
  <2>1. /\ phase = "root" /\ phase' = "leaves" /\ upToDate' = TRUE
        /\ UNCHANGED <<tree, published, wire, sockets, init, leaves, sending, missed>>
    BY <1>1 DEF GetRlnRoot, server
  <2>2. TypeOK'
    BY <2>1 DEF Inv, TypeOK, init
  <2>3. \A m \in Sending : sending[m].pc = "idle"
    BY <2>1 DEF Inv, SessionInv
  <2>4. SessionInv' /\ ToldInv'
    BY <2>1, <2>3 DEF SessionInv, ToldInv, Overtaken
  <2> QED BY <2>2, <2>4 DEF Inv
<1>2. ASSUME NEW fetched \in {tree, NoLeaves}, GetLeaves(fetched) PROVE Inv'
  <2>1. /\ phase = "leaves" /\ phase' = "answered" /\ answer' = fetched
        /\ missed' = (missed \/ fetched = NoLeaves)
        /\ UNCHANGED <<tree, published, wire, sockets, waiting, stored, identity, leaves,
                       upToDate, sending>>
    BY <1>2 DEF GetLeaves, server
  <2>2. missed' \in BOOLEAN /\ answer' \in Leaves
    BY <1>0, <2>1
  <2>3. TypeOK'
    BY <2>1, <2>2 DEF Inv, TypeOK
  <2>4. missed' \/ Holds' = tree
    BY <2>1 DEF Holds
  <2> QED BY <2>1, <2>3, <2>4, InitStep
<1>3. ASSUME InitProfile PROVE Inv'
  <2>1. /\ phase = "answered" /\ phase' = "subscribe" /\ leaves' = answer /\ stored' = TRUE
        /\ UNCHANGED <<tree, published, wire, sockets, waiting, identity, answer, upToDate,
                       sending, missed>>
    BY <1>3 DEF InitProfile, server
  <2>2. TypeOK'
    BY <2>1 DEF Inv, TypeOK
  <2>3. Holds' = Holds
    BY <2>1 DEF Holds
  <2> QED BY <2>1, <2>2, <2>3, InitStep
<1>4. ASSUME NoProfile PROVE Inv'
  <2>1. /\ phase = "answered" /\ phase' = "root" /\ identity' = TRUE /\ missed' = FALSE
        /\ UNCHANGED <<tree, published, wire, sockets, waiting, stored, answer, leaves,
                       upToDate, sending>>
    BY <1>4 DEF NoProfile, server
  <2>2. TypeOK'
    BY <2>1 DEF Inv, TypeOK
  <2> QED BY <2>1, <2>2, InitStep
<1>5. ASSUME Subscribe PROVE Inv'
  <2>1. /\ phase = "subscribe" /\ phase' = "running"
        /\ UNCHANGED <<tree, published, wire, sockets, init, leaves, upToDate, sending, missed>>
    BY <1>5 DEF Subscribe, server
  <2>2. TypeOK'
    BY <2>1 DEF Inv, TypeOK, init
  <2>3. Holds' = Holds
    BY <2>1 DEF Holds
  <2> QED BY <2>1, <2>2, <2>3, InitStep
<1> QED BY <1>1, <1>2, <1>3, <1>4, <1>5, SocketInv DEF Continue

LEMMA PageInv == ASSUME Inv, Open \/ Close PROVE Inv'
<1>1. CASE Open
  <2>1. /\ phase = "closed" /\ phase' = "connecting" /\ waiting' = 0 /\ identity' = FALSE
        /\ sockets' = [s \in Sockets |-> "connecting"] /\ missed' = FALSE
        /\ UNCHANGED <<tree, published, wire, stored, answer, leaves, upToDate, sending>>
    BY <1>1 DEF Open, server
  <2>2. sockets' \in [Sockets -> {"none", "connecting", "open", "closed"}]
    BY <2>1
  <2>3. 0 \in 0 .. 3 /\ FALSE \in BOOLEAN
    OBVIOUS
  <2>4. TypeOK'
    BY <2>1, <2>2, <2>3 DEF Inv, TypeOK
  <2> QED BY <2>1, <2>4, InitStep
<1>2. CASE Close
  <2>1. /\ phase' = "closed" /\ waiting' = 0 /\ identity' = FALSE /\ answer' = NoLeaves
        /\ sockets' = [s \in Sockets |-> "none"] /\ wire' = 0
        /\ sending' = [m \in Sending |-> Idle]
        /\ UNCHANGED <<tree, published, stored, leaves, upToDate, missed>>
    BY <1>2 DEF Close, server
  <2>2. /\ Idle \in [pc : Place, got : Leaves] /\ NoLeaves \in Leaves
        /\ 0 \in 0 .. MaxBackpressure /\ 0 \in 0 .. 3
    BY BoundsAssumption DEF Idle, Place, Leaves
  <2>3. /\ sockets' \in [Sockets -> {"none", "connecting", "open", "closed"}]
        /\ sending' \in [Sending -> [pc : Place, got : Leaves]]
    BY <2>1, <2>2
  <2>4. TypeOK'
    BY <2>1, <2>2, <2>3 DEF Inv, TypeOK, Place
  <2>5. SessionInv' /\ ToldInv'
    BY <2>1 DEF SessionInv, ToldInv, Overtaken, Idle
  <2> QED BY <2>4, <2>5 DEF Inv
<1> QED BY <1>1, <1>2

------------------------------------------------------------------------------
\* The calls of checkRootUpToDate

\* A call m moves: what is left to show of old leaves and old answers.
LEMMA CallStep ==
  ASSUME Inv, NEW m \in Sending, NEW r \in [pc : Place, got : Leaves],
         sending' = [sending EXCEPT ![m] = r],
         UNCHANGED <<tree, published, wire, sockets, phase, init>>,
         phase = "running", leaves' \in Leaves, upToDate' \in BOOLEAN, missed' \in BOOLEAN,
         missed => missed',
         ~ missed' /\ leaves' # tree => Told',
         ~ missed' /\ r.pc = "answered" /\ r.got # tree => Announced
  PROVE  Inv'
<1>1. /\ sending' \in [Sending -> [pc : Place, got : Leaves]] /\ sending'[m] = r
      /\ \A k \in Sending \ {m} : sending'[k] = sending[k]
  BY DEF Inv, TypeOK, Place
<1>2. TypeOK'
  BY <1>1 DEF Inv, TypeOK, Place, init
<1>3. SessionInv'
  BY <1>1 DEF SessionInv
<1>4. Holds' = leaves'
  BY DEF Holds
<1>5. ~ missed' /\ Overtaken' => Announced'
  BY <1>1 DEF Inv, ToldInv, Overtaken, Announced
<1>6. ToldInv'
  BY <1>4, <1>5 DEF ToldInv
<1> QED BY <1>2, <1>3, <1>6 DEF Inv

LEMMA CheckInv == ASSUME Inv, NEW m \in Sending, CheckRoot(m) \/ Recover(m) PROVE Inv'
<1>1. /\ sending \in [Sending -> [pc : Place, got : Leaves]]
      /\ leaves \in Leaves /\ upToDate \in BOOLEAN /\ missed \in BOOLEAN
      /\ tree \in Nat /\ tree \in Version /\ 0 .. tree \subseteq Leaves
  BY BoundsAssumption DEF Inv, TypeOK, Place, Version, Leaves
<1>2. CASE CheckRoot(m)
  <2> DEFINE r == [sending[m] EXCEPT !.pc = "root"]
  <2>1. /\ phase = "running" /\ sending' = [sending EXCEPT ![m] = r] /\ ~ upToDate
        /\ UNCHANGED <<tree, published, wire, sockets, phase, init, leaves, upToDate, missed>>
    BY <1>1, <1>2 DEF CheckRoot, Goto, server
  <2>2. r \in [pc : Place, got : Leaves] /\ r.pc = "root"
    BY <1>1 DEF Place
  <2> HIDE DEF r
  <2>3. Told'
    BY <2>1 DEF Told
  <2> QED BY <1>1, <2>1, <2>2, <2>3, CallStep
<1>3. CASE Recover(m)
  <2> DEFINE r == [sending[m] EXCEPT !.pc = "recovered"]
  <2>1. /\ phase = "running" /\ sending' = [sending EXCEPT ![m] = r] /\ leaves' \in 0 .. tree
        /\ UNCHANGED <<tree, published, wire, sockets, phase, init, upToDate, missed>>
    BY <1>1, <1>3 DEF Recover, Goto, server
  <2>2. r \in [pc : Place, got : Leaves] /\ r.pc = "recovered"
    BY <1>1 DEF Place
  <2> HIDE DEF r
  <2>3. sending'[m] = r
    BY <1>1, <2>1
  <2>4. Told'
    BY <2>2, <2>3 DEF Told
  <2> QED BY <1>1, <2>1, <2>2, <2>4, CallStep
<1> QED BY <1>2, <1>3

LEMMA RefreshInv == ASSUME Inv, NEW m \in Sending, Refresh(m) PROVE Inv'
<1>1. /\ sending \in [Sending -> [pc : Place, got : Leaves]]
      /\ leaves \in Leaves /\ upToDate \in BOOLEAN /\ missed \in BOOLEAN
      /\ tree \in Leaves /\ NoLeaves \in Leaves
  BY DEF Inv, TypeOK, Place, Leaves
<1>2. sending[m].pc # "idle" => phase = "running" /\ Holds = leaves
  BY DEF Inv, SessionInv, Holds
<1>3. CASE SetRootObsolete(m)
  <2> DEFINE r == [sending[m] EXCEPT !.pc = "root"]
  <2>1. /\ phase = "running" /\ sending' = [sending EXCEPT ![m] = r] /\ upToDate' = FALSE
        /\ missed' = (missed \/ Overtaken)
        /\ UNCHANGED <<tree, published, wire, sockets, phase, init, leaves>>
    BY <1>1, <1>2, <1>3 DEF SetRootObsolete, Goto, server
  <2>2. r \in [pc : Place, got : Leaves] /\ r.pc = "root"
    BY <1>1 DEF Place
  <2> HIDE DEF r
  <2>3. Told' /\ missed' \in BOOLEAN
    BY <1>1, <2>1 DEF Told
  <2> QED BY <1>1, <2>1, <2>2, <2>3, CallStep
\* The flag, the events and the recoveries of others stay.
<1>4. ASSUME UNCHANGED <<tree, published, wire, phase, leaves, upToDate>>,
             missed => missed', sending[m].pc \in {"root", "leaves"},
             \A k \in Sending \ {m} : sending'[k] = sending[k]
      PROVE  ~ missed' /\ leaves' # tree => Told'
  <2> SUFFICES ASSUME ~ missed', leaves # tree PROVE Told'
    BY <1>4
  <2>1. Told
    BY <1>2, <1>4 DEF Inv, ToldInv
  <2> QED BY <1>4, <2>1 DEF Told, Announced
<1>5. CASE RefreshRoot(m)
  <2> DEFINE r == [sending[m] EXCEPT !.pc = "leaves"]
  <2>1. /\ sending[m].pc = "root" /\ sending' = [sending EXCEPT ![m] = r]
        /\ UNCHANGED <<tree, published, wire, sockets, phase, init, leaves, upToDate, missed>>
    BY <1>1, <1>5 DEF RefreshRoot, Goto, server
  <2>2. r \in [pc : Place, got : Leaves] /\ r.pc = "leaves"
    BY <1>1 DEF Place
  <2> HIDE DEF r
  <2>3. \A k \in Sending \ {m} : sending'[k] = sending[k]
    BY <1>1, <2>1
  <2> QED BY <1>1, <1>2, <1>4, <2>1, <2>2, <2>3, CallStep
<1>6. ASSUME NEW fetched \in {tree, NoLeaves}, RefreshLeaves(m, fetched) PROVE Inv'
  <2> DEFINE r == [pc |-> "answered", got |-> fetched]
  <2>1. /\ sending[m].pc = "leaves" /\ sending' = [sending EXCEPT ![m] = r]
        /\ missed' = (missed \/ fetched = NoLeaves)
        /\ UNCHANGED <<tree, published, wire, sockets, phase, init, leaves, upToDate>>
    BY <1>6 DEF RefreshLeaves, server
  <2>2. /\ r \in [pc : Place, got : Leaves] /\ missed' \in BOOLEAN
        /\ r.got = fetched
    BY <1>1, <2>1 DEF Place
  <2>3. ~ missed' => fetched = tree
    BY <2>1
  <2> HIDE DEF r
  <2>4. \A k \in Sending \ {m} : sending'[k] = sending[k]
    BY <1>1, <2>1
  <2> QED BY <1>1, <1>2, <1>4, <2>1, <2>2, <2>3, <2>4, CallStep
<1>7. CASE UpdateLeaves(m)
  <2>1. /\ sending[m].pc = "answered" /\ sending' = [sending EXCEPT ![m] = Idle]
        /\ leaves' = sending[m].got /\ upToDate' = TRUE
        /\ UNCHANGED <<tree, published, wire, sockets, phase, init, missed>>
    BY <1>7 DEF UpdateLeaves, server
  <2>2. Idle \in [pc : Place, got : Leaves] /\ Idle.pc = "idle" /\ leaves' \in Leaves
    BY <1>1, <2>1 DEF Idle, Place
  <2>3. ~ missed' /\ leaves' # tree => Told'
    BY <2>1 DEF Inv, ToldInv, Overtaken, Told, Announced
  <2> QED BY <1>1, <1>2, <2>1, <2>2, <2>3, CallStep
<1> QED BY <1>3, <1>5, <1>6, <1>7 DEF Refresh

LEMMA StepInv == ASSUME Inv, [Next]_vars PROVE Inv'
<1>1. CASE UNCHANGED vars
  BY <1>1 DEF vars, Inv, TypeOK, SessionInv, ToldInv, Told, Announced, Holds, Overtaken
<1> QED
  BY <1>1, ChangeInv, BroadcastInv, ReceiveInv, DisconnectInv, ContinueInv, PageInv,
     CheckInv, RefreshInv DEF Next

LEMMA InvAlways == Spec => []Inv
BY InitInv, StepInv, PTL DEF Spec

------------------------------------------------------------------------------

\* Every variable has its type; a socket is never sent more than it holds.
THEOREM TypeCorrect == Spec => []TypeOK
<1>1. Inv => TypeOK
  BY DEF Inv
<1> QED BY <1>1, InvAlways, PTL

\* A running client with old leaves has been told of it, or will be, but for the
\* races that "missed" records: for any number of changes and calls, and whether or
\* not the sockets open in order.
THEOREM StaleAlwaysNoticed == Spec => []StaleIsNoticed
<1>1. Inv => StaleIsNoticed
  BY DEF Inv, ToldInv, Told, Announced, Holds, StaleIsNoticed
<1> QED BY <1>1, InvAlways, PTL

------------------------------------------------------------------------------
(* What the page shows of the history (ChatStore): any rooms and messages, *)
(* pages of any size, any number of calls of init().  A step that does not *)
(* race keeps what was read on its way the same as what is stored, and     *)
(* where a page ends the history begins.                                   *)

\* A set of naturals that is not empty has a least element.
LEMMA Least ==
  ASSUME NEW T \in SUBSET Nat, T # {}
  PROVE  \E n \in T : \A k \in T : n <= k
<1>1. PICK R : R = OpToRel(<, Nat)
  OBVIOUS
<1>2. IsWellFoundedOn(R, Nat)
  BY <1>1, NatLessThanWellFounded
<1>3. PICK n \in T : \A k \in T : <<k, n>> \notin R
  BY <1>2, WFMin
<1>4. \A k \in T : ~(k < n)
  BY <1>1, <1>3 DEF OpToRel
<1> QED BY <1>4

\* The part is in the bag, without a hole below the end.
NoHole(part, bag, end) ==
  /\ \A n \in Message : part[n] <= bag[n]
  /\ \A n \in In(bag) :
       TimeOf[n] < end /\ (\E m \in In(part) : TimeOf[m] < TimeOf[n]) => n \in In(part)

LEMMA Times ==
  /\ \A n \in Message : TimeOf[n] \in Nat /\ TimeOf[n] > 0
  /\ \A n, m \in Message : n <= m => TimeOf[n] <= TimeOf[m]
BY ChatAssumption DEF Message

LEMMA PageIs ==
  ASSUME db \in [Room -> Bag], NEW r \in Room, NEW from \in Nat,
         NEW p \in PageBefore(r, from)
  PROVE  /\ p \in Bag
         /\ \A n \in In(p) : TimeOf[n] < from
         /\ NoHole(p, db[r], from)
<1>1. /\ p \in [Message -> 0 .. Page]
      /\ \A n \in Message : p[n] <= (IF TimeOf[n] < from THEN db[r][n] ELSE 0)
      /\ \A n \in Message : TimeOf[n] < from /\ p[n] < db[r][n] =>
           \A m \in In(p) : TimeOf[n] <= TimeOf[m]
  BY DEF PageBefore
<1>2. p \in Bag
  BY <1>1, ChatAssumption DEF Bag
<1>3. ASSUME NEW n \in Message
      PROVE  /\ p[n] \in Nat /\ db[r][n] \in Nat /\ p[n] <= db[r][n]
             /\ p[n] > 0 => TimeOf[n] < from
  <2>1. p[n] \in Nat /\ db[r][n] \in Nat
    BY <1>2 DEF Bag
  <2>2. p[n] <= (IF TimeOf[n] < from THEN db[r][n] ELSE 0)
    BY <1>1
  <2> QED BY <2>1, <2>2
<1>4. NoHole(p, db[r], from)
  <2>1. ASSUME NEW n \in In(db[r]), TimeOf[n] < from,
               NEW m \in In(p), TimeOf[m] < TimeOf[n]
        PROVE  n \in In(p)
    <3>1. n \in Message /\ m \in Message /\ db[r][n] > 0
      BY <2>1 DEF In
    <3>2. ~(TimeOf[n] <= TimeOf[m])
      BY <2>1, <3>1, Times
    <3>3. ~(p[n] < db[r][n])
      BY <1>1, <2>1, <3>1, <3>2
    <3> QED BY <1>3, <3>1, <3>3 DEF In
  <2> QED BY <1>3, <2>1 DEF NoHole
<1> QED BY <1>2, <1>3, <1>4 DEF In

------------------------------------------------------------------------------

LoadRoomsRecord == [todo : SUBSET Room, from : Nat, read : SUBSET Room, pages : [Room -> Bag]]
LoadRoomRecord  == [room : Room, from : Nat \ {0}, page : Bag, read : BOOLEAN]
ListRecord      == [room : Room \cup {NoRoom}, first : Nat, listens : BOOLEAN]

\* Until the history has been synchronised nothing is shown or listened to.
BeforeInv ==
  page \in {"opened", "spinner"} =>
    /\ managers = [r \in Room |-> 0] /\ rooms = Room
    /\ history = [r \in Room |-> NoHistory]
    /\ loadRooms = NoLoad /\ loadRoom = NoLoadRoom /\ list = NoList
    /\ deleting = {} /\ active = NoRoom

ListOk(x) == x \in ListRecord /\ x.first <= Clock /\ (x.first # 0 => x.room # NoRoom)

\* Nothing is newer than the newest message.
LastInv ==
  /\ \A r \in Room : /\ In(db[r]) \subseteq 1 .. last /\ due[r] \subseteq 1 .. last
                     /\ Shown(r) \subseteq 1 .. last
                     /\ In(loadRooms.pages[r]) \subseteq 1 .. last
  /\ ListOk(list)
  /\ loadRoom # NoLoadRoom => loadRoom.from <= Clock

\* The pages are read up to a time after all that is stored, and those that were read
\* are still those of the database, unless the room is raced.
PagesInv ==
  /\ loadRooms # NoLoad => loadRooms.todo \cup loadRooms.read = Room
  /\ \A r \in (loadRooms.todo \cup loadRooms.read) \ raced :
       \A n \in In(db[r]) : TimeOf[n] < loadRooms.from
  /\ \A r \in loadRooms.read \ raced :
       NoHole(loadRooms.pages[r], db[r], loadRooms.from)

OlderInv ==
  loadRoom.read =>
    /\ \A n \in In(loadRoom.page) : TimeOf[n] < loadRoom.from
    /\ loadRoom.room \notin raced =>
         NoHole(loadRoom.page, db[loadRoom.room], loadRoom.from)

ShownInv == NoGap /\ ShownAsStored /\ ShownIsStored

ChatInv ==
  CTypeOK /\ BeforeInv /\ LastInv /\ PagesInv /\ OlderInv /\ ShownInv

LEMMA Empties ==
  /\ Empty \in Bag /\ In(Empty) = {} /\ \A n \in Message : Empty[n] = 0
  /\ NoLoad \in LoadRoomsRecord /\ NoLoad.todo = {} /\ NoLoad.read = {}
  /\ \A r \in Room : NoLoad.pages[r] = Empty
  /\ NoLoadRoom.room = NoRoom /\ NoLoadRoom.page = Empty /\ NoLoadRoom.read = FALSE
  /\ NoList \in ListRecord /\ NoList.room = NoRoom /\ NoList.first = 0
<1>1. Empty \in Bag /\ In(Empty) = {} /\ \A n \in Message : Empty[n] = 0
  BY DEF Empty, Bag, In
<1>2. PICK e \in Bag : e = Empty
  BY <1>1
<1>3. NoLoad = [todo |-> {}, from |-> 0, read |-> {}, pages |-> [r \in Room |-> e]]
  BY <1>2 DEF NoLoad
<1>4. NoLoadRoom = [room |-> NoRoom, from |-> 0, page |-> e, read |-> FALSE]
  BY <1>2 DEF NoLoadRoom
<1> QED BY <1>1, <1>2, <1>3, <1>4 DEF NoList, LoadRoomsRecord, ListRecord

LEMMA ChatTypes ==
  ASSUME CTypeOK
  PROVE  /\ db \in [Room -> Bag] /\ due \in [Room -> SUBSET Message]
         /\ last \in Nat /\ last <= MaxMessages /\ MaxMessages \in Nat
         /\ managers \in [Room -> Nat]
         /\ loadRooms \in LoadRoomsRecord /\ loadRooms.todo \subseteq Room
         /\ loadRooms.read \subseteq Room /\ loadRooms.pages \in [Room -> Bag]
         /\ loadRooms.from \in Nat
         /\ loadRoom \in LoadRoomRecord \cup {NoLoadRoom}
         /\ loadRoom.read \in BOOLEAN /\ loadRoom.page \in Bag
         /\ loadRoom \in LoadRoomRecord \/ loadRoom.room # NoRoom =>
              loadRoom.room \in Room /\ loadRoom.from \in Nat \ {0}
         /\ loadRoom.read => loadRoom \in LoadRoomRecord /\ loadRoom # NoLoadRoom
         /\ list \in ListRecord
         /\ \A r \in Room : history[r] # NoHistory => history[r] \in Bag
<1>1. /\ db \in [Room -> Bag] /\ due \in [Room -> SUBSET Message]
      /\ last \in Nat /\ last <= MaxMessages /\ MaxMessages \in Nat
      /\ managers \in [Room -> Nat]
      /\ loadRooms \in LoadRoomsRecord
      /\ loadRoom \in LoadRoomRecord \cup {NoLoadRoom}
      /\ list \in ListRecord
      /\ history \in [Room -> Bag \cup {NoHistory}]
  BY ChatAssumption DEF CTypeOK, LoadRoomsRecord, LoadRoomRecord, ListRecord
<1>2. /\ loadRooms.todo \subseteq Room
      /\ loadRooms.read \subseteq Room /\ loadRooms.pages \in [Room -> Bag]
      /\ loadRooms.from \in Nat
  BY <1>1 DEF LoadRoomsRecord
<1>3. CASE loadRoom \in LoadRoomRecord
  <2>1. /\ loadRoom.read \in BOOLEAN /\ loadRoom.page \in Bag
        /\ loadRoom.room \in Room /\ loadRoom.from \in Nat \ {0}
    BY <1>3 DEF LoadRoomRecord
  <2>2. loadRoom # NoLoadRoom
    BY <2>1, Empties, NoneAssumption
  <2> QED BY <1>1, <1>2, <1>3, <2>1, <2>2
<1>4. CASE loadRoom = NoLoadRoom
  <2>1. loadRoom \notin LoadRoomRecord
    BY <1>4, Empties, NoneAssumption DEF LoadRoomRecord
  <2> QED BY <1>1, <1>2, <1>4, <2>1, Empties
<1> QED BY <1>1, <1>2, <1>3, <1>4

LEMMA ClockIs ==
  ASSUME last \in Nat, last <= MaxMessages
  PROVE  /\ Clock \in Nat
         /\ \A n \in 1 .. last : n \in Message /\ TimeOf[n] <= Clock
         /\ \A n \in Message : TimeOf[n] < Clock => n \in 1 .. last
<1>1. last # 0 => last \in Message /\ Clock = TimeOf[last]
  BY ChatAssumption DEF Message, Clock
<1>2. \A n \in 1 .. last : n \in Message /\ n <= last /\ last # 0
  BY ChatAssumption DEF Message
<1>3. \A n \in Message : n \in Nat /\ n >= 1 /\ (last <= n \/ n \in 1 .. last)
  BY ChatAssumption DEF Message
<1>4. Clock \in Nat
  <2>1. CASE last = 0
    BY <2>1 DEF Clock
  <2>2. CASE last # 0
    BY <1>1, <2>2, Times
  <2> QED BY <2>1, <2>2
<1>5. \A n \in 1 .. last : n \in Message /\ TimeOf[n] <= Clock
  BY <1>1, <1>2, Times
<1>6. ASSUME NEW n \in Message, TimeOf[n] < Clock
      PROVE  n \in 1 .. last
  <2>1. last # 0
    BY <1>6, Times DEF Clock
  <2>2. last <= n => TimeOf[last] <= TimeOf[n] /\ TimeOf[last] \in Nat
    BY <1>1, <2>1, Times
  <2>3. ~(last <= n)
    BY <1>1, <1>6, <2>1, <2>2, Times
  <2> QED BY <1>3, <2>3
<1> QED BY <1>4, <1>5, <1>6

LEMMA OldestIs ==
  ASSUME CTypeOK, NEW r \in Room
  PROVE  /\ Shown(r) \subseteq Message /\ Oldest(r) \in Nat
         /\ Shown(r) = {} => Oldest(r) = 0
         /\ Shown(r) # {} => \E n \in Shown(r) : Oldest(r) = TimeOf[n]
         /\ \A m \in Shown(r) : Oldest(r) <= TimeOf[m]
<1>1. PICK T \in SUBSET Nat : T = {TimeOf[n] : n \in Shown(r)}
  <2>1. Shown(r) \subseteq Message
    BY DEF Shown, In
  <2> QED BY <2>1, Times
<1>2. T # {} => \E t \in T : \A u \in T : t <= u
  BY Least
<1>3. Oldest(r) = IF T = {} THEN 0 ELSE CHOOSE t \in T : \A u \in T : t <= u
  BY <1>1 DEF Oldest
<1>4. Shown(r) \subseteq Message
  BY DEF Shown, In
<1>5. /\ T # {} => Oldest(r) \in T /\ \A u \in T : Oldest(r) <= u
      /\ T = {} => Oldest(r) = 0
  BY <1>2, <1>3
<1>6. T = {} <=> Shown(r) = {}
  BY <1>1
<1> QED BY <1>1, <1>4, <1>5, <1>6

LEMMA Flagged ==
  ASSUME NEW race, NEW r \in Room, raced \subseteq Room, FlagIf(race, r)
  PROVE  /\ raced \subseteq raced' /\ raced' \subseteq Room
         /\ race => r \in raced'
BY DEF FlagIf

LEMMA ChatAtStart == ASSUME CInit PROVE ChatInv
<1>1. PICK o \in Room, s \in 0 .. MaxCopies :
        /\ db = [q \in Room |-> [n \in Message |-> IF q = o /\ n <= last THEN s ELSE 0]]
        /\ due = [q \in Room |-> IF q = o /\ s = 0 THEN 1 .. last ELSE {}]
  BY DEF CInit
<1>2. /\ last \in Nat /\ last <= MaxMessages /\ last \in 0 .. MaxMessages
      /\ managers = [r \in Room |-> 0] /\ inits = 0 /\ page = "opened"
      /\ upTo = 0 /\ rooms = Room /\ history = [r \in Room |-> NoHistory]
      /\ loadRooms = NoLoad /\ loadRoom = NoLoadRoom /\ deleting = {}
      /\ active = NoRoom /\ list = NoList /\ raced = {} /\ skipped = {}
  BY ChatAssumption DEF CInit, MinOf
<1>3. s \in Nat
  BY ChatAssumption
<1>4. db \in [Room -> Bag] /\ due \in [Room -> SUBSET Message]
  <2>1. \A q \in Room : db[q] \in Bag
    BY <1>1, <1>3 DEF Bag
  <2>2. \A q \in Room : due[q] \in SUBSET Message
    BY <1>1, <1>2, ChatAssumption DEF Message
  <2> QED BY <1>1, <2>1, <2>2
<1>5. CTypeOK
  <2>1. managers \in [Room -> Nat] /\ history \in [Room -> Bag \cup {NoHistory}]
    BY <1>2
  <2>2. loadRooms \in LoadRoomsRecord /\ list \in ListRecord
    BY <1>2, Empties
  <2> QED
    BY <1>2, <1>4, <2>1, <2>2
    DEF CTypeOK, LoadRoomsRecord, ListRecord
<1>6. BeforeInv
  BY <1>2 DEF BeforeInv
<1>7. \A r \in Room : Shown(r) = {}
  BY <1>2 DEF Shown
<1>8. LastInv
  <2>1. \A r \in Room : In(db[r]) \subseteq 1 .. last /\ due[r] \subseteq 1 .. last
    <3>1. \A r \in Room : due[r] \subseteq 1 .. last
      BY <1>1
    <3>2. ASSUME NEW r \in Room, NEW n \in Message, db[r][n] > 0
          PROVE  n \in 1 .. last
      <4>1. db[r][n] = IF r = o /\ n <= last THEN s ELSE 0
        BY <1>1
      <4>2. n <= last
        BY <3>2, <4>1
      <4> QED BY <1>2, <4>2, ChatAssumption DEF Message
    <3> QED BY <3>1, <3>2 DEF In
  <2>2. \A r \in Room : In(loadRooms.pages[r]) = {}
    <3>1. \A r \in Room : loadRooms.pages[r] = Empty
      BY <1>2, Empties
    <3> QED BY <3>1, Empties
  <2>3. ListOk(list)
    BY <1>2, ClockIs, Empties DEF ListOk
  <2> QED BY <1>2, <1>7, <2>1, <2>2, <2>3 DEF LastInv
<1>9. PagesInv /\ OlderInv
  BY <1>2, Empties DEF PagesInv, OlderInv
<1>10. ShownInv
  BY <1>7 DEF ShownInv, NoGap, ShownAsStored, ShownIsStored
<1> QED BY <1>5, <1>6, <1>8, <1>9, <1>10 DEF ChatInv

\* Steps that touch neither the messages nor their loads.
LEMMA PageStep ==
  ASSUME ChatInv,
         UNCHANGED <<db, due, last, history, loadRooms, loadRoom, deleting, raced, skipped>>,
         managers' \in [Room -> Nat],
         ListOk(list'), active' \in Room \cup {NoRoom}, rooms' \subseteq Room,
         page' \in {"spinner", "dashboard", "away", "opened"}, inits' \in Nat,
         upTo' \in Nat, BeforeInv'
  PROVE  ChatInv'
<1>1. CTypeOK'
  BY DEF ChatInv, CTypeOK, ListOk, ListRecord
<1>2. LastInv'
  BY DEF ChatInv, LastInv, ListOk, Shown, Clock
<1>3. PagesInv' /\ OlderInv'
  BY DEF ChatInv, PagesInv, OlderInv
<1>4. ShownInv'
  BY DEF ChatInv, ShownInv, NoGap, ShownAsStored, ShownIsStored, Shown
<1> QED BY <1>1, <1>2, <1>3, <1>4 DEF ChatInv

LEMMA ListShownOk ==
  ASSUME ChatInv
  PROVE  /\ ListOk(ListShown) /\ ListOk(NoList)
         /\ \A r \in Room : ListOk([room |-> r, first |-> Oldest(r),
                                    listens |-> loadRoom = NoLoadRoom])
<1>1. last \in Nat /\ last <= MaxMessages /\ active \in Room \cup {NoRoom}
  BY ChatTypes DEF ChatInv, CTypeOK
<1>2. ListOk(NoList)
  BY <1>1, ClockIs, Empties DEF ListOk
<1>3. ASSUME NEW r \in Room
      PROVE  ListOk([room |-> r, first |-> Oldest(r), listens |-> loadRoom = NoLoadRoom])
  <2>1. Oldest(r) \in Nat /\ Oldest(r) <= Clock
    BY <1>1, OldestIs, ClockIs DEF ChatInv, LastInv
  <2>2. PICK b \in BOOLEAN : b = (loadRoom = NoLoadRoom)
    OBVIOUS
  <2> QED BY <2>1, <2>2, NoneAssumption DEF ListOk, ListRecord
<1> QED BY <1>1, <1>2, <1>3 DEF ListShown

LEMMA RunSyncMessageHistoryStep == ASSUME ChatInv, RunSyncMessageHistory PROVE ChatInv'
<1>1. /\ page = "opened" /\ page' = "spinner" /\ upTo' = Clock + 1 /\ inits' = inits + 1
      /\ UNCHANGED <<db, due, last, managers, rooms, history, loadRooms, loadRoom,
                     deleting, active, list, raced, skipped>>
  BY DEF RunSyncMessageHistory
<1>2. /\ managers \in [Room -> Nat] /\ ListOk(list) /\ active \in Room \cup {NoRoom}
      /\ rooms \subseteq Room /\ inits \in Nat /\ Clock \in Nat
  BY ClockIs, ChatTypes DEF ChatInv, CTypeOK, LastInv
<1>3. BeforeInv'
  BY <1>1 DEF ChatInv, BeforeInv
<1>4. ListOk(list')
  BY <1>1, <1>2
<1> QED BY <1>1, <1>2, <1>3, <1>4, PageStep

LEMMA LoginStep == ASSUME ChatInv, Login PROVE ChatInv'
<1>1. /\ page' = "dashboard" /\ rooms' = {Lobby} /\ inits' = inits + 1 /\ list' = ListShown
      /\ managers' = [r \in Room |-> IF r \in {Lobby} THEN managers[r] + 1 ELSE managers[r]]
      /\ UNCHANGED <<db, due, last, upTo, history, loadRooms, loadRoom, deleting, active,
                     raced, skipped>>
  BY DEF Login, RegisterReceiveMessageHandler
<1>2. /\ managers \in [Room -> Nat] /\ active \in Room \cup {NoRoom}
      /\ inits \in Nat /\ upTo \in Nat
  BY DEF ChatInv, CTypeOK
<1>3. managers' \in [Room -> Nat] /\ inits' \in Nat
  BY <1>1, <1>2
<1>4. BeforeInv'
  BY <1>1 DEF BeforeInv
<1> QED BY <1>1, <1>2, <1>3, <1>4, ListShownOk, NoneAssumption, PageStep

LEMMA ViewStep ==
  ASSUME ChatInv,
         \/ Navigate \/ HandleActiveChatClosing \/ UNCHANGED cvars
         \/ \E r \in Room : AddActiveChatRoom(r)
  PROVE  ChatInv'
<1>1. /\ UNCHANGED <<db, due, last, managers, inits, upTo, rooms, history, loadRooms,
                     loadRoom, deleting, raced, skipped>>
      /\ \/ page' \in {"dashboard", "away"}
         \/ UNCHANGED <<page, list, active>>
  BY DEF Navigate, HandleActiveChatClosing, AddActiveChatRoom, cvars, session
<1>2. /\ managers \in [Room -> Nat]
      /\ ListOk(list) /\ rooms \subseteq Room /\ inits \in Nat /\ upTo \in Nat
      /\ active \in Room \cup {NoRoom}
      /\ page \in {"spinner", "dashboard", "away", "opened"}
  BY DEF ChatInv, CTypeOK, LastInv
<1>3. ListOk(list') /\ active' \in Room \cup {NoRoom}
  BY <1>2, ListShownOk
  DEF Navigate, HandleActiveChatClosing, AddActiveChatRoom, cvars
<1>4. BeforeInv'
  BY <1>1 DEF ChatInv, BeforeInv
<1> QED BY <1>1, <1>2, <1>3, <1>4, PageStep

\* The page has left the synchronisation behind, and stays where it is.
LEMMA AfterwardsStep ==
  ASSUME ChatInv, UNCHANGED session, page \notin {"opened", "spinner"}
  PROVE  BeforeInv'
BY DEF BeforeInv, session

LEMMA HistorySyncedStep == ASSUME ChatInv, HistorySynced PROVE ChatInv'
<1>1. /\ page = "spinner" /\ page' = "dashboard" /\ upTo' = 0
      /\ managers' = [r \in Room |-> IF r \in rooms THEN managers[r] + 1 ELSE managers[r]]
      /\ due' = [r \in Room |-> {}]
      /\ loadRooms' = [NoLoad EXCEPT !.todo = rooms, !.from = Clock + 1]
      /\ UNCHANGED <<last, inits, rooms, history, loadRoom, deleting, active, list, raced,
                     skipped>>
  BY DEF HistorySynced, RegisterReceiveMessageHandler, LoadMessagesForRooms
<1>2. PICK brought \in [Message -> 0 .. MaxCopies] :
        db' = [r \in Room |-> [n \in Message |->
                 IF n \in due[r] THEN db[r][n] + brought[n] ELSE db[r][n]]]
  BY DEF HistorySynced
<1>3. /\ managers = [r \in Room |-> 0] /\ rooms = Room
      /\ history = [r \in Room |-> NoHistory]
      /\ loadRooms = NoLoad /\ loadRoom = NoLoadRoom /\ list = NoList
  BY <1>1 DEF ChatInv, BeforeInv
<1>4. /\ db \in [Room -> Bag] /\ due \in [Room -> SUBSET Message]
      /\ last \in Nat /\ last <= MaxMessages /\ MaxMessages \in Nat
      /\ Clock \in Nat /\ Clock + 1 \in Nat
  BY ChatTypes, ClockIs DEF ChatInv
<1>5. \A r \in Room : \A n \in Message :
        /\ db'[r][n] \in Nat
        /\ n \notin due[r] => db'[r][n] = db[r][n]
  <2> SUFFICES ASSUME NEW r \in Room, NEW n \in Message
               PROVE  /\ db'[r][n] \in Nat
                      /\ n \notin due[r] => db'[r][n] = db[r][n]
    OBVIOUS
  <2>1. db[r][n] \in Nat
    BY <1>4 DEF Bag
  <2>2. brought[n] \in Nat
    BY ChatAssumption
  <2>3. db'[r][n] = IF n \in due[r] THEN db[r][n] + brought[n] ELSE db[r][n]
    BY <1>2
  <2> QED BY <2>1, <2>2, <2>3
<1>6. db' \in [Room -> Bag]
  <2>1. \A r \in Room : db'[r] \in Bag
    BY <1>2, <1>5 DEF Bag
  <2> QED BY <1>2, <2>1
<1>7. managers' \in [Room -> Nat] /\ due' \in [Room -> SUBSET Message]
  BY <1>1, <1>3
<1>8. /\ loadRooms' \in LoadRoomsRecord /\ loadRooms'.todo = Room /\ loadRooms'.read = {}
      /\ loadRooms'.from = Clock + 1
      /\ \A r \in Room : loadRooms'.pages[r] = Empty
  <2>1. PICK none \in LoadRoomsRecord :
          /\ none = NoLoad /\ none.read = {} /\ \A r \in Room : none.pages[r] = Empty
    BY Empties
  <2>2. loadRooms' = [none EXCEPT !.todo = Room, !.from = Clock + 1]
    BY <1>1, <1>3, <2>1
  <2> QED BY <1>4, <2>1, <2>2 DEF LoadRoomsRecord
<1>9. CTypeOK'
  BY <1>1, <1>4, <1>6, <1>7, <1>8 DEF ChatInv, CTypeOK, LoadRoomsRecord
<1>10. BeforeInv'
  BY <1>1 DEF BeforeInv
<1>11. \A r \in Room : Shown(r)' = {}
  BY <1>1, <1>3 DEF Shown
<1>12. \A r \in Room : In(db[r])' \subseteq 1 .. last
  <2> SUFFICES ASSUME NEW r \in Room, NEW n \in Message, db'[r][n] > 0
               PROVE  n \in 1 .. last
    BY DEF In
  <2>1. n \in due[r] \/ n \in In(db[r])
    BY <1>5 DEF In
  <2> QED BY <2>1 DEF ChatInv, LastInv
<1>13. LastInv'
  <2>1. ListOk(list)'
    BY <1>1 DEF ChatInv, LastInv, ListOk, Clock
  <2>2. \A r \in Room : In(loadRooms.pages[r])' = {}
    BY <1>8, Empties
  <2> QED BY <1>1, <1>3, <1>11, <1>12, <2>1, <2>2 DEF LastInv
<1>14. PagesInv' /\ OlderInv'
  <2>1. \A r \in Room : \A n \in In(db'[r]) : TimeOf[n] < Clock + 1
    <3>1. \A r \in Room : \A n \in In(db'[r]) : n \in 1 .. last
      BY <1>12
    <3>2. \A n \in 1 .. last : TimeOf[n] < Clock + 1
      BY <1>4, ClockIs, Times
    <3> QED BY <3>1, <3>2
  <2> QED BY <1>1, <1>3, <1>8, <2>1, Empties DEF PagesInv, OlderInv
<1>15. ShownInv'
  BY <1>11 DEF ShownInv, NoGap, ShownAsStored, ShownIsStored
<1> QED BY <1>9, <1>10, <1>13, <1>14, <1>15 DEF ChatInv

\* Where a step of a load or of a room can be.
LEMMA ThenAfterwards ==
  ASSUME ChatInv, UNCHANGED session,
         \/ loadRooms.todo # {} \/ loadRooms.read # {} \/ loadRoom.room # NoRoom
         \/ loadRoom.read \/ list.first # 0 \/ deleting # {} \/ page = "dashboard"
  PROVE  BeforeInv'
<1>1. page \notin {"opened", "spinner"}
  BY Empties DEF ChatInv, BeforeInv
<1> QED BY <1>1, AfterwardsStep

LEMMA ReadRoomsStep ==
  ASSUME ChatInv, NEW r \in Room, ReadRooms(r)
  PROVE  ChatInv'
<1>1. /\ r \in loadRooms.todo
      /\ UNCHANGED <<db, due, last, session, history, loadRoom, deleting, active, list,
                     raced, skipped>>
  BY DEF ReadRooms
<1>2. /\ db \in [Room -> Bag] /\ last \in Nat /\ last <= MaxMessages
      /\ loadRooms \in LoadRoomsRecord /\ loadRooms.from \in Nat
      /\ loadRooms.todo \subseteq Room /\ loadRooms.read \subseteq Room
      /\ loadRooms.pages \in [Room -> Bag]
  BY ChatTypes DEF ChatInv
<1>3. PICK p \in PageBefore(r, loadRooms.from) :
        loadRooms' = [loadRooms EXCEPT !.todo = loadRooms.todo \ {r},
                                       !.read = loadRooms.read \cup {r},
                                       !.pages[r] = p]
  BY DEF ReadRooms
<1>4. p \in Bag /\ NoHole(p, db[r], loadRooms.from)
  BY <1>2, PageIs
<1>5. PICK pages \in [Room -> Bag] :
        /\ pages = [loadRooms.pages EXCEPT ![r] = p]
        /\ pages[r] = p /\ \A q \in Room : q # r => pages[q] = loadRooms.pages[q]
  <2>1. PICK old \in [Room -> Bag] : old = loadRooms.pages
    BY <1>2
  <2>2. [old EXCEPT ![r] = p] \in [Room -> Bag]
    BY <1>4
  <2> QED BY <2>1, <2>2
<1>6. loadRooms' = [todo |-> loadRooms.todo \ {r}, from |-> loadRooms.from,
                    read |-> loadRooms.read \cup {r}, pages |-> pages]
  BY <1>2, <1>3, <1>5 DEF LoadRoomsRecord
<1>7. /\ loadRooms' \in LoadRoomsRecord /\ loadRooms'.pages = pages
      /\ loadRooms'.todo = loadRooms.todo \ {r} /\ loadRooms'.from = loadRooms.from
      /\ loadRooms'.read = loadRooms.read \cup {r}
  BY <1>2, <1>6 DEF LoadRoomsRecord
<1>8. loadRooms # NoLoad
  BY <1>1, Empties
<1>9. CTypeOK'
  BY <1>1, <1>7 DEF ChatInv, CTypeOK, LoadRoomsRecord, session
<1>10. BeforeInv'
  BY <1>1, ThenAfterwards
<1>11. \A q \in Room : Shown(q)' = Shown(q)
  BY <1>1 DEF Shown
<1>12. LastInv'
  <2>1. In(p) \subseteq In(db[r])
    <3>1. \A n \in Message : p[n] \in Nat /\ db[r][n] \in Nat /\ p[n] <= db[r][n]
      BY <1>2, <1>4 DEF NoHole, Bag
    <3> QED BY <3>1 DEF In
  <2>2. \A q \in Room : In(pages[q]) \subseteq 1 .. last
    BY <1>5, <2>1 DEF ChatInv, LastInv
  <2> QED BY <1>1, <1>7, <1>11, <2>2 DEF ChatInv, LastInv, ListOk, Clock
<1>13. PagesInv'
  <2>1. loadRooms'.todo \cup loadRooms'.read = loadRooms.todo \cup loadRooms.read
    BY <1>1, <1>7
  <2>2. \A q \in loadRooms'.read \ raced : NoHole(pages[q], db[q], loadRooms.from)
    BY <1>2, <1>4, <1>5, <1>7 DEF ChatInv, PagesInv
  <2> QED BY <1>1, <1>7, <1>8, <2>1, <2>2 DEF ChatInv, PagesInv
<1>14. OlderInv'
  BY <1>1 DEF ChatInv, OlderInv
<1>15. ShownInv'
  BY <1>1, <1>11 DEF ChatInv, ShownInv, NoGap, ShownAsStored, ShownIsStored
<1> QED BY <1>9, <1>10, <1>12, <1>13, <1>14, <1>15 DEF ChatInv

LEMMA MessagesForRoomsLoadedStep == ASSUME ChatInv, MessagesForRoomsLoaded PROVE ChatInv'
<1>1. /\ loadRooms.todo = {} /\ loadRooms.read # {} /\ loadRooms' = NoLoad
      /\ UNCHANGED <<db, due, last, session, loadRoom, deleting, active, list, raced,
                     skipped>>
  BY DEF MessagesForRoomsLoaded
<1>2. /\ db \in [Room -> Bag] /\ loadRooms.pages \in [Room -> Bag]
  BY ChatTypes DEF ChatInv
<1>3. loadRooms.read = Room
  BY <1>1, Empties DEF ChatInv, PagesInv
<1>4. history' = [q \in Room |-> loadRooms.pages[q]]
  BY <1>3 DEF MessagesForRoomsLoaded
<1>5. \A q \in Room : Shown(q)' = {} \/ Shown(q)' = In(loadRooms.pages[q])
  BY <1>4 DEF Shown
<1>6. CTypeOK'
  BY <1>1, <1>2, <1>4, Empties DEF ChatInv, CTypeOK, LoadRoomsRecord, session
<1>7. BeforeInv'
  BY <1>1, ThenAfterwards
<1>8. LastInv'
  <2>1. \A q \in Room : In(loadRooms'.pages[q]) = {}
    BY <1>1, Empties
  <2> QED BY <1>1, <1>5, <2>1 DEF ChatInv, LastInv, ListOk, Clock
<1>9. PagesInv' /\ OlderInv'
  BY <1>1, Empties DEF ChatInv, PagesInv, OlderInv
<1>10. ASSUME NEW q \in Room, q \notin raced
       PROVE  /\ NoHole(loadRooms.pages[q], db[q], loadRooms.from)
              /\ \A n \in In(db[q]) : TimeOf[n] < loadRooms.from
  BY <1>3, <1>10 DEF ChatInv, PagesInv
<1>11. ShownInv'
  <2>1. NoGap'
    <3> SUFFICES ASSUME NEW q \in Room, NEW n \in In(db[q]), q \notin raced,
                        NEW m \in Shown(q)', TimeOf[m] < TimeOf[n]
                 PROVE  n \in Shown(q)'
      BY <1>1 DEF NoGap
    <3>1. Shown(q)' = In(loadRooms.pages[q])
      BY <1>5
    <3> QED BY <1>10, <3>1 DEF NoHole
  <2>2. ShownAsStored'
    BY <1>1, <1>4, <1>10 DEF ShownAsStored, NoHole, In
  <2>3. ShownIsStored'
    <3> SUFFICES ASSUME NEW q \in Room, q \notin raced PROVE Shown(q)' \subseteq In(db[q])
      BY <1>1 DEF ShownIsStored
    <3>1. NoHole(loadRooms.pages[q], db[q], loadRooms.from)
      BY <1>10
    <3>2. \A n \in Message : loadRooms.pages[q][n] \in Nat /\ db[q][n] \in Nat
      BY <1>2 DEF Bag
    <3> QED BY <1>5, <3>1, <3>2 DEF NoHole, In
  <2> QED BY <2>1, <2>2, <2>3 DEF ShownInv
<1> QED BY <1>6, <1>7, <1>8, <1>9, <1>11 DEF ChatInv

LEMMA FetchNewMessagesStep == ASSUME ChatInv, FetchNewMessages PROVE ChatInv'
<1>1. /\ list.first # 0
      /\ loadRoom' = [NoLoadRoom EXCEPT !.room = list.room, !.from = list.first]
      /\ list' = [list EXCEPT !.listens = FALSE]
      /\ UNCHANGED <<db, due, last, session, history, loadRooms, deleting, active, skipped>>
  BY DEF FetchNewMessages, LoadMessagesForRoom
<1>2. list \in ListRecord
  BY ChatTypes DEF ChatInv
<1>3. list.room \in Room /\ list.first \in Nat \ {0} /\ list.first <= Clock
  BY <1>1, <1>2 DEF ChatInv, LastInv, ListOk, ListRecord
<1>4. raced \subseteq raced' /\ raced' \subseteq Room
  BY <1>3, Flagged DEF FetchNewMessages, ChatInv, CTypeOK
<1>5. list' \in ListRecord /\ list'.first = list.first /\ list'.room = list.room
  BY <1>1, <1>2 DEF ListRecord
<1>6. loadRoom' = [room |-> list.room, from |-> list.first, page |-> Empty, read |-> FALSE]
  BY <1>1 DEF NoLoadRoom
<1>7. /\ loadRoom' \in LoadRoomRecord /\ loadRoom'.read = FALSE
      /\ loadRoom'.from = list.first
  BY <1>3, <1>6, Empties DEF LoadRoomRecord
<1>8. CTypeOK'
  BY <1>1, <1>4, <1>5, <1>7
  DEF ChatInv, CTypeOK, LoadRoomRecord, ListRecord, session
<1>9. BeforeInv'
  BY <1>1, ThenAfterwards
<1>10. \A q \in Room : Shown(q)' = Shown(q)
  BY <1>1 DEF Shown
<1>11. LastInv'
  BY <1>1, <1>3, <1>5, <1>7, <1>10 DEF ChatInv, LastInv, ListOk, Clock
<1>12. PagesInv' /\ OlderInv'
  BY <1>1, <1>4, <1>7 DEF ChatInv, PagesInv, OlderInv
<1>13. ShownInv'
  BY <1>1, <1>4, <1>10 DEF ChatInv, ShownInv, NoGap, ShownAsStored, ShownIsStored
<1> QED BY <1>8, <1>9, <1>11, <1>12, <1>13 DEF ChatInv

LEMMA ReadRoomStep == ASSUME ChatInv, ReadRoom PROVE ChatInv'
<1>1. /\ loadRoom.room # NoRoom
      /\ UNCHANGED <<db, due, last, session, history, loadRooms, deleting, active, list,
                     raced, skipped>>
  BY DEF ReadRoom
<1>2. PICK r \in Room, from \in Nat \ {0} : r = loadRoom.room /\ from = loadRoom.from
  BY <1>1, ChatTypes DEF ChatInv
<1>3. loadRoom \in LoadRoomRecord /\ db \in [Room -> Bag] /\ from <= Clock
  <2>1. loadRoom # NoLoadRoom
    BY <1>1, Empties
  <2> QED BY <1>2, <2>1, ChatTypes DEF ChatInv, LastInv
<1>4. PICK p \in PageBefore(r, from) : loadRoom' = [loadRoom EXCEPT !.read = TRUE, !.page = p]
  BY <1>2 DEF ReadRoom
<1>5. p \in Bag /\ (\A n \in In(p) : TimeOf[n] < from) /\ NoHole(p, db[r], from)
  BY <1>3, PageIs
<1>6. /\ loadRoom' \in LoadRoomRecord /\ loadRoom'.room = r /\ loadRoom'.from = from
      /\ loadRoom'.page = p
  BY <1>2, <1>3, <1>4, <1>5 DEF LoadRoomRecord
<1>7. CTypeOK'
  BY <1>1, <1>6 DEF ChatInv, CTypeOK, LoadRoomRecord, session
<1>8. BeforeInv'
  BY <1>1, ThenAfterwards
<1>9. \A q \in Room : Shown(q)' = Shown(q)
  BY <1>1 DEF Shown
<1>10. LastInv'
  BY <1>1, <1>3, <1>6, <1>9 DEF ChatInv, LastInv, ListOk, Clock
<1>11. PagesInv' /\ OlderInv'
  BY <1>1, <1>5, <1>6 DEF ChatInv, PagesInv, OlderInv
<1>12. ShownInv'
  BY <1>1, <1>9 DEF ChatInv, ShownInv, NoGap, ShownAsStored, ShownIsStored
<1> QED BY <1>7, <1>8, <1>10, <1>11, <1>12 DEF ChatInv

\* The page that goes before a history: it ends where the history begins.
LEMMA MessagesForRoomLoadedStep == ASSUME ChatInv, MessagesForRoomLoaded PROVE ChatInv'
<1>1. /\ loadRoom.read /\ loadRoom' = NoLoadRoom
      /\ UNCHANGED <<db, due, last, session, loadRooms, deleting, active, list>>
  BY DEF MessagesForRoomLoaded
<1>2. PICK r \in Room, from \in Nat \ {0}, p \in Bag :
        r = loadRoom.room /\ from = loadRoom.from /\ p = loadRoom.page
  BY <1>1, ChatTypes DEF ChatInv
<1>3. /\ history \in [Room -> Bag \cup {NoHistory}] /\ db \in [Room -> Bag]
      /\ last \in Nat /\ last <= MaxMessages
  BY ChatTypes DEF ChatInv, CTypeOK
<1>4. /\ raced \subseteq raced' /\ raced' \subseteq Room
      /\ Oldest(r) # from => r \in raced'
  BY <1>2, Flagged DEF MessagesForRoomLoaded, ChatInv, CTypeOK
<1>5. /\ history' = IF history[r] = NoHistory THEN history
                    ELSE [history EXCEPT ![r] = Plus(p, history[r])]
      /\ skipped' = skipped \cup {n \in In(db[r]) \ Shown(r) : TimeOf[n] = from}
  BY <1>2 DEF MessagesForRoomLoaded
<1>6. /\ \A n \in In(p) : TimeOf[n] < from
      /\ r \notin raced => NoHole(p, db[r], from)
      /\ from <= Clock
  <2>1. loadRoom # NoLoadRoom
    BY <1>1, Empties
  <2> QED BY <1>1, <1>2, <2>1 DEF ChatInv, OlderInv, LastInv
<1>7. \A q \in Room : q # r => Shown(q)' = Shown(q) /\ history'[q] = history[q]
  BY <1>3, <1>5 DEF Shown
<1>8. skipped \subseteq skipped' /\ skipped' \subseteq Message
  BY <1>5 DEF ChatInv, CTypeOK, In
<1>9. BeforeInv' /\ PagesInv' /\ OlderInv'
  BY <1>1, <1>4, ThenAfterwards, Empties DEF ChatInv, PagesInv, OlderInv
<1>10. CASE history[r] = NoHistory
  <2>1. UNCHANGED history /\ \A q \in Room : Shown(q)' = Shown(q)
    BY <1>5, <1>10 DEF Shown
  <2>2. CTypeOK'
    BY <1>1, <1>4, <1>8, <2>1 DEF ChatInv, CTypeOK, session
  <2>3. LastInv'
    BY <1>1, <2>1 DEF ChatInv, LastInv, ListOk, Clock
  <2>4. ShownInv'
    BY <1>1, <1>4, <1>8, <2>1
    DEF ChatInv, ShownInv, NoGap, ShownAsStored, ShownIsStored
  <2> QED BY <1>9, <2>2, <2>3, <2>4 DEF ChatInv
<1>11. CASE history[r] # NoHistory
  <2>1. PICK old \in Bag, sum \in Bag :
          /\ old = history[r] /\ Shown(r) = In(old)
          /\ sum = Plus(p, old) /\ \A n \in Message : sum[n] = p[n] + old[n]
    <3>1. history[r] \in Bag /\ Shown(r) = In(history[r])
      BY <1>3, <1>11 DEF Shown
    <3>2. Plus(p, history[r]) \in Bag
      BY <3>1 DEF Plus, Bag
    <3> QED BY <3>1, <3>2 DEF Plus
  <2>2. history' = [history EXCEPT ![r] = sum] /\ history'[r] = sum
    BY <1>3, <1>5, <1>11, <2>1
  <2>3. In(sum) = In(p) \cup In(old)
    <3>1. \A n \in Message : p[n] \in Nat /\ old[n] \in Nat
      BY DEF Bag
    <3> QED BY <2>1, <3>1 DEF In
  <2>4. Shown(r)' \subseteq In(sum) /\ (Shown(r)' = {} \/ Shown(r)' = In(sum))
    BY <2>2 DEF Shown
  <2>5. CTypeOK'
    <3>1. history' \in [Room -> Bag \cup {NoHistory}]
      BY <1>3, <2>2
    <3> QED BY <1>1, <1>4, <1>8, <3>1 DEF ChatInv, CTypeOK, session
  <2>6. LastInv'
    <3>1. In(p) \subseteq 1 .. last
      <4>1. \A n \in In(p) : n \in Message /\ TimeOf[n] \in Nat /\ TimeOf[n] < Clock
        BY <1>3, <1>6, ClockIs, Times DEF In
      <4> QED BY <1>3, <4>1, ClockIs
    <3>2. \A q \in Room : Shown(q)' \subseteq 1 .. last
      BY <1>7, <2>1, <2>3, <2>4, <3>1 DEF ChatInv, LastInv
    <3> QED BY <1>1, <3>2 DEF ChatInv, LastInv, ListOk, Clock
  <2>7. ASSUME r \notin raced'
        PROVE  /\ r \notin raced /\ (\A m \in In(old) : from <= TimeOf[m])
               /\ \E o \in In(old) : from = TimeOf[o]
               /\ NoHole(p, db[r], from)
    <3>1. r \notin raced /\ Oldest(r) = from
      BY <1>4, <2>7
    <3>2. Shown(r) # {}
      BY <3>1, OldestIs DEF ChatInv
    <3> QED BY <1>6, <2>1, <3>1, <3>2, OldestIs DEF ChatInv
  <2>8. NoGap'
    <3>1. ASSUME NEW n \in In(db[r]), NEW m \in Shown(r)', TimeOf[m] < TimeOf[n],
                 r \notin raced', n \notin skipped'
          PROVE  n \in In(sum)
      <4>1. m \in In(p) \/ m \in In(old)
        BY <2>3, <2>4, <3>1
      <4>2. TimeOf[n] \in Nat /\ TimeOf[m] \in Nat
        BY <3>1, <2>4, Times DEF In
      <4>3. CASE TimeOf[n] < from
        <5>1. m \in In(p)
          BY <2>7, <3>1, <4>1, <4>2, <4>3
        <5> QED BY <2>3, <2>7, <3>1, <4>3, <5>1 DEF NoHole
      <4>4. CASE TimeOf[n] = from
        <5>1. n \in Shown(r)
          BY <1>5, <3>1, <4>4
        <5> QED BY <2>1, <2>3, <5>1
      <4>5. CASE from < TimeOf[n]
        <5>1. n \in Shown(r)
          BY <1>8, <2>1, <2>7, <3>1, <4>5 DEF ChatInv, ShownInv, NoGap
        <5> QED BY <2>1, <2>3, <5>1
      <4> QED BY <4>2, <4>3, <4>4, <4>5
    <3>2. ASSUME NEW q \in Room, NEW n \in In(db[q]), NEW m \in Shown(q)',
                 TimeOf[m] < TimeOf[n], q \notin raced', n \notin skipped'
          PROVE  n \in Shown(q)'
      <4>1. CASE q = r
        BY <2>4, <3>1, <3>2, <4>1
      <4>2. CASE q # r
        BY <1>4, <1>7, <1>8, <3>2, <4>2 DEF ChatInv, ShownInv, NoGap
      <4> QED BY <4>1, <4>2
    <3> QED BY <1>1, <3>2 DEF NoGap
  <2>9. ShownAsStored'
    <3>1. ASSUME NEW n \in Shown(r)', n \in In(db[r]), r \notin raced'
          PROVE  sum[n] <= db[r][n]
      <4>1. n \in Message /\ p[n] \in Nat /\ old[n] \in Nat /\ sum[n] = p[n] + old[n]
            /\ db[r][n] \in Nat /\ TimeOf[n] \in Nat
        BY <1>3, <2>1, <2>4, <3>1, Times DEF In, Bag
      <4>2. CASE n \in In(old)
        <5>1. old[n] <= db[r][n]
          BY <2>1, <2>7, <3>1, <4>2 DEF ChatInv, ShownInv, ShownAsStored
        <5>2. ~(n \in In(p))
          BY <1>6, <2>7, <3>1, <4>1, <4>2
        <5> QED BY <4>1, <5>1, <5>2 DEF In
      <4>3. CASE n \notin In(old)
        <5>1. p[n] <= db[r][n]
          BY <2>7, <3>1, <4>1 DEF NoHole
        <5> QED BY <4>1, <4>3, <5>1 DEF In
      <4> QED BY <4>2, <4>3
    <3>2. ASSUME NEW q \in Room, NEW n \in Shown(q)', n \in In(db[q]), q \notin raced'
          PROVE  history'[q][n] <= db[q][n]
      <4>1. CASE q = r
        BY <2>2, <3>1, <3>2, <4>1
      <4>2. CASE q # r
        BY <1>4, <1>7, <3>2, <4>2 DEF ChatInv, ShownInv, ShownAsStored
      <4> QED BY <4>1, <4>2
    <3> QED BY <1>1, <3>2 DEF ShownAsStored
  <2>10. ShownIsStored'
    <3>1. ASSUME r \notin raced', r \notin deleting PROVE Shown(r)' \subseteq In(db[r])
      <4>1. In(p) \subseteq In(db[r])
        <5>1. \A n \in Message : p[n] \in Nat /\ db[r][n] \in Nat
          BY <1>3 DEF Bag
        <5> QED BY <2>7, <3>1, <5>1 DEF NoHole, In
      <4>2. In(old) \subseteq In(db[r])
        BY <2>1, <2>7, <3>1 DEF ChatInv, ShownInv, ShownIsStored
      <4> QED BY <2>3, <2>4, <4>1, <4>2
    <3> QED BY <1>1, <1>4, <1>7, <3>1 DEF ChatInv, ShownInv, ShownIsStored
  <2> QED BY <1>9, <2>5, <2>6, <2>8, <2>9, <2>10 DEF ChatInv, ShownInv
<1> QED BY <1>10, <1>11

LEMMA Deleted ==
  ASSUME ChatInv, NEW r \in Room, Delete(r), FlagIf(Read(r), r),
         UNCHANGED <<due, last, session, loadRooms, loadRoom, active, list>>,
         \A q \in Room : Shown(q)' \subseteq Shown(q)
  PROVE  /\ db' \in [Room -> Bag] /\ In(db'[r]) = {}
         /\ \A q \in Room : q # r => db'[q] = db[q]
         /\ raced \subseteq raced' /\ raced' \subseteq Room
         /\ LastInv' /\ PagesInv' /\ OlderInv'
<1>1. /\ db \in [Room -> Bag] /\ raced \subseteq Room /\ loadRooms.read \subseteq Room
      /\ loadRooms.todo \subseteq Room
      /\ loadRoom.read => loadRoom.room \in Room
  BY ChatTypes DEF ChatInv, CTypeOK
<1>2. PICK e \in Bag : e = Empty /\ In(e) = {} /\ \A n \in Message : e[n] = 0
  BY Empties
<1>3. /\ db' \in [Room -> Bag] /\ db'[r] = e /\ In(db'[r]) = {}
      /\ \A q \in Room : q # r => db'[q] = db[q]
  BY <1>1, <1>2 DEF Delete
<1>4. raced \subseteq raced' /\ raced' \subseteq Room /\ (Read(r) => r \in raced')
  BY <1>1, Flagged
<1>5. LastInv'
  <2>1. \A q \in Room : In(db[q])' \subseteq 1 .. last /\ Shown(q)' \subseteq 1 .. last
    BY <1>2, <1>3 DEF ChatInv, LastInv
  <2> QED BY <2>1 DEF ChatInv, LastInv, ListOk, Clock
<1>6. PagesInv'
  <2>1. \A q \in loadRooms.read \ raced' : q # r /\ q \in loadRooms.read \ raced
    BY <1>4 DEF Read
  <2>2. \A q \in loadRooms.read \ raced' :
          NoHole(loadRooms.pages[q], db'[q], loadRooms.from)
    BY <1>1, <1>3, <2>1 DEF ChatInv, PagesInv
  <2>3. \A q \in (loadRooms.todo \cup loadRooms.read) \ raced' :
          \A n \in In(db'[q]) : TimeOf[n] < loadRooms.from
    BY <1>1, <1>3, <1>4 DEF ChatInv, PagesInv
  <2> QED BY <2>2, <2>3 DEF ChatInv, PagesInv
<1>7. OlderInv'
  <2>1. ASSUME loadRoom.read, loadRoom.room \notin raced'
        PROVE  NoHole(loadRoom.page, db'[loadRoom.room], loadRoom.from)
    <3>1. loadRoom.room # r /\ loadRoom.room \notin raced
      BY <1>4, <2>1 DEF Read
    <3> QED BY <1>1, <1>3, <2>1, <3>1 DEF ChatInv, OlderInv
  <2> QED BY <2>1 DEF ChatInv, OlderInv
<1> QED BY <1>2, <1>3, <1>4, <1>5, <1>6, <1>7

LEMMA DeleteAllMessagesForRoomStep ==
  ASSUME ChatInv, NEW r \in Room, DeleteAllMessagesForRoom(r)
  PROVE  ChatInv'
<1>1. /\ page = "dashboard" /\ deleting' = deleting \cup {r}
      /\ Delete(r) /\ FlagIf(Read(r), r)
      /\ UNCHANGED <<due, last, session, history, loadRooms, loadRoom, active, list, skipped>>
  BY DEF DeleteAllMessagesForRoom
<1>2. \A q \in Room : Shown(q)' = Shown(q)
  BY <1>1 DEF Shown
<1>3. /\ db' \in [Room -> Bag] /\ In(db'[r]) = {}
      /\ \A q \in Room : q # r => db'[q] = db[q]
      /\ raced \subseteq raced' /\ raced' \subseteq Room
      /\ LastInv' /\ PagesInv' /\ OlderInv'
  BY <1>1, <1>2, Deleted
<1>4. CTypeOK'
  BY <1>1, <1>3 DEF ChatInv, CTypeOK, session
<1>5. BeforeInv'
  BY <1>1, ThenAfterwards
<1>6. NoGap' /\ ShownAsStored' /\ ShownIsStored'
  BY <1>1, <1>2, <1>3 DEF ChatInv, ShownInv, NoGap, ShownAsStored, ShownIsStored
<1> QED BY <1>3, <1>4, <1>5, <1>6 DEF ChatInv, ShownInv

LEMMA MessagesDeletedStep ==
  ASSUME ChatInv, NEW r \in Room, MessagesDeleted(r)
  PROVE  ChatInv'
<1>1. /\ r \in deleting /\ deleting' = deleting \ {r}
      /\ Delete(r) /\ FlagIf(Read(r), r)
      /\ history' = [q \in Room |-> IF q = r THEN Empty ELSE NoHistory]
      /\ UNCHANGED <<due, last, session, loadRooms, loadRoom, active, list, skipped>>
  BY DEF MessagesDeleted
<1>2. \A q \in Room : Shown(q)' = {}
  BY <1>1, Empties DEF Shown
<1>3. /\ db' \in [Room -> Bag] /\ raced' \subseteq Room
      /\ LastInv' /\ PagesInv' /\ OlderInv'
  BY <1>1, <1>2, Deleted
<1>4. history' \in [Room -> Bag \cup {NoHistory}]
  BY <1>1, Empties
<1>5. CTypeOK'
  BY <1>1, <1>3, <1>4 DEF ChatInv, CTypeOK, session
<1>6. BeforeInv'
  BY <1>1, ThenAfterwards
<1>7. ShownInv'
  BY <1>2 DEF ShownInv, NoGap, ShownAsStored, ShownIsStored
<1> QED BY <1>3, <1>5, <1>6, <1>7 DEF ChatInv

LEMMA ReceiveMessageStep ==
  ASSUME ChatInv, NEW r \in Room, ReceiveMessage(r)
  PROVE  ChatInv'
<1>1. /\ last < MaxMessages /\ last' = last + 1
      /\ UNCHANGED <<session, loadRooms, loadRoom, deleting, active, list, skipped>>
  BY DEF ReceiveMessage
<1>2. /\ db \in [Room -> Bag] /\ due \in [Room -> SUBSET Message]
      /\ last \in Nat /\ MaxMessages \in Nat /\ last <= MaxMessages
      /\ managers \in [Room -> Nat]
      /\ loadRooms.read \subseteq Room /\ loadRooms.todo \subseteq Room
      /\ raced \subseteq Room
      /\ history \in [Room -> Bag \cup {NoHistory}]
      /\ loadRoom.read => /\ loadRoom.room \in Room /\ loadRoom # NoLoadRoom
                          /\ loadRoom.from \in Nat
                          /\ loadRoom.page \in Bag
  BY ChatTypes DEF ChatInv, CTypeOK
<1>3. last' \in Message /\ last' \in 0 .. MaxMessages /\ last' \notin 1 .. last
      /\ 1 .. last \subseteq 1 .. last' /\ last' \in 1 .. last'
  BY <1>1, <1>2 DEF Message
<1>4. /\ raced \subseteq raced' /\ raced' \subseteq Room
      /\ r \in loadRooms.todo \cup loadRooms.read => r \in raced'
  BY <1>2, Flagged DEF ReceiveMessage
<1>5. /\ Clock' = TimeOf[last'] /\ Clock \in Nat /\ Clock' \in Nat /\ Clock <= Clock'
      /\ \A n \in 1 .. last : TimeOf[n] \in Nat /\ TimeOf[n] <= Clock'
  <2>1. Clock' = TimeOf[last'] /\ Clock' \in Nat
    BY <1>1, <1>2, <1>3, Times DEF Clock
  <2>2. \A n \in 1 .. last : n \in Message /\ n <= last' /\ TimeOf[n] \in Nat
    BY <1>1, <1>2, Times DEF Message
  <2>3. \A n \in 1 .. last : TimeOf[n] <= Clock'
    BY <1>3, <2>1, <2>2, Times
  <2>4. Clock <= Clock'
    BY <1>2, <2>1, <2>3, ClockIs DEF Clock
  <2> QED BY <1>2, <2>1, <2>2, <2>3, <2>4, ClockIs
<1>6. ListOk(list)' /\ (loadRoom' # NoLoadRoom => loadRoom'.from <= Clock')
  <2>1. ListOk(list) /\ (loadRoom # NoLoadRoom => loadRoom.from <= Clock)
    BY DEF ChatInv, LastInv
  <2>2. ListOk(list)'
    <3>1. list.first \in Nat
      BY <2>1 DEF ListOk, ListRecord
    <3> QED BY <1>1, <1>5, <2>1, <3>1 DEF ListOk
  <2>3. loadRoom # NoLoadRoom => loadRoom.from \in Nat
    BY ChatTypes DEF ChatInv, LoadRoomRecord
  <2> QED BY <1>1, <1>5, <2>1, <2>2, <2>3
<1>7. CASE managers[r] = 0
  <2>1. /\ UNCHANGED <<db, history>>
        /\ due' = IF page \in {"opened", "spinner"}
                    THEN [due EXCEPT ![r] = due[r] \cup {last'}] ELSE due
    BY <1>7 DEF ReceiveMessage
  <2>2. \A q \in Room : Shown(q)' = Shown(q)
    BY <2>1 DEF Shown
  <2>3. /\ due' \in [Room -> SUBSET Message]
        /\ \A q \in Room : due'[q] \subseteq due[q] \cup {last'}
    BY <1>2, <1>3, <2>1
  <2>4. CTypeOK'
    BY <1>1, <1>3, <1>4, <2>1, <2>3 DEF ChatInv, CTypeOK, session
  <2>5. BeforeInv'
    BY <1>1, <2>1 DEF ChatInv, BeforeInv, session
  <2>6. LastInv'
    <3>1. \A q \in Room : /\ In(db[q]) \subseteq 1 .. last' /\ due'[q] \subseteq 1 .. last'
                          /\ Shown(q) \subseteq 1 .. last'
                          /\ In(loadRooms.pages[q]) \subseteq 1 .. last'
      BY <1>3, <2>3 DEF ChatInv, LastInv
    <3> QED BY <1>1, <1>6, <2>1, <2>2, <3>1 DEF LastInv
  <2>7. PagesInv' /\ OlderInv'
    BY <1>1, <1>4, <2>1 DEF ChatInv, PagesInv, OlderInv
  <2>8. ShownInv'
    BY <1>1, <1>4, <2>1, <2>2
    DEF ChatInv, ShownInv, NoGap, ShownAsStored, ShownIsStored
  <2> QED BY <2>4, <2>5, <2>6, <2>7, <2>8 DEF ChatInv
<1>8. CASE managers[r] # 0
  <2>1. /\ UNCHANGED due
        /\ db' = [db EXCEPT ![r] = [db[r] EXCEPT ![last'] = managers[r]]]
        /\ history' = [history EXCEPT ![r] =
             [(IF history[r] = NoHistory THEN Empty ELSE history[r])
                EXCEPT ![last'] = managers[r]]]
    BY <1>8 DEF ReceiveMessage
  <2>2. PICK old \in Bag :
          /\ old = IF history[r] = NoHistory THEN Empty ELSE history[r]
          /\ Shown(r) = In(old)
    BY <1>2, Empties DEF Shown
  <2>3. PICK bag \in Bag, new \in Bag :
          /\ bag = [db[r] EXCEPT ![last'] = managers[r]]
          /\ new = [old EXCEPT ![last'] = managers[r]]
          /\ bag[last'] = managers[r] /\ new[last'] = managers[r]
          /\ \A n \in Message : n # last' => bag[n] = db[r][n] /\ new[n] = old[n]
    <3>1. db[r] \in Bag /\ managers[r] \in Nat
      BY <1>2
    <3>2. /\ [db[r] EXCEPT ![last'] = managers[r]] \in Bag
          /\ [old EXCEPT ![last'] = managers[r]] \in Bag
      BY <1>3, <3>1 DEF Bag
    <3> QED BY <1>3, <3>1, <3>2 DEF Bag
  <2>4. /\ db' \in [Room -> Bag] /\ db'[r] = bag
        /\ \A q \in Room : q # r => db'[q] = db[q]
    BY <1>2, <2>1, <2>3
  <2>5. /\ history' \in [Room -> Bag \cup {NoHistory}] /\ history'[r] = new
        /\ \A q \in Room : q # r => history'[q] = history[q] /\ Shown(q)' = Shown(q)
    BY <1>2, <2>1, <2>2, <2>3 DEF Shown
  <2>6. In(bag) = In(db[r]) \cup {last'} /\ In(new) = In(old) \cup {last'}
    <3>1. managers[r] > 0
      BY <1>2, <1>8
    <3> QED BY <1>3, <2>3, <3>1 DEF In
  <2>7. Shown(r)' = {} \/ Shown(r)' = In(new)
    BY <2>5 DEF Shown
  <2>8. CTypeOK'
    BY <1>1, <1>3, <1>4, <2>1, <2>4, <2>5 DEF ChatInv, CTypeOK, session
  <2>9. page \notin {"opened", "spinner"}
    BY <1>8 DEF ChatInv, BeforeInv
  <2>10. BeforeInv'
    BY <1>1, <2>9, AfterwardsStep
  <2>11. LastInv'
    <3>1. ASSUME NEW q \in Room
          PROVE  /\ In(db'[q]) \subseteq 1 .. last' /\ due[q] \subseteq 1 .. last'
                 /\ Shown(q)' \subseteq 1 .. last'
                 /\ In(loadRooms.pages[q]) \subseteq 1 .. last'
      <4>1. /\ In(db[q]) \subseteq 1 .. last' /\ due[q] \subseteq 1 .. last'
            /\ Shown(q) \subseteq 1 .. last'
            /\ In(loadRooms.pages[q]) \subseteq 1 .. last'
        BY <1>3 DEF ChatInv, LastInv
      <4> QED BY <1>3, <2>2, <2>4, <2>5, <2>6, <2>7, <4>1
    <3> QED BY <1>1, <1>6, <2>1, <3>1 DEF LastInv
  <2>12. PagesInv'
    <3>1. ASSUME NEW q \in loadRooms.read \ raced'
          PROVE  NoHole(loadRooms.pages[q], db'[q], loadRooms.from)
      BY <1>2, <1>4, <2>4, <3>1 DEF ChatInv, PagesInv
    <3>2. ASSUME NEW q \in (loadRooms.todo \cup loadRooms.read) \ raced'
          PROVE  \A n \in In(db'[q]) : TimeOf[n] < loadRooms.from
      BY <1>2, <1>4, <2>4, <3>2 DEF ChatInv, PagesInv
    <3> QED BY <1>1, <3>1, <3>2 DEF ChatInv, PagesInv
  <2>13. OlderInv'
    <3>1. ASSUME loadRoom.read, loadRoom.room \notin raced'
          PROVE  NoHole(loadRoom.page, db'[loadRoom.room], loadRoom.from)
      <4>1. /\ NoHole(loadRoom.page, db[loadRoom.room], loadRoom.from)
            /\ \A n \in In(loadRoom.page) : TimeOf[n] < loadRoom.from
        BY <1>4, <3>1 DEF ChatInv, OlderInv
      <4>2. ~(TimeOf[last'] < loadRoom.from)
        BY <1>1, <1>2, <1>5, <1>6, <3>1
      <4>3. CASE loadRoom.room = r
        <5>1. \A n \in Message : loadRoom.page[n] <= bag[n]
          <6>1. \A n \in Message : n # last' => loadRoom.page[n] <= bag[n]
            BY <2>3, <4>1, <4>3 DEF NoHole
          <6>2. last' \notin In(loadRoom.page) /\ loadRoom.page[last'] \in Nat
            BY <1>2, <1>3, <3>1, <4>1, <4>2 DEF Bag
          <6>3. loadRoom.page[last'] <= bag[last']
            BY <1>2, <1>3, <2>3, <6>2 DEF In
          <6> QED BY <6>1, <6>3
        <5>2. \A n \in In(bag) : TimeOf[n] < loadRoom.from => n \in In(db[r])
          BY <2>6, <4>2
        <5> QED BY <2>4, <4>1, <4>3, <5>1, <5>2 DEF NoHole
      <4>4. CASE loadRoom.room # r
        BY <1>2, <2>4, <3>1, <4>1, <4>4
      <4> QED BY <4>3, <4>4
    <3> QED BY <1>1, <3>1 DEF ChatInv, OlderInv
  <2>14. In(db[r]) \subseteq 1 .. last
    BY DEF ChatInv, LastInv
  <2>15. NoGap'
    <3>1. ASSUME NEW q \in Room, NEW n \in In(db'[q]), NEW m \in Shown(q)',
                 TimeOf[m] < TimeOf[n], q \notin raced', n \notin skipped
          PROVE  n \in Shown(q)'
      <4>1. CASE q # r
        BY <1>4, <2>4, <2>5, <3>1, <4>1 DEF ChatInv, ShownInv, NoGap
      <4>2. CASE q = r
        <5>1. Shown(r)' = In(old) \cup {last'} /\ n \in In(db[r]) \cup {last'}
          BY <2>4, <2>6, <2>7, <3>1, <4>2
        <5>2. n # last' => m # last'
          BY <1>5, <2>14, <3>1, <5>1
        <5>3. n # last' => n \in In(old)
          BY <1>4, <2>2, <3>1, <4>2, <5>1, <5>2 DEF ChatInv, ShownInv, NoGap
        <5> QED BY <4>2, <5>1, <5>3
      <4> QED BY <4>1, <4>2
    <3> QED BY <1>1, <3>1 DEF NoGap
  <2>16. ShownAsStored'
    <3>1. ASSUME NEW q \in Room, NEW n \in Shown(q)', n \in In(db'[q]), q \notin raced'
          PROVE  history'[q][n] <= db'[q][n]
      <4>1. CASE q # r
        BY <1>4, <2>4, <2>5, <3>1, <4>1 DEF ChatInv, ShownInv, ShownAsStored
      <4>2. CASE q = r /\ n = last'
        <5>1. history'[q][n] = managers[r] /\ db'[q][n] = managers[r]
          BY <2>3, <2>4, <2>5, <4>2
        <5> QED BY <1>2, <5>1
      <4>3. CASE q = r /\ n # last'
        <5>1. n \in In(old) /\ n \in Message /\ n \in In(db[r])
          BY <2>4, <2>6, <2>7, <3>1, <4>3 DEF In
        <5>2. old = history[r]
          BY <2>2, <5>1, Empties
        <5>3. old[n] <= db[r][n]
          BY <1>4, <2>2, <3>1, <4>3, <5>1, <5>2 DEF ChatInv, ShownInv, ShownAsStored
        <5> QED BY <2>3, <2>4, <2>5, <4>3, <5>1, <5>3
      <4> QED BY <4>1, <4>2, <4>3
    <3> QED BY <1>1, <3>1 DEF ShownAsStored
  <2>17. ShownIsStored'
    <3>1. ASSUME NEW q \in Room, q \notin raced', q \notin deleting
          PROVE  Shown(q)' \subseteq In(db'[q])
      <4>1. Shown(q) \subseteq In(db[q])
        BY <1>4, <3>1 DEF ChatInv, ShownInv, ShownIsStored
      <4> QED BY <2>2, <2>4, <2>5, <2>6, <2>7, <4>1
    <3> QED BY <1>1, <3>1 DEF ShownIsStored
  <2> QED
    BY <2>8, <2>10, <2>11, <2>12, <2>13, <2>15, <2>16, <2>17 DEF ChatInv, ShownInv
<1> QED BY <1>7, <1>8

LEMMA ChatStep == ASSUME ChatInv, [CNext]_cvars PROVE ChatInv'
BY RunSyncMessageHistoryStep, HistorySyncedStep, MessagesForRoomsLoadedStep, LoginStep,
   ViewStep, FetchNewMessagesStep, ReadRoomStep, MessagesForRoomLoadedStep,
   ReceiveMessageStep, ReadRoomsStep, DeleteAllMessagesForRoomStep, MessagesDeletedStep
DEF CNext

LEMMA ChatInvAlways == CSpec => []ChatInv
BY ChatAtStart, ChatStep, PTL DEF CSpec

\* The databases, the lists and the loads under way have their types, and an older
\* page is asked for only before a timestamp.
THEOREM ChatTypeCorrect == CSpec => []CTypeOK
<1>1. ChatInv => CTypeOK
  BY DEF ChatInv
<1> QED BY <1>1, ChatInvAlways, PTL

\* The messages of a room are shown without a hole: pages of any size, live
\* messages, deletions and a synchronisation that brings any part of its range may
\* follow each other in any order, with any timestamps, but for the races and the equal
\* timestamps that NoGap excludes.
THEOREM ShownWithoutGap == CSpec => []NoGap
<1>1. ChatInv => NoGap
  BY DEF ChatInv, ShownInv
<1> QED BY <1>1, ChatInvAlways, PTL

\* A message is shown as often as it is stored at most, however often the
\* synchronisation and the registered chat managers stored it.
THEOREM NothingShownAgain == CSpec => []ShownAsStored
<1>1. ChatInv => ShownAsStored
  BY DEF ChatInv, ShownInv
<1> QED BY <1>1, ChatInvAlways, PTL

\* What is shown is stored: no page brings a deleted message back, unless it had
\* been read before.
THEOREM OnlyStoredIsShown == CSpec => []ShownIsStored
<1>1. ChatInv => ShownIsStored
  BY DEF ChatInv, ShownInv
<1> QED BY <1>1, ChatInvAlways, PTL

==============================================================================
