------------------------------ MODULE RootSync -------------------------------
(***************************************************************************)
(* How a client keeps up with the membership tree: the TREE_UPDATE events  *)
(* from Redis over the nodes to the sockets, init() of the client library, *)
(* and ChatManager.checkRootUpToDate.                                      *)
(*                                                                         *)
(* The tree is its version.  A client proves with the leaves it stored; a  *)
(* proof is good while these are the leaves of the tree.  (The root that   *)
(* is fetched with them is stored and never read.)  An event has no        *)
(* content, it makes the flag root_up_to_date false; the next message to   *)
(* be sent then fetches the leaves first.                                  *)
(*                                                                         *)
(* A request is answered at one time and the answer arrives at another.    *)
(* Requests may fail, the socket may close, the page may be closed, and    *)
(* several messages may be sent at once.                                   *)
(***************************************************************************)
EXTENDS Integers

CONSTANTS
  Sending,          \* calls of sendMessage or recover_profile at one time
  InOrder,          \* do sockets open in the order they were created?
  MaxBackpressure,  \* events a socket holds before it is skipped
  NoLeaves,         \* what getLeaves returns when it fails, []
  MaxTree           \* bound: versions of the tree

ASSUME BoundsAssumption == MaxBackpressure \in Nat \ {0} /\ MaxTree \in Nat
ASSUME OrderAssumption  == InOrder \in BOOLEAN
ASSUME LeavesAssumption == NoLeaves \notin Nat

VARIABLES
  tree,        \* the version of the tree
  published,   \* TREE_UPDATE in Redis, on the way to this client's node
  wire,        \* TREE_UPDATE on the updates socket of the client
  sockets,     \* "none", "connecting", "open" or "closed"
  phase,       \* where init() is; "running" when it has returned
  waiting,     \* how many sockets waitForConnections saw open
  stored,      \* is a profile in the local storage?
  identity,    \* was init() called with an identity commitment?
  answer,      \* what getLeaves answered to init()
  leaves,      \* profile.leaves
  upToDate,    \* root_up_to_date
  sending,     \* the calls in Sending: pc and what getLeaves answered
  missed       \* history: of this session, see Properties

vars == <<tree, published, wire, sockets, phase, waiting, stored, identity,
          answer, leaves, upToDate, sending, missed>>
server == <<tree, published>>
init   == <<waiting, stored, identity, answer>>

Version == 0 .. MaxTree
Leaves  == Version \cup {NoLeaves}

messages_socket == 1
message_broadcast_socket == 2
updates_socket == 3
Sockets == {messages_socket, message_broadcast_socket, updates_socket}

\* The order in which waitForConnections waits.
WaitOrder_updatesFirst ==   \* mutant
  <<updates_socket, messages_socket, message_broadcast_socket>>
WaitOrder == <<messages_socket, message_broadcast_socket, updates_socket>>

Idle == [pc |-> "idle", got |-> NoLeaves]

Init ==
  /\ tree = 0 /\ published = 0 /\ wire = 0
  /\ sockets = [s \in Sockets |-> "none"]
  /\ phase = "closed" /\ waiting = 0
  /\ stored \in BOOLEAN /\ identity = FALSE
  /\ answer = NoLeaves /\ leaves = NoLeaves /\ upToDate = TRUE
  /\ sending = [m \in Sending |-> Idle]
  /\ missed = FALSE

------------------------------------------------------------------------------
\* Server: the tree changes and is announced

ChangeTree ==
  /\ tree < MaxTree
  /\ tree' = tree + 1 /\ published' = published + 1
  /\ UNCHANGED <<wire, sockets, phase, init, leaves, upToDate, sending, missed>>

\* The leaves the client will have when init() is through.
Holds == IF phase = "answered" THEN answer ELSE leaves

\* An old answer of a refresh is on its way.
Overtaken == \E m \in Sending : sending[m].pc = "answered" /\ sending[m].got # tree

\* An event that goes by unheard does harm if init() has its leaves already
\* and they, or those of a refresh, are old ones.
Harm ==
  \/ phase \in {"answered", "subscribe", "running"} /\ Holds # tree
  \/ Overtaken

\* A slow receiver is skipped.
HasRoom == wire < MaxBackpressure

\* handleMessageSync and broadcastEvent on the client's node.
BroadcastEvent ==
  /\ published > 0
  /\ published' = published - 1
  /\ wire' = IF sockets[updates_socket] = "open" /\ HasRoom THEN wire + 1 ELSE wire
  /\ missed' = (missed \/ (sockets[updates_socket] # "open" /\ Harm))
  /\ UNCHANGED <<tree, sockets, phase, init, leaves, upToDate, sending>>

\* The event reaches the client: syncRlnData, if it is registered.
ReceiveEvent_filtered ==   \* mutant
  /\ wire > 0
  /\ wire' = wire - 1
  /\ UNCHANGED <<server, sockets, phase, init, leaves, upToDate, sending, missed>>

ReceiveEvent ==
  /\ wire > 0
  /\ wire' = wire - 1
  /\ IF phase = "running"
       THEN /\ upToDate' = FALSE
            /\ missed' = (missed \/ Overtaken)
       ELSE /\ missed' = (missed \/ Harm)
            /\ UNCHANGED upToDate
  /\ UNCHANGED <<server, sockets, phase, init, leaves, sending>>

------------------------------------------------------------------------------
\* Client: sockets and init()

\* The page is opened: WebsocketClient creates three sockets.
Open ==
  /\ phase = "closed"
  /\ phase' = "connecting" /\ waiting' = 0 /\ identity' = FALSE
  /\ sockets' = [s \in Sockets |-> "connecting"]
  /\ missed' = FALSE
  /\ UNCHANGED <<server, wire, stored, answer, leaves, upToDate, sending>>

\* The open event of a socket.  It is heard only if waitForConnections has
\* come to this socket.
OpenSocket(s) ==
  /\ sockets[s] = "connecting"
  /\ InOrder => \A t \in Sockets : t < s => sockets[t] # "connecting"
  /\ sockets' = [sockets EXCEPT ![s] = "open"]
  /\ IF phase = "connecting" /\ WaitOrder[waiting + 1] = s
       THEN /\ waiting' = waiting + 1
            /\ phase' = IF waiting' = 3 THEN "root" ELSE phase
       ELSE UNCHANGED <<waiting, phase>>
  /\ UNCHANGED <<server, wire, stored, identity, answer, leaves, upToDate,
                 sending, missed>>

\* A new ChatManager was created; getRlnRoot answered or failed.
GetRlnRoot ==
  /\ phase = "root"
  /\ phase' = "leaves" /\ upToDate' = TRUE
  /\ UNCHANGED <<server, wire, sockets, init, leaves, sending, missed>>

\* The server answers getLeaves, or the request fails.
GetLeaves(list) ==
  /\ phase = "leaves"
  /\ phase' = "answered" /\ answer' = list
  /\ missed' = (missed \/ list = NoLeaves)
  /\ UNCHANGED <<server, wire, sockets, waiting, stored, identity, leaves,
                 upToDate, sending>>

\* initProfile, or loadProfile and updateLeaves.
InitProfile ==
  /\ phase = "answered" /\ (identity \/ stored)
  /\ phase' = "subscribe" /\ leaves' = answer /\ stored' = TRUE
  /\ UNCHANGED <<server, wire, sockets, waiting, identity, answer, upToDate,
                 sending, missed>>

\* "No profile exists"; the user registers and init() is called again, over
\* the same connection.
NoProfile ==
  /\ phase = "answered" /\ ~ (identity \/ stored)
  /\ phase' = "root" /\ identity' = TRUE /\ missed' = FALSE
  /\ UNCHANGED <<server, wire, sockets, waiting, stored, answer, leaves,
                 upToDate, sending>>

Subscribe ==
  /\ phase = "subscribe"
  /\ phase' = "running"
  /\ UNCHANGED <<server, wire, sockets, init, leaves, upToDate, sending, missed>>

\* The connection of the updates socket breaks; it is not opened again.
Disconnect ==
  /\ sockets[updates_socket] = "open" /\ phase = "running"
  /\ sockets' = [sockets EXCEPT ![updates_socket] = "closed"]
  /\ wire' = 0
  /\ missed' = (missed \/ (wire > 0 /\ Harm))
  /\ UNCHANGED <<server, phase, init, leaves, upToDate, sending>>

\* The page is closed, or loaded again.
Close ==
  /\ phase # "closed"
  /\ phase' = "closed" /\ waiting' = 0
  /\ identity' = FALSE /\ answer' = NoLeaves
  /\ sockets' = [s \in Sockets |-> "none"] /\ wire' = 0
  /\ sending' = [m \in Sending |-> Idle]
  /\ UNCHANGED <<server, stored, leaves, upToDate, missed>>

------------------------------------------------------------------------------
\* Client: checkRootUpToDate, called by sendMessage and recover_profile

Goto(m, where) == sending' = [sending EXCEPT ![m].pc = where]

CheckRoot(m) ==
  /\ phase = "running" /\ sending[m].pc = "idle" /\ ~ upToDate
  /\ Goto(m, "root")
  /\ UNCHANGED <<server, wire, sockets, phase, init, leaves, upToDate, missed>>

\* recoverProfile puts the leaves of the file in place of the client's ...
Recover_quiet(m) ==   \* mutant
  /\ phase = "running" /\ sending[m].pc = "idle"
  /\ leaves' \in 0 .. tree
  /\ UNCHANGED <<server, wire, sockets, phase, init, upToDate, sending, missed>>

Recover(m) ==
  /\ phase = "running" /\ sending[m].pc = "idle"
  /\ leaves' \in 0 .. tree
  /\ Goto(m, "recovered")
  /\ UNCHANGED <<server, wire, sockets, phase, init, upToDate, missed>>

\* ... and after it setRootObsolete is called.
SetRootObsolete(m) ==
  /\ sending[m].pc = "recovered"
  /\ upToDate' = FALSE
  /\ missed' = (missed \/ Overtaken)
  /\ Goto(m, "root")
  /\ UNCHANGED <<server, wire, sockets, phase, init, leaves>>

RefreshRoot(m) ==
  /\ sending[m].pc = "root"
  /\ Goto(m, "leaves")
  /\ UNCHANGED <<server, wire, sockets, phase, init, leaves, upToDate, missed>>

RefreshLeaves(m, list) ==
  /\ sending[m].pc = "leaves"
  /\ sending' = [sending EXCEPT ![m] = [pc |-> "answered", got |-> list]]
  /\ missed' = (missed \/ list = NoLeaves)
  /\ UNCHANGED <<server, wire, sockets, phase, init, leaves, upToDate>>

UpdateLeaves(m) ==
  /\ sending[m].pc = "answered"
  /\ leaves' = sending[m].got /\ upToDate' = TRUE
  /\ sending' = [sending EXCEPT ![m] = Idle]
  /\ UNCHANGED <<server, wire, sockets, phase, init, missed>>

------------------------------------------------------------------------------

Continue ==
  \/ \E s \in Sockets : OpenSocket(s)
  \/ GetRlnRoot \/ InitProfile \/ NoProfile \/ Subscribe
  \/ \E list \in {tree, NoLeaves} : GetLeaves(list)

Refresh(m) ==
  \/ SetRootObsolete(m) \/ RefreshRoot(m) \/ UpdateLeaves(m)
  \/ \E list \in {tree, NoLeaves} : RefreshLeaves(m, list)

Next ==
  \/ ChangeTree \/ BroadcastEvent \/ ReceiveEvent
  \/ Open \/ Continue \/ Disconnect \/ Close
  \/ \E m \in Sending : CheckRoot(m) \/ Recover(m) \/ Refresh(m)

Spec == Init /\ [][Next]_vars

\* What is published is delivered, a socket opens, a request is answered or
\* fails.  Users and the tree are not fair.
FairSpec ==
  /\ Spec
  /\ WF_vars(BroadcastEvent) /\ WF_vars(ReceiveEvent) /\ WF_vars(Continue)
  /\ \A m \in Sending : WF_vars(Refresh(m))

------------------------------------------------------------------------------
\* Properties

\* Types; in particular a slow socket is never sent more than it holds.
TypeOK ==
  /\ tree \in Version /\ published \in Nat /\ wire \in 0 .. MaxBackpressure
  /\ sockets \in [Sockets -> {"none", "connecting", "open", "closed"}]
  /\ phase \in {"closed", "connecting", "root", "leaves", "answered",
                "subscribe", "running"}
  /\ waiting \in 0 .. 3 /\ stored \in BOOLEAN /\ identity \in BOOLEAN
  /\ answer \in Leaves /\ leaves \in Leaves /\ upToDate \in BOOLEAN
  /\ sending \in [Sending -> [pc : {"idle", "recovered", "root", "leaves",
                                    "answered"}, got : Leaves]]
  /\ missed \in BOOLEAN

\* A running client with old leaves has been told, or will be: an event is on
\* its way although slow sockets are skipped, the flag is down, or a recovery
\* is about to take it down.  The exceptions are those that set "missed":
\* leaves that could not be fetched; an event between the answer to init() and
\* its last line; an event, or a recovery, between the answer to a refresh and
\* the line that raises the flag again; and a socket that was closed.
StaleIsNoticed ==
  (phase = "running" /\ leaves # tree /\ ~ missed) =>
    \/ ~ upToDate \/ published > 0 \/ wire > 0
    \/ \E m \in Sending : sending[m].pc = "recovered"

\* It is told in the end.
NoticedEventually ==
  (phase = "running" /\ leaves # tree) ~>
    (phase # "running" \/ leaves = tree \/ ~ upToDate \/ missed)

\* init() does not wait for an open event that has passed, if the sockets open
\* in the order they were created (browsers see to it, the ws library does
\* not).
ConnectedEventually ==
  InOrder => ((phase = "connecting") ~> (phase # "connecting"))

==============================================================================
