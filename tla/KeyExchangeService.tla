-------------------------- MODULE KeyExchangeService --------------------------
(***************************************************************************)
(* The requests that create and delete key exchange bundles, on the nodes  *)
(* of a deployment that start, listen and fail as in ServerStart.          *)
(*                                                                         *)
(* A request is checked (validateMessageRules) by reads of the database    *)
(* that other nodes and requests run between, then charged to its sender,  *)
(* then served.  Unlike a chat message it is charged before it has an      *)
(* effect, and a sender over the limit is refused, not banned.  The limit  *)
(* is the one the configuration made of the environment.                   *)
(*                                                                         *)
(* A node handles requests as they come, each up to its next await: what   *)
(* they share is in the database, and two on one node meet as two on       *)
(* different nodes do.  The statistics are kept by the epoch and the       *)
(* nullifier of a request, and all requests here name one epoch.  It is    *)
(* not compared with the epoch of their proofs, nor their x_share, so that *)
(* one member may have several nullifiers.                                 *)
(***************************************************************************)
EXTENDS ServerStart

CONSTANTS
  Nullifier, Share, Bundle,
  Worker,      \* bound: the n-th request at one time on a node
  Request,     \* the requests that clients send
  NoRequest,
  MaxReceived  \* bound: how often a request is received

ASSUME RequestAssumption ==
  /\ Request \subseteq [nullifier : Nullifier, share : Share,
                        kind : {"create", "delete"}, bundles : SUBSET Bundle]
  /\ NoRequest \notin Request /\ IsFiniteSet(Request)
  /\ \A r \in Request : r.kind = "create" => \E b \in Bundle : r.bundles = {b}
  /\ MaxReceived \in Nat
ASSUME WorkerAssumption == Worker \subseteq Node \X Nat /\ IsFiniteSet(Worker)

VARIABLES
  handling,  \* [Worker -> the request that is handled, where it is, bundles left]
  stats,     \* [Request -> documents in keyExchangeRequestStats]
  bundles,   \* the keyExchangeBundles collection
  received,  \* [Request -> how often it was received]
  created    \* history: bundles ever created

kvars == <<handling, stats, bundles, received, created>>

NotHandling == [pc |-> "idle", request |-> NoRequest, left |-> {}]

KInit ==
  /\ Init
  /\ handling = [w \in Worker |-> NotHandling]
  /\ stats = [r \in Request |-> 0] /\ received = [r \in Request |-> 0]
  /\ bundles = {} /\ created = {}

NodeOf(w)      == w[1]
Handles(w, pc) == handling[w].pc = pc
Goes(w, pc)    == handling' = [handling EXCEPT ![w].pc = pc]
Responds(w)    == handling' = [handling EXCEPT ![w] = NotHandling]

------------------------------------------------------------------------------
\* The request statistics

RequestsOf(nullifier) == {r \in Request : r.nullifier = nullifier}

isDuplicateRequest(r) == \E q \in RequestsOf(r.nullifier) : q.share = r.share /\ stats[q] > 0

\* How many documents there are for the epoch and the nullifier.
NumRequests(nullifier) == MapThenSumSet(LAMBDA r : stats[r], RequestsOf(nullifier))

isSpamRequest_late(r, threshold) == NumRequests(r.nullifier) > threshold   \* mutant
isSpamRequest(r, threshold) == NumRequests(r.nullifier) >= threshold

------------------------------------------------------------------------------

\* The body is validated and the epoch verified; the epoch is in the body.
Receive(w, r) ==
  /\ At(NodeOf(w), "listening") /\ Handles(w, "idle") /\ received[r] < MaxReceived
  /\ received' = [received EXCEPT ![r] = @ + 1]
  /\ handling' = [handling EXCEPT ![w] =
       [pc |-> "duplicate", request |-> r, left |-> r.bundles]]
  /\ UNCHANGED <<vars, stats, bundles, created>>

IsDuplicate(w) ==
  /\ Handles(w, "duplicate")
  /\ IF isDuplicateRequest(handling[w].request) THEN Responds(w) ELSE Goes(w, "proof")
  /\ UNCHANGED <<vars, stats, bundles, received, created>>

\* The proof is valid for the root there is now, or the tree has changed since it
\* was made.
IsZkProofValid(w) ==
  /\ Handles(w, "proof")
  /\ Goes(w, "spam") \/ Responds(w)
  /\ UNCHANGED <<vars, stats, bundles, received, created>>

IsSpam(w) ==
  /\ Handles(w, "spam")
  /\ IF isSpamRequest(handling[w].request, node[NodeOf(w)].config.spamThreshold)
       THEN Responds(w) ELSE Goes(w, "save")
  /\ UNCHANGED <<vars, stats, bundles, received, created>>

\* saveMessage
SaveMessage(w) ==
  /\ Handles(w, "save")
  /\ stats' = [stats EXCEPT ![handling[w].request] = @ + 1]
  /\ Goes(w, "serve")
  /\ UNCHANGED <<vars, bundles, received, created>>

\* A second bundle with one content is refused by the unique index, which changes
\* nothing.
CreateBundle(w) ==
  /\ Handles(w, "serve") /\ handling[w].request.kind = "create"
  /\ bundles' = bundles \cup handling[w].left
  /\ created' = created \cup handling[w].left
  /\ Responds(w)
  /\ UNCHANGED <<vars, stats, received>>

\* One iteration, and the response after the last.  A bundle that is not there
\* counts as none deleted.
DeleteBundles(w) ==
  /\ Handles(w, "serve") /\ handling[w].request.kind = "delete"
  /\ IF handling[w].left # {}
       THEN \E b \in handling[w].left :
              /\ bundles' = bundles \ {b}
              /\ handling' = [handling EXCEPT ![w].left = @ \ {b}]
       ELSE Responds(w) /\ UNCHANGED bundles
  /\ UNCHANGED <<vars, stats, received, created>>

\* The process ends, and with it the requests it is handling.
Killed(n) ==
  /\ Fault(n)
  /\ handling' = [w \in Worker |-> IF NodeOf(w) = n THEN NotHandling ELSE handling[w]]
  /\ UNCHANGED <<stats, bundles, received, created>>

------------------------------------------------------------------------------

Starts(n) == (Start(n) \/ InitZKChatServer(n)) /\ UNCHANGED kvars

Handle(w) ==
  \/ IsDuplicate(w) \/ IsZkProofValid(w) \/ IsSpam(w)
  \/ SaveMessage(w) \/ CreateBundle(w) \/ DeleteBundles(w)

KNext ==
  \/ \E n \in Node : Starts(n) \/ Killed(n)
  \/ \E w \in Worker : Handle(w) \/ \E r \in Request : Receive(w, r)

\* A start goes on.  Nothing is asked of the requests, and clients are not fair.
KSpec ==
  /\ KInit /\ [][KNext]_<<vars, kvars>>
  /\ \A n \in Node : WF_<<vars, kvars>>(Starts(n))

------------------------------------------------------------------------------
\* Properties

\* Types.
KTypeOK ==
  /\ handling \in [Worker ->
       [pc : {"idle", "duplicate", "proof", "spam", "save", "serve"},
        request : Request \cup {NoRequest}, left : SUBSET Bundle]]
  /\ stats \in [Request -> Nat] /\ received \in [Request -> 0 .. MaxReceived]
  /\ bundles \subseteq created /\ created \subseteq Bundle

\* In an epoch as many requests are charged to a nullifier as the limit says, plus one
\* for every other request at work: each of them may have been checked before the
\* last one was charged.  The limit holds across restarts, because a request is
\* charged before it is served.
RequestsLimited ==
  \A nullifier \in Nullifier :
    NumRequests(nullifier) <= Config(env).spamThreshold + Cardinality(Worker) - 1

\* Whatever happened to the bundles was charged to somebody, also if the process
\* ended right after.
ServedIsCharged ==
  LET charged(kind) == UNION {r.bundles : r \in {q \in Request : q.kind = kind /\ stats[q] > 0}}
  IN /\ created \subseteq charged("create")
     /\ created \ bundles \subseteq charged("delete")

==============================================================================
