------------------------- MODULE KeyExchange_proofs --------------------------
(***************************************************************************)
(* Types, KeysAgree and BundleWasUsed of KeyExchange, for any number of    *)
(* users, overlapping runs, failures and interruptions.                    *)
(***************************************************************************)
EXTENDS KeyExchange, TLAPS

RunRecord == [pc : {"idle", "get", "proof", "sent"},
              user : User \cup {NoUser}, found : SUBSET Pair, current : BOOLEAN,
              marked : SUBSET Bundle]

\* A run found rooms of one user; they are still there unless another profile
\* was put in their place, and then the run knows.
FoundInv ==
  \A t \in Runs :
    /\ \A p \in run[t].found :
         p[1] = run[t].user /\ (run[t].current => rooms[p] # NoRoom)
    /\ run[t].current \/ run[t].user \in interrupted

\* What is derived or marked was posted once, for a room that is there.
PostedInv ==
  /\ bundles \subseteq posted
  /\ \A b \in deriving : b \in posted /\ rooms[Back(b.pair)] # NoRoom
  /\ \A t \in Runs : run[t].marked \subseteq posted

Used(b) == HasKey(Back(b.pair)) \/ b \in deriving \/ b.pair[2] \in interrupted

\* A marked bundle is used already when it is marked.
UsedInv ==
  /\ \A b \in posted \ bundles : Used(b)
  /\ \A t \in Runs : \A b \in run[t].marked : Used(b)

\* Until a profile is recovered, every bundle under way or posted carries the DH
\* key of its room, and every key was derived from a bundle of the other side.
AgreeInv ==
  recovered = {} =>
    /\ \A p \in Pair : posting[p].pc # "idle" =>
         rooms[p] # NoRoom /\ posting[p].dh = rooms[p].dh
    /\ \A b \in posted : rooms[b.pair] # NoRoom /\ b.dh = rooms[b.pair].dh
    /\ \A p \in Pair : HasKey(p) =>
         rooms[p].key \in posted /\ rooms[p].key.pair = Back(p)

Inv == TypeOK /\ FoundInv /\ PostedInv /\ UsedInv /\ AgreeInv

------------------------------------------------------------------------------

LEMMA BackOfPair ==
  ASSUME NEW p \in Pair
  PROVE  /\ Back(p) \in Pair /\ Back(Back(p)) = p
         /\ Back(p)[1] = p[2] /\ Back(p)[2] = p[1]
         /\ p[1] \in User /\ p[2] \in User /\ p[1] # p[2]
BY DEF Pair, Back

LEMMA BackOfBundle ==
  ASSUME NEW b \in Bundle
  PROVE  /\ b.pair \in Pair /\ b.dh \in Nat
         /\ Back(b.pair) \in Pair /\ Back(Back(b.pair)) = b.pair
         /\ Back(b.pair)[1] = b.pair[2]
BY BackOfPair DEF Bundle

LEMMA InitInv == ASSUME Init PROVE Inv
<1>1. TypeOK
  BY DEF Init, TypeOK, NotPosting, NotRunning
<1>2. FoundInv /\ PostedInv /\ UsedInv
  BY DEF Init, FoundInv, PostedInv, UsedInv, NotRunning
<1>3. AgreeInv
  BY DEF Init, AgreeInv, HasKey, NotPosting
<1> QED BY <1>1, <1>2, <1>3 DEF Inv

\* A step that leaves the rooms and the derivations alone, and forgets nobody's
\* interruption, leaves what was used used.
LEMMA StillUsed ==
  ASSUME UNCHANGED <<rooms, deriving>>, interrupted \subseteq interrupted',
         NEW b, Used(b)
  PROVE  Used(b)'
BY DEF Used, HasKey

\* A step of the run t that changes nothing but the run and perhaps the failures:
\* what it found and marked is what it had, or nothing.
LEMMA RunStep ==
  ASSUME Inv, NEW t \in Runs, NEW r \in RunRecord,
         run' = [run EXCEPT ![t] = r],
         UNCHANGED <<rooms, dhKeys, online, posting, interruptions, posted, interrupted,
                     recovered>>,
         deriving \subseteq deriving', bundles' \subseteq bundles,
         \A b \in deriving' : b \in posted /\ rooms[Back(b.pair)] # NoRoom,
         kept' \subseteq Bundle, failures' \in Nat,
         \/ /\ r.user = run[t].user /\ r.found = run[t].found
            /\ r.current = run[t].current
         \/ r.current /\ \A p \in r.found : p[1] = r.user /\ rooms[p] # NoRoom,
         r.marked \subseteq posted,
         \A b \in r.marked : Used(b)',
         \A b \in bundles \ bundles' : Used(b)
  PROVE  Inv'
<1>1. /\ run' \in [Runs -> RunRecord] /\ run'[t] = r
      /\ \A s \in Runs \ {t} : run'[s] = run[s]
  BY DEF Inv, TypeOK, RunRecord
<1>2. TypeOK'
  <2>1. posted \subseteq Bundle
    BY DEF Inv, TypeOK
  <2> QED BY <1>1, <2>1 DEF Inv, TypeOK, RunRecord
<1>3. \A b : Used(b) => Used(b)'
  BY DEF Used, HasKey
<1>4. FoundInv'
  BY <1>1 DEF Inv, FoundInv
<1>5. PostedInv'
  BY <1>1 DEF Inv, PostedInv, Back
<1>6. UsedInv'
  BY <1>1, <1>3 DEF Inv, UsedInv
<1>7. AgreeInv'
  BY DEF Inv, AgreeInv, HasKey, Back
<1> QED BY <1>2, <1>4, <1>5, <1>6, <1>7 DEF Inv

LEMMA NotRunningIsFree ==
  /\ NotRunning \in RunRecord /\ NotRunning.current
  /\ NotRunning.found = {} /\ NotRunning.marked = {}
BY DEF NotRunning, RunRecord

LEMMA CreateInv ==
  ASSUME Inv, NEW p \in Pair, CreateDirectRoom(p) PROVE Inv'
<1> DEFINE dh == dhKeys[p] + 1
<1>1. /\ dh \in Nat
      /\ rooms[p] = NoRoom /\ rooms' = [rooms EXCEPT ![p] = [dh |-> dh, key |-> NoKey]]
      /\ posting' \in [Pair -> [pc : {"idle", "proof", "sent"}, dh : Nat]]
      /\ posting'[p].pc = "proof" /\ posting'[p].dh = dh
      /\ \A q \in Pair \ {p} : posting'[q] = posting[q]
      /\ dhKeys' = [dhKeys EXCEPT ![p] = dh]
      /\ UNCHANGED <<online, bundles, run, deriving, history>>
  <2>1. /\ dhKeys' = [dhKeys EXCEPT ![p] = dh] /\ dhKeys'[p] = dh /\ dh \in Nat
        /\ posting[p] \in [pc : {"idle", "proof", "sent"}, dh : Nat]
    BY DEF CreateDirectRoom, Inv, TypeOK
  <2>2. /\ rooms[p] = NoRoom /\ rooms' = [rooms EXCEPT ![p] = [dh |-> dh, key |-> NoKey]]
        /\ UNCHANGED <<online, bundles, run, deriving, history>>
    BY <2>1 DEF CreateDirectRoom
  <2>3. posting' = [posting EXCEPT ![p] = [posting[p] EXCEPT !.pc = "proof", !.dh = dh]]
    BY <2>1 DEF CreateDirectRoom, Inv, TypeOK
  <2>4. posting \in [Pair -> [pc : {"idle", "proof", "sent"}, dh : Nat]]
    BY DEF Inv, TypeOK
  <2>5. /\ posting' \in [Pair -> [pc : {"idle", "proof", "sent"}, dh : Nat]]
        /\ posting'[p].pc = "proof" /\ posting'[p].dh = dh
        /\ \A q \in Pair \ {p} : posting'[q] = posting[q]
    BY <2>1, <2>3, <2>4
  <2> QED BY <2>1, <2>2, <2>5
<1> HIDE DEF dh
<1>2. /\ [dh |-> dh, key |-> NoKey] \in Room /\ [dh |-> dh, key |-> NoKey] # NoRoom
  BY <1>1, NoneAssumption DEF Room, Bundle
<1>3. TypeOK'
  BY <1>1, <1>2 DEF Inv, TypeOK, history
<1>4. /\ rooms'[p] = [dh |-> dh, key |-> NoKey]
      /\ \A q \in Pair \ {p} : rooms'[q] = rooms[q] /\ posting'[q] = posting[q]
  BY <1>1 DEF Inv, TypeOK
<1>5. \A q \in Pair : (rooms[q] # NoRoom => rooms'[q] = rooms[q] /\ q # p)
                      /\ (rooms'[q] # NoRoom /\ q # p => rooms'[q] = rooms[q])
  BY <1>1, <1>4
<1>6. \A q \in Pair : HasKey(q)' <=> HasKey(q)
  BY <1>1, <1>4 DEF HasKey
<1>7. FoundInv'
  <2>1. run \in [Runs -> RunRecord]
    BY DEF Inv, TypeOK, RunRecord
  <2>2. \A t \in Runs : \A q \in run[t].found : q \in Pair
    BY <2>1 DEF RunRecord
  <2> QED BY <1>1, <1>5, <2>2 DEF Inv, FoundInv, history
<1>8. \A b \in Bundle : Used(b) => Used(b)'
  BY <1>1, <1>6, BackOfBundle DEF Used, history
<1>9. PostedInv'
  <2>1. \A b \in deriving : b \in posted /\ rooms'[Back(b.pair)] # NoRoom
    BY <1>5, BackOfBundle DEF Inv, TypeOK, PostedInv
  <2>2. \A b \in deriving' : b \in posted' /\ rooms'[Back(b.pair)'] # NoRoom
    BY <2>1, <1>1 DEF history, Back
  <2> QED BY <1>1, <2>2 DEF Inv, PostedInv, history, Back
<1>10. UsedInv'
  <2>1. \A t \in Runs : run[t].marked \subseteq Bundle
    BY DEF Inv, TypeOK
  <2> QED BY <1>1, <1>8, <2>1 DEF Inv, UsedInv, TypeOK, history
<1>11. AgreeInv'
  <2> SUFFICES ASSUME recovered = {} PROVE AgreeInv'
    BY <1>1 DEF AgreeInv, history
  <2>1. \A q \in Pair : posting'[q].pc # "idle" =>
          rooms'[q] # NoRoom /\ posting'[q].dh = rooms'[q].dh
    BY <1>1, <1>2, <1>4, <1>5 DEF Inv, AgreeInv
  <2>2. \A b \in posted : rooms'[b.pair] # NoRoom /\ b.dh = rooms'[b.pair].dh
    BY <1>5, BackOfBundle DEF Inv, AgreeInv, TypeOK
  <2>3. \A q \in Pair : HasKey(q)' => rooms'[q].key \in posted /\ rooms'[q].key.pair = Back(q)
    BY <1>5, <1>6 DEF Inv, AgreeInv, HasKey
  <2> QED BY <1>1, <2>1, <2>2, <2>3 DEF AgreeInv, history, Back
<1> QED BY <1>3, <1>7, <1>9, <1>10, <1>11 DEF Inv

\* Steps that change the postings, the posted bundles and the failures only.
LEMMA PostingStep ==
  ASSUME Inv, UNCHANGED <<rooms, dhKeys, online, run, deriving, interruptions, interrupted,
                          recovered, kept>>,
         posting' \in [Pair -> [pc : {"idle", "proof", "sent"}, dh : Nat]],
         \A p \in Pair : posting'[p].pc # "idle" =>
           posting[p].pc # "idle" /\ posting'[p].dh = posting[p].dh,
         failures' \in Nat,
         posted' \subseteq Bundle, posted \subseteq posted', bundles' \subseteq posted',
         posted' \ bundles' \subseteq posted \ bundles,
         \A b \in posted' \ posted : posting[b.pair].pc # "idle" /\ b.dh = posting[b.pair].dh
  PROVE  Inv'
<1>1. TypeOK'
  BY DEF Inv, TypeOK
<1>2. FoundInv'
  BY DEF Inv, FoundInv
<1>3. PostedInv'
  BY DEF Inv, PostedInv, Back
<1>4. \A b : Used(b) => Used(b)'
  BY DEF Used, HasKey
<1>5. UsedInv'
  BY <1>4 DEF Inv, UsedInv
<1>6. AgreeInv'
  <2> SUFFICES ASSUME recovered = {} PROVE AgreeInv'
    BY DEF AgreeInv
  <2>1. \A b \in posted' : rooms[b.pair] # NoRoom /\ b.dh = rooms[b.pair].dh
    BY BackOfBundle DEF Inv, AgreeInv
  <2>2. \A p \in Pair : HasKey(p)' => rooms[p].key \in posted' /\ rooms[p].key.pair = Back(p)
    BY DEF Inv, AgreeInv, HasKey
  <2>3. \A p \in Pair : posting'[p].pc # "idle" =>
          rooms[p] # NoRoom /\ posting'[p].dh = rooms[p].dh
    BY DEF Inv, AgreeInv
  <2> QED BY <2>1, <2>2, <2>3 DEF AgreeInv, Back
<1> QED BY <1>1, <1>2, <1>3, <1>5, <1>6 DEF Inv

LEMMA PostInv == ASSUME Inv, NEW p \in Pair, Post(p) PROVE Inv'
<1>0. /\ posting \in [Pair -> [pc : {"idle", "proof", "sent"}, dh : Nat]] /\ failures \in Nat
      /\ posted \subseteq Bundle /\ bundles \subseteq posted
  BY DEF Inv, TypeOK, PostedInv
<1>1. CASE PostBundle(p)
  <2>1. posting' = [posting EXCEPT ![p].pc = "sent"] /\ posting[p].pc = "proof"
    BY <1>1 DEF PostBundle
  <2>2. /\ posting' \in [Pair -> [pc : {"idle", "proof", "sent"}, dh : Nat]]
        /\ \A q \in Pair : posting'[q].pc # "idle" =>
             posting[q].pc # "idle" /\ posting'[q].dh = posting[q].dh
    BY <1>0, <2>1
  <2>3. /\ UNCHANGED <<rooms, dhKeys, online, run, deriving, interruptions, interrupted,
                       recovered, kept, failures>>
        /\ bundles' = bundles /\ posted' = posted
    BY <1>1 DEF PostBundle, history
  <2> QED BY <1>0, <2>2, <2>3, PostingStep
<1>2. posting[p].pc = "sent" /\ posting' = [posting EXCEPT ![p] = NotPosting] =>
        /\ posting' \in [Pair -> [pc : {"idle", "proof", "sent"}, dh : Nat]]
        /\ \A q \in Pair : posting'[q].pc # "idle" =>
             posting[q].pc # "idle" /\ posting'[q].dh = posting[q].dh
  BY <1>0 DEF NotPosting
<1>3. CASE CreateBundle(p)
  <2> DEFINE new == [pair |-> p, dh |-> posting[p].dh]
  <2>1. /\ new \in Bundle /\ posting[new.pair].pc # "idle" /\ new.dh = posting[new.pair].dh
        /\ bundles' = bundles \cup {new} /\ posted' = posted \cup {new}
    BY <1>0, <1>3 DEF CreateBundle, Bundle
  <2>2. UNCHANGED <<rooms, dhKeys, online, run, deriving, failures, interruptions, interrupted,
                    recovered, kept>>
    BY <1>3 DEF CreateBundle
  <2>3. /\ posting' \in [Pair -> [pc : {"idle", "proof", "sent"}, dh : Nat]]
        /\ \A q \in Pair : posting'[q].pc # "idle" =>
             posting[q].pc # "idle" /\ posting'[q].dh = posting[q].dh
    BY <1>2, <1>3 DEF CreateBundle
  <2>4. /\ posted' \subseteq Bundle /\ posted \subseteq posted' /\ bundles' \subseteq posted'
        /\ posted' \ bundles' \subseteq posted \ bundles
        /\ \A b \in posted' \ posted :
             posting[b.pair].pc # "idle" /\ b.dh = posting[b.pair].dh
    BY <1>0, <2>1
  <2> HIDE DEF new
  <2> QED BY <1>0, <2>1, <2>2, <2>3, <2>4, PostingStep
<1>4. CASE CreateFails(p)
  <2>1. /\ UNCHANGED <<rooms, dhKeys, online, run, deriving, interruptions, interrupted,
                       recovered, kept>>
        /\ bundles' = bundles /\ posted' = posted /\ failures' \in Nat
    BY <1>0, <1>4 DEF CreateFails
  <2>2. /\ posting' \in [Pair -> [pc : {"idle", "proof", "sent"}, dh : Nat]]
        /\ \A q \in Pair : posting'[q].pc # "idle" =>
             posting[q].pc # "idle" /\ posting'[q].dh = posting[q].dh
    BY <1>2, <1>4 DEF CreateFails
  <2> QED BY <1>0, <2>1, <2>2, PostingStep
<1> QED BY <1>1, <1>3, <1>4 DEF Post

------------------------------------------------------------------------------

LEMMA TickInv == ASSUME Inv, NEW t \in Runs, NEW u \in User, Tick(t, u) PROVE Inv'
<1> DEFINE r == [NotRunning EXCEPT !.pc = "get", !.user = u, !.found = WithoutKey(u)]
<1>1. run' = [run EXCEPT ![t] = r]
      /\ UNCHANGED <<rooms, dhKeys, online, bundles, posting, deriving, history>>
  BY DEF Tick
<1>2. /\ r \in RunRecord /\ r.current /\ r.marked = {}
      /\ \A p \in r.found : p[1] = r.user /\ rooms[p] # NoRoom
  BY DEF NotRunning, RunRecord, WithoutKey
<1> HIDE DEF r
<1>3. \A b \in deriving : b \in posted /\ rooms[Back(b.pair)] # NoRoom
  BY DEF Inv, PostedInv
<1>4. kept \subseteq Bundle /\ failures \in Nat
  BY DEF Inv, TypeOK
<1> QED BY <1>1, <1>2, <1>3, <1>4, RunStep DEF history

LEMMA RunInv == ASSUME Inv, NEW t \in Runs, Run(t) PROVE Inv'
<1>1. /\ run \in [Runs -> RunRecord] /\ run[t] \in RunRecord
      /\ kept \subseteq Bundle /\ failures \in Nat
      /\ posted \subseteq Bundle /\ bundles \subseteq posted
      /\ run[t].marked \subseteq posted /\ \A b \in run[t].marked : Used(b)
      /\ \A b \in deriving : b \in posted /\ rooms[Back(b.pair)] # NoRoom
  BY DEF Inv, TypeOK, RunRecord, PostedInv, UsedInv
<1>2. NotRunning \in RunRecord /\ NotRunning.current /\ NotRunning.found = {}
      /\ NotRunning.marked = {}
  BY NotRunningIsFree
<1>3. CASE GetBundles(t)
  <2>1. /\ deriving' = IF run[t].current THEN deriving \cup Matching(t) ELSE deriving
        /\ UNCHANGED <<rooms, dhKeys, online, bundles, posting, history>>
    BY <1>3 DEF GetBundles
  <2>2. \A b \in Matching(t) :
          /\ b \in posted /\ b \in Bundle /\ Back(b.pair) \in run[t].found
          /\ b.pair[2] = run[t].user
    <3> SUFFICES ASSUME NEW b \in Matching(t)
                 PROVE  /\ b \in posted /\ b \in Bundle /\ Back(b.pair) \in run[t].found
                        /\ b.pair[2] = run[t].user
      OBVIOUS
    <3>1. b \in posted /\ b \in Bundle /\ Back(b.pair) \in run[t].found
      BY <1>1 DEF Matching, Back
    <3>2. Back(b.pair)[1] = run[t].user
      BY <3>1 DEF Inv, FoundInv
    <3> QED BY <3>1, <3>2, BackOfBundle
  <2>3. \A b \in deriving' : b \in posted /\ rooms[Back(b.pair)] # NoRoom
    BY <1>1, <2>1, <2>2 DEF Inv, FoundInv
  <2>4. \A b \in Matching(t) : Used(b)'
    BY <2>1, <2>2 DEF Inv, FoundInv, Used, history
  <2>5. deriving \subseteq deriving'
    BY <2>1
  <2>6. CASE Matching(t) = {}
    <3>1. run' = [run EXCEPT ![t] = NotRunning]
      BY <1>3, <2>6 DEF GetBundles
    <3> QED BY <1>1, <1>2, <2>1, <2>3, <2>5, <3>1, RunStep DEF history
  <2>7. CASE Matching(t) # {}
    <3> DEFINE r == [run[t] EXCEPT !.pc = "proof", !.marked = Matching(t)]
    <3>1. run' = [run EXCEPT ![t] = r]
      BY <1>1, <1>3, <2>7 DEF GetBundles
    <3>2. /\ r \in RunRecord /\ r.user = run[t].user /\ r.found = run[t].found
          /\ r.current = run[t].current /\ r.marked = Matching(t)
      BY <1>1, <2>2 DEF RunRecord
    <3>3. Matching(t) \subseteq posted
      BY <2>2
    <3> HIDE DEF r
    <3> QED BY <1>1, <2>1, <2>3, <2>4, <2>5, <3>1, <3>2, <3>3, RunStep DEF history
  <2> QED BY <2>6, <2>7
<1>4. CASE GetFails(t)
  <2>1. /\ run' = [run EXCEPT ![t] = NotRunning] /\ failures' \in Nat
        /\ UNCHANGED <<rooms, dhKeys, online, bundles, posting, deriving, interruptions,
                       posted, interrupted, recovered, kept>>
    BY <1>1, <1>4 DEF GetFails
  <2> QED BY <1>1, <1>2, <2>1, RunStep
<1>5. CASE RequestDeletion(t)
  <2> DEFINE r == [run[t] EXCEPT !.pc = "sent"]
  <2>1. /\ run' = [run EXCEPT ![t] = r]
        /\ UNCHANGED <<rooms, dhKeys, online, bundles, posting, deriving, history>>
    BY <1>1, <1>5 DEF RequestDeletion
  <2>2. /\ r \in RunRecord /\ r.user = run[t].user /\ r.found = run[t].found
        /\ r.current = run[t].current /\ r.marked = run[t].marked
    BY <1>1 DEF RunRecord
  <2> HIDE DEF r
  <2>3. \A b \in r.marked : Used(b)'
    BY <1>1, <2>1, <2>2, StillUsed DEF history
  <2> QED BY <1>1, <2>1, <2>2, <2>3, RunStep DEF history
<1>6. CASE DeleteBundles(t)
  <2>1. /\ run' = [run EXCEPT ![t] = NotRunning] /\ bundles' = bundles \ run[t].marked
        /\ UNCHANGED <<rooms, dhKeys, online, posting, deriving, history>>
    BY <1>6 DEF DeleteBundles
  <2>2. bundles' \subseteq bundles /\ \A b \in bundles \ bundles' : Used(b)
    BY <1>1, <2>1
  <2> QED BY <1>1, <1>2, <2>1, <2>2, RunStep DEF history
<1>7. CASE DeleteFails(t)
  <2>1. /\ run' = [run EXCEPT ![t] = NotRunning] /\ failures' \in Nat
        /\ kept' = kept \cup run[t].marked
        /\ UNCHANGED <<rooms, dhKeys, online, bundles, posting, deriving, interruptions,
                       posted, interrupted, recovered>>
    BY <1>1, <1>7 DEF DeleteFails
  <2>2. kept' \subseteq Bundle
    BY <1>1, <2>1
  <2> QED BY <1>1, <1>2, <2>1, <2>2, RunStep
<1> QED BY <1>3, <1>4, <1>5, <1>6, <1>7 DEF Run

LEMMA DeriveInv == ASSUME Inv, NEW b \in deriving, DeriveRoomSecretKey(b) PROVE Inv'
<1> DEFINE q == Back(b.pair)
<1>1. /\ b \in Bundle /\ b \in posted /\ q \in Pair /\ Back(q) = b.pair
      /\ rooms[q] # NoRoom /\ rooms[q] \in Room
  BY BackOfBundle DEF Inv, TypeOK, PostedInv
<1>2. /\ deriving' = deriving \ {b} /\ rooms' = [rooms EXCEPT ![q].key = b]
      /\ UNCHANGED <<dhKeys, online, bundles, posting, run, history>>
  BY DEF DeriveRoomSecretKey, Back
<1> HIDE DEF q
<1>3. /\ [rooms[q] EXCEPT !.key = b] \in Room
      /\ [rooms[q] EXCEPT !.key = b].key = b
      /\ [rooms[q] EXCEPT !.key = b].dh = rooms[q].dh
  BY <1>1 DEF Room
<1>4. \A r \in Room : r # NoRoom
  BY NoneAssumption DEF Room, Bundle
<1>5. /\ rooms' \in [Pair -> Room \cup {NoRoom}]
      /\ rooms'[q] \in Room /\ rooms'[q].key = b /\ rooms'[q].dh = rooms[q].dh
      /\ rooms'[q] # NoRoom
      /\ \A p \in Pair \ {q} : rooms'[p] = rooms[p]
  BY <1>1, <1>2, <1>3, <1>4 DEF Inv, TypeOK
<1>6. \A p \in Pair : /\ rooms'[p] # NoRoom <=> rooms[p] # NoRoom
                      /\ rooms[p] # NoRoom => rooms'[p].dh = rooms[p].dh
  BY <1>1, <1>5
<1>7. b # NoKey
  BY <1>1, NoneAssumption DEF Bundle
<1>8. \A p \in Pair : HasKey(p) => HasKey(p)'
  BY <1>5, <1>7 DEF HasKey
<1>9. TypeOK'
  BY <1>2, <1>5 DEF Inv, TypeOK, history
<1>10. FoundInv'
  BY <1>2, <1>6 DEF Inv, TypeOK, FoundInv, history
<1>11. PostedInv'
  <2>1. \A c \in deriving' : c \in posted /\ rooms'[Back(c.pair)] # NoRoom
    BY <1>2, <1>6, BackOfBundle DEF Inv, TypeOK, PostedInv
  <2> QED BY <1>2, <2>1 DEF Inv, PostedInv, history, Back
<1>12. \A c \in Bundle : Used(c) => Used(c)'
  <2> SUFFICES ASSUME NEW c \in Bundle, Used(c) PROVE Used(c)'
    OBVIOUS
  <2>1. HasKey(q)'
    BY <1>5, <1>7 DEF HasKey
  <2>2. Back(c.pair) \in Pair
    BY BackOfBundle
  <2>3. CASE c = b
    BY <2>1, <2>3 DEF Used, q
  <2>4. CASE c # b
    BY <1>2, <1>8, <2>2, <2>4 DEF Used, history
  <2> QED BY <2>3, <2>4
<1>13. UsedInv'
  BY <1>2, <1>12 DEF Inv, TypeOK, UsedInv, history
<1>14. AgreeInv'
  <2> SUFFICES ASSUME recovered = {} PROVE AgreeInv'
    BY <1>2 DEF AgreeInv, history
  <2>1. \A p \in Pair : posting[p].pc # "idle" =>
          rooms'[p] # NoRoom /\ posting[p].dh = rooms'[p].dh
    BY <1>6 DEF Inv, AgreeInv
  <2>2. \A c \in posted : rooms'[c.pair] # NoRoom /\ c.dh = rooms'[c.pair].dh
    BY <1>6, BackOfBundle DEF Inv, AgreeInv, TypeOK
  <2>3. b.pair = Back(q)
    BY <1>1
  <2>4. \A p \in Pair : HasKey(p)' => rooms'[p].key \in posted /\ rooms'[p].key.pair = Back(p)
    BY <1>1, <1>5, <2>3 DEF Inv, AgreeInv, HasKey
  <2> QED BY <1>2, <2>1, <2>2, <2>4 DEF AgreeInv, history, Back
<1> QED BY <1>9, <1>10, <1>11, <1>13, <1>14 DEF Inv

LEMMA CloseInv == ASSUME Inv, NEW u \in User, Close(u) PROVE Inv'
<1>1. /\ interrupted' = interrupted \cup {u}
      /\ posting' = [p \in Pair |->
           IF p[1] = u /\ posting[p].pc = "proof" THEN NotPosting ELSE posting[p]]
      /\ run' = [t \in Runs |->
           IF run[t].user = u /\ run[t].pc \in {"get", "proof"} THEN NotRunning ELSE run[t]]
      /\ deriving' = {b \in deriving : b.pair[2] # u}
      /\ interruptions' = interruptions + 1 /\ online' = online \ {u}
      /\ UNCHANGED <<rooms, dhKeys, bundles, failures, posted, recovered, kept>>
  BY DEF Close
<1>2. \A t \in Runs : run'[t] = NotRunning \/ run'[t] = run[t]
  BY <1>1
<1>3. \A p \in Pair : posting'[p] = NotPosting \/ posting'[p] = posting[p]
  BY <1>1
<1>4. TypeOK'
  <2>1. run' \in [Runs -> RunRecord]
    BY <1>1, NotRunningIsFree DEF Inv, TypeOK, RunRecord
  <2>2. posting' \in [Pair -> [pc : {"idle", "proof", "sent"}, dh : Nat]]
    <3>1. NotPosting \in [pc : {"idle", "proof", "sent"}, dh : Nat]
      BY DEF NotPosting
    <3> QED BY <1>1, <3>1 DEF Inv, TypeOK
  <2>3. interruptions' \in Nat /\ deriving' \subseteq Bundle /\ interrupted' \subseteq User
    BY <1>1 DEF Inv, TypeOK
  <2> QED BY <1>1, <2>1, <2>2, <2>3 DEF Inv, TypeOK, RunRecord
<1>5. FoundInv'
  BY <1>1, <1>2, NotRunningIsFree DEF Inv, FoundInv
<1>6. PostedInv'
  BY <1>1, <1>2, NotRunningIsFree DEF Inv, PostedInv, Back
<1>7. \A b : Used(b) => Used(b)'
  BY <1>1 DEF Used, HasKey
<1>8. UsedInv'
  BY <1>1, <1>2, <1>7, NotRunningIsFree DEF Inv, UsedInv
<1>9. AgreeInv'
  BY <1>1, <1>3 DEF Inv, AgreeInv, HasKey, Back, NotPosting
<1> QED BY <1>4, <1>5, <1>6, <1>8, <1>9 DEF Inv

\* What another user's profile, put in place of this one's, leaves alone.
LEMMA RecoverInv == ASSUME Inv, NEW u \in User, RecoverProfile(u) PROVE Inv'
<1>1. /\ interrupted' = interrupted \cup {u} /\ recovered' = recovered \cup {u}
      /\ rooms' \in [Pair -> UNION {Exported(p) : p \in Pair}]
      /\ \A p \in Pair : rooms'[p] \in IF p[1] = u THEN Exported(p) ELSE {rooms[p]}
      /\ run' = [t \in Runs |->
           IF run[t].user = u THEN [run[t] EXCEPT !.current = FALSE] ELSE run[t]]
      /\ deriving' = {b \in deriving : b.pair[2] # u}
      /\ interruptions' = interruptions + 1
      /\ UNCHANGED <<dhKeys, online, bundles, posting, failures, posted, kept>>
  BY DEF RecoverProfile
<1>2. \A p \in Pair : p[1] # u => rooms'[p] = rooms[p]
  BY <1>1
<1>3. \A t \in Runs : /\ run'[t] \in RunRecord
                      /\ run'[t].user = run[t].user /\ run'[t].found = run[t].found
                      /\ run'[t].marked = run[t].marked
                      /\ run'[t].user # u => run'[t] = run[t]
                      /\ run'[t].user = u => run'[t].current = FALSE
  <2> SUFFICES ASSUME NEW t \in Runs
               PROVE  /\ run'[t] \in RunRecord
                      /\ run'[t].user = run[t].user /\ run'[t].found = run[t].found
                      /\ run'[t].marked = run[t].marked
                      /\ run'[t].user # u => run'[t] = run[t]
                      /\ run'[t].user = u => run'[t].current = FALSE
    OBVIOUS
  <2>1. run[t] \in RunRecord
    BY DEF Inv, TypeOK, RunRecord
  <2>2. CASE run[t].user = u
    <3>1. run'[t] = [run[t] EXCEPT !.current = FALSE]
      BY <1>1, <2>2
    <3> QED BY <2>1, <2>2, <3>1 DEF RunRecord
  <2>3. CASE run[t].user # u
    <3>1. run'[t] = run[t]
      BY <1>1, <2>3
    <3> QED BY <2>1, <2>3, <3>1
  <2> QED BY <2>2, <2>3
<1>4. TypeOK'
  <2>1. \A p \in Pair : Exported(p) \subseteq Room \cup {NoRoom}
    <3> SUFFICES ASSUME NEW p \in Pair PROVE Exported(p) \subseteq Room \cup {NoRoom}
      OBVIOUS
    <3>1. dhKeys[p] \in Nat /\ rooms[p] \in Room \cup {NoRoom}
      BY DEF Inv, TypeOK
    <3>2. [dh : 1 .. dhKeys[p], key : {NoKey}] \subseteq Room
      BY <3>1 DEF Room
    <3> QED BY <3>1, <3>2 DEF Exported
  <2>2. rooms' \in [Pair -> Room \cup {NoRoom}]
    BY <1>1, <2>1
  <2>3. run' \in [Runs -> RunRecord]
    BY <1>1, <1>3
  <2>4. /\ interruptions' \in Nat /\ deriving' \subseteq Bundle /\ interrupted' \subseteq User
        /\ recovered' \subseteq User
    BY <1>1 DEF Inv, TypeOK
  <2> QED BY <1>1, <2>2, <2>3, <2>4 DEF Inv, TypeOK, RunRecord
<1>5. FoundInv'
  <2>1. ASSUME NEW t \in Runs PROVE run'[t].current \/ run'[t].user \in interrupted'
    BY <1>1, <1>3 DEF Inv, FoundInv
  <2>2. ASSUME NEW t \in Runs, NEW p \in run'[t].found
        PROVE  p[1] = run'[t].user /\ (run'[t].current => rooms'[p] # NoRoom)
    <3>1. p \in Pair /\ p \in run[t].found /\ p[1] = run[t].user
      BY <1>3, <2>2 DEF Inv, TypeOK, FoundInv
    <3>2. CASE run[t].user = u
      BY <1>3, <3>1, <3>2
    <3>3. CASE run[t].user # u
      BY <1>2, <1>3, <3>1, <3>3 DEF Inv, FoundInv
    <3> QED BY <3>2, <3>3
  <2> QED BY <2>1, <2>2 DEF FoundInv
<1>6. PostedInv'
  <2>1. \A b \in deriving' : b \in posted /\ rooms'[Back(b.pair)] # NoRoom
    BY <1>1, <1>2, BackOfBundle DEF Inv, TypeOK, PostedInv
  <2> QED BY <1>1, <1>3, <2>1 DEF Inv, PostedInv, Back
<1>7. \A b \in Bundle : Used(b) => Used(b)'
  <2> SUFFICES ASSUME NEW b \in Bundle, Used(b) PROVE Used(b)'
    OBVIOUS
  <2>1. Back(b.pair) \in Pair /\ Back(b.pair)[1] = b.pair[2]
    BY BackOfBundle
  <2>2. CASE b.pair[2] = u
    BY <1>1, <2>2 DEF Used
  <2>3. CASE b.pair[2] # u
    <3>1. HasKey(Back(b.pair)) => HasKey(Back(b.pair))'
      BY <1>2, <2>1, <2>3 DEF HasKey, Back
    <3> QED BY <1>1, <2>3, <3>1 DEF Used
  <2> QED BY <2>2, <2>3
<1>8. UsedInv'
  BY <1>1, <1>3, <1>7 DEF Inv, TypeOK, UsedInv
<1>9. AgreeInv'
  BY <1>1 DEF AgreeInv
<1> QED BY <1>4, <1>5, <1>6, <1>8, <1>9 DEF Inv

LEMMA StepInv == ASSUME Inv, [Next]_vars PROVE Inv'
<1>1. CASE UNCHANGED vars
  BY <1>1 DEF vars, history, Inv, TypeOK, FoundInv, PostedInv, UsedInv, AgreeInv, Used, HasKey, Back
<1>2. ASSUME NEW u \in User, Open(u) PROVE Inv'
  <2>1. /\ online' = online \cup {u}
        /\ UNCHANGED <<rooms, dhKeys, bundles, posting, run, deriving, history>>
    BY <1>2 DEF Open
  <2>2. TypeOK'
    BY <2>1 DEF Inv, TypeOK, history
  <2>3. FoundInv' /\ PostedInv' /\ UsedInv' /\ AgreeInv'
    BY <2>1 DEF Inv, history, FoundInv, PostedInv, UsedInv, AgreeInv, Used, HasKey, Back
  <2> QED BY <2>2, <2>3 DEF Inv
<1> QED
  BY <1>1, <1>2, CreateInv, PostInv, TickInv, RunInv, DeriveInv, CloseInv, RecoverInv
     DEF Next, Derive

LEMMA InvAlways == Spec => []Inv
BY InitInv, StepInv, PTL DEF Spec

------------------------------------------------------------------------------

\* Every variable has its type, for any number of users and runs.
THEOREM TypeCorrect == Spec => []TypeOK
<1>1. Inv => TypeOK
  BY DEF Inv
<1> QED BY <1>1, InvAlways, PTL

\* Two users that have a key for their room have the same one, unless somebody
\* recovered a profile: whatever number of runs overlap, and whatever fails.
THEOREM KeysAlwaysAgree == Spec => []KeysAgree
<1>1. Inv => KeysAgree
  <2> SUFFICES ASSUME Inv, recovered = {},
                      NEW p \in Pair, HasKey(p), HasKey(Back(p))
               PROVE  /\ rooms[p].key = [pair |-> Back(p), dh |-> rooms[Back(p)].dh]
                      /\ rooms[Back(p)].key = [pair |-> p, dh |-> rooms[p].dh]
    BY DEF KeysAgree
  <2>1. Back(p) \in Pair /\ Back(Back(p)) = p
    BY BackOfPair
  <2>2. \A q \in Pair : HasKey(q) =>
          /\ rooms[q].key \in Bundle /\ rooms[q].key.pair = Back(q)
          /\ rooms[q].key.dh = rooms[Back(q)].dh
    BY DEF Inv, AgreeInv, TypeOK
  <2>3. \A b \in Bundle : b = [pair |-> b.pair, dh |-> b.dh]
    BY DEF Bundle
  <2> QED BY <2>1, <2>2, <2>3
<1> QED BY <1>1, InvAlways, PTL

\* A bundle that is gone was used, or its receiver was interrupted, although the
\* derivation is not awaited.
THEOREM DeletedWereUsed == Spec => []BundleWasUsed
<1>1. Inv => BundleWasUsed
  BY DEF Inv, UsedInv, Used, BundleWasUsed
<1> QED BY <1>1, InvAlways, PTL

==============================================================================
