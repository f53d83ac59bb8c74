------------------------- MODULE ServerStart_proofs --------------------------
(***************************************************************************)
(* ZerosAreAChain and ListeningIsComplete for any number of nodes, levels  *)
(* and faults, by one inductive invariant: where a start is tells what it  *)
(* has seen or made of the zeros and of the tree.  The same holds while    *)
(* the nodes handle key exchange requests, what these did was charged, and *)
(* no more than the limit, whatever digits the environment has.            *)
(*                                                                         *)
(* NobodyIsLost, LeavesInOrder and AllAnnounced of Synchronizer, for any   *)
(* group, number of overlapping runs and restarts.                         *)
(*                                                                         *)
(* The community modules fold sets and sequences with recursive functions; *)
(* that these exist, and what they sum up to, is shown by the smallest set *)
(* or number for which it would fail.                                      *)
(***************************************************************************)
EXTENDS KeyExchangeService, Synchronizer, FiniteSetTheorems, SequenceTheorems,
        WellFoundedInduction, NaturalsInduction, TLAPS

------------------------------------------------------------------------------
(* Folds over finite sets.                                                 *)

\* A set of naturals that is not empty has a least element.
LEMMA Least ==
  ASSUME NEW T \in SUBSET Nat, T # {}
  PROVE  \E n \in T : \A k \in T : n <= k
<1>1. PICK R : R = OpToRel(<, Nat)
  OBVIOUS
<1>2. IsWellFoundedOn(R, Nat)
  BY <1>1, NatLessThanWellFounded
<1>3. PICK n \in T : \A k \in T : <<k, n>> \notin R
  BY <1>2, WFMin
<1>4. \A k \in T : ~(k < n)
  BY <1>1, <1>3 DEF OpToRel
<1> QED BY <1>4

\* What holds of the empty set, and of a set if it does without some element, holds
\* of every subset of a finite set.
LEMMA SubsetInduction ==
  ASSUME NEW S, IsFiniteSet(S), NEW T, {} \in T,
         \A s \in SUBSET S : s # {} => \E x \in s : s \ {x} \in T => s \in T
  PROVE  SUBSET S \subseteq T
<1> SUFFICES ASSUME (SUBSET S) \ T # {} PROVE FALSE
  OBVIOUS
<1> DEFINE Sizes == {Cardinality(s) : s \in (SUBSET S) \ T}
<1>1. Sizes \in SUBSET Nat /\ Sizes # {}
  BY FS_Subset, FS_CardinalityType
<1>2. PICK k \in Sizes : \A i \in Sizes : k <= i
  <2> HIDE DEF Sizes
  <2> QED BY <1>1, Least
<1>3. PICK s \in (SUBSET S) \ T : Cardinality(s) = k
  BY <1>2
<1>4. PICK x \in s : s \ {x} \in T => s \in T
  BY <1>3
<1>5. IsFiniteSet(s) /\ Cardinality(s) \in Nat
  BY <1>3, FS_Subset, FS_CardinalityType
<1>6. Cardinality(s \ {x}) = Cardinality(s) - 1
  BY <1>4, <1>5, FS_RemoveElement
<1>7. s \ {x} \in (SUBSET S) \ T
  BY <1>3, <1>4
<1>8. k <= Cardinality(s) - 1
  BY <1>2, <1>6, <1>7
<1> QED BY <1>3, <1>5, <1>8

\* c chooses an element of every subset.
Chooses(S, c) == \A s \in (SUBSET S) \ {{}} : c[s] \in s

\* g folds the subsets of S: h is given the element chosen and the fold of the rest.
Folds(S, c, h, g) ==
  /\ g \in [SUBSET S -> Nat] /\ g[{}] = 0
  /\ \A s \in SUBSET S : s # {} => g[s] = h[<<c[s], g[s \ {c[s]}]>>]

\* The same up to k elements.
FoldsTo(S, c, h, g, k) ==
  /\ g \in [SUBSET S -> Nat] /\ g[{}] = 0
  /\ \A s \in SUBSET S : s # {} /\ Cardinality(s) <= k =>
       g[s] = h[<<c[s], g[s \ {c[s]}]>>]

LEMMA FoldsStep ==
  ASSUME NEW S, IsFiniteSet(S), NEW c, Chooses(S, c),
         NEW h \in [S \X Nat -> Nat], NEW k \in Nat, NEW f, FoldsTo(S, c, h, f, k)
  PROVE  \E g : FoldsTo(S, c, h, g, k + 1)
<1> DEFINE next(s) == IF s # {} /\ Cardinality(s) = k + 1 THEN h[<<c[s], f[s \ {c[s]}]>>]
                        ELSE f[s]
           g == [s \in SUBSET S |-> next(s)]
<1>1. \A s \in SUBSET S : IsFiniteSet(s) /\ Cardinality(s) \in Nat
  BY FS_Subset, FS_CardinalityType
<1>2. ASSUME NEW s \in SUBSET S, s # {}
      PROVE  /\ c[s] \in s /\ s \ {c[s]} \in SUBSET S
             /\ Cardinality(s \ {c[s]}) = Cardinality(s) - 1
  BY <1>1, <1>2, FS_RemoveElement DEF Chooses
<1>3. \A s \in SUBSET S : next(s) \in Nat
  <2> SUFFICES ASSUME NEW s \in SUBSET S, s # {} PROVE h[<<c[s], f[s \ {c[s]}]>>] \in Nat
    BY DEF FoldsTo
  <2>1. c[s] \in S /\ f[s \ {c[s]}] \in Nat
    BY <1>2 DEF FoldsTo
  <2> QED BY <2>1
<1>4. g \in [SUBSET S -> Nat] /\ g[{}] = 0
  BY <1>3 DEF FoldsTo
<1>5. ASSUME NEW s \in SUBSET S, s # {}, Cardinality(s) <= k + 1
      PROVE  g[s] = h[<<c[s], g[s \ {c[s]}]>>]
  <2>1. g[s \ {c[s]}] = f[s \ {c[s]}]
    BY <1>1, <1>2, <1>5
  <2>2. CASE Cardinality(s) = k + 1
    BY <1>5, <2>1, <2>2
  <2>3. CASE Cardinality(s) # k + 1
    <3>1. Cardinality(s) <= k
      BY <1>1, <1>5, <2>3
    <3> QED BY <1>5, <2>1, <2>3, <3>1 DEF FoldsTo
  <2> QED BY <2>2, <2>3
<1> QED BY <1>4, <1>5 DEF FoldsTo

LEMMA FoldExists ==
  ASSUME NEW S, IsFiniteSet(S), NEW c, Chooses(S, c), NEW h \in [S \X Nat -> Nat]
  PROVE  \E g : Folds(S, c, h, g)
<1> DEFINE T == {k \in Nat : ~ \E g : FoldsTo(S, c, h, g, k)}
<1>1. \A k \in Nat : \E g : FoldsTo(S, c, h, g, k)
  <2>1. SUFFICES ASSUME T # {} PROVE FALSE
    OBVIOUS
  <2>2. PICK k \in T : \A i \in T : k <= i
    <3>1. T \in SUBSET Nat
      OBVIOUS
    <3> HIDE DEF T
    <3> QED BY <2>1, <3>1, Least
  <2>3. k # 0
    <3>1. \A s \in SUBSET S : Cardinality(s) \in Nat /\ (Cardinality(s) = 0 => s = {})
      BY FS_Subset, FS_CardinalityType, FS_EmptySet
    <3>2. FoldsTo(S, c, h, [s \in SUBSET S |-> 0], 0)
      BY <3>1 DEF FoldsTo
    <3> QED BY <2>2, <3>2
  <2>4. k - 1 \in Nat /\ ~(k <= k - 1)
    BY <2>2, <2>3
  <2>5. PICK f : FoldsTo(S, c, h, f, k - 1)
    BY <2>2, <2>4
  <2>6. \E g : FoldsTo(S, c, h, g, k - 1 + 1)
    BY <2>4, <2>5, FoldsStep
  <2> QED BY <2>2, <2>6
<1> HIDE DEF T
<1>2. Cardinality(S) \in Nat
  BY FS_CardinalityType
<1>3. \A s \in SUBSET S : Cardinality(s) <= Cardinality(S)
  BY FS_Subset
<1>4. PICK g : FoldsTo(S, c, h, g, Cardinality(S))
  BY <1>1, <1>2
<1> QED BY <1>3, <1>4 DEF FoldsTo, Folds

------------------------------------------------------------------------------
(* The configuration.                                                      *)

LEMMA MaxIs ==
  ASSUME NEW n \in Nat, NEW s \in SUBSET (1 .. n), s # {}
  PROVE  Max(s) \in s /\ \A x \in s : x <= Max(s)
<1> DEFINE T == {n - x : x \in s}
<1>1. T \in SUBSET Nat /\ T # {}
  OBVIOUS
<1>2. PICK k \in T : \A i \in T : k <= i
  <2> HIDE DEF T
  <2> QED BY <1>1, Least
<1>3. PICK x \in s : k = n - x
  BY <1>2
<1>4. \A y \in s : n - x <= n - y
  BY <1>2, <1>3
<1>5. \A y \in s : x >= y
  BY <1>3, <1>4
<1> QED BY <1>5 DEF Max

\* v[k] is what the first k digits are worth, up to n.
Worth(digits, radix, v, n) ==
  /\ v \in [0 .. n -> Nat] /\ v[0] = 0
  /\ \A k \in 1 .. n : v[k] = v[k - 1] * radix + digits[k]

Value(digits, radix) == FoldLeft(LAMBDA value, d : value * radix + d, 0, digits)

LEMMA ValueIs ==
  ASSUME NEW d \in Seq(Nat), NEW radix \in Nat
  PROVE  \E v : Worth(d, radix, v, Len(d)) /\ Value(d, radix) = v[Len(d)]
<1> DEFINE n == Len(d)
           S == 1 .. n
           c == [s \in SUBSET S |-> Max(s)]
           h == [p \in S \X Nat |-> p[2] * radix + d[p[1]]]
           iter == CHOOSE g : g = [s \in SUBSET S |->
                     IF s = {} THEN 0 ELSE g[s \ {Max(s)}] * radix + d[Max(s)]]
<1>1. n \in Nat /\ DOMAIN d = S /\ \A k \in S : d[k] \in Nat
  OBVIOUS
<1>2. IsFiniteSet(S)
  BY <1>1, FS_Interval
<1>3. h \in [S \X Nat -> Nat]
  <2>1. \A p \in S \X Nat : p[1] \in S /\ p[2] \in Nat
    OBVIOUS
  <2>2. \A a \in Nat, b \in Nat : a * radix + b \in Nat
    OBVIOUS
  <2>3. \A p \in S \X Nat : p[2] * radix + d[p[1]] \in Nat
    BY <1>1, <2>1, <2>2
  <2> QED BY <2>3
<1>4. Chooses(S, c)
  <2> SUFFICES ASSUME NEW s \in SUBSET S, s # {} PROVE Max(s) \in s
    BY DEF Chooses
  <2> QED BY <1>1, MaxIs
<1>5. PICK g : Folds(S, c, h, g)
  <2> HIDE DEF h, c, S, iter
  <2> QED BY <1>2, <1>3, <1>4, FoldExists
<1>6. ASSUME NEW s \in SUBSET S, s # {} PROVE g[s] = g[s \ {Max(s)}] * radix + d[Max(s)]
  <2>1. Max(s) \in S /\ g[s \ {Max(s)}] \in Nat
    BY <1>1, <1>5, <1>6, MaxIs DEF Folds
  <2> QED BY <1>5, <1>6, <2>1 DEF Folds
<1>7. g = [s \in SUBSET S |-> IF s = {} THEN 0 ELSE g[s \ {Max(s)}] * radix + d[Max(s)]]
  BY <1>5, <1>6 DEF Folds
<1>8. iter = [s \in SUBSET S |->
        IF s = {} THEN 0 ELSE iter[s \ {Max(s)}] * radix + d[Max(s)]]
  BY <1>7
<1>9. Value(d, radix) = iter[S]
  BY <1>1 DEF Value, FoldLeft, MapThenFoldSet
<1> HIDE DEF iter
<1>10. \A s \in SUBSET S : iter[s] = g[s]
  <2> DEFINE T == {s \in SUBSET S : iter[s] = g[s]}
  <2>1. {} \in T
    BY <1>5, <1>8 DEF Folds
  <2>2. ASSUME NEW s \in SUBSET S, s # {}
        PROVE  \E x \in s : s \ {x} \in T => s \in T
    <3>1. Max(s) \in s
      BY <1>1, <2>2, MaxIs
    <3>2. iter[s] = iter[s \ {Max(s)}] * radix + d[Max(s)]
      BY <1>8, <2>2
    <3> QED BY <1>6, <2>2, <3>1, <3>2
  <2>3. SUBSET S \subseteq T
    <3> HIDE DEF T, S
    <3> QED BY <1>2, <2>1, <2>2, SubsetInduction
  <2> QED BY <2>3
<1> DEFINE v == [k \in 0 .. n |-> g[1 .. k]]
<1>11. \A k \in 0 .. n : 1 .. k \in SUBSET S
  BY <1>1
<1>12. v \in [0 .. n -> Nat] /\ v[0] = 0 /\ v[n] = g[S]
  <2>1. 1 .. 0 = {}
    OBVIOUS
  <2> QED BY <1>1, <1>5, <1>11, <2>1 DEF Folds
<1>13. ASSUME NEW k \in 1 .. n PROVE v[k] = v[k - 1] * radix + d[k]
  <2>1. 1 .. k \in SUBSET S /\ 1 .. k # {} /\ k \in 1 .. k /\ k - 1 \in 0 .. n /\ k \in 0 .. n
    <3>1. k \in 0 .. n /\ k - 1 \in 0 .. n /\ k \in 1 .. k
      BY <1>1
    <3> QED BY <1>11, <3>1
  <2>2. Max(1 .. k) = k
    <3>1. Max(1 .. k) \in 1 .. k /\ k <= Max(1 .. k)
      BY <1>1, <2>1, MaxIs
    <3> QED BY <3>1
  <2>3. (1 .. k) \ {k} = 1 .. k - 1
    OBVIOUS
  <2> QED BY <1>6, <2>1, <2>2, <2>3
<1> QED BY <1>1, <1>9, <1>10, <1>12, <1>13 DEF Worth

\* A setting is parsed up to the first character that is no digit of the radix.
Parsed(digits, radix, n, v) ==
  /\ n \in 0 .. Len(digits) /\ Worth(digits, radix, v, n)
  /\ n < Len(digits) => radix <= digits[n + 1]
  /\ ParseInt(digits, radix) = IF n = 0 THEN NaN ELSE v[n]

LEMMA ParseIs ==
  ASSUME NEW digits \in Seq(0 .. 9), NEW radix \in Nat
  PROVE  \E n, v : Parsed(digits, radix, n, v)
<1> DEFINE valid == {k \in 0 .. Len(digits) : \A i \in 1 .. k : digits[i] < radix}
           n == CHOOSE k \in valid : \A j \in valid : j <= k
<1>1. Len(digits) \in Nat /\ \A i \in 1 .. Len(digits) : digits[i] \in 0 .. 9
  OBVIOUS
<1>2. \E k \in valid : \A j \in valid : j <= k
  <2> DEFINE T == {Len(digits) - k : k \in valid}
  <2>1. T \in SUBSET Nat /\ Len(digits) - 0 \in T
    BY <1>1
  <2>2. PICK t \in T : \A i \in T : t <= i
    <3> HIDE DEF T
    <3> QED BY <2>1, Least
  <2>3. PICK k \in valid : t = Len(digits) - k
    BY <2>2
  <2>4. \A j \in valid : Len(digits) - k <= Len(digits) - j
    BY <2>2, <2>3
  <2>5. \A j \in valid : j \in Nat /\ k \in Nat
    BY <2>3
  <2> QED BY <1>1, <2>3, <2>4, <2>5
<1>3. n \in valid /\ \A j \in valid : j <= n
  BY <1>2
<1>4. ParseInt(digits, radix) = IF n = 0 THEN NaN ELSE Value(SubSeq(digits, 1, n), radix)
  BY DEF ParseInt, Value
<1> HIDE DEF n
<1>5. n \in 0 .. Len(digits) /\ \A k \in 1 .. n : digits[k] < radix
  BY <1>3
<1>6. n < Len(digits) => radix <= digits[n + 1]
  <2>1. SUFFICES ASSUME n < Len(digits), digits[n + 1] < radix PROVE FALSE
    BY <1>1, <1>5
  <2>2. n + 1 \in 0 .. Len(digits) /\ \A i \in 1 .. n + 1 : i \in 1 .. n \/ i = n + 1
    BY <1>1, <1>5, <2>1
  <2>3. n + 1 \in valid
    BY <1>5, <2>1, <2>2
  <2>4. n + 1 <= n
    BY <1>3, <2>3
  <2> QED BY <1>5, <2>4
<1>7. /\ SubSeq(digits, 1, n) \in Seq(Nat) /\ Len(SubSeq(digits, 1, n)) = n
      /\ \A k \in 1 .. n : SubSeq(digits, 1, n)[k] = digits[k]
  BY <1>1, <1>5
<1>8. PICK v : Worth(SubSeq(digits, 1, n), radix, v, n)
               /\ Value(SubSeq(digits, 1, n), radix) = v[n]
  BY <1>7, ValueIs
<1>9. Worth(digits, radix, v, n)
  BY <1>7, <1>8 DEF Worth
<1> QED BY <1>4, <1>5, <1>6, <1>8, <1>9 DEF Parsed

LEMMA SettingType ==
  ASSUME NEW variable \in Seq(0 .. 9), NEW text \in Seq(0 .. 9), NEW radix \in Nat,
         NEW default \in Nat \ {0}
  PROVE  Setting(variable, text, radix, default) \in Nat \ {0}
<1>1. \A digits \in Seq(0 .. 9) : ParseInt(digits, radix) \in Nat \cup {NaN}
  <2> SUFFICES ASSUME NEW digits \in Seq(0 .. 9)
               PROVE  ParseInt(digits, radix) \in Nat \cup {NaN}
    OBVIOUS
  <2>1. PICK n, v : Parsed(digits, radix, n, v)
    BY ParseIs
<2> USE DEF Parsed
  <2>2. v[n] \in Nat
    BY <2>1 DEF Worth
  <2> QED BY <2>1, <2>2
<1> QED BY <1>1 DEF Setting

LEMMA ConfigType ==
  ASSUME NEW e \in [threshold : Threshold, delay : Delay]
  PROVE  Config(e) \in [spamThreshold : Nat \ {0}, epochAllowedDelayThreshold : Nat \ {0}]
<1>1. <<2>> \in Seq(0 .. 9) /\ <<2, 0>> \in Seq(0 .. 9)
  OBVIOUS
<1>2. e.threshold \in Seq(0 .. 9) /\ e.delay \in Seq(0 .. 9)
  BY EnvironmentAssumption
<1>3. 2 \in Nat \ {0} /\ 20 \in Nat \ {0} /\ 2 \in Nat /\ 20 \in Nat
  OBVIOUS
<1>4. Setting(e.threshold, <<2>>, 2, 2) \in Nat \ {0}
  BY <1>1, <1>2, <1>3, SettingType, Zenon
<1>5. Setting(e.delay, <<2, 0>>, 20, 20) \in Nat \ {0}
  BY <1>1, <1>2, <1>3, SettingType, Zenon
<1> QED BY <1>4, <1>5 DEF Config

------------------------------------------------------------------------------
(* The starts of the nodes (ServerStart).                                  *)

Configs == {Config(e) : e \in [threshold : Threshold, delay : Delay]} \cup {NotRunning.config}

Place == {"ended", "connecting", "finding zeros", "seeding", "synchronising",
          "creating leaf", "linking", "creating room", "listening"}
AtWork == {"creating leaf", "linking"}
Synced == {"creating room", "listening"}

\* TypeOK, with the configurations that the environment can make.
StartType ==
  /\ env \in [threshold : Threshold, delay : Delay]
  /\ node \in [Node -> [pc : Place, level : 0 .. Levels, config : Configs]]
  /\ zeros \in [Level -> Level \cup {NoHash}]
  /\ tree \in [leaves : SUBSET Node, unlinked : SUBSET Node] /\ rooms \in 0 .. 1
  /\ lapses \subseteq Lapse

\* A start that seeds has made every level below its own.
SeedersInv ==
  \A n \in Node :
    /\ node[n].pc \in {"connecting", "finding zeros"} => node[n].level = 0
    /\ At(n, "seeding") => /\ node[n].level \in Level
                          /\ \A k \in Level : k < node[n].level => k \in Seeded

\* A start that is past the seeding has the zeros, or found them unfinished.
PassedInv ==
  /\ \A n \in Node : node[n].pc \in {"synchronising"} \cup AtWork \cup Synced =>
       "zeros" \in lapses \/ Seeded = Level
  /\ \A n \in Node : At(n, "listening") => rooms = 1

\* A start that synchronised has a tree, or fetched nothing.  While nothing lapsed, at
\* most one start is at work on the leaf, before any other has one; and only there a
\* leaf is without its path.
TreeInv ==
  /\ \A n \in Node : node[n].pc \in Synced => "fetch" \in lapses \/ tree.leaves # {}
  /\ \A n \in Node : At(n, "linking") => n \in tree.leaves \cap tree.unlinked
  /\ lapses = {} =>
       /\ \A m, n \in Node : node[m].pc \in AtWork /\ node[n].pc \in AtWork => m = n
       /\ \A m, n \in Node : node[m].pc \in Synced => node[n].pc \notin AtWork
       /\ \A n \in Node : At(n, "creating leaf") => tree.leaves = {}
       /\ \A n \in tree.unlinked : At(n, "linking")

StartInv == StartType /\ ZerosAreAChain /\ SeedersInv /\ PassedInv /\ TreeInv

LEMMA InitInv == ASSUME Init PROVE StartInv
<1>1. NotRunning \in [pc : Place, level : 0 .. Levels, config : Configs]
  BY LevelsAssumption DEF NotRunning, Place, Configs
<1>2. StartType
  <2>1. node \in [Node -> [pc : Place, level : 0 .. Levels, config : Configs]]
    BY <1>1 DEF Init
  <2>2. rooms \in 0 .. 1
    BY DEF Init
  <2>3. zeros \in [Level -> Level \cup {NoHash}]
    BY DEF Init
  <2>4. lapses \subseteq Lapse /\ tree \in [leaves : SUBSET Node, unlinked : SUBSET Node]
    BY DEF Init
  <2> QED BY <2>1, <2>2, <2>3, <2>4 DEF Init, StartType
<1>3. Seeded = {}
  BY DEF Init, Seeded, Level, NoHash
<1>4. \A n \in Node : node[n].pc = "ended"
  BY DEF Init, NotRunning
<1>5. TreeInv
  BY <1>4 DEF Init, TreeInv, At, AtWork, Synced
<1> QED
  BY <1>2, <1>3, <1>4, <1>5 DEF Init, StartInv, ZerosAreAChain, SeedersInv, PassedInv, At,
     AtWork, Synced

\* What a step that moves one start does to the others.
LEMMA MoveType ==
  ASSUME StartType, NEW n \in Node,
         NEW r \in [pc : Place, level : 0 .. Levels, config : Configs],
         node' = [node EXCEPT ![n] = r]
  PROVE  /\ node' \in [Node -> [pc : Place, level : 0 .. Levels, config : Configs]]
         /\ node'[n] = r
         /\ \A m \in Node \ {n} : node'[m] = node[m]
BY DEF StartType

\* Steps that do nothing to the tree, and take no start to its work on it: a start
\* that was at work without a lapse leaves it by a lapse.
LEMMA TreeKept ==
  ASSUME StartInv, NEW n \in Node,
         NEW r \in [pc : Place, level : 0 .. Levels, config : Configs],
         node' = [node EXCEPT ![n] = r], tree' = tree, lapses \subseteq lapses',
         r.pc \notin AtWork, At(n, "linking") => lapses' # {},
         r.pc \in Synced => node[n].pc \in Synced \/ "fetch" \in lapses'
  PROVE  TreeInv'
<1>1. /\ node'[n] = r /\ \A m \in Node \ {n} : node'[m] = node[m]
  BY MoveType DEF StartInv
<1>2. TreeInv /\ (lapses' = {} => lapses = {})
  BY DEF StartInv
<1>3. \A m \in Node : node'[m].pc \in Synced => "fetch" \in lapses' \/ tree'.leaves # {}
  BY <1>1, <1>2 DEF TreeInv
<1>4. \A m \in Node : At(m, "linking")' => m \in tree'.leaves \cap tree'.unlinked
  BY <1>1, <1>2 DEF TreeInv, At, AtWork
<1>5. ASSUME lapses' = {}
      PROVE  /\ \A m, k \in Node : node'[m].pc \in AtWork /\ node'[k].pc \in AtWork => m = k
             /\ \A m, k \in Node : node'[m].pc \in Synced => node'[k].pc \notin AtWork
             /\ \A m \in Node : At(m, "creating leaf")' => tree'.leaves = {}
             /\ \A m \in tree'.unlinked : At(m, "linking")'
  <2>1. \A m, k \in Node : node'[m].pc \in AtWork /\ node'[k].pc \in AtWork => m = k
    BY <1>1, <1>2, <1>5 DEF TreeInv
  <2>2. \A m, k \in Node : node'[m].pc \in Synced => node'[k].pc \notin AtWork
    BY <1>1, <1>2, <1>5 DEF TreeInv
  <2>3. \A m \in Node : At(m, "creating leaf")' => tree'.leaves = {}
    BY <1>1, <1>2, <1>5 DEF TreeInv, At, AtWork
  <2>4. \A m \in tree'.unlinked : At(m, "linking")'
    <3>1. tree.unlinked \subseteq Node
      BY DEF StartInv, StartType
    <3> QED BY <1>1, <1>2, <1>5, <3>1 DEF TreeInv, At
  <2> QED BY <2>1, <2>2, <2>3, <2>4
<1> QED BY <1>3, <1>4, <1>5 DEF TreeInv

\* Steps that change neither the zeros nor the tree nor the room, and do not
\* let the start pass the seeding.
LEMMA QuietMove ==
  ASSUME StartInv, NEW n \in Node,
         NEW r \in [pc : Place, level : 0 .. Levels, config : Configs],
         node' = [node EXCEPT ![n] = r],
         r.pc \in {"ended", "connecting", "finding zeros"}, r.level = 0,
         UNCHANGED <<env, zeros, tree, rooms>>,
         lapses \subseteq lapses', lapses' \subseteq Lapse, At(n, "linking") => lapses' # {}
  PROVE  StartInv'
<1>1. /\ node' \in [Node -> [pc : Place, level : 0 .. Levels, config : Configs]]
      /\ node'[n] = r
      /\ \A m \in Node \ {n} : node'[m] = node[m]
  BY MoveType DEF StartInv
<1>2. StartType'
  BY <1>1 DEF StartInv, StartType
<1>3. Seeded' = Seeded /\ ZerosAreAChain'
  BY DEF StartInv, Seeded, ZerosAreAChain
<1>4. SeedersInv'
  BY <1>1, <1>3 DEF StartInv, SeedersInv, At
<1>5. PassedInv'
  BY <1>1, <1>3 DEF StartInv, PassedInv, At, AtWork, Synced
<1>6. TreeInv'
  BY TreeKept DEF AtWork, Synced
<1> QED BY <1>2, <1>3, <1>4, <1>5, <1>6 DEF StartInv

\* The steps of the synchronisation.
LEMMA SyncStep ==
  ASSUME StartInv, NEW n \in Node,
         LoadMembers(n) \/ LoadFails(n) \/ StoreLeaf(n) \/ LinkLeaf(n)
  PROVE  StartInv'
<1> DEFINE Process == [pc : Place, level : 0 .. Levels, config : Configs]
<1>1. PICK pc \in AtWork \cup {"creating room"} :
        node' = [node EXCEPT ![n] = [node[n] EXCEPT !.pc = pc]]
  BY DEF LoadMembers, LoadFails, StoreLeaf, LinkLeaf, Goto, AtWork
<1>2. PICK r : r = [node[n] EXCEPT !.pc = pc]
  OBVIOUS
<1>3. r \in Process /\ r.pc = pc /\ node' = [node EXCEPT ![n] = r]
  BY <1>1, <1>2 DEF StartInv, StartType, Place, AtWork, Synced
<1>4. /\ node' \in [Node -> Process] /\ node'[n] = r
      /\ \A m \in Node \ {n} : node'[m] = node[m]
  BY <1>3, MoveType DEF StartInv
<1>5. /\ UNCHANGED <<env, zeros, rooms>> /\ lapses \subseteq lapses' /\ lapses' \subseteq Lapse
      /\ node[n].pc \in {"synchronising", "creating leaf", "linking"} /\ pc # "listening"
  <2>1. /\ UNCHANGED <<env, zeros, rooms>> /\ lapses \subseteq lapses' /\ lapses' \subseteq Lapse
        /\ node[n].pc \in {"synchronising", "creating leaf", "linking"}
    BY DEF LoadMembers, LoadFails, StoreLeaf, LinkLeaf, At, Lapse, StartInv, StartType
  <2>2. pc # "listening"
    BY DEF AtWork
  <2> QED BY <2>1, <2>2
<1>6. StartType'
  <2>1. tree' \in [leaves : SUBSET Node, unlinked : SUBSET Node]
    <3>1. tree \in [leaves : SUBSET Node, unlinked : SUBSET Node]
      BY DEF StartInv, StartType
    <3>2. \/ tree' = tree \/ tree' = [tree EXCEPT !.unlinked = @ \ {n}]
          \/ tree' = [leaves |-> tree.leaves \cup {n}, unlinked |-> tree.unlinked \cup {n}]
      BY DEF LoadMembers, LoadFails, StoreLeaf, LinkLeaf
    <3>3. /\ tree.leaves \cup {n} \in SUBSET Node /\ tree.unlinked \cup {n} \in SUBSET Node
          /\ tree.unlinked \ {n} \in SUBSET Node
      BY <3>1
    <3>4. CASE tree' = [tree EXCEPT !.unlinked = @ \ {n}]
      <4>1. tree' = [leaves |-> tree.leaves, unlinked |-> tree.unlinked \ {n}]
        BY <3>1, <3>4
      <4>2. tree.leaves \in SUBSET Node
        BY <3>1
      <4> QED BY <3>3, <4>1, <4>2
    <3>5. CASE tree' = [leaves |-> tree.leaves \cup {n}, unlinked |-> tree.unlinked \cup {n}]
      BY <3>3, <3>5
    <3> QED BY <3>1, <3>2, <3>4, <3>5
  <2> QED BY <1>4, <1>5, <2>1 DEF StartInv, StartType
<1>7. Seeded' = Seeded /\ ZerosAreAChain'
  BY <1>5 DEF StartInv, Seeded, ZerosAreAChain
<1>8. SeedersInv'
  BY <1>3, <1>4, <1>7 DEF StartInv, SeedersInv, At, AtWork, Synced
<1>9. PassedInv'
  BY <1>3, <1>4, <1>5, <1>7 DEF StartInv, PassedInv, At, AtWork, Synced
<1>10. TreeInv
  BY DEF StartInv
<1>11. TreeInv'
  <2>1. CASE LoadMembers(n)
    <3>1. /\ tree' = tree /\ At(n, "synchronising")
          /\ pc = IF tree.leaves = {} THEN "creating leaf" ELSE "creating room"
          /\ lapses' = {} => \A m \in Node : node[m].pc \notin AtWork
      <4>1. /\ tree' = tree /\ At(n, "synchronising")
            /\ lapses' = {} => \A m \in Node : node[m].pc \notin AtWork
        BY <2>1 DEF LoadMembers, At, AtWork
      <4>2. node'[n].pc = IF tree.leaves = {} THEN "creating leaf" ELSE "creating room"
        BY <2>1 DEF LoadMembers, Goto, StartInv, StartType
      <4> QED BY <1>3, <1>4, <4>1, <4>2
    <3>2. tree.unlinked \subseteq Node
      BY DEF StartInv, StartType
    <3>3. CASE tree.leaves = {}
      BY <1>3, <1>4, <1>5, <1>10, <3>1, <3>2, <3>3 DEF TreeInv, At, AtWork, Synced
    <3>4. CASE tree.leaves # {}
      BY <1>3, <1>4, <1>5, <1>10, <3>1, <3>2, <3>4 DEF TreeInv, At, AtWork, Synced
    <3> QED BY <3>3, <3>4
  <2>2. CASE LoadFails(n)
    <3>1. tree' = tree /\ "fetch" \in lapses' /\ pc \notin AtWork
      <4>1. tree' = tree /\ "fetch" \in lapses'
        BY <2>2 DEF LoadFails
      <4>2. node'[n].pc = "creating room"
        BY <2>2 DEF LoadFails, Goto, StartInv, StartType
      <4> QED BY <1>3, <1>4, <4>1, <4>2 DEF AtWork
    <3> QED BY <1>3, <1>5, <3>1, TreeKept
  <2>3. CASE StoreLeaf(n)
    <3>1. /\ tree'.leaves = tree.leaves \cup {n} /\ tree'.unlinked = tree.unlinked \cup {n}
          /\ At(n, "creating leaf") /\ lapses' = lapses /\ node'[n].pc = "linking"
      <4>1. /\ tree' = [leaves |-> tree.leaves \cup {n}, unlinked |-> tree.unlinked \cup {n}]
            /\ At(n, "creating leaf") /\ lapses' = lapses
        BY <2>3 DEF StoreLeaf
      <4>2. node'[n].pc = "linking"
        BY <2>3 DEF StoreLeaf, Goto, StartInv, StartType
      <4> QED BY <4>1, <4>2
    <3>2. tree.unlinked \subseteq Node
      BY DEF StartInv, StartType
    <3>3. \A m \in Node : node[m].pc \in AtWork /\ lapses = {} => m = n
      BY <1>10, <3>1 DEF TreeInv, At, AtWork
    <3>4. /\ \A m \in Node \ {n} : At(m, "linking")' <=> At(m, "linking")
          /\ \A m \in Node \ {n} : node'[m] = node[m]
      BY <1>4 DEF At
    <3>5. \A m \in Node : At(m, "linking")' => m \in tree'.leaves \cap tree'.unlinked
      BY <1>10, <3>1, <3>4 DEF TreeInv
    <3>6. \A m \in Node : node'[m].pc \in Synced => "fetch" \in lapses' \/ tree'.leaves # {}
      BY <3>1
    <3>7. ASSUME lapses' = {}
          PROVE  /\ \A m, k \in Node : node'[m].pc \in AtWork /\ node'[k].pc \in AtWork => m = k
                 /\ \A m, k \in Node : node'[m].pc \in Synced => node'[k].pc \notin AtWork
                 /\ \A m \in Node : At(m, "creating leaf")' => tree'.leaves = {}
                 /\ \A m \in tree'.unlinked : At(m, "linking")'
      <4>1. /\ lapses = {} /\ node[n].pc \in AtWork
            /\ \A m \in Node \ {n} : node'[m].pc \notin AtWork \cup Synced
        BY <1>10, <3>1, <3>3, <3>4, <3>7 DEF TreeInv, At, AtWork
      <4>2. tree.unlinked \subseteq {n}
        BY <1>10, <3>1, <3>2, <4>1 DEF TreeInv, At
      <4>3. node'[n].pc \notin Synced /\ node'[n].pc # "creating leaf"
        BY <3>1 DEF Synced
      <4> QED BY <3>1, <4>1, <4>2, <4>3 DEF At, AtWork
    <3> QED BY <3>5, <3>6, <3>7 DEF TreeInv
  <2>4. CASE LinkLeaf(n)
    <3>1. /\ tree'.leaves = tree.leaves /\ tree'.unlinked \in {tree.unlinked, tree.unlinked \ {n}}
          /\ At(n, "linking") /\ lapses' = lapses /\ node'[n].pc = "creating room"
          /\ tree'.unlinked = tree.unlinked => Seeded # Level \/ tree.unlinked # {n}
      <4>1. /\ At(n, "linking") /\ lapses' = lapses
            /\ \/ tree' = [tree EXCEPT !.unlinked = @ \ {n}]
               \/ (Seeded # Level \/ tree.unlinked # {n}) /\ tree' = tree
        BY <2>4 DEF LinkLeaf
      <4>2. node'[n].pc = "creating room"
        BY <2>4 DEF LinkLeaf, Goto, StartInv, StartType
      <4>3. tree \in [leaves : SUBSET Node, unlinked : SUBSET Node] /\ n \in tree.unlinked
        BY <1>10, <4>1 DEF StartInv, StartType, TreeInv
      <4>4. \/ tree'.leaves = tree.leaves /\ tree'.unlinked = tree.unlinked \ {n}
            \/ tree' = tree /\ (Seeded # Level \/ tree.unlinked # {n})
        BY <4>1, <4>3
      <4> QED BY <4>1, <4>2, <4>3, <4>4
    <3>2. tree.unlinked \subseteq Node
      BY DEF StartInv, StartType
    <3>3. lapses = {} => Seeded = Level /\ tree.unlinked = {n}
      <4>1. lapses = {} => Seeded = Level
        BY <3>1 DEF StartInv, PassedInv, At, AtWork
      <4>2. n \in tree.unlinked
        BY <1>10, <3>1 DEF TreeInv
      <4>3. lapses = {} => \A m \in tree.unlinked : m = n
        BY <1>10, <3>1, <3>2 DEF TreeInv, At, AtWork
      <4> QED BY <4>1, <4>2, <4>3
    <3>4. lapses = {} => tree'.unlinked = {}
      BY <3>1, <3>3
    <3> QED BY <1>4, <1>10, <3>1, <3>4 DEF TreeInv, At, AtWork, Synced
  <2> QED BY <2>1, <2>2, <2>3, <2>4
<1> QED BY <1>6, <1>7, <1>8, <1>9, <1>11 DEF StartInv

LEMMA StepInv == ASSUME StartInv, [Next]_vars PROVE StartInv'
<1> DEFINE Process == [pc : Place, level : 0 .. Levels, config : Configs]
<1>0. \A n \in Node : node[n] \in Process
  BY DEF StartInv, StartType
<1>1. CASE UNCHANGED vars
  BY <1>1 DEF vars, StartInv, StartType, ZerosAreAChain, Seeded, SeedersInv, PassedInv, At,
     TreeInv
<1>2. ASSUME NEW n \in Node, Start(n) PROVE StartInv'
  <2>0. ~ At(n, "linking") /\ lapses' = lapses /\ lapses \subseteq Lapse
    BY <1>2 DEF Start, At, StartInv, StartType
  <2>1. Config(env) \in Configs
    BY DEF StartInv, StartType, Configs
  <2>2. [pc |-> "connecting", level |-> 0, config |-> Config(env)] \in Process
    BY <2>1, LevelsAssumption DEF Place
  <2> QED BY <1>2, <2>0, <2>2, QuietMove DEF Start
<1>3. ASSUME NEW n \in Node, InitDb(n) PROVE StartInv'
  <2>1. [node[n] EXCEPT !.pc = "finding zeros"] \in Process
    BY <1>0 DEF Place
  <2>2. node' = [node EXCEPT ![n] = [node[n] EXCEPT !.pc = "finding zeros"]]
    BY <1>3 DEF InitDb, Goto
  <2>3. node[n].level = 0
    BY <1>3 DEF InitDb, At, StartInv, SeedersInv
  <2>4. ~ At(n, "linking") /\ lapses' = lapses /\ lapses \subseteq Lapse
    BY <1>3 DEF InitDb, At, StartInv, StartType
  <2> QED BY <1>0, <1>3, <2>1, <2>2, <2>3, <2>4, QuietMove DEF InitDb
<1>4. NotRunning \in Process /\ NotRunning.pc = "ended" /\ NotRunning.level = 0
  BY LevelsAssumption DEF NotRunning, Place, Configs
<1>5. ASSUME NEW n \in Node, Fault(n) PROVE StartInv'
  <2>1. /\ node' = [node EXCEPT ![n] = NotRunning] /\ UNCHANGED <<env, zeros, tree, rooms>>
        /\ lapses' = lapses \cup {l \in {"path"} : At(n, "linking")}
    BY <1>5 DEF Fault, Ends
  <2>2. lapses \subseteq lapses' /\ lapses' \subseteq Lapse /\ (At(n, "linking") => lapses' # {})
    BY <2>1 DEF StartInv, StartType, Lapse
  <2> QED BY <1>4, <2>1, <2>2, QuietMove
<1>6. ASSUME NEW n \in Node, FindZeros(n) PROVE StartInv'
  <2> DEFINE pc == IF Seeded = {} THEN "seeding" ELSE "synchronising"
  <2>1. [node[n] EXCEPT !.pc = pc] \in Process
    BY <1>0 DEF Place
  <2>2. node' = [node EXCEPT ![n] = [node[n] EXCEPT !.pc = pc]]
    BY <1>6 DEF FindZeros, Goto
  <2>3. /\ node' \in [Node -> Process]
        /\ node'[n] = [node[n] EXCEPT !.pc = pc]
        /\ \A m \in Node \ {n} : node'[m] = node[m]
    BY <2>1, <2>2, MoveType DEF StartInv
  <2>4. StartType'
    BY <1>6, <2>3 DEF FindZeros, StartInv, StartType, Lapse
  <2>5. Seeded' = Seeded /\ ZerosAreAChain' /\ node[n].level = 0
    BY <1>6 DEF FindZeros, StartInv, Seeded, ZerosAreAChain, At, SeedersInv
  <2>6. SeedersInv'
    <3>1. node'[n].level = 0 /\ node'[n].pc = pc
      BY <1>0, <2>3, <2>5
    <3>2. 0 \in Level /\ \A k \in Level : ~ (k < 0)
      BY LevelsAssumption DEF Level
    <3>3. pc \in {"seeding", "synchronising"}
      OBVIOUS
    <3>4. SeedersInv
      BY DEF StartInv
    <3>5. ASSUME NEW m \in Node \ {n}
          PROVE  /\ node'[m].pc \in {"connecting", "finding zeros"} => node'[m].level = 0
                 /\ node'[m].pc = "seeding" =>
                      /\ node'[m].level \in Level
                      /\ \A k \in Level : k < node'[m].level => k \in Seeded'
      BY <2>3, <2>5, <3>4 DEF SeedersInv, At
    <3> HIDE DEF pc
    <3>6. /\ node'[n].pc \notin {"connecting", "finding zeros"}
          /\ node'[n].level \in Level
          /\ \A k \in Level : k < node'[n].level => k \in Seeded'
      BY <3>1, <3>2, <3>3
    <3> QED BY <3>5, <3>6 DEF SeedersInv, At
  <2>7. "zeros" \in lapses' \/ Seeded = {} \/ Seeded = Level
    BY <1>6 DEF FindZeros
  <2>8. lapses \subseteq lapses' /\ UNCHANGED <<tree, rooms>> /\ ~ At(n, "linking")
    BY <1>6 DEF FindZeros, At
  <2>9. pc \in {"seeding", "synchronising"} /\ (pc = "synchronising" => Seeded # {})
    OBVIOUS
  <2>10. node'[n].pc = pc
    BY <1>0, <2>3
  <2>11. PassedInv'
    <3> HIDE DEF pc
    <3> QED BY <2>3, <2>5, <2>7, <2>8, <2>9, <2>10 DEF StartInv, PassedInv, At, AtWork, Synced
  <2>12. TreeInv'
    <3>1. [node[n] EXCEPT !.pc = pc].pc = pc
      BY <1>0
    <3> HIDE DEF pc
    <3> QED BY <2>1, <2>2, <2>8, <2>9, <3>1, TreeKept DEF AtWork, Synced
  <2> QED BY <2>4, <2>5, <2>6, <2>11, <2>12 DEF StartInv
<1>7. ASSUME NEW n \in Node, CreateZero(n) PROVE StartInv'
  <2>1. PICK l \in Level : l = node[n].level /\ \A k \in Level : k < l => k \in Seeded
    BY <1>7 DEF CreateZero, At, StartInv, SeedersInv
  <2>2. CASE zeros[l] # NoHash
    <3>1. /\ node' = [node EXCEPT ![n] = NotRunning]
          /\ UNCHANGED <<env, zeros, tree, rooms, lapses>> /\ ~ At(n, "linking")
      BY <1>7, <2>1, <2>2 DEF CreateZero, Ends, At
    <3>2. lapses \subseteq Lapse
      BY DEF StartInv, StartType
    <3> QED BY <1>4, <3>1, <3>2, QuietMove
  <2>3. CASE zeros[l] = NoHash
    <3> DEFINE pc == IF l + 1 = Levels THEN "synchronising" ELSE "seeding"
               r  == [node[n] EXCEPT !.pc = pc, !.level = l + 1]
    <3>1. l \in Nat /\ l + 1 \in 0 .. Levels /\ (l + 1 # Levels => l + 1 \in Level)
      BY LevelsAssumption DEF Level
    <3>2. r \in Process /\ r.pc = pc /\ r.level = l + 1
      BY <1>0, <3>1 DEF Place
    <3>3. node' = [node EXCEPT ![n] = r] /\ zeros' = [zeros EXCEPT ![l] = l]
      BY <1>7, <2>1, <2>3 DEF CreateZero
    <3>4. /\ node' \in [Node -> Process] /\ node'[n] = r
          /\ \A m \in Node \ {n} : node'[m] = node[m]
      BY <3>2, <3>3, MoveType DEF StartInv
    <3>5. StartType'
      BY <1>7, <3>3, <3>4 DEF CreateZero, StartInv, StartType
    <3>6. Seeded' = Seeded \cup {l} /\ \A k \in Seeded' : zeros'[k] = k
      BY <2>1, <3>1, <3>3 DEF StartInv, StartType, ZerosAreAChain, Seeded, Level, NoHash
    <3>7. \A k \in 0 .. l : k \in Seeded'
      <4> SUFFICES ASSUME NEW k \in 0 .. l PROVE k \in Seeded'
        OBVIOUS
      <4>1. k \in Level /\ (k < l \/ k = l)
        BY <3>1, LevelsAssumption DEF Level
      <4> QED BY <2>1, <3>6, <4>1
    <3>8. ZerosAreAChain'
      <4> SUFFICES ASSUME NEW k \in Seeded'
                   PROVE  zeros'[k] = k /\ \A j \in 0 .. k : j \in Seeded'
        BY DEF ZerosAreAChain
      <4>1. zeros'[k] = k
        BY <3>6
      <4>2. k = l => \A j \in 0 .. k : j \in Seeded'
        BY <3>7
      <4>3. k \in Seeded => \A j \in 0 .. k : j \in Seeded'
        <5>1. ZerosAreAChain
          BY DEF StartInv
        <5> QED BY <3>6, <5>1 DEF ZerosAreAChain
      <4>4. k = l \/ k \in Seeded
        BY <3>6
      <4> HIDE DEF pc, r
      <4> QED BY <4>1, <4>2, <4>3, <4>4
    <3>9. SeedersInv'
      <4>1. \A k \in Level : k < l + 1 => k \in Seeded'
        BY <3>1, <3>7 DEF Level
      <4>2. Seeded \subseteq Seeded'
        BY <3>6
      <4>3. SeedersInv
        BY DEF StartInv
      <4>4. pc \in {"synchronising", "seeding"} /\ (pc = "seeding" => l + 1 \in Level)
        BY <3>1
      <4>5. ASSUME NEW m \in Node \ {n}, At(m, "seeding")'
            PROVE  node'[m].level \in Level
                   /\ \A k \in Level : k < node'[m].level => k \in Seeded'
        BY <3>4, <4>2, <4>3, <4>5 DEF SeedersInv, At
      <4>6. \A m \in Node \ {n} :
              node'[m].pc \in {"connecting", "finding zeros"} => node'[m].level = 0
        BY <3>4, <4>3 DEF SeedersInv
      <4>7. node'[n].pc = pc /\ node'[n].level = l + 1
        BY <3>2, <3>4
      <4> HIDE DEF pc, r
      <4> QED BY <4>1, <4>4, <4>5, <4>6, <4>7 DEF SeedersInv, At
    <3>10. l + 1 = Levels => Seeded' = Level
      BY <3>1, <3>7, LevelsAssumption DEF Level, Seeded
    <3>11. Seeded = Level => Seeded' = Level
      BY <3>6 DEF Seeded
    <3>12. UNCHANGED <<tree, rooms, lapses>> /\ ~ At(n, "linking")
      BY <1>7 DEF CreateZero, At
    <3>13. pc \in {"synchronising", "seeding"} /\ (pc = "synchronising" => l + 1 = Levels)
      OBVIOUS
    <3>14. PassedInv'
      <4> HIDE DEF pc
      <4> QED BY <3>2, <3>4, <3>10, <3>11, <3>12, <3>13 DEF StartInv, PassedInv, At, AtWork, Synced
    <3>15. TreeInv'
      <4> HIDE DEF pc, r
      <4> QED BY <3>2, <3>3, <3>12, <3>13, TreeKept DEF AtWork, Synced
    <3> QED BY <3>5, <3>8, <3>9, <3>14, <3>15 DEF StartInv
  <2> QED BY <2>2, <2>3
<1>8. ASSUME NEW n \in Node,
             LoadMembers(n) \/ LoadFails(n) \/ StoreLeaf(n) \/ LinkLeaf(n)
      PROVE  StartInv'
  BY <1>8, SyncStep
<1>9. ASSUME NEW n \in Node, TryCreateDefaultChatroom(n) PROVE StartInv'
  <2> DEFINE r == [node[n] EXCEPT !.pc = "listening"]
  <2>1. r \in Process /\ r.pc = "listening"
    BY <1>0 DEF Place
  <2>2. node' = [node EXCEPT ![n] = r]
    BY <1>9 DEF TryCreateDefaultChatroom, Goto
  <2>3. /\ node' \in [Node -> Process] /\ node'[n] = r
        /\ \A m \in Node \ {n} : node'[m] = node[m]
    BY <2>1, <2>2, MoveType DEF StartInv
  <2>4. rooms' = 1 /\ UNCHANGED <<env, zeros, tree, lapses>> /\ At(n, "creating room")
    BY <1>9 DEF TryCreateDefaultChatroom
  <2>5. StartType'
    <3>1. rooms' = 1
      BY <2>4
    <3>2. rooms' \in 0 .. 1
      BY <3>1
    <3> QED BY <2>3, <2>4, <3>2 DEF StartInv, StartType
  <2>6. Seeded' = Seeded /\ ZerosAreAChain'
    BY <2>4 DEF StartInv, Seeded, ZerosAreAChain
  <2>7. SeedersInv'
    BY <2>1, <2>3, <2>6 DEF StartInv, SeedersInv, At
  <2>8. PassedInv'
    BY <2>1, <2>3, <2>4, <2>6 DEF StartInv, PassedInv, At, AtWork, Synced
  <2>9. TreeInv'
    <3> HIDE DEF r
    <3> QED BY <2>1, <2>2, <2>4, TreeKept DEF AtWork, Synced, At
  <2> QED BY <2>5, <2>6, <2>7, <2>8, <2>9 DEF StartInv
<1> QED
  BY <1>1, <1>2, <1>3, <1>5, <1>6, <1>7, <1>8, <1>9 DEF Next, InitZKChatServer

LEMMA InvAlways == Spec => []StartInv
BY InitInv, StepInv, PTL DEF Spec

LEMMA StartInvComplete == ASSUME StartInv PROVE ListeningIsComplete
<1> SUFFICES ASSUME NEW n \in Node, At(n, "listening")
             PROVE  /\ rooms = 1
                    /\ "zeros" \notin lapses => Seeded = Level
                    /\ "fetch" \notin lapses => tree.leaves # {}
                    /\ lapses = {} => tree.unlinked = {}
  BY DEF ListeningIsComplete
<1>1. /\ rooms = 1 /\ ("zeros" \notin lapses => Seeded = Level)
      /\ "fetch" \notin lapses => tree.leaves # {}
  BY DEF StartInv, PassedInv, TreeInv, At, Synced
<1>2. ASSUME lapses = {}, NEW m \in tree.unlinked PROVE FALSE
  <2>1. m \in Node /\ node[m].pc \in AtWork /\ node[n].pc \in Synced
    BY <1>2 DEF StartInv, StartType, TreeInv, At, AtWork, Synced
  <2> QED BY <1>2, <2>1 DEF StartInv, TreeInv
<1> QED BY <1>1, <1>2

\* A node that runs has the limits the configuration makes of the environment.
InForce == \A n \in Node : ~ At(n, "ended") => node[n].config = Config(env)

FaultsInv == faults \in 0 .. MaxFaults

LEMMA InForceStep ==
  ASSUME StartInv, InForce, FaultsInv, [Next]_vars
  PROVE  InForce' /\ FaultsInv'
<1>1. node \in [Node -> [pc : Place, level : 0 .. Levels, config : Configs]]
  BY DEF StartInv, StartType
<1>2. CASE UNCHANGED vars
  BY <1>2 DEF vars, InForce, FaultsInv, At
<1>3. ASSUME NEW n \in Node, Start(n) PROVE InForce' /\ FaultsInv'
  <2>1. /\ node' = [node EXCEPT ![n] = [pc |-> "connecting", level |-> 0, config |-> Config(env)]]
        /\ env' = env /\ faults' = faults
    BY <1>3 DEF Start
  <2> QED BY <1>1, <2>1 DEF InForce, FaultsInv, At
<1>4. ASSUME NEW n \in Node, Fault(n) PROVE InForce' /\ FaultsInv'
  <2>1. /\ node' = [node EXCEPT ![n] = NotRunning] /\ NotRunning.pc = "ended"
        /\ env' = env /\ faults' = faults + 1 /\ faults < MaxFaults
    BY <1>4 DEF Fault, Ends, NotRunning
  <2>2. FaultsInv'
    BY <2>1, LevelsAssumption DEF FaultsInv
  <2> QED BY <1>1, <2>1, <2>2 DEF InForce, At
<1>5. ASSUME NEW n \in Node, InitZKChatServer(n) PROVE InForce' /\ FaultsInv'
  <2>1. /\ env' = env /\ ~ At(n, "ended")
        /\ DOMAIN node' = Node /\ \A m \in Node \ {n} : node'[m] = node[m]
        /\ node'[n].config = node[n].config \/ node'[n] = NotRunning
    <3>1. CASE InitDb(n)
      BY <1>1, <3>1 DEF InitDb, Goto, At
    <3>2. CASE FindZeros(n)
      BY <1>1, <3>2 DEF FindZeros, Goto, At
    <3>3. CASE CreateZero(n)
      <4>1. /\ env' = env /\ ~ At(n, "ended")
            /\ \/ node' = [node EXCEPT ![n] = NotRunning]
               \/ \E l, pc : node' = [node EXCEPT ![n].level = l, ![n].pc = pc]
               \/ node' = [node EXCEPT ![n].pc = "synchronising"]
        BY <3>3 DEF CreateZero, Ends, Goto, At
      <4> QED BY <1>1, <4>1
    <3>4. CASE LoadMembers(n)
      BY <1>1, <3>4 DEF LoadMembers, Goto, At
    <3>5. CASE LoadFails(n)
      BY <1>1, <3>5 DEF LoadFails, Goto, At
    <3>6. CASE StoreLeaf(n)
      BY <1>1, <3>6 DEF StoreLeaf, Goto, At
    <3>7. CASE LinkLeaf(n)
      BY <1>1, <3>7 DEF LinkLeaf, Goto, At
    <3>8. CASE TryCreateDefaultChatroom(n)
      BY <1>1, <3>8 DEF TryCreateDefaultChatroom, Goto, At
    <3> QED BY <1>5, <3>1, <3>2, <3>3, <3>4, <3>5, <3>6, <3>7, <3>8 DEF InitZKChatServer
  <2>2. NotRunning.pc = "ended"
    BY DEF NotRunning
  <2>3. node[n].config = Config(env)
    BY <2>1 DEF InForce
  <2>4. FaultsInv'
    <3>1. faults' = faults \/ (faults < MaxFaults /\ faults' = faults + 1)
      BY <1>5 DEF InitZKChatServer, InitDb, FindZeros, CreateZero, LoadMembers, LoadFails,
         StoreLeaf, LinkLeaf, TryCreateDefaultChatroom
    <3> QED BY <3>1, LevelsAssumption DEF FaultsInv
  <2> QED BY <2>1, <2>2, <2>3, <2>4 DEF InForce, At
<1> QED BY <1>2, <1>3, <1>4, <1>5 DEF Next

ConfiguredInv == StartInv /\ InForce /\ FaultsInv

LEMMA ConfiguredInit == ASSUME Init PROVE ConfiguredInv
<1>1. StartInv
  BY InitInv
<1>2. InForce
  BY DEF Init, InForce, At, NotRunning
<1>3. FaultsInv
  BY LevelsAssumption DEF Init, FaultsInv
<1> QED BY <1>1, <1>2, <1>3 DEF ConfiguredInv

LEMMA ConfiguredStep == ASSUME ConfiguredInv, [Next]_vars PROVE ConfiguredInv'
BY StepInv, InForceStep DEF ConfiguredInv

LEMMA ConfiguredTypes == ASSUME ConfiguredInv PROVE TypeOK
<1>1. Configs \subseteq [spamThreshold : Nat, epochAllowedDelayThreshold : Nat]
  <2>1. \A e \in [threshold : Threshold, delay : Delay] :
          Config(e) \in [spamThreshold : Nat \ {0}, epochAllowedDelayThreshold : Nat \ {0}]
    BY ConfigType
  <2>2. NotRunning.config \in [spamThreshold : Nat, epochAllowedDelayThreshold : Nat]
    BY DEF NotRunning
  <2> QED BY <2>1, <2>2 DEF Configs
<1>2. StartType /\ FaultsInv
  BY DEF ConfiguredInv, StartInv
<1>3. node \in [Node ->
        [pc : Place, level : 0 .. Levels,
         config : [spamThreshold : Nat, epochAllowedDelayThreshold : Nat]]]
  <2>1. ASSUME NEW n \in Node
        PROVE  node[n] \in [pc : Place, level : 0 .. Levels,
                 config : [spamThreshold : Nat, epochAllowedDelayThreshold : Nat]]
    BY <1>1, <1>2 DEF StartType
  <2> QED BY <1>2, <2>1 DEF StartType
<1> QED BY <1>2, <1>3 DEF StartType, TypeOK, FaultsInv, Place

\* The zeros are always the chain of hashes from the zero value up, for any number
\* of nodes that seed them at once and of starts that end half way.
THEOREM ZerosChained == Spec => []ZerosAreAChain
<1>1. StartInv => ZerosAreAChain
  BY DEF StartInv
<1> QED BY <1>1, InvAlways, PTL

\* What a listening node has under it, each part of it unless that happened which
\* alone takes it away: for any number of nodes, levels and faults.
THEOREM ListeningNodesComplete == Spec => []ListeningIsComplete
BY StartInvComplete, InvAlways, PTL

\* The types of ServerStart: whatever digits the environment has, the limits are
\* numbers.
THEOREM StartTypeCorrect == Spec => []TypeOK
BY ConfiguredInit, ConfiguredStep, ConfiguredTypes, PTL DEF Spec

------------------------------------------------------------------------------
\* The nodes with their requests

\* A request that is being served was charged; what is left of it is of it.
HandlingInv ==
  \A w \in Worker :
    /\ handling[w].left \subseteq Bundle
    /\ handling[w].pc # "idle" =>
         handling[w].request \in Request /\ handling[w].left \subseteq handling[w].request.bundles
    /\ handling[w].pc = "serve" => stats[handling[w].request] > 0

\* ServedIsCharged, bundle by bundle.
ChargedFor(kind, b) == \E r \in Request : r.kind = kind /\ stats[r] > 0 /\ b \in r.bundles
ChargedInv == /\ \A b \in created : ChargedFor("create", b)
              /\ \A b \in created \ bundles : ChargedFor("delete", b)

RequestInv == KTypeOK /\ HandlingInv /\ ChargedInv

HandlingRecord ==
  [pc : {"idle", "duplicate", "proof", "spam", "save", "serve"},
   request : Request \cup {NoRequest}, left : SUBSET Bundle]

LEMMA KInitInv == ASSUME KInit PROVE RequestInv
<1>1. NotHandling \in HandlingRecord
  BY DEF NotHandling, HandlingRecord
<1>2. KTypeOK
  <2>1. handling \in [Worker -> HandlingRecord]
    BY <1>1 DEF KInit
  <2>2. 0 \in Nat /\ 0 \in 0 .. MaxReceived
    BY RequestAssumption
  <2>3. stats \in [Request -> Nat] /\ received \in [Request -> 0 .. MaxReceived]
    BY <2>2 DEF KInit
  <2> QED BY <2>1, <2>3 DEF KInit, KTypeOK, HandlingRecord
<1>3. HandlingInv
  BY DEF KInit, HandlingInv, NotHandling
<1>4. ChargedInv
  BY DEF KInit, ChargedInv
<1> QED BY <1>2, <1>3, <1>4 DEF RequestInv

\* One worker's request moves; at most it is charged.
LEMMA MoveInv ==
  ASSUME RequestInv, NEW w \in Worker, NEW h \in HandlingRecord,
         handling' = [handling EXCEPT ![w] = h],
         stats' \in [Request -> Nat], \A r \in Request : stats[r] > 0 => stats'[r] > 0,
         h.pc # "idle" => h.request \in Request /\ h.left \subseteq h.request.bundles,
         h.pc = "serve" => stats'[h.request] > 0
  PROVE  /\ handling' \in [Worker -> HandlingRecord] /\ HandlingInv'
         /\ \A kind, b : ChargedFor(kind, b) => ChargedFor(kind, b)'
<1>1. handling \in [Worker -> HandlingRecord]
  BY DEF RequestInv, KTypeOK, HandlingRecord
<1>2. /\ handling' \in [Worker -> HandlingRecord] /\ handling'[w] = h
      /\ \A m \in Worker \ {w} : handling'[m] = handling[m]
  BY <1>1
<1>3. h.left \subseteq Bundle
  BY DEF HandlingRecord
<1>4. HandlingInv'
  BY <1>2, <1>3 DEF RequestInv, HandlingInv
<1>5. \A kind, b : ChargedFor(kind, b) => ChargedFor(kind, b)'
  BY DEF ChargedFor
<1> QED BY <1>2, <1>4, <1>5

\* What every step keeps, if it moves one request and serves it or not.
LEMMA ServeInv ==
  ASSUME RequestInv, NEW w \in Worker, NEW h \in HandlingRecord,
         handling' = [handling EXCEPT ![w] = h],
         stats' \in [Request -> Nat], \A r \in Request : stats[r] > 0 => stats'[r] > 0,
         h.pc # "idle" => h.request \in Request /\ h.left \subseteq h.request.bundles,
         h.pc = "serve" => stats'[h.request] > 0,
         received' \in [Request -> 0 .. MaxReceived],
         bundles' \subseteq created', created \subseteq created', created' \subseteq Bundle,
         \A b \in created' \ created : ChargedFor("create", b),
         \A b \in created' \ bundles' : b \in created \ bundles \/ ChargedFor("delete", b)
  PROVE  RequestInv'
<1>1. /\ handling' \in [Worker -> HandlingRecord] /\ HandlingInv'
      /\ \A kind, b : ChargedFor(kind, b) => ChargedFor(kind, b)'
  BY MoveInv
<1>2. KTypeOK'
  BY <1>1 DEF KTypeOK, HandlingRecord
<1>3. \A b \in created' : ChargedFor("create", b)
  BY DEF RequestInv, ChargedInv
<1>4. \A b \in created' \ bundles' : ChargedFor("delete", b)
  BY DEF RequestInv, ChargedInv
<1>5. ChargedInv'
  <2>1. \A b \in created' : ChargedFor("create", b)'
    BY <1>1, <1>3
  <2>2. \A b \in created' \ bundles' : ChargedFor("delete", b)'
    BY <1>1, <1>4
  <2> QED BY <2>1, <2>2 DEF ChargedInv
<1> QED BY <1>1, <1>2, <1>5 DEF RequestInv

LEMMA HandlingType ==
  ASSUME RequestInv, NEW w \in Worker
  PROVE  /\ handling[w] \in HandlingRecord /\ handling[w].left \subseteq Bundle
         /\ handling[w].pc # "idle" =>
              /\ handling[w].request \in Request
              /\ handling[w].left \subseteq handling[w].request.bundles
         /\ handling[w].pc = "serve" => stats[handling[w].request] > 0
         /\ NotHandling \in HandlingRecord /\ NotHandling.pc = "idle"
         /\ stats \in [Request -> Nat] /\ received \in [Request -> 0 .. MaxReceived]
         /\ bundles \subseteq created /\ created \subseteq Bundle
BY DEF RequestInv, KTypeOK, HandlingInv, HandlingRecord, NotHandling

\* A step that changes no bundle.
LEMMA CheckStep ==
  ASSUME RequestInv, NEW w \in Worker, NEW h \in HandlingRecord,
         handling' = [handling EXCEPT ![w] = h],
         h.pc # "idle" => h.request \in Request /\ h.left \subseteq h.request.bundles,
         h.pc # "serve",
         received' \in [Request -> 0 .. MaxReceived], UNCHANGED <<stats, bundles, created>>
  PROVE  RequestInv'
BY ServeInv, HandlingType

LEMMA ReceiveStep ==
  ASSUME RequestInv, NEW w \in Worker, NEW r \in Request, Receive(w, r)
  PROVE  RequestInv'
<1>1. PICK h : h = [pc |-> "duplicate", request |-> r, left |-> r.bundles]
  OBVIOUS
<1>2. r.bundles \subseteq Bundle
  BY RequestAssumption
<1>3. /\ h \in HandlingRecord /\ h.pc = "duplicate" /\ h.request = r /\ h.left = r.bundles
  BY <1>1, <1>2 DEF HandlingRecord
<1>4. /\ handling' = [handling EXCEPT ![w] = h] /\ UNCHANGED <<stats, bundles, created>>
      /\ received[r] < MaxReceived /\ received' = [received EXCEPT ![r] = @ + 1]
  BY <1>1 DEF Receive
<1>5. received[r] + 1 \in 0 .. MaxReceived
  BY <1>4, HandlingType, RequestAssumption
<1>6. received' \in [Request -> 0 .. MaxReceived]
  BY <1>4, <1>5, HandlingType
<1> QED BY <1>3, <1>4, <1>6, CheckStep

\* A check moves a request on, or responds.
LEMMA ChecksStep ==
  ASSUME RequestInv, NEW w \in Worker, IsDuplicate(w) \/ IsZkProofValid(w) \/ IsSpam(w)
  PROVE  RequestInv'
<1>1. handling[w].pc # "idle" /\ UNCHANGED <<stats, bundles, received, created>>
  BY DEF IsDuplicate, IsZkProofValid, IsSpam, Handles
<1>2. \/ handling' = [handling EXCEPT ![w] = NotHandling]
      \/ \E pc \in {"proof", "spam", "save"} : handling' = [handling EXCEPT ![w].pc = pc]
  BY DEF IsDuplicate, IsZkProofValid, IsSpam, Responds, Goes
<1>3. CASE handling' = [handling EXCEPT ![w] = NotHandling]
  BY <1>1, <1>3, HandlingType, CheckStep
<1>4. CASE \E pc \in {"proof", "spam", "save"} : handling' = [handling EXCEPT ![w].pc = pc]
  <2>1. PICK pc \in {"proof", "spam", "save"} : handling' = [handling EXCEPT ![w].pc = pc]
    BY <1>4
  <2>2. PICK h : h = [handling[w] EXCEPT !.pc = pc]
    OBVIOUS
  <2>3. /\ h \in HandlingRecord /\ h.pc = pc /\ h.request = handling[w].request
        /\ h.left = handling[w].left
    BY <2>2, HandlingType DEF HandlingRecord
  <2>4. handling' = [handling EXCEPT ![w] = h]
    BY <2>1, <2>2
  <2> QED BY <1>1, <2>3, <2>4, HandlingType, CheckStep
<1> QED BY <1>2, <1>3, <1>4

LEMMA SaveMessageStep ==
  ASSUME RequestInv, NEW w \in Worker, SaveMessage(w)
  PROVE  RequestInv'
<1>1. PICK h : h = [handling[w] EXCEPT !.pc = "serve"]
  OBVIOUS
<1>2. /\ h \in HandlingRecord /\ h.pc = "serve" /\ h.request = handling[w].request
      /\ h.left = handling[w].left
  BY <1>1, HandlingType DEF HandlingRecord
<1>3. /\ handling' = [handling EXCEPT ![w] = h] /\ handling[w].pc = "save"
      /\ stats' = [stats EXCEPT ![handling[w].request] = @ + 1]
      /\ UNCHANGED <<bundles, received, created>>
  BY <1>1 DEF SaveMessage, Goes, Handles
<1>4. handling[w].request \in Request /\ h.left \subseteq h.request.bundles
  BY <1>2, <1>3, HandlingType
<1>5. /\ stats' \in [Request -> Nat] /\ stats'[h.request] > 0
      /\ \A r \in Request : stats[r] > 0 => stats'[r] > 0
  BY <1>2, <1>3, <1>4, HandlingType
<1> QED BY <1>2, <1>3, <1>4, <1>5, HandlingType, ServeInv

LEMMA CreateBundleStep ==
  ASSUME RequestInv, NEW w \in Worker, CreateBundle(w)
  PROVE  RequestInv'
<1>1. /\ handling' = [handling EXCEPT ![w] = NotHandling]
      /\ handling[w].pc = "serve" /\ handling[w].request.kind = "create"
      /\ bundles' = bundles \cup handling[w].left
      /\ created' = created \cup handling[w].left
      /\ UNCHANGED <<stats, received>>
  BY DEF CreateBundle, Responds, Handles
<1>2. \A b \in handling[w].left : ChargedFor("create", b)
  BY <1>1, HandlingType DEF ChargedFor
<1>3. bundles' \subseteq created' /\ created' \subseteq Bundle /\ created \subseteq created'
  BY <1>1, HandlingType
<1>4. \A b \in created' \ created : ChargedFor("create", b)
  BY <1>1, <1>2
<1>5. \A b \in created' \ bundles' : b \in created \ bundles
  BY <1>1
<1> QED BY <1>1, <1>3, <1>4, <1>5, HandlingType, ServeInv

LEMMA DeleteBundlesStep ==
  ASSUME RequestInv, NEW w \in Worker, DeleteBundles(w)
  PROVE  RequestInv'
<1>1. /\ handling[w].pc = "serve" /\ handling[w].request.kind = "delete"
      /\ UNCHANGED <<stats, received, created>>
  BY DEF DeleteBundles, Handles
<1>2. CASE handling[w].left = {}
  <2>1. handling' = [handling EXCEPT ![w] = NotHandling] /\ UNCHANGED bundles
    BY <1>2 DEF DeleteBundles, Responds
  <2> QED BY <1>1, <2>1, HandlingType, CheckStep
<1>3. CASE handling[w].left # {}
  <2>1. PICK b \in handling[w].left :
          /\ bundles' = bundles \ {b}
          /\ handling' = [handling EXCEPT ![w].left = @ \ {b}]
    BY <1>3 DEF DeleteBundles
  <2>2. PICK h : h = [handling[w] EXCEPT !.left = @ \ {b}]
    OBVIOUS
  <2>3. /\ h \in HandlingRecord /\ h.pc = "serve" /\ h.request = handling[w].request
        /\ h.left \subseteq handling[w].left
    BY <1>1, <2>2, HandlingType DEF HandlingRecord
  <2>4. handling' = [handling EXCEPT ![w] = h]
    BY <2>1, <2>2
  <2>5. ChargedFor("delete", b)
    BY <1>1, HandlingType DEF ChargedFor
  <2>6. \A c \in created' \ bundles' : c \in created \ bundles \/ ChargedFor("delete", c)
    BY <1>1, <2>1, <2>5
  <2>7. bundles' \subseteq created' /\ created' = created
    BY <1>1, <2>1, HandlingType
  <2> QED BY <1>1, <2>3, <2>4, <2>6, <2>7, HandlingType, ServeInv
<1> QED BY <1>2, <1>3

LEMMA KilledStep == ASSUME RequestInv, NEW n \in Node, Killed(n) PROVE RequestInv'
<1>1. /\ handling' = [w \in Worker |-> IF NodeOf(w) = n THEN NotHandling ELSE handling[w]]
      /\ UNCHANGED <<stats, bundles, received, created>>
  BY DEF Killed
<1>2. NotHandling \in HandlingRecord /\ NotHandling.pc = "idle" /\ NotHandling.left = {}
  BY DEF NotHandling, HandlingRecord
<1>3. handling \in [Worker -> HandlingRecord]
  BY DEF RequestInv, KTypeOK, HandlingRecord
<1>4. handling' \in [Worker -> HandlingRecord]
  BY <1>1, <1>2, <1>3
<1>5. \A w \in Worker : handling'[w] \in {NotHandling, handling[w]}
  BY <1>1
<1>6. HandlingInv'
  BY <1>1, <1>2, <1>5 DEF RequestInv, HandlingInv
<1>7. KTypeOK' /\ ChargedInv'
  BY <1>1, <1>4 DEF RequestInv, KTypeOK, ChargedInv, ChargedFor, HandlingRecord
<1> QED BY <1>6, <1>7 DEF RequestInv

LEMMA KStepInv == ASSUME RequestInv, [KNext]_<<vars, kvars>> PROVE RequestInv'
<1>1. CASE UNCHANGED kvars
  BY <1>1 DEF kvars, RequestInv, KTypeOK, HandlingInv, ChargedInv, ChargedFor
<1>2. ASSUME NEW w \in Worker, Handle(w) PROVE RequestInv'
  BY <1>2, ChecksStep, SaveMessageStep, CreateBundleStep, DeleteBundlesStep DEF Handle
<1>3. ASSUME NEW n \in Node, Starts(n) PROVE UNCHANGED kvars
  BY <1>3 DEF Starts
<1> QED BY <1>1, <1>2, <1>3, KilledStep, ReceiveStep DEF KNext

\* The requests do not disturb the starts.
LEMMA StartsOnly == ASSUME [KNext]_<<vars, kvars>> PROVE [Next]_vars
<1>1. ASSUME NEW n \in Node, Starts(n) \/ Killed(n) PROVE Next
  BY <1>1 DEF Starts, Killed, Next
<1>2. ASSUME NEW w \in Worker, Handle(w) PROVE UNCHANGED vars
  BY <1>2 DEF Handle, IsDuplicate, IsZkProofValid, IsSpam, SaveMessage, CreateBundle,
     DeleteBundles
<1>3. ASSUME NEW w \in Worker, NEW r \in Request, Receive(w, r) PROVE UNCHANGED vars
  BY <1>3 DEF Receive
<1>4. CASE UNCHANGED <<vars, kvars>>
  BY <1>4
<1> QED BY <1>1, <1>2, <1>3, <1>4 DEF KNext

LEMMA RequestInvAlways == KSpec => []RequestInv
BY KInitInv, KStepInv, PTL DEF KSpec

LEMMA StartInvAlways == KSpec => []StartInv
<1>1. KInit => StartInv
  BY InitInv DEF KInit
<1>2. StartInv /\ [KNext]_<<vars, kvars>> => StartInv'
  BY StartsOnly, StepInv
<1> QED BY <1>1, <1>2, PTL DEF KSpec

\* The types of KeyExchangeService.
THEOREM KTypeCorrect == KSpec => []KTypeOK
<1>1. RequestInv => KTypeOK
  BY DEF RequestInv
<1> QED BY <1>1, RequestInvAlways, PTL

\* No bundle is created or deleted that nobody was charged for, on any number of
\* nodes, with any requests, repetitions and ends of processes.
THEOREM RequestsAreCharged == KSpec => []ServedIsCharged
<1>1. RequestInv => ServedIsCharged
  BY DEF RequestInv, ChargedInv, ChargedFor, ServedIsCharged
<1> QED BY <1>1, RequestInvAlways, PTL

\* The nodes that handle requests listen over a complete server, with the exception
\* of ListeningIsComplete.
THEOREM ServingNodesComplete == KSpec => []ListeningIsComplete
BY StartInvComplete, StartInvAlways, PTL

------------------------------------------------------------------------------
(* The limit on the requests of a nullifier.                               *)

Total(f, S) == MapThenSumSet(LAMBDA r : f[r], S)

LEMMA NumRequestsIs == \A m : NumRequests(m) = Total(stats, RequestsOf(m))
BY DEF NumRequests, Total

LEMMA NumRequestsNext == (\A m : NumRequests(m) = Total(stats, RequestsOf(m)))'
BY NumRequestsIs, PTL

LEMMA NumRequestsKept ==
  ASSUME UNCHANGED stats, NEW m
  PROVE  NumRequests(m)' = NumRequests(m)
BY NumRequestsIs, NumRequestsNext DEF RequestsOf

\* g[s] is the total of the subset s.
Totals(f, S, g) ==
  /\ g \in [SUBSET S -> Nat] /\ g[{}] = 0 /\ Total(f, S) = g[S]
  /\ \A s \in SUBSET S : s # {} =>
       LET x == CHOOSE x \in s : TRUE IN g[s] = f[x] + g[s \ {x}]

LEMMA TotalIs ==
  ASSUME NEW R, NEW f \in [R -> Nat], NEW S \in SUBSET R, IsFiniteSet(S)
  PROVE  \E g : Totals(f, S, g)
<1> DEFINE one(s) == CHOOSE x \in s : TRUE
           c == [s \in SUBSET S |-> one(s)]
           h == [p \in S \X Nat |-> f[p[1]] + p[2]]
           iter == CHOOSE g : g = [s \in SUBSET S |->
                     IF s = {} THEN 0 ELSE f[one(s)] + g[s \ {one(s)}]]
<1>1. \A s \in SUBSET S : s # {} => one(s) \in s
  OBVIOUS
<1>2. Chooses(S, c)
  BY <1>1 DEF Chooses
<1>3. h \in [S \X Nat -> Nat]
  <2>1. \A p \in S \X Nat : p[1] \in S /\ p[2] \in Nat /\ f[p[1]] \in Nat
    OBVIOUS
  <2>2. \A p \in S \X Nat : f[p[1]] + p[2] \in Nat
    BY <2>1
  <2> QED BY <2>2
<1>4. PICK g : Folds(S, c, h, g)
  <2> HIDE DEF h, c, iter
  <2> QED BY <1>2, <1>3, FoldExists
<1>5. g \in [SUBSET S -> Nat] /\ g[{}] = 0
  BY <1>4 DEF Folds
<1>6. ASSUME NEW s \in SUBSET S, s # {} PROVE g[s] = f[one(s)] + g[s \ {one(s)}]
  <2>1. one(s) \in S /\ g[s \ {one(s)}] \in Nat
    BY <1>1, <1>5, <1>6
  <2>2. g[s] = h[<<one(s), g[s \ {one(s)}]>>]
    BY <1>4, <1>6 DEF Folds
  <2>3. \A x \in S, n \in Nat : h[<<x, n>>] = f[x] + n
    OBVIOUS
  <2> HIDE DEF one, h
  <2> QED BY <2>1, <2>2, <2>3
<1>7. g = [s \in SUBSET S |-> IF s = {} THEN 0 ELSE f[one(s)] + g[s \ {one(s)}]]
  BY <1>5, <1>6
<1>8. iter = [s \in SUBSET S |-> IF s = {} THEN 0 ELSE f[one(s)] + iter[s \ {one(s)}]]
  BY <1>7
<1>9. Total(f, S) = iter[S]
  BY DEF Total, MapThenSumSet, MapThenFoldSet
<1> HIDE DEF iter
<1>10. \A s \in SUBSET S : iter[s] = g[s]
  <2> DEFINE T == {s \in SUBSET S : iter[s] = g[s]}
  <2>1. {} \in T
    BY <1>5, <1>8
  <2>2. ASSUME NEW s \in SUBSET S, s # {}
        PROVE  \E x \in s : s \ {x} \in T => s \in T
    <3>1. iter[s] = f[one(s)] + iter[s \ {one(s)}]
      BY <1>8, <2>2
    <3> QED BY <1>1, <1>6, <2>2, <3>1
  <2>3. SUBSET S \subseteq T
    <3> HIDE DEF T
    <3> QED BY <2>1, <2>2, SubsetInduction
  <2> QED BY <2>3
<1>11. Total(f, S) = g[S]
  BY <1>9, <1>10
<1> HIDE DEF Total
<1> QED BY <1>5, <1>6, <1>11 DEF Totals

LEMMA TotalZero ==
  ASSUME NEW R, NEW f \in [R -> Nat], NEW S \in SUBSET R, IsFiniteSet(S),
         \A x \in S : f[x] = 0
  PROVE  Total(f, S) = 0
<1>1. PICK g : Totals(f, S, g)
  BY TotalIs
<1> DEFINE T == {s \in SUBSET S : g[s] = 0}
<1>2. {} \in T
  BY <1>1 DEF Totals
<1>3. ASSUME NEW s \in SUBSET S, s # {} PROVE \E x \in s : s \ {x} \in T => s \in T
  <2>1. PICK x \in s : g[s] = f[x] + g[s \ {x}]
    BY <1>1, <1>3 DEF Totals
  <2> QED BY <2>1
<1>4. SUBSET S \subseteq T
  <2> HIDE DEF T
  <2> QED BY <1>2, <1>3, SubsetInduction
<1> QED BY <1>1, <1>4 DEF Totals

\* One more for one of them is one more.
LEMMA TotalStep ==
  ASSUME NEW R, NEW e \in [R -> Nat], NEW f \in [R -> Nat], NEW r \in R,
         f[r] = e[r] + 1, \A x \in R \ {r} : f[x] = e[x],
         NEW S \in SUBSET R, IsFiniteSet(S)
  PROVE  /\ Total(e, S) \in Nat
         /\ Total(f, S) = IF r \in S THEN Total(e, S) + 1 ELSE Total(e, S)
<1>1. PICK g : Totals(e, S, g)
  BY TotalIs
<1>2. PICK h : Totals(f, S, h)
  BY TotalIs
<1> DEFINE T == {s \in SUBSET S : h[s] = IF r \in s THEN g[s] + 1 ELSE g[s]}
<1>3. {} \in T
  BY <1>1, <1>2 DEF Totals
<1>4. ASSUME NEW s \in SUBSET S, s # {} PROVE \E x \in s : s \ {x} \in T => s \in T
  <2>1. PICK x \in s : g[s] = e[x] + g[s \ {x}] /\ h[s] = f[x] + h[s \ {x}]
    <3> DEFINE one == CHOOSE x \in s : TRUE
    <3>1. one \in s /\ g[s] = e[one] + g[s \ {one}] /\ h[s] = f[one] + h[s \ {one}]
      BY <1>1, <1>2, <1>4 DEF Totals
    <3> QED BY <3>1
  <2>2. e[x] \in Nat /\ f[x] \in Nat /\ g[s \ {x}] \in Nat /\ h[s \ {x}] \in Nat
    BY <1>1, <1>2 DEF Totals
  <2>3. ASSUME s \ {x} \in T PROVE s \in T
    <3>1. h[s \ {x}] = IF r \in s \ {x} THEN g[s \ {x}] + 1 ELSE g[s \ {x}]
      BY <2>3
    <3>2. CASE x = r
      BY <2>1, <2>2, <3>1, <3>2
    <3>3. CASE x # r
      BY <2>1, <2>2, <3>1, <3>3
    <3> QED BY <3>2, <3>3
  <2> QED BY <2>3
<1>5. SUBSET S \subseteq T
  <2> HIDE DEF T
  <2> QED BY <1>3, <1>4, SubsetInduction
<1> QED BY <1>1, <1>2, <1>5 DEF Totals

\* Only a node that listens handles a request.
BusyInv == \A w \in Worker : ~ Handles(w, "idle") => At(NodeOf(w), "listening")

\* The requests at work that were checked and are not yet charged: they will be,
\* whatever has been charged since.
Savers(m) == {w \in Worker : Handles(w, "save") /\ handling[w].request.nullifier = m}

LimitInv ==
  \A m \in Nullifier :
    NumRequests(m) + Cardinality(Savers(m)) <= Config(env).spamThreshold + Cardinality(Worker) - 1

LimitedInv == ConfiguredInv /\ RequestInv /\ BusyInv /\ LimitInv

LEMMA LimitTypes ==
  ASSUME LimitedInv
  PROVE  /\ Config(env).spamThreshold \in Nat \ {0} /\ Cardinality(Worker) \in Nat
         /\ stats \in [Request -> Nat]
         /\ \A m : RequestsOf(m) \in SUBSET Request /\ IsFiniteSet(RequestsOf(m))
         /\ \A m : NumRequests(m) = Total(stats, RequestsOf(m)) /\ NumRequests(m) \in Nat
         /\ \A m : /\ IsFiniteSet(Savers(m)) /\ Cardinality(Savers(m)) \in Nat
                   /\ Cardinality(Savers(m)) <= Cardinality(Worker)
<1>1. Config(env) \in [spamThreshold : Nat \ {0}, epochAllowedDelayThreshold : Nat \ {0}]
  BY ConfigType DEF LimitedInv, ConfiguredInv, StartInv, StartType
<1>2. \A m : RequestsOf(m) \in SUBSET Request /\ IsFiniteSet(RequestsOf(m))
  BY RequestAssumption, FS_Subset DEF RequestsOf
<1>3. stats \in [Request -> Nat]
  BY DEF LimitedInv, RequestInv, KTypeOK
<1>4. \A m : NumRequests(m) = Total(stats, RequestsOf(m))
  BY NumRequestsIs
<1>5. \A m : Total(stats, RequestsOf(m)) \in Nat
  <2> TAKE m
  <2>1. PICK g : Totals(stats, RequestsOf(m), g)
    BY <1>2, <1>3, TotalIs
  <2> QED BY <2>1 DEF Totals
<1>6. \A m : /\ IsFiniteSet(Savers(m)) /\ Cardinality(Savers(m)) \in Nat
             /\ Cardinality(Savers(m)) <= Cardinality(Worker)
  BY WorkerAssumption, FS_Subset, FS_CardinalityType DEF Savers
<1>7. Cardinality(Worker) \in Nat
  BY WorkerAssumption, FS_CardinalityType
<1> QED BY <1>1, <1>2, <1>3, <1>4, <1>5, <1>6, <1>7

LEMMA LimitedInit == ASSUME KInit PROVE LimitedInv
<1>1. ConfiguredInv /\ RequestInv
  BY ConfiguredInit, KInitInv DEF KInit
<1>2. BusyInv /\ \A m : Savers(m) = {}
  BY DEF KInit, NotHandling, BusyInv, Savers, Handles
<1>3. \A m : RequestsOf(m) \in SUBSET Request /\ IsFiniteSet(RequestsOf(m))
  BY RequestAssumption, FS_Subset DEF RequestsOf
<1>4. stats \in [Request -> Nat] /\ \A r \in Request : stats[r] = 0
  BY DEF KInit
<1>5. \A m : NumRequests(m) = 0
  <2> TAKE m
  <2>1. Total(stats, RequestsOf(m)) = 0
    BY <1>3, <1>4, TotalZero
  <2> QED BY <2>1 DEF NumRequests, Total
<1>6. Config(env) \in [spamThreshold : Nat \ {0}, epochAllowedDelayThreshold : Nat \ {0}]
  BY ConfigType DEF KInit, Init
<1>7. Cardinality(Worker) \in Nat /\ Cardinality({}) = 0
  BY WorkerAssumption, FS_CardinalityType, FS_EmptySet
<1>8. LimitInv
  BY <1>2, <1>5, <1>6, <1>7 DEF LimitInv
<1> QED BY <1>1, <1>2, <1>8 DEF LimitedInv

LEMMA NodeOfType == \A w \in Worker : NodeOf(w) \in Node
BY WorkerAssumption DEF NodeOf

\* A step that charges nobody, and lets no request go on to be charged.
LEMMA LimitKept ==
  ASSUME LimitedInv, UNCHANGED <<env, stats>>, \A m : Savers(m)' \subseteq Savers(m)
  PROVE  LimitInv'
<1> SUFFICES ASSUME NEW m \in Nullifier
             PROVE  NumRequests(m)' + Cardinality(Savers(m)')
                      <= Config(env)'.spamThreshold + Cardinality(Worker) - 1
  BY DEF LimitInv
<1>1. NumRequests(m)' = NumRequests(m) /\ Config(env)' = Config(env)
  BY NumRequestsKept
<1>2. /\ NumRequests(m) \in Nat /\ IsFiniteSet(Savers(m)) /\ Cardinality(Savers(m)) \in Nat
      /\ Config(env).spamThreshold \in Nat /\ Cardinality(Worker) \in Nat
  BY LimitTypes
<1>3. /\ Cardinality(Savers(m)') <= Cardinality(Savers(m))
      /\ Cardinality(Savers(m)') \in Nat
  BY <1>2, FS_Subset, FS_CardinalityType
<1>4. NumRequests(m) + Cardinality(Savers(m)) <= Config(env).spamThreshold + Cardinality(Worker) - 1
  BY DEF LimitedInv, LimitInv
<1> QED BY <1>1, <1>2, <1>3, <1>4

\* The sender is below the limit, and no more than all the requests at work are about to be charged.
LEMMA IsSpamLimit ==
  ASSUME LimitedInv, NEW w \in Worker, IsSpam(w)
  PROVE  LimitInv'
<1>1. handling[w].pc = "spam" /\ UNCHANGED <<env, stats>>
  BY DEF IsSpam, Handles, vars
<1>2. handling \in [Worker -> HandlingRecord] /\ NotHandling.pc = "idle"
  BY DEF LimitedInv, RequestInv, KTypeOK, HandlingRecord, NotHandling
<1>3. CASE handling' = [handling EXCEPT ![w] = NotHandling]
  <2>1. \A m : Savers(m)' \subseteq Savers(m)
    BY <1>2, <1>3 DEF Savers, Handles
  <2> QED BY <1>1, <2>1, LimitKept
<1>4. CASE /\ handling' = [handling EXCEPT ![w].pc = "save"]
           /\ NumRequests(handling[w].request.nullifier) < node[NodeOf(w)].config.spamThreshold
  <2> DEFINE sender == handling[w].request.nullifier
  <2>1. node[NodeOf(w)].config = Config(env)
    BY <1>1, NodeOfType DEF LimitedInv, BusyInv, Handles, At, ConfiguredInv, InForce
  <2>2. \A m : m # sender => Savers(m)' \subseteq Savers(m)
    BY <1>2, <1>4 DEF Savers, Handles, HandlingRecord
  <2> SUFFICES ASSUME NEW m \in Nullifier
               PROVE  NumRequests(m)' + Cardinality(Savers(m)')
                        <= Config(env)'.spamThreshold + Cardinality(Worker) - 1
    BY DEF LimitInv
  <2>3. NumRequests(m)' = NumRequests(m) /\ Config(env)' = Config(env)
    BY <1>1, NumRequestsKept
  <2>4. /\ NumRequests(m) \in Nat /\ IsFiniteSet(Savers(m)) /\ Cardinality(Savers(m)) \in Nat
        /\ Config(env).spamThreshold \in Nat /\ Cardinality(Worker) \in Nat
    BY LimitTypes
  <2>5. Savers(m)' \subseteq Worker
    BY DEF Savers
  <2>6. Cardinality(Savers(m)') \in Nat /\ Cardinality(Savers(m)') <= Cardinality(Worker)
    BY <2>5, WorkerAssumption, FS_Subset, FS_CardinalityType
  <2>7. CASE m = sender
    BY <1>4, <2>1, <2>3, <2>4, <2>6, <2>7
  <2>8. CASE m # sender
    <3>1. Cardinality(Savers(m)') <= Cardinality(Savers(m))
      BY <2>2, <2>4, <2>8, FS_Subset
    <3>2. NumRequests(m) + Cardinality(Savers(m))
            <= Config(env).spamThreshold + Cardinality(Worker) - 1
      BY DEF LimitedInv, LimitInv
    <3> QED BY <2>3, <2>4, <2>6, <3>1, <3>2
  <2> QED BY <2>7, <2>8
<1>5. /\ NumRequests(handling[w].request.nullifier) \in Nat
      /\ node[NodeOf(w)].config.spamThreshold \in Nat
  <2>1. node[NodeOf(w)].config = Config(env)
    BY <1>1, NodeOfType DEF LimitedInv, BusyInv, Handles, At, ConfiguredInv, InForce
  <2> QED BY <2>1, LimitTypes
<1> QED BY <1>3, <1>4, <1>5 DEF IsSpam, isSpamRequest, Responds, Goes

\* The request that is charged was counted.
LEMMA SaveMessageLimit ==
  ASSUME LimitedInv, NEW w \in Worker, SaveMessage(w)
  PROVE  LimitInv'
<1> DEFINE r == handling[w].request
<1>1. /\ handling[w].pc = "save" /\ UNCHANGED env
      /\ stats' = [stats EXCEPT ![r] = @ + 1]
      /\ handling' = [handling EXCEPT ![w].pc = "serve"]
  BY DEF SaveMessage, Handles, Goes, vars
<1>2. handling \in [Worker -> HandlingRecord] /\ r \in Request
  BY <1>1 DEF LimitedInv, RequestInv, KTypeOK, HandlingRecord, HandlingInv
<1> HIDE DEF r
<1> SUFFICES ASSUME NEW m \in Nullifier
             PROVE  NumRequests(m)' + Cardinality(Savers(m)')
                      <= Config(env)'.spamThreshold + Cardinality(Worker) - 1
  BY DEF LimitInv
<1>3. /\ stats \in [Request -> Nat] /\ IsFiniteSet(RequestsOf(m))
      /\ RequestsOf(m) \in SUBSET Request /\ NumRequests(m) = Total(stats, RequestsOf(m))
      /\ NumRequests(m) \in Nat /\ IsFiniteSet(Savers(m)) /\ Cardinality(Savers(m)) \in Nat
      /\ Config(env).spamThreshold \in Nat /\ Cardinality(Worker) \in Nat
  BY LimitTypes
<1>4. NumRequests(m)' = Total(stats', RequestsOf(m)) /\ Config(env)' = Config(env)
  BY <1>1, NumRequestsNext DEF RequestsOf
<1>5. Total(stats', RequestsOf(m)) =
        IF r \in RequestsOf(m) THEN Total(stats, RequestsOf(m)) + 1
                               ELSE Total(stats, RequestsOf(m))
  <2>1. /\ stats' \in [Request -> Nat] /\ stats'[r] = stats[r] + 1
        /\ \A x \in Request \ {r} : stats'[x] = stats[x]
    BY <1>1, <1>2, <1>3
  <2> QED BY <1>2, <1>3, <2>1, TotalStep
<1>6. NumRequests(m) + Cardinality(Savers(m)) <= Config(env).spamThreshold + Cardinality(Worker) - 1
  BY DEF LimitedInv, LimitInv
<1>7. Savers(m)' = Savers(m) \ {w}
  BY <1>1, <1>2 DEF Savers, Handles, HandlingRecord
<1>8. CASE r \in RequestsOf(m)
  <2>1. w \in Savers(m)
    BY <1>1, <1>8 DEF Savers, Handles, RequestsOf, r
  <2>2. Cardinality(Savers(m)') = Cardinality(Savers(m)) - 1
    BY <1>3, <1>7, <2>1, FS_RemoveElement
  <2> QED BY <1>3, <1>4, <1>5, <1>6, <1>8, <2>2
<1>9. CASE r \notin RequestsOf(m)
  <2>1. /\ Cardinality(Savers(m)') <= Cardinality(Savers(m))
        /\ Cardinality(Savers(m)') \in Nat
    BY <1>3, <1>7, FS_Subset, FS_CardinalityType
  <2> QED BY <1>3, <1>4, <1>5, <1>6, <1>9, <2>1
<1> QED BY <1>8, <1>9

LEMMA LimitedStep == ASSUME LimitedInv, [KNext]_<<vars, kvars>> PROVE LimitedInv'
<1>1. ConfiguredInv' /\ RequestInv'
  BY StartsOnly, ConfiguredStep, KStepInv DEF LimitedInv
<1>2. /\ node \in [Node -> [pc : Place, level : 0 .. Levels, config : Configs]]
      /\ handling \in [Worker -> HandlingRecord] /\ NotHandling.pc = "idle"
      /\ \A w \in Worker : NodeOf(w) \in Node
  BY NodeOfType DEF LimitedInv, ConfiguredInv, StartInv, StartType, RequestInv, KTypeOK,
     HandlingRecord, NotHandling
<1>3. CASE UNCHANGED <<vars, kvars>>
  <2>1. UNCHANGED <<env, stats, node, handling>>
    BY <1>3 DEF vars, kvars
  <2>2. BusyInv' /\ \A m : Savers(m)' \subseteq Savers(m)
    BY <2>1 DEF LimitedInv, BusyInv, Handles, At, Savers
  <2> QED BY <1>1, <2>1, <2>2, LimitKept DEF LimitedInv
<1>4. ASSUME NEW n \in Node, Starts(n) PROVE LimitedInv'
  <2>1. UNCHANGED <<env, stats, handling>>
    BY <1>4 DEF Starts, kvars, Start, InitZKChatServer, InitDb, FindZeros, CreateZero,
       LoadMembers, LoadFails, StoreLeaf, LinkLeaf, TryCreateDefaultChatroom
  <2>2. node[n].pc # "listening" /\ \A k \in Node \ {n} : node'[k] = node[k]
    BY <1>2, <1>4 DEF Starts, Start, InitZKChatServer, InitDb, FindZeros, CreateZero,
       LoadMembers, LoadFails, StoreLeaf, LinkLeaf, TryCreateDefaultChatroom, At, Goto, Ends
  <2>3. BusyInv'
    BY <1>2, <2>1, <2>2 DEF LimitedInv, BusyInv, Handles, At
  <2>4. \A m : Savers(m)' \subseteq Savers(m)
    BY <2>1 DEF Savers, Handles
  <2> QED BY <1>1, <2>1, <2>3, <2>4, LimitKept DEF LimitedInv
<1>5. ASSUME NEW n \in Node, Killed(n) PROVE LimitedInv'
  <2>1. /\ UNCHANGED <<env, stats>>
        /\ handling' = [w \in Worker |-> IF NodeOf(w) = n THEN NotHandling ELSE handling[w]]
        /\ \A k \in Node \ {n} : node'[k] = node[k]
    BY <1>2, <1>5 DEF Killed, Fault, Ends
  <2>2. BusyInv'
    BY <1>2, <2>1 DEF LimitedInv, BusyInv, Handles, At
  <2>3. \A m : Savers(m)' \subseteq Savers(m)
    BY <1>2, <2>1 DEF Savers, Handles
  <2> QED BY <1>1, <2>1, <2>2, <2>3, LimitKept DEF LimitedInv
<1>6. ASSUME NEW w \in Worker, NEW r \in Request, Receive(w, r) PROVE LimitedInv'
  <2>1. /\ UNCHANGED <<env, node, stats>> /\ At(NodeOf(w), "listening")
        /\ handling' = [handling EXCEPT ![w] =
             [pc |-> "duplicate", request |-> r, left |-> r.bundles]]
    BY <1>6 DEF Receive, vars
  <2>2. BusyInv'
    BY <1>2, <2>1 DEF LimitedInv, BusyInv, Handles, At
  <2>3. \A m : Savers(m)' \subseteq Savers(m)
    BY <1>2, <2>1 DEF Savers, Handles
  <2> QED BY <1>1, <2>1, <2>2, <2>3, LimitKept DEF LimitedInv
<1>7. ASSUME NEW w \in Worker, Handle(w) PROVE LimitedInv'
  <2>1. UNCHANGED <<env, node>> /\ handling[w].pc # "idle"
        /\ \A k \in Worker \ {w} : handling'[k] = handling[k]
    BY <1>2, <1>7 DEF Handle, vars, Handles, IsDuplicate, IsZkProofValid, IsSpam, SaveMessage,
       CreateBundle, DeleteBundles, Goes, Responds
  <2>2. BusyInv'
    BY <2>1 DEF LimitedInv, BusyInv, Handles, At
  <2>3. CASE IsDuplicate(w) \/ IsZkProofValid(w) \/ CreateBundle(w) \/ DeleteBundles(w)
    <3>1. UNCHANGED stats /\ (handling'[w].pc # "save")
      BY <1>2, <2>3 DEF IsDuplicate, IsZkProofValid, CreateBundle, DeleteBundles, Goes, Responds,
         Handles, HandlingRecord
    <3>2. \A m : Savers(m)' \subseteq Savers(m)
      BY <2>1, <3>1 DEF Savers, Handles
    <3> QED BY <1>1, <2>1, <2>2, <3>1, <3>2, LimitKept DEF LimitedInv
  <2>4. CASE IsSpam(w) \/ SaveMessage(w)
    BY <1>1, <2>2, <2>4, IsSpamLimit, SaveMessageLimit DEF LimitedInv
  <2> QED BY <1>7, <2>3, <2>4 DEF Handle
<1> QED BY <1>3, <1>4, <1>5, <1>6, <1>7 DEF KNext

\* In an epoch a nullifier is charged for no more requests than the configured limit,
\* plus one for every other request that is at work at one time: on any number of
\* nodes and requests at work, for any environment, requests, repetitions, restarts
\* and order of their checks.
THEOREM RequestsAreLimited == KSpec => []RequestsLimited
<1>1. LimitedInv => RequestsLimited
  <2> SUFFICES ASSUME LimitedInv, NEW m \in Nullifier
               PROVE  NumRequests(m) <= Config(env).spamThreshold + Cardinality(Worker) - 1
    BY DEF RequestsLimited
  <2>1. /\ NumRequests(m) \in Nat /\ Cardinality(Savers(m)) \in Nat
        /\ Config(env).spamThreshold \in Nat /\ Cardinality(Worker) \in Nat
    BY LimitTypes
  <2>2. NumRequests(m) + Cardinality(Savers(m)) <= Config(env).spamThreshold + Cardinality(Worker) - 1
    BY DEF LimitedInv, LimitInv
  <2> QED BY <2>1, <2>2
<1> QED BY <1>1, LimitedInit, LimitedStep, PTL DEF KSpec

------------------------------------------------------------------------------
(* The group synchroniser that every start leaves running (Synchronizer),  *)
(* for any group, any number of runs at one time and of restarts.  As long *)
(* as no two runs overlap, only one has anything to be shown of.           *)

RunPlace ==
  {"idle", "load", "append", "create", "parent", "save", "appended", "removed",
   "publish"}

RunRecord ==
  [pc : RunPlace,
   record : GroupRecord \cup {NoGroup}, members : 0 .. MaxMembers,
   next : Nat \ {0}, index : Nat, level : 0 .. Depth - 1, pos : Nat,
   changed : BOOLEAN]

Linked    == {"parent", "save"}
Appending == {"append", "create", "parent", "save", "appended"}

\* What a run knows where it is: who has a leaf, and whether there is a group.
RunOk(x) ==
  /\ x.pc \in {"idle", "load"} => x.next = 1
  /\ x.members <= onNet
  /\ x.pc \in {"append", "create", "parent", "save"} =>
       /\ x.next <= x.members + 1
       /\ \A i \in 1 .. x.next - 1 : HasLeaf(i)
  /\ x.pc \in {"create", "parent", "save"} => x.next <= x.members
  /\ x.pc \in Linked => HasLeaf(x.next) /\ x.index \in DOMAIN leaves
  /\ x.pc = "appended" => \A i \in 1 .. x.members : HasLeaf(i)
  /\ x.pc = "removed" => x.record # NoGroup
  /\ x.record # NoGroup => groupInDb # NoGroup

RunInv == \A r \in Run : RunOk(run[r])

\* A run that has nobody beside it has read the group as it is, and creates
\* the next leaf for a member that has none.
AloneOk(x) ==
  /\ x.pc \in Appending \cup {"load"} => x.record = groupInDb
  /\ x.pc = "create" => x.index = Len(leaves) /\ ~ HasLeaf(x.next)

AloneInv ==
  alone =>
    /\ \A q, r \in Run : run[q].pc # "idle" /\ run[r].pc # "idle" => q = r
    /\ \A r \in Run : AloneOk(run[r])
    /\ \A k \in DOMAIN leaves : leaves[k].slot <= onNet

\* A run on its way to an announcement.
WillAnnounce(x) ==
  x.pc \in Appending \/ (x.pc \in {"removed", "publish"} /\ x.changed)

AnnounceInv ==
  (alone /\ restarts = 0 /\ onNet <= Capacity) =>
    announced \/ \E r \in Run : WillAnnounce(run[r])

\* The node whose parent the run is about to look for, or has just made.
Works(x, level, pos) ==
  \/ x.pc = "parent" /\ x.level = level /\ x.pos = pos
  \/ x.pc = "save" /\ x.level + 1 = level /\ x.pos \div 2 = pos

\* Without overlaps and restarts in the middle of a path, the nodes of a level
\* have no gap, and all have their parents but the one at work.
NoGap ==
  \A level \in 0 .. Depth, p, q \in Nat :
    Present(level, p) /\ q < p => Present(level, q)

Parented ==
  \A level \in 0 .. Depth - 1, p \in Nat :
    Present(level, p) =>
      <<level + 1, p \div 2>> \in inner \/ \E r \in Run : Works(run[r], level, p)

WorkOk(x) ==
  /\ x.pc = "parent" => Present(x.level, x.pos)
  /\ x.pc = "save" => <<x.level + 1, x.pos \div 2>> \in inner

PathInv == NoGap /\ Parented /\ \A r \in Run : WorkOk(run[r])

CutInv == (cut => restarts # 0) /\ (alone /\ ~ cut => PathInv)

SyncInv ==
  /\ STypeOK /\ RunInv /\ NobodyIsLost
  /\ AloneInv /\ LeavesInOrder /\ AnnounceInv /\ CutInv

\* A run that rests is a run's record, and holds nothing.
LEMMA IdleRecord ==
  /\ Idle \in RunRecord /\ Idle.pc = "idle" /\ Idle.next = 1
         /\ Idle.members = 0 /\ Idle.record = NoGroup
BY BoundsAssumption DEF Idle, RunRecord, RunPlace

LEMMA SyncAtStart == ASSUME SInit PROVE SyncInv
<1>1. Idle \in RunRecord /\ Idle.pc = "idle" /\ Idle.next = 1
      /\ Idle.members = 0 /\ Idle.record = NoGroup
  BY IdleRecord
<1>2. /\ onNet = 0 /\ removed = FALSE /\ groupInDb = NoGroup
      /\ leaves = << >> /\ inner = {} /\ announced = TRUE
      /\ restarts = 0 /\ cut = FALSE /\ alone = TRUE
      /\ run = [r \in Run |-> Idle]
  BY DEF SInit
<1>3. STypeOK
  <2>1. run \in [Run -> RunRecord]
    BY <1>1, <1>2
  <2>2. leaves \in Seq(Leaf)
    BY <1>2
  <2>3. onNet \in 0 .. MaxMembers /\ restarts \in 0 .. MaxRestarts
    BY <1>2, BoundsAssumption
  <2>4. /\ removed \in BOOLEAN /\ announced \in BOOLEAN /\ alone \in BOOLEAN
        /\ cut \in BOOLEAN /\ inner \subseteq (1 .. Depth) \X Nat
    BY <1>2
  <2>5. groupInDb \in GroupRecord \cup {NoGroup}
    BY <1>2
  <2> QED BY <2>1, <2>2, <2>3, <2>4, <2>5 DEF STypeOK, RunRecord, RunPlace
<1>4. RunInv /\ AloneInv
  BY <1>1, <1>2 DEF RunInv, RunOk, Linked, AloneInv, AloneOk, Appending
<1>5. LeavesInOrder
  BY <1>2 DEF LeavesInOrder
<1>6. CutInv
  <2>1. \A level, p : ~ Present(level, p)
    BY <1>2 DEF Present
  <2> QED BY <1>1, <1>2, <2>1 DEF CutInv, PathInv, NoGap, Parented, WorkOk
<1> QED BY <1>2, <1>3, <1>4, <1>5, <1>6 DEF SyncInv, NobodyIsLost, AnnounceInv

\* What is said of a run stays true of it: the tree and the group only grow.
LEMMA RunOkStays ==
  ASSUME STypeOK, NEW x \in RunRecord, RunOk(x), onNet <= onNet', onNet' \in Nat,
         \A i \in Nat : HasLeaf(i) => HasLeaf(i)',
         DOMAIN leaves \subseteq DOMAIN leaves',
         groupInDb # NoGroup => groupInDb' # NoGroup
  PROVE  RunOk(x)'
<1>1. onNet \in Nat
  BY DEF STypeOK
<1>2. x.members <= onNet'
  BY <1>1 DEF RunOk, RunRecord, Linked
<1>3. \A i \in 1 .. x.members : HasLeaf(i) => HasLeaf(i)'
  BY DEF RunRecord
<1>4. \A i \in 1 .. x.next - 1 : HasLeaf(i) => HasLeaf(i)'
  BY DEF RunRecord
<1>5. HasLeaf(x.next) => HasLeaf(x.next)'
  BY DEF RunRecord
<1> QED BY <1>2, <1>3, <1>4, <1>5 DEF RunOk, Linked, HasLeaf

\* One run moves.
LEMMA RunMoves ==
  ASSUME SyncInv, NEW r \in Run, NEW x \in RunRecord, RunOk(x)',
         run' \in [Run -> RunRecord], run'[r] = x,
         \A q \in Run \ {r} : run'[q] = run[q],
         UNCHANGED <<onNet, removed, restarts, cut>>, inner' \subseteq (1 .. Depth) \X Nat,
         alone' \in BOOLEAN, announced' \in BOOLEAN, leaves' \in Seq(Leaf),
         groupInDb' \in GroupRecord \cup {NoGroup},
         \A i \in Nat : HasLeaf(i) => HasLeaf(i)',
         DOMAIN leaves \subseteq DOMAIN leaves',
         groupInDb # NoGroup => groupInDb' # NoGroup
  PROVE  STypeOK' /\ RunInv'
<1>1. STypeOK /\ RunInv /\ run \in [Run -> RunRecord]
  BY DEF SyncInv, STypeOK, RunRecord, RunPlace
<1>2. STypeOK'
  BY <1>1 DEF STypeOK, RunRecord, RunPlace
<1>3. onNet \in Nat
  BY <1>1 DEF STypeOK
<1>4. ASSUME NEW q \in Run \ {r} PROVE RunOk(run[q])'
  <2>1. PICK y \in RunRecord : y = run[q] /\ y = run'[q] /\ RunOk(y)
    BY <1>1 DEF RunInv
  <2>2. RunOk(y)'
    BY <1>1, <1>3, <2>1, RunOkStays
  <2> QED BY <2>1, <2>2 DEF RunOk, Linked
<1>5. RunOk(run[r])'
  BY DEF RunOk, Linked
<1> QED BY <1>2, <1>4, <1>5 DEF RunInv

\* The rest of the invariant, if the run was at work.
LEMMA WorkMoves ==
  ASSUME SyncInv, NEW r \in Run, NEW x \in RunRecord, run[r].pc # "idle",
         run'[r] = x, \A q \in Run \ {r} : run'[q] = run[q],
         UNCHANGED <<onNet, restarts, cut, alone>>,
         alone => AloneOk(x)',
         alone => \A k \in DOMAIN leaves' : leaves'[k].slot <= onNet,
         (alone /\ restarts = 0 /\ onNet <= Capacity)
           /\ (announced \/ WillAnnounce(run[r])) => announced' \/ WillAnnounce(x)
  PROVE  AloneInv' /\ AnnounceInv'
<1>1. alone => \A q \in Run \ {r} : run[q].pc = "idle"
  BY DEF SyncInv, AloneInv
<1>2. alone' => \A q \in Run : AloneOk(run[q])'
  BY <1>1 DEF AloneOk, Appending
<1>3. AloneInv'
  BY <1>1, <1>2 DEF AloneInv
<1>4. alone /\ (\E q \in Run : WillAnnounce(run[q])) => WillAnnounce(run[r])
  BY <1>1 DEF WillAnnounce, Appending
<1>5. (alone /\ restarts = 0 /\ onNet <= Capacity) => announced' \/ WillAnnounce(run'[r])
  BY <1>4 DEF SyncInv, AnnounceInv
<1>6. AnnounceInv'
  BY <1>5 DEF AnnounceInv, WillAnnounce
<1> QED BY <1>3, <1>6

\* ... and where it neither is nor gets into the loop over the levels.
LEMMA OrderStays ==
  ASSUME SyncInv, NEW r \in Run, run[r].pc \notin Linked, run'[r].pc \notin Linked,
         \A q \in Run \ {r} : run'[q] = run[q],
         leaves' = leaves, alone' => alone, cut' = cut
  PROVE  LeavesInOrder'
BY DEF SyncInv, LeavesInOrder, Linking, Linked

\* ... the paths are what they were.
LEMMA PathStays ==
  ASSUME SyncInv, NEW r \in Run, run[r].pc \notin Linked, run'[r].pc \notin Linked,
         \A q \in Run \ {r} : run'[q] = run[q],
         UNCHANGED <<leaves, inner, restarts, cut>>, alone' => alone
  PROVE  CutInv'
<1>1. \A level, p : Present(level, p)' <=> Present(level, p)
  BY DEF Present
<1>2. \A level, p : (\E q \in Run : Works(run[q], level, p))
                       => \E q \in Run : Works(run'[q], level, p)
  BY DEF Works, Linked
<1>3. PathInv => PathInv'
  <2>1. NoGap => NoGap'
    BY <1>1 DEF NoGap
  <2>2. Parented => Parented'
    BY <1>1, <1>2 DEF Parented, Works
  <2>3. (\A q \in Run : WorkOk(run[q])) => \A q \in Run : WorkOk(run[q])'
    BY <1>1 DEF WorkOk, Linked
  <2> QED BY <2>1, <2>2, <2>3 DEF PathInv
<1> QED BY <1>3 DEF SyncInv, CutInv

\* The run that moves changes nothing but its own record.
LEMMA LocalStep ==
  ASSUME SyncInv, NEW r \in Run, NEW x \in RunRecord, run[r].pc \notin {"idle", "parent", "save"},
         run' \in [Run -> RunRecord], run'[r] = x,
         \A q \in Run \ {r} : run'[q] = run[q],
         UNCHANGED <<net, groupInDb, leaves, inner, announced, past>>,
         x.pc \notin Linked, RunOk(x), alone => AloneOk(x),
         (alone /\ restarts = 0 /\ onNet <= Capacity)
           /\ (announced \/ WillAnnounce(run[r])) => announced \/ WillAnnounce(x)
  PROVE  SyncInv'
<1>1. STypeOK /\ UNCHANGED <<onNet, removed, restarts, cut, alone>>
  BY DEF SyncInv, net, past
<1>2. RunOk(x)' /\ (alone => AloneOk(x)')
  BY <1>1 DEF RunOk, Linked, AloneOk, HasLeaf
<1>3. STypeOK' /\ RunInv'
  BY <1>1, <1>2, RunMoves DEF STypeOK, HasLeaf
<1>4. AloneInv' /\ AnnounceInv'
  BY <1>1, <1>2, WorkMoves DEF SyncInv, AloneInv
<1>5. LeavesInOrder' /\ CutInv'
  BY <1>1, OrderStays, PathStays DEF Linked
<1>6. NobodyIsLost'
  BY DEF SyncInv, NobodyIsLost, HasLeaf
<1> QED BY <1>3, <1>4, <1>5, <1>6 DEF SyncInv

LEMMA RunType ==
  ASSUME SyncInv, NEW r \in Run
  PROVE  /\ run \in [Run -> RunRecord] /\ run[r] \in RunRecord /\ RunOk(run[r])
         /\ alone => AloneOk(run[r])
         /\ alone => \A k \in DOMAIN leaves : leaves[k].slot <= onNet
         /\ alone => \A q \in Run \ {r} : run[r].pc # "idle" => run[q].pc = "idle"
         /\ onNet \in 0 .. MaxMembers /\ leaves \in Seq(Leaf)
         /\ groupInDb \in GroupRecord \cup {NoGroup}
         /\ announced \in BOOLEAN /\ alone \in BOOLEAN /\ cut \in BOOLEAN
         /\ restarts \in Nat /\ inner \subseteq (1 .. Depth) \X Nat
<1>1. run \in [Run -> RunRecord]
  BY DEF SyncInv, STypeOK, RunRecord, RunPlace
<1> QED BY <1>1 DEF SyncInv, STypeOK, RunInv, AloneInv

\* The records of the runs.
LEMMA RecordIs ==
  ASSUME NEW y \in RunRecord
  PROVE  /\ y = [pc |-> y.pc, record |-> y.record, members |-> y.members,
                next |-> y.next, index |-> y.index, level |-> y.level,
                pos |-> y.pos, changed |-> y.changed]
         /\ y.pc \in RunPlace /\ y.record \in GroupRecord \cup {NoGroup}
         /\ y.members \in 0 .. MaxMembers /\ y.next \in Nat \ {0}
         /\ y.index \in Nat /\ y.level \in 0 .. Depth - 1 /\ y.pos \in Nat /\ y.changed \in BOOLEAN
BY DEF RunRecord

LEMMA RecordMade ==
  ASSUME NEW z,
         z = [pc |-> z.pc, record |-> z.record, members |-> z.members,
              next |-> z.next, index |-> z.index, level |-> z.level,
              pos |-> z.pos, changed |-> z.changed],
         z.pc \in RunPlace, z.record \in GroupRecord \cup {NoGroup},
         z.members \in 0 .. MaxMembers, z.next \in Nat \ {0},
         z.index \in Nat, z.level \in 0 .. Depth - 1, z.pos \in Nat, z.changed \in BOOLEAN
  PROVE  z \in RunRecord
BY DEF RunRecord

LEMMA LoadedStep ==
  ASSUME SyncInv, NEW r \in Run, NEW count \in 0 .. onNet,
         Loaded(r, count)
  PROVE  SyncInv'
<1>1. /\ run \in [Run -> RunRecord] /\ run[r] \in RunRecord /\ RunOk(run[r])
      /\ alone => AloneOk(run[r])
      /\ onNet \in 0 .. MaxMembers
  BY RunType
<1>2. PICK pc \in {"append", "removed", "publish"} :
        /\ pc = "removed" => run[r].record # NoGroup
        /\ run' = [run EXCEPT ![r].members = count, ![r].pc = pc]
  BY DEF Loaded, AfterAppend
<1>3. /\ run'[r] = [[run[r] EXCEPT !.members = count] EXCEPT !.pc = pc]
      /\ \A q \in Run \ {r} : run'[q] = run[q]
      /\ run' = [q \in Run |-> run'[q]]
      /\ run[r].pc = "load" /\ run[r].next = 1
  BY <1>1, <1>2 DEF Loaded, RunOk
<1>4. PICK x \in RunRecord :
        /\ x = run'[r]
        /\ x.pc = pc /\ x.members = count /\ x.next = 1 /\ x.record = run[r].record
  <2>1. run'[r] = [pc |-> pc, record |-> run[r].record, members |-> count,
                   next |-> run[r].next, index |-> run[r].index, level |-> run[r].level,
                   pos |-> run[r].pos, changed |-> run[r].changed]
    BY <1>1, <1>3, RecordIs
  <2>2. count \in 0 .. MaxMembers
    BY <1>1, BoundsAssumption
  <2>3. PICK x : x = run'[r]
    OBVIOUS
  <2>4. /\ x.pc = pc /\ x.members = count /\ x.next = 1 /\ x.record = run[r].record
        /\ x.index = run[r].index /\ x.changed = run[r].changed
    BY <1>3, <2>1, <2>3
  <2>5. pc \in RunPlace
    BY DEF RunPlace
  <2>6. x \in RunRecord
    BY <1>1, <1>3, <2>1, <2>2, <2>3, <2>4, <2>5, RecordIs, RecordMade
  <2> QED BY <2>3, <2>4, <2>6
<1>5. run' \in [Run -> RunRecord]
  BY <1>1, <1>3, <1>4
<1>6. RunOk(x)
  BY <1>1, <1>2, <1>4 DEF RunOk, Linked
<1>7. alone => AloneOk(x)
  BY <1>1, <1>2, <1>3, <1>4 DEF AloneOk, Appending
<1>8. ~ WillAnnounce(run[r])
  BY <1>3 DEF WillAnnounce, Appending
<1>9. UNCHANGED <<net, groupInDb, leaves, inner, announced, past>>
  BY DEF Loaded
<1> QED BY <1>1, <1>3, <1>4, <1>5, <1>6, <1>7, <1>8, <1>9, LocalStep DEF Linked

\* What appendUsers finds: the first member without a leaf.
LEMMA FirstMissingIs ==
  ASSUME SyncInv, NEW r \in Run, run[r].pc = "append"
  PROVE  /\ FirstMissing(r) \in run[r].next .. run[r].members + 1
         /\ FirstMissing(r) <= run[r].members => ~ HasLeaf(FirstMissing(r))
         /\ \A i \in 1 .. FirstMissing(r) - 1 : HasLeaf(i)
<1>1. run[r] \in RunRecord /\ RunOk(run[r])
  BY RunType
<1>2. PICK a \in Nat \ {0}, m \in Nat : a = run[r].next /\ m = run[r].members /\ a <= m + 1
  BY <1>1 DEF RunRecord, RunOk
<1> DEFINE Gap(n) == (n <= m => ~ HasLeaf(n)) /\ \A i \in a .. n - 1 : HasLeaf(i)
<1>3. \E n \in a .. m + 1 : Gap(n)
  <2> DEFINE T == {n \in a .. m + 1 : n <= m => ~ HasLeaf(n)}
  <2>1. T \in SUBSET Nat /\ m + 1 \in T
    BY <1>2
  <2>2. PICK n \in T : \A k \in T : n <= k
    BY <2>1, Least
  <2>3. \A i \in a .. n - 1 : HasLeaf(i)
    BY <1>2, <2>2
  <2> QED BY <2>2, <2>3
<1>4. FirstMissing(r) = CHOOSE n \in a .. m + 1 : Gap(n)
  BY <1>2 DEF FirstMissing
<1> HIDE DEF Gap
<1>5. FirstMissing(r) \in a .. m + 1 /\ Gap(FirstMissing(r))
  BY <1>3, <1>4
<1>6. \A i \in 1 .. a - 1 : HasLeaf(i)
  BY <1>1, <1>2 DEF RunOk, Linked
<1> QED BY <1>2, <1>5, <1>6 DEF Gap

LEMMA AppendUsersStep ==
  ASSUME SyncInv, NEW r \in Run, AppendUsers(r)
  PROVE  SyncInv'
<1>1. /\ run \in [Run -> RunRecord] /\ run[r] \in RunRecord /\ RunOk(run[r])
      /\ alone => AloneOk(run[r])
      /\ run[r].pc = "append" /\ Len(leaves) \in Nat
  BY RunType, LenProperties DEF AppendUsers
<1>2. PICK n \in Nat \ {0} :
        n = FirstMissing(r) /\ n <= run[r].members /\ ~ HasLeaf(n)
          /\ \A i \in 1 .. n - 1 : HasLeaf(i)
  BY <1>1, FirstMissingIs DEF AppendUsers, RunRecord
<1>3. /\ run'[r] = [[[run[r] EXCEPT !.pc = "create"] EXCEPT !.next = n]
                      EXCEPT !.index = Len(leaves)]
      /\ \A q \in Run \ {r} : run'[q] = run[q]
      /\ run' = [q \in Run |-> run'[q]]
  BY <1>1, <1>2 DEF AppendUsers
<1>4. PICK x \in RunRecord :
        /\ x = run'[r]
        /\ x.pc = "create" /\ x.next = n /\ x.index = Len(leaves)
        /\ x.members = run[r].members /\ x.record = run[r].record
  <2>1. run'[r] = [pc |-> "create", record |-> run[r].record,
                   members |-> run[r].members, next |-> n,
                   index |-> Len(leaves), level |-> run[r].level,
                   pos |-> run[r].pos, changed |-> run[r].changed]
    BY <1>1, <1>3, RecordIs
  <2>2. PICK x : x = run'[r]
    OBVIOUS
  <2>3. /\ x.pc = "create" /\ x.members = run[r].members /\ x.next = n
        /\ x.record = run[r].record /\ x.index = Len(leaves)
        /\ x.changed = run[r].changed
        /\ x.level = run[r].level /\ x.pos = run[r].pos
    BY <2>1, <2>2
  <2>4. x.pc \in RunPlace
    BY <2>3 DEF RunPlace
  <2>5. x \in RunRecord
    BY <1>1, <2>1, <2>2, <2>3, <2>4, RecordIs, RecordMade
  <2> QED BY <2>2, <2>3, <2>5
<1>5. run' \in [Run -> RunRecord]
  BY <1>1, <1>3, <1>4
<1>6. RunOk(x)
  BY <1>1, <1>2, <1>4 DEF RunOk, RunRecord, Linked
<1>7. alone => AloneOk(x)
  BY <1>1, <1>2, <1>4 DEF AloneOk, Appending
<1>8. WillAnnounce(x)
  BY <1>4 DEF WillAnnounce, Appending
<1>9. UNCHANGED <<net, groupInDb, leaves, inner, announced, past>>
  BY DEF AppendUsers
<1> QED BY <1>1, <1>3, <1>4, <1>5, <1>6, <1>7, <1>8, <1>9, LocalStep DEF Linked

LEMMA UsersAppendedStep ==
  ASSUME SyncInv, NEW r \in Run, UsersAppended(r)
  PROVE  SyncInv'
<1>1. /\ run \in [Run -> RunRecord] /\ run[r] \in RunRecord /\ RunOk(run[r])
      /\ alone => AloneOk(run[r])
      /\ run[r].pc = "append"
  BY RunType DEF UsersAppended
<1>2. \A i \in 1 .. run[r].members : HasLeaf(i)
  BY <1>1, FirstMissingIs DEF UsersAppended, RunRecord
<1>3. /\ run'[r] = [[run[r] EXCEPT !.pc = "appended"] EXCEPT !.next = 1]
      /\ \A q \in Run \ {r} : run'[q] = run[q]
      /\ run' = [q \in Run |-> run'[q]]
  BY <1>1 DEF UsersAppended
<1>4. PICK x \in RunRecord :
        /\ x = run'[r]
        /\ x.pc = "appended" /\ x.members = run[r].members /\ x.record = run[r].record
  <2>1. run'[r] = [pc |-> "appended", record |-> run[r].record,
                   members |-> run[r].members, next |-> 1,
                   index |-> run[r].index, level |-> run[r].level,
                   pos |-> run[r].pos, changed |-> run[r].changed]
    BY <1>1, <1>3, RecordIs
  <2>2. PICK x : x = run'[r]
    OBVIOUS
  <2>3. /\ x.pc = "appended" /\ x.members = run[r].members /\ x.next = 1
        /\ x.record = run[r].record /\ x.index = run[r].index
        /\ x.changed = run[r].changed
        /\ x.level = run[r].level /\ x.pos = run[r].pos
    BY <2>1, <2>2
  <2>4. x.pc \in RunPlace
    BY <2>3 DEF RunPlace
  <2>5. x \in RunRecord
    BY <1>1, <2>1, <2>2, <2>3, <2>4, RecordIs, RecordMade
  <2> QED BY <2>2, <2>3, <2>5
<1>5. run' \in [Run -> RunRecord]
  BY <1>1, <1>3, <1>4
<1>6. RunOk(x)
  BY <1>1, <1>2, <1>4 DEF RunOk, Linked
<1>7. alone => AloneOk(x)
  BY <1>1, <1>4 DEF AloneOk, Appending
<1>8. WillAnnounce(x)
  BY <1>4 DEF WillAnnounce, Appending
<1>9. UNCHANGED <<net, groupInDb, leaves, inner, announced, past>>
  BY DEF UsersAppended
<1> QED BY <1>1, <1>3, <1>4, <1>5, <1>6, <1>7, <1>8, <1>9, LocalStep DEF Linked

\* A lone run that is given a member without a leaf finds room for it, as long
\* as the group is not larger than the tree: one leaf for each of the others.
LEMMA RoomLeft ==
  ASSUME SyncInv, alone, onNet <= Capacity,
         NEW n \in 1 .. onNet, ~ HasLeaf(n)
  PROVE  Len(leaves) < Capacity
<1>1. /\ leaves \in Seq(Leaf) /\ onNet \in Nat
      /\ \A k \in DOMAIN leaves : leaves[k].slot <= onNet
      /\ \A j, k \in DOMAIN leaves : leaves[j].slot = leaves[k].slot => j = k
  BY DEF SyncInv, STypeOK, AloneInv, LeavesInOrder
<1>2. Len(leaves) \in Nat /\ DOMAIN leaves = 1 .. Len(leaves)
      /\ \A k \in DOMAIN leaves : leaves[k] \in Leaf
  BY <1>1, LenProperties, ElementOfSeq
<1> DEFINE f == [k \in DOMAIN leaves |-> leaves[k].slot]
           others == (1 .. onNet) \ {n}
<1>3. f \in [DOMAIN leaves -> others]
  <2> SUFFICES ASSUME NEW k \in DOMAIN leaves PROVE leaves[k].slot \in others
    OBVIOUS
  <2>1. leaves[k].slot \in 1 .. MaxMembers
    BY <1>2 DEF Leaf
  <2> QED BY <1>1, <2>1, BoundsAssumption DEF HasLeaf
<1>4. \A j, k \in DOMAIN leaves : f[j] = f[k] => j = k
  BY <1>1
<1>5. f \in Injection(DOMAIN leaves, others)
  BY <1>3, <1>4 DEF Injection, IsInjective
<1>6. IsFiniteSet(others) /\ Cardinality(others) = onNet - 1
  <2>1. IsFiniteSet(1 .. onNet) /\ Cardinality(1 .. onNet) = onNet
    BY <1>1, FS_Interval
  <2> QED BY <2>1, FS_RemoveElement
<1> HIDE DEF f, others
<1>7. Cardinality(DOMAIN leaves) <= Cardinality(others)
  BY <1>5, <1>6, FS_Injection
<1>8. Cardinality(DOMAIN leaves) = Len(leaves)
  <2>1. PICK m \in Nat : m = Len(leaves) /\ DOMAIN leaves = 1 .. m
    BY <1>2
  <2>2. Cardinality(1 .. m) = m
    BY FS_Interval
  <2> QED BY <2>1, <2>2
<1> QED BY <1>1, <1>2, <1>6, <1>7, <1>8, BoundsAssumption

LEMMA TreeIsFullStep ==
  ASSUME SyncInv, NEW r \in Run, TreeIsFull(r)
  PROVE  SyncInv'
<1>1. /\ run \in [Run -> RunRecord] /\ run[r] \in RunRecord /\ RunOk(run[r])
      /\ run[r].pc = "append" /\ Len(leaves) \in Nat /\ onNet \in Nat
  BY RunType, LenProperties DEF TreeIsFull
<1>2. PICK pc \in {"removed", "publish"} :
        /\ pc = "removed" => run[r].record # NoGroup
        /\ run' = [run EXCEPT ![r].pc = pc, ![r].next = 1]
  BY DEF TreeIsFull, AfterAppend
<1>3. /\ run'[r] = [[run[r] EXCEPT !.pc = pc] EXCEPT !.next = 1]
      /\ \A q \in Run \ {r} : run'[q] = run[q]
      /\ run' = [q \in Run |-> run'[q]]
  BY <1>1, <1>2
<1>4. PICK x \in RunRecord :
        x = run'[r] /\ x.pc = pc /\ x.members = run[r].members /\ x.record = run[r].record
  <2>1. run'[r] = [pc |-> pc, record |-> run[r].record,
                   members |-> run[r].members, next |-> 1,
                   index |-> run[r].index, level |-> run[r].level,
                   pos |-> run[r].pos, changed |-> run[r].changed]
    BY <1>1, <1>3, RecordIs
  <2>2. PICK x : x = run'[r]
    OBVIOUS
  <2>3. /\ x.pc = pc /\ x.members = run[r].members /\ x.next = 1
        /\ x.record = run[r].record /\ x.index = run[r].index
        /\ x.changed = run[r].changed
        /\ x.level = run[r].level /\ x.pos = run[r].pos
    BY <2>1, <2>2
  <2>4. x.pc \in RunPlace
    BY <2>3 DEF RunPlace
  <2>5. x \in RunRecord
    BY <1>1, <2>1, <2>2, <2>3, <2>4, RecordIs, RecordMade
  <2> QED BY <2>2, <2>3, <2>5
<1>5. run' \in [Run -> RunRecord]
  BY <1>1, <1>3, <1>4
<1>6. RunOk(x) /\ AloneOk(x)
  BY <1>1, <1>2, <1>4 DEF RunOk, Linked, AloneOk, Appending
<1>7. ~ (alone /\ onNet <= Capacity)
  <2>1. /\ FirstMissing(r) \in run[r].next .. run[r].members + 1
        /\ FirstMissing(r) <= run[r].members => ~ HasLeaf(FirstMissing(r))
    BY <1>1, FirstMissingIs
  <2>2. run[r].next \in Nat \ {0} /\ run[r].members \in Nat /\ run[r].members <= onNet
    BY <1>1, RecordIs DEF RunOk, Linked
  <2>3. PICK n \in 1 .. onNet : n = FirstMissing(r) /\ ~ HasLeaf(n)
    BY <1>1, <2>1, <2>2 DEF TreeIsFull
  <2> QED BY <1>1, <2>3, RoomLeft, BoundsAssumption DEF TreeIsFull
<1>8. UNCHANGED <<net, groupInDb, leaves, inner, announced, past>>
  BY DEF TreeIsFull
<1> QED BY <1>1, <1>3, <1>4, <1>5, <1>6, <1>7, <1>8, LocalStep DEF Linked

LEMMA RemoveUsersStep ==
  ASSUME SyncInv, NEW r \in Run, RemoveUsers(r)
  PROVE  SyncInv'
<1>1. /\ run \in [Run -> RunRecord] /\ run[r] \in RunRecord /\ RunOk(run[r])
      /\ run[r].pc = "removed"
  BY RunType DEF RemoveUsers
<1>2. /\ run'[r] = [run[r] EXCEPT !.pc = "publish"]
      /\ \A q \in Run \ {r} : run'[q] = run[q]
      /\ run' = [q \in Run |-> run'[q]]
  BY <1>1 DEF RemoveUsers
<1>3. PICK x : x = run'[r]
  OBVIOUS
<1>4. /\ x = [x EXCEPT !.pc = "publish"] /\ x.pc = "publish"
      /\ x.members = run[r].members /\ x.next = run[r].next
      /\ x.record = run[r].record /\ x.index = run[r].index /\ x.changed = run[r].changed
      /\ x.level = run[r].level /\ x.pos = run[r].pos
      /\ x = [pc |-> x.pc, record |-> x.record, members |-> x.members,
              next |-> x.next, index |-> x.index, level |-> x.level,
              pos |-> x.pos, changed |-> x.changed]
  BY <1>1, <1>2, <1>3, RecordIs
<1>5. x \in RunRecord
  <2>1. x.pc \in RunPlace
    BY <1>4 DEF RunPlace
  <2> QED BY <1>1, <1>4, <2>1, RecordIs, RecordMade
<1>6. run' \in [Run -> RunRecord]
  BY <1>1, <1>2, <1>3, <1>5
<1>7. RunOk(x) /\ AloneOk(x)
  BY <1>1, <1>4 DEF RunOk, Linked, AloneOk, Appending
<1>8. WillAnnounce(run[r]) => WillAnnounce(x)
  BY <1>1, <1>4 DEF WillAnnounce, Appending
<1>9. UNCHANGED <<net, groupInDb, leaves, inner, announced, past>>
  BY DEF RemoveUsers
<1>10. run[r].pc \notin {"idle", "parent", "save"} /\ x.pc \notin Linked
  BY <1>1, <1>4 DEF Linked
<1> QED BY <1>1, <1>2, <1>3, <1>5, <1>6, <1>7, <1>8, <1>9, <1>10, LocalStep

\* The leaf that is created is the next one, of a member that had none.
LEMMA CreateLeafStep ==
  ASSUME SyncInv, NEW r \in Run, CreateLeaf(r)
  PROVE  SyncInv'
<1>1. /\ run \in [Run -> RunRecord] /\ run[r] \in RunRecord /\ RunOk(run[r])
      /\ run[r].pc = "create" /\ leaves \in Seq(Leaf)
      /\ Len(leaves) \in Nat /\ DOMAIN leaves = 1 .. Len(leaves)
      /\ onNet \in 0 .. MaxMembers
      /\ alone \in BOOLEAN /\ groupInDb \in GroupRecord \cup {NoGroup}
  BY RunType, LenProperties DEF CreateLeaf
<1>2. PICK n \in Nat \ {0}, index \in Nat :
        /\ n = run[r].next /\ index = run[r].index
        /\ n <= run[r].members /\ n \in 1 .. MaxMembers /\ n <= onNet
  BY <1>1, RecordIs, BoundsAssumption DEF RunOk, Linked
<1>3. PICK leaf \in Leaf : leaf.slot = n /\ leaf.index = index /\ leaf.linked = FALSE
        /\ leaves' = Append(leaves, leaf)
  BY <1>1, <1>2 DEF CreateLeaf, Leaf
<1>4. /\ leaves' \in Seq(Leaf) /\ Len(leaves') = Len(leaves) + 1
      /\ DOMAIN leaves' = 1 .. Len(leaves) + 1
      /\ \A k \in DOMAIN leaves : leaves'[k] = leaves[k]
      /\ leaves'[Len(leaves) + 1] = leaf
  BY <1>1, <1>3, AppendProperties, LenProperties
<1>5. /\ \A k \in DOMAIN leaves : k \in DOMAIN leaves'
      /\ Len(leaves) + 1 \in DOMAIN leaves'
      /\ \A k \in DOMAIN leaves' : k \in DOMAIN leaves \/ k = Len(leaves) + 1
  BY <1>1, <1>4
<1>6. (\A i \in Nat : HasLeaf(i) => HasLeaf(i)') /\ HasLeaf(n)'
  BY <1>3, <1>4, <1>5 DEF HasLeaf
<1>7. /\ run'[r] = [[[[run[r] EXCEPT !.pc = "parent"] EXCEPT !.index = Len(leaves) + 1]
                      EXCEPT !.level = 0] EXCEPT !.pos = index]
      /\ \A q \in Run \ {r} : run'[q] = run[q]
      /\ run' = [q \in Run |-> run'[q]]
      /\ announced' = FALSE
      /\ UNCHANGED <<onNet, removed, groupInDb, inner, restarts, cut, alone>>
  BY <1>1, <1>2 DEF CreateLeaf, net, past
<1>8. PICK x \in RunRecord :
        /\ x = run'[r] /\ x.pc = "parent" /\ x.index = Len(leaves) + 1
        /\ x.level = 0 /\ x.pos = index
        /\ x.members = run[r].members /\ x.record = run[r].record /\ x.next = n
  <2>1. run'[r] = [pc |-> "parent", record |-> run[r].record,
                   members |-> run[r].members, next |-> run[r].next,
                   index |-> Len(leaves) + 1, level |-> 0, pos |-> index,
                   changed |-> run[r].changed]
    BY <1>1, <1>7, RecordIs
  <2>2. PICK x : x = run'[r]
    OBVIOUS
  <2>3. /\ x.pc = "parent" /\ x.members = run[r].members /\ x.next = run[r].next
        /\ x.record = run[r].record /\ x.index = Len(leaves) + 1
        /\ x.level = 0 /\ x.pos = index /\ x.changed = run[r].changed
    BY <2>1, <2>2
  <2>4. x.pc \in RunPlace /\ 0 \in 0 .. Depth - 1
    BY <2>3, BoundsAssumption DEF RunPlace
  <2>5. x \in RunRecord
    BY <1>1, <1>2, <2>1, <2>2, <2>3, <2>4, RecordIs, RecordMade
  <2> QED BY <1>2, <2>2, <2>3, <2>5
<1>9. STypeOK' /\ RunInv'
  <2>1. run' \in [Run -> RunRecord]
    BY <1>1, <1>7, <1>8
  <2>2. RunOk(x)'
    <3>1. \A i \in 1 .. n - 1 : HasLeaf(i)'
      BY <1>1, <1>2, <1>6 DEF RunOk
    <3>2. x.members <= onNet' /\ n <= x.members + 1 /\ (x.record # NoGroup => groupInDb' # NoGroup)
      BY <1>1, <1>2, <1>7, <1>8, RecordIs DEF RunOk
    <3> QED BY <1>2, <1>5, <1>6, <1>8, <3>1, <3>2 DEF RunOk, Linked, HasLeaf
  <2>3. inner' \subseteq (1 .. Depth) \X Nat
    BY <1>7, RunType
  <2> QED BY <1>1, <1>4, <1>5, <1>6, <1>7, <1>8, <2>1, <2>2, <2>3, RunMoves
<1>10. AloneInv' /\ AnnounceInv'
  <2>1. alone => AloneOk(x)'
    BY <1>1, <1>7, <1>8, RunType DEF AloneOk, Appending
  <2>2. alone => \A k \in DOMAIN leaves' : leaves'[k].slot <= onNet
    BY <1>2, <1>3, <1>4, <1>5, RunType
  <2>3. WillAnnounce(x)
    BY <1>8 DEF WillAnnounce, Appending
  <2> QED BY <1>1, <1>7, <1>8, <2>1, <2>2, <2>3, WorkMoves
<1>a. alone => index = Len(leaves) /\ ~ HasLeaf(n)
  BY <1>1, <1>2, RunType DEF AloneOk
<1>11. LeavesInOrder'
  <2> SUFFICES ASSUME alone
               PROVE  /\ \A k \in DOMAIN leaves' : leaves'[k].index = k - 1
                      /\ \A j, k \in DOMAIN leaves' : leaves'[j].slot = leaves'[k].slot => j = k
                      /\ ~ cut =>
                           \A k \in DOMAIN leaves' : leaves'[k].linked
                             \/ \E q \in Run : run'[q].pc \in Linked /\ run'[q].index = k
    BY <1>7 DEF LeavesInOrder, Linking, Linked
  <2>1. index = Len(leaves) /\ ~ HasLeaf(n)
    BY <1>a
  <2>2. /\ \A k \in DOMAIN leaves : leaves[k].index = k - 1
        /\ \A j, k \in DOMAIN leaves : leaves[j].slot = leaves[k].slot => j = k
        /\ ~ cut =>
             \A k \in DOMAIN leaves : leaves[k].linked
               \/ \E q \in Run : run[q].pc \in Linked /\ run[q].index = k
    BY DEF SyncInv, LeavesInOrder, Linking, Linked
  <2>3. \A k \in DOMAIN leaves' : leaves'[k].index = k - 1
    BY <1>1, <1>3, <1>4, <1>5, <2>1, <2>2
  <2>4. \A j, k \in DOMAIN leaves' : leaves'[j].slot = leaves'[k].slot => j = k
    BY <1>3, <1>4, <1>5, <2>1, <2>2 DEF HasLeaf
  <2>5. ASSUME ~ cut, NEW k \in DOMAIN leaves'
        PROVE  leaves'[k].linked \/ \E q \in Run : run'[q].pc \in Linked /\ run'[q].index = k
    <3>1. CASE k = Len(leaves) + 1
      BY <1>8, <3>1 DEF Linked
    <3>2. CASE k \in DOMAIN leaves
      <4>1. leaves[k].linked \/ \E q \in Run \ {r} : run[q].pc \in Linked /\ run[q].index = k
        BY <1>1, <2>2, <2>5, <3>2 DEF Linked
      <4> QED BY <1>4, <1>7, <3>2, <4>1
    <3> QED BY <1>5, <3>1, <3>2
  <2> QED BY <2>3, <2>4, <2>5
<1>12. CutInv'
  <2> SUFFICES ASSUME alone, ~ cut PROVE PathInv'
    BY <1>7 DEF SyncInv, CutInv
  <2>1. PathInv
    BY DEF SyncInv, CutInv
  <2>2. \A k \in DOMAIN leaves : leaves[k].index = k - 1
    BY DEF SyncInv, LeavesInOrder
  <2>3. \A p : Present(0, p) <=> \E k \in DOMAIN leaves : p = k - 1
    BY <2>2 DEF Present
  <2>4. \A p : Present(0, p)' <=> Present(0, p) \/ p = index
    <3>1. \A p : Present(0, p)' <=> \E k \in DOMAIN leaves' : leaves'[k].index = p
      BY DEF Present
    <3> QED BY <1>3, <1>4, <1>5, <3>1 DEF Present
  <2>5. \A level \in 1 .. Depth : \A p : Present(level, p)' <=> Present(level, p)
    BY <1>7 DEF Present
  <2>6. \A p \in Nat : Present(0, p) <=> p < index
    <3>1. index = Len(leaves) /\ DOMAIN leaves = 1 .. index
      BY <1>1, <1>a
    <3>2. \A p \in Nat : p < index => p + 1 \in 1 .. index /\ p = (p + 1) - 1
      BY <1>2
    <3>3. \A k \in 1 .. index, p \in Nat : p = k - 1 => p < index
      BY <1>2
    <3>4. ASSUME NEW p \in Nat, p < index PROVE Present(0, p)
      BY <2>3, <3>1, <3>2, <3>4
    <3>5. ASSUME NEW p \in Nat, Present(0, p) PROVE p < index
      BY <2>3, <3>1, <3>3, <3>5
    <3> QED BY <3>4, <3>5
  <2>7. \A level \in 0 .. Depth, p, q \in Nat : Present(level, p)' /\ q < p => Present(level, q)'
    <3> SUFFICES ASSUME NEW level \in 0 .. Depth, NEW p \in Nat, NEW q \in Nat,
                        Present(level, p)', q < p
                 PROVE  Present(level, q)'
      OBVIOUS
    <3>1. CASE level = 0
      BY <1>2, <2>4, <2>6, <3>1
    <3>2. CASE level # 0
      <4>1. level \in 1 .. Depth
        BY <3>2, BoundsAssumption
      <4> QED BY <2>1, <2>5, <4>1 DEF PathInv, NoGap
    <3> QED BY <3>1, <3>2
  <2>8. \A q \in Run : \A level, p : Works(run[q], level, p) => Works(run'[q], level, p)
    <3>1. \A level, p : ~ Works(run[r], level, p)
      BY <1>1 DEF Works
    <3> QED BY <1>7, <3>1
  <2>9. Works(run'[r], 0, index)
    BY <1>8 DEF Works
  <2>10. \A level \in 0 .. Depth - 1, p \in Nat :
           Present(level, p)' =>
             <<level + 1, p \div 2>> \in inner' \/ \E q \in Run : Works(run'[q], level, p)
    <3> SUFFICES ASSUME NEW level \in 0 .. Depth - 1, NEW p \in Nat, Present(level, p)'
                 PROVE  <<level + 1, p \div 2>> \in inner
                          \/ \E q \in Run : Works(run'[q], level, p)
      BY <1>7
    <3>1. CASE Present(level, p)
      BY <2>1, <2>8, <3>1 DEF PathInv, Parented
    <3>2. CASE ~ Present(level, p)
      <4>1. level = 0 /\ p = index
        <5>1. level \in 0 .. Depth
          BY BoundsAssumption
        <5> QED BY <2>4, <2>5, <3>2, <5>1
      <4> QED BY <2>9, <4>1
    <3> QED BY <3>1, <3>2
  <2>11. ASSUME NEW q \in Run PROVE WorkOk(run[q])'
    <3>1. CASE q = r
      BY <1>8, <2>4, <3>1 DEF WorkOk
    <3>2. CASE q # r
      <4>1. run[q].pc = "idle" /\ run'[q] = run[q]
        BY <1>1, <1>7, <3>2, RunType
      <4> QED BY <4>1 DEF WorkOk
    <3> QED BY <3>1, <3>2
  <2>12. NoGap'
    BY <2>7 DEF NoGap
  <2>13. Parented'
    BY <2>10 DEF Parented, Works
  <2> QED BY <2>11, <2>12, <2>13 DEF PathInv
<1>13. NobodyIsLost'
  <2>1. \A i \in Nat : HasLeaf(i) => HasLeaf(i)'
    BY <1>6
  <2>2. groupInDb # NoGroup => groupInDb.number_of_leaves \in Nat
    BY <1>1 DEF GroupRecord
  <2> QED BY <1>7, <2>1, <2>2 DEF SyncInv, NobodyIsLost, HasLeaf
<1> QED BY <1>9, <1>10, <1>11, <1>12, <1>13 DEF SyncInv

\* What a run at work on a path is: its leaf is there.
LEMMA LinkingIs ==
  ASSUME SyncInv, NEW r \in Run, run[r].pc \in Linked
  PROVE  /\ run \in [Run -> RunRecord] /\ run[r] \in RunRecord /\ RunOk(run[r])
         /\ leaves \in Seq(Leaf) /\ Len(leaves) \in Nat /\ DOMAIN leaves = 1 .. Len(leaves)
         /\ onNet \in 0 .. MaxMembers /\ alone \in BOOLEAN /\ cut \in BOOLEAN
         /\ groupInDb \in GroupRecord \cup {NoGroup} /\ inner \subseteq (1 .. Depth) \X Nat
         /\ run[r].level \in 0 .. Depth - 1 /\ run[r].pos \in Nat
         /\ run[r].pos \div 2 \in Nat /\ run[r].level + 1 \in 1 .. Depth
         /\ alone => \A q \in Run \ {r} : run[q].pc = "idle"
<1>1. /\ run \in [Run -> RunRecord] /\ run[r] \in RunRecord /\ RunOk(run[r])
      /\ leaves \in Seq(Leaf)
      /\ onNet \in 0 .. MaxMembers /\ alone \in BOOLEAN /\ cut \in BOOLEAN
      /\ groupInDb \in GroupRecord \cup {NoGroup} /\ inner \subseteq (1 .. Depth) \X Nat
  BY RunType
<1>2. Len(leaves) \in Nat /\ DOMAIN leaves = 1 .. Len(leaves)
  BY <1>1, LenProperties
<1>3. run[r].level \in 0 .. Depth - 1 /\ run[r].pos \in Nat
  BY <1>1, RecordIs
<1>4. run[r].pos \div 2 \in Nat /\ run[r].level + 1 \in 1 .. Depth
  BY <1>3, BoundsAssumption
<1>5. alone => \A q \in Run \ {r} : run[q].pc = "idle"
  <2>1. run[r].pc # "idle"
    BY DEF Linked
  <2> QED BY <2>1, RunType
<1> QED BY <1>1, <1>2, <1>3, <1>4, <1>5

\* The run moves within a path: of the leaves, nothing changes.
LEMMA LinkingStep ==
  ASSUME SyncInv, NEW r \in Run, NEW x \in RunRecord, run[r].pc \in Linked,
         x.pc \in Linked, x.index = run[r].index, x.next = run[r].next,
         x.members = run[r].members, x.record = run[r].record,
         run' \in [Run -> RunRecord], run'[r] = x,
         \A q \in Run \ {r} : run'[q] = run[q],
         UNCHANGED <<net, groupInDb, leaves, past>>, announced' = FALSE,
         inner' \subseteq (1 .. Depth) \X Nat
  PROVE  /\ STypeOK' /\ RunInv' /\ AloneInv' /\ AnnounceInv'
         /\ LeavesInOrder' /\ NobodyIsLost'
<1>1. /\ UNCHANGED <<onNet, removed, restarts, cut, alone>>
      /\ run[r] \in RunRecord /\ RunOk(run[r])
      /\ leaves \in Seq(Leaf) /\ alone \in BOOLEAN
      /\ groupInDb \in GroupRecord \cup {NoGroup}
  BY LinkingIs DEF net, past
<1>2. RunOk(x)'
  BY <1>1 DEF RunOk, Linked, HasLeaf
<1>3. STypeOK' /\ RunInv'
  BY <1>1, <1>2, RunMoves DEF HasLeaf
<1>4. AloneInv' /\ AnnounceInv'
  <2>1. alone => AloneOk(x)'
    BY <1>1, RunType DEF AloneOk, Appending, Linked
  <2>2. WillAnnounce(x)
    BY DEF WillAnnounce, Appending, Linked
  <2> QED BY <1>1, <2>1, <2>2, WorkMoves, RunType DEF Linked
<1>5. LeavesInOrder'
  BY <1>1 DEF SyncInv, LeavesInOrder, Linking, Linked
<1>6. NobodyIsLost'
  BY DEF SyncInv, NobodyIsLost, HasLeaf
<1> QED BY <1>3, <1>4, <1>5, <1>6

\* The node above the run's gets a document: it follows those there are.
LEMMA FindParentStep ==
  ASSUME SyncInv, NEW r \in Run, FindParent(r)
  PROVE  SyncInv'
<1>1. run[r].pc = "parent" /\ run[r].pc \in Linked
  BY DEF FindParent, Linked
<1>2. /\ run \in [Run -> RunRecord] /\ run[r] \in RunRecord
      /\ inner \subseteq (1 .. Depth) \X Nat
      /\ alone => \A q \in Run \ {r} : run[q].pc = "idle"
  BY <1>1, LinkingIs
<1>3. PICK level \in 0 .. Depth - 1, pos \in Nat, up \in 1 .. Depth, half \in Nat :
        /\ level = run[r].level /\ pos = run[r].pos
        /\ up = level + 1 /\ half = pos \div 2
  BY <1>1, LinkingIs
<1>4. /\ run'[r] = [run[r] EXCEPT !.pc = "save"]
      /\ \A q \in Run \ {r} : run'[q] = run[q]
      /\ run' = [q \in Run |-> run'[q]]
      /\ inner' = inner \cup {<<up, half>>} /\ announced' = FALSE
      /\ UNCHANGED <<net, groupInDb, leaves, past>>
  BY <1>2, <1>3 DEF FindParent, ParentOf
<1>5. PICK x \in RunRecord :
        /\ x = run'[r] /\ x.pc = "save" /\ x.level = level /\ x.pos = pos
        /\ x.index = run[r].index /\ x.next = run[r].next
        /\ x.members = run[r].members /\ x.record = run[r].record
  <2>1. run'[r] = [pc |-> "save", record |-> run[r].record,
                   members |-> run[r].members, next |-> run[r].next,
                   index |-> run[r].index, level |-> run[r].level,
                   pos |-> run[r].pos, changed |-> run[r].changed]
    BY <1>2, <1>4, RecordIs
  <2>2. PICK x : x = run'[r]
    OBVIOUS
  <2>3. /\ x.pc = "save" /\ x.members = run[r].members /\ x.next = run[r].next
        /\ x.record = run[r].record /\ x.index = run[r].index
        /\ x.level = run[r].level /\ x.pos = run[r].pos /\ x.changed = run[r].changed
    BY <2>1, <2>2
  <2>4. x.pc \in RunPlace
    BY <2>3 DEF RunPlace
  <2>5. x \in RunRecord
    BY <1>2, <2>1, <2>2, <2>3, <2>4, RecordIs, RecordMade
  <2> QED BY <1>3, <2>2, <2>3, <2>5
<1>6. run' \in [Run -> RunRecord] /\ inner' \subseteq (1 .. Depth) \X Nat
  BY <1>2, <1>3, <1>4, <1>5
<1>7. /\ STypeOK' /\ RunInv' /\ AloneInv' /\ AnnounceInv' /\ LeavesInOrder' /\ NobodyIsLost'
  BY <1>1, <1>4, <1>5, <1>6, LinkingStep DEF Linked
<1>8. CutInv'
  <2> SUFFICES ASSUME alone, ~ cut PROVE PathInv'
    BY <1>4 DEF SyncInv, CutInv, past
  <2>1. NoGap /\ Parented /\ \A q \in Run : WorkOk(run[q])
    BY DEF SyncInv, CutInv, PathInv
  <2>2. \A q \in Run \ {r} : run[q].pc = "idle"
    BY <1>2
  <2>3. Present(level, pos)
    BY <1>1, <1>3, <2>1 DEF WorkOk
  <2>4. \A l, p : Present(l, p)' <=> Present(l, p) \/ (l = up /\ p = half)
    <3>1. up # 0
      OBVIOUS
    <3> QED BY <1>4, <3>1 DEF Present
  <2>5. ASSUME NEW q \in Nat, q < half PROVE Present(up, q)
    <3>1. 2 * q \in Nat /\ 2 * q < pos /\ (2 * q) \div 2 = q
      BY <1>3, <2>5
    <3>2. Present(level, 2 * q)
      <4>1. level \in 0 .. Depth
        BY BoundsAssumption
      <4> QED BY <2>1, <2>3, <3>1, <4>1 DEF NoGap
    <3>3. \A s \in Run : ~ Works(run[s], level, 2 * q)
      <4>1. ~ Works(run[r], level, 2 * q)
        BY <1>1, <1>3, <3>1 DEF Works
      <4> QED BY <2>2, <4>1 DEF Works
    <3>4. <<level + 1, (2 * q) \div 2>> \in inner
      BY <2>1, <3>1, <3>2, <3>3 DEF Parented
    <3>5. <<up, q>> \in inner /\ up # 0
      BY <1>3, <3>1, <3>4
    <3> QED BY <3>5 DEF Present
  <2>6. NoGap'
    <3> SUFFICES ASSUME NEW l \in 0 .. Depth, NEW p \in Nat, NEW q \in Nat,
                        Present(l, p)', q < p
                 PROVE  Present(l, q)'
      BY DEF NoGap
    <3>1. CASE Present(l, p)
      <4>1. Present(l, q)
        BY <2>1, <3>1 DEF NoGap
      <4> QED BY <2>4, <4>1
    <3>2. CASE l = up /\ p = half
      <4>1. Present(l, q)
        BY <2>5, <3>2
      <4> QED BY <2>4, <4>1
    <3> QED BY <2>4, <3>1, <3>2
  <2>7. Parented'
    <3> SUFFICES ASSUME NEW l \in 0 .. Depth - 1, NEW p \in Nat, Present(l, p)'
                 PROVE  <<l + 1, p \div 2>> \in inner' \/ \E q \in Run : Works(run'[q], l, p)
      BY DEF Parented, Works
    <3>1. CASE l = up /\ p = half
      <4>1. Works(run'[r], l, p)
        BY <1>3, <1>5, <3>1 DEF Works
      <4> QED BY <4>1
    <3>2. CASE Present(l, p)
      <4>1. <<l + 1, p \div 2>> \in inner \/ Works(run[r], l, p)
        <5>1. <<l + 1, p \div 2>> \in inner \/ \E s \in Run : Works(run[s], l, p)
          BY <2>1, <3>2 DEF Parented
        <5>2. \A s \in Run \ {r} : ~ Works(run[s], l, p)
          BY <2>2 DEF Works
        <5> QED BY <5>1, <5>2
      <4>2. CASE Works(run[r], l, p)
        <5>1. l = level /\ p = pos
          BY <1>1, <1>3, <4>2 DEF Works
        <5> QED BY <1>3, <1>4, <5>1
      <4> QED BY <1>4, <4>1, <4>2
    <3> QED BY <2>4, <3>1, <3>2
  <2>8. ASSUME NEW q \in Run PROVE WorkOk(run[q])'
    <3>1. CASE q = r
      <4>1. <<x.level + 1, x.pos \div 2>> \in inner'
        BY <1>3, <1>4, <1>5
      <4> QED BY <1>5, <3>1, <4>1 DEF WorkOk
    <3>2. CASE q # r
      BY <1>4, <2>2, <3>2 DEF WorkOk
    <3> QED BY <3>1, <3>2
  <2> QED BY <2>6, <2>7, <2>8 DEF PathInv
<1> QED BY <1>7, <1>8 DEF SyncInv

\* A missing neighbour ends the run: never of one that was always alone and
\* never stopped in a path.
LEMMA PathBreaksStep ==
  ASSUME SyncInv, NEW r \in Run, PathBreaks(r)
  PROVE  SyncInv'
<1>1. run[r].pc = "parent" /\ run[r].pc \in Linked
  BY DEF PathBreaks, Linked
<1>2. /\ run \in [Run -> RunRecord] /\ run[r] \in RunRecord /\ RunOk(run[r])
      /\ inner \subseteq (1 .. Depth) \X Nat /\ announced \in BOOLEAN
      /\ leaves \in Seq(Leaf) /\ alone \in BOOLEAN /\ cut \in BOOLEAN
      /\ groupInDb \in GroupRecord \cup {NoGroup}
      /\ alone => \A q \in Run \ {r} : run[q].pc = "idle"
  BY <1>1, LinkingIs, RunType
<1>3. PICK level \in 0 .. Depth - 1, pos \in Nat :
        level = run[r].level /\ pos = run[r].pos
  BY <1>1, LinkingIs
<1>4. ~ (alone /\ ~ cut)
  <2> SUFFICES ASSUME alone, ~ cut, pos % 2 = 1
               PROVE  Present(level, pos - 1) /\ <<level + 1, pos \div 2>> \in inner
    BY <1>3 DEF PathBreaks, HasFamily, ParentOf
  <2>1. NoGap /\ Parented /\ WorkOk(run[r])
    BY DEF SyncInv, CutInv, PathInv
  <2>2. /\ pos - 1 \in Nat /\ pos - 1 < pos /\ pos - 1 # pos
        /\ (pos - 1) \div 2 = pos \div 2 /\ level \in 0 .. Depth
    BY BoundsAssumption
  <2>3. Present(level, pos - 1)
    BY <1>1, <1>3, <2>1, <2>2 DEF WorkOk, NoGap
  <2>4. \A q \in Run : ~ Works(run[q], level, pos - 1)
    BY <1>1, <1>2, <1>3, <2>2 DEF Works
  <2>5. <<level + 1, (pos - 1) \div 2>> \in inner
    BY <2>1, <2>2, <2>3, <2>4 DEF Parented
  <2> QED BY <2>2, <2>3, <2>5
<1>5. PICK pc \in {"removed", "publish"} :
        /\ pc = "removed" => run[r].record # NoGroup
        /\ run' = [run EXCEPT ![r].pc = pc, ![r].next = 1,
                              ![r].index = 0, ![r].level = 0, ![r].pos = 0]
  BY DEF PathBreaks, AfterAppend
<1>6. /\ run'[r] = [[[[[run[r] EXCEPT !.pc = pc] EXCEPT !.next = 1] EXCEPT !.index = 0]
                      EXCEPT !.level = 0] EXCEPT !.pos = 0]
      /\ \A q \in Run \ {r} : run'[q] = run[q]
      /\ run' = [q \in Run |-> run'[q]]
      /\ UNCHANGED <<onNet, removed, groupInDb, leaves, inner, announced, restarts, cut, alone>>
  BY <1>2, <1>5 DEF PathBreaks, net, past
<1>7. PICK x \in RunRecord :
        x = run'[r] /\ x.pc = pc /\ x.members = run[r].members /\ x.record = run[r].record
  <2>1. run'[r] = [pc |-> pc, record |-> run[r].record,
                   members |-> run[r].members, next |-> 1,
                   index |-> 0, level |-> 0, pos |-> 0, changed |-> run[r].changed]
    BY <1>2, <1>6, RecordIs
  <2>2. PICK x : x = run'[r]
    OBVIOUS
  <2>3. /\ x.pc = pc /\ x.members = run[r].members /\ x.next = 1
        /\ x.record = run[r].record /\ x.index = 0 /\ x.level = 0 /\ x.pos = 0
        /\ x.changed = run[r].changed
    BY <2>1, <2>2
  <2>4. x.pc \in RunPlace /\ 0 \in 0 .. Depth - 1
    BY <2>3, BoundsAssumption DEF RunPlace
  <2>5. x \in RunRecord
    <3>1. x = [pc |-> x.pc, record |-> x.record, members |-> x.members,
               next |-> x.next, index |-> x.index, level |-> x.level,
               pos |-> x.pos, changed |-> x.changed]
      BY <2>1, <2>2, <2>3
    <3>2. /\ x.record \in GroupRecord \cup {NoGroup}
          /\ x.members \in 0 .. MaxMembers /\ x.next \in Nat \ {0}
          /\ x.index \in Nat /\ x.pos \in Nat /\ x.changed \in BOOLEAN
      BY <1>2, <2>3, RecordIs
    <3> QED BY <2>3, <2>4, <3>1, <3>2, RecordMade
  <2> QED BY <2>2, <2>3, <2>5
<1>8. STypeOK' /\ RunInv'
  <2>1. run' \in [Run -> RunRecord]
    BY <1>2, <1>6, <1>7
  <2>2. RunOk(x)'
    BY <1>2, <1>5, <1>6, <1>7 DEF RunOk, Linked
  <2> QED BY <1>2, <1>6, <1>7, <2>1, <2>2, RunMoves DEF HasLeaf
<1>9. AloneInv' /\ AnnounceInv'
  <2>1. AloneOk(x)'
    BY <1>7 DEF AloneOk, Appending
  <2>2. ~ (alone /\ restarts = 0)
    BY <1>4 DEF SyncInv, CutInv
  <2> QED BY <1>1, <1>6, <1>7, <2>1, <2>2, WorkMoves, RunType
<1>10. LeavesInOrder' /\ CutInv' /\ NobodyIsLost'
  BY <1>4, <1>6 DEF SyncInv, LeavesInOrder, CutInv, NobodyIsLost, HasLeaf
<1> QED BY <1>8, <1>9, <1>10 DEF SyncInv

\* The node is saved with its parent: the path goes on there, or is complete.
LEMMA SaveNodeStep ==
  ASSUME SyncInv, NEW r \in Run, SaveNode(r)
  PROVE  SyncInv'
<1>1. run[r].pc = "save" /\ run[r].pc \in Linked
  BY DEF SaveNode, Linked
<1>2. /\ run \in [Run -> RunRecord] /\ run[r] \in RunRecord /\ RunOk(run[r])
      /\ leaves \in Seq(Leaf) /\ Len(leaves) \in Nat /\ DOMAIN leaves = 1 .. Len(leaves)
      /\ onNet \in 0 .. MaxMembers /\ alone \in BOOLEAN /\ cut \in BOOLEAN
      /\ groupInDb \in GroupRecord \cup {NoGroup} /\ inner \subseteq (1 .. Depth) \X Nat
      /\ alone => \A q \in Run \ {r} : run[q].pc = "idle"
  BY <1>1, LinkingIs
<1>3. PICK level \in 0 .. Depth - 1, pos \in Nat, up \in 1 .. Depth, half \in Nat :
        /\ level = run[r].level /\ pos = run[r].pos
        /\ up = level + 1 /\ half = pos \div 2
  BY <1>1, LinkingIs
<1>4. alone /\ ~ cut => NoGap /\ Parented /\ \A q \in Run : WorkOk(run[q])
  BY DEF SyncInv, CutInv, PathInv
<1>5. CASE up # Depth
  <2>1. /\ run'[r] = [[[run[r] EXCEPT !.pc = "parent"] EXCEPT !.level = up] EXCEPT !.pos = half]
        /\ \A q \in Run \ {r} : run'[q] = run[q]
        /\ run' = [q \in Run |-> run'[q]]
        /\ announced' = FALSE /\ UNCHANGED <<net, groupInDb, leaves, inner, past>>
    BY <1>2, <1>3, <1>5 DEF SaveNode
  <2>2. PICK x \in RunRecord :
          /\ x = run'[r] /\ x.pc = "parent" /\ x.level = up /\ x.pos = half
          /\ x.index = run[r].index /\ x.next = run[r].next
          /\ x.members = run[r].members /\ x.record = run[r].record
    <3>1. run'[r] = [pc |-> "parent", record |-> run[r].record,
                     members |-> run[r].members, next |-> run[r].next,
                     index |-> run[r].index, level |-> up,
                     pos |-> half, changed |-> run[r].changed]
      BY <1>2, <2>1, RecordIs
    <3>2. PICK x : x = run'[r]
      OBVIOUS
    <3>3. /\ x.pc = "parent" /\ x.members = run[r].members /\ x.next = run[r].next
          /\ x.record = run[r].record /\ x.index = run[r].index
          /\ x.level = up /\ x.pos = half /\ x.changed = run[r].changed
      BY <3>1, <3>2
    <3>4. x.pc \in RunPlace /\ up \in 0 .. Depth - 1
      BY <1>5, <3>3, BoundsAssumption DEF RunPlace
    <3>5. x \in RunRecord
      BY <1>2, <3>1, <3>2, <3>3, <3>4, RecordIs, RecordMade
    <3> QED BY <3>2, <3>3, <3>5
  <2>3. run' \in [Run -> RunRecord]
    BY <1>2, <2>1, <2>2
  <2>4. /\ STypeOK' /\ RunInv' /\ AloneInv' /\ AnnounceInv'
        /\ LeavesInOrder' /\ NobodyIsLost'
    BY <1>1, <1>2, <2>1, <2>2, <2>3, LinkingStep DEF Linked
  <2>5. CutInv'
    <3> SUFFICES ASSUME alone, ~ cut PROVE PathInv'
      BY <2>1 DEF SyncInv, CutInv, past
    <3>1. \A l, p : Present(l, p)' <=> Present(l, p)
      BY <2>1 DEF Present
    <3>2. Works(run[r], up, half) /\ Works(run'[r], up, half)
      BY <1>1, <1>3, <2>2 DEF Works
    <3>3. \A l, p : Works(run[r], l, p) => l = up /\ p = half
      BY <1>1, <1>3 DEF Works
    <3>4. \A q \in Run : \A l, p : Works(run[q], l, p) => Works(run'[q], l, p)
      BY <2>1, <3>2, <3>3
    <3>5. NoGap' /\ Parented'
      <4>1. NoGap'
        BY <1>4, <3>1 DEF NoGap
      <4>2. Parented'
        BY <1>4, <2>1, <3>1, <3>4 DEF Parented, Works
      <4> QED BY <4>1, <4>2
    <3>6. ASSUME NEW q \in Run PROVE WorkOk(run[q])'
      <4>1. CASE q = r
        <5>1. <<up, half>> \in inner /\ up # 0
          BY <1>1, <1>3, <1>4 DEF WorkOk
        <5>2. Present(x.level, x.pos)'
          BY <2>1, <2>2, <5>1 DEF Present
        <5> QED BY <2>2, <4>1, <5>2 DEF WorkOk
      <4>2. CASE q # r
        BY <1>2, <2>1, <4>2 DEF WorkOk
      <4> QED BY <4>1, <4>2
    <3> QED BY <3>5, <3>6 DEF PathInv
  <2> QED BY <2>4, <2>5 DEF SyncInv
<1>6. CASE up = Depth
  <2>1. PICK n \in Nat \ {0}, m \in 1 .. Len(leaves) :
          /\ n = run[r].next /\ m = run[r].index
          /\ n <= run[r].members /\ HasLeaf(n)
    BY <1>1, <1>2, RecordIs DEF RunOk, Linked
  <2>2. PICK leaf \in Leaf :
          /\ leaf.slot = leaves[m].slot /\ leaf.index = leaves[m].index /\ leaf.linked = TRUE
          /\ leaves' = [leaves EXCEPT ![m] = leaf]
    <3>1. leaves[m] \in Leaf
      BY <1>2, <2>1, ElementOfSeq
    <3>2. leaves' = [leaves EXCEPT ![m] = [leaves[m] EXCEPT !.linked = TRUE]]
      BY <1>3, <1>6, <2>1 DEF SaveNode
    <3> QED BY <3>1, <3>2 DEF Leaf
  <2>3. /\ leaves' \in Seq(Leaf) /\ DOMAIN leaves' = DOMAIN leaves
        /\ Len(leaves') = Len(leaves)
        /\ \A k \in DOMAIN leaves \ {m} : leaves'[k] = leaves[k]
        /\ leaves'[m] = leaf
    BY <1>2, <2>1, <2>2, ExceptSeq
  <2>4. \A i \in Nat : HasLeaf(i)' <=> HasLeaf(i)
    <3>1. \A k \in DOMAIN leaves : leaves'[k].slot = leaves[k].slot
      BY <2>2, <2>3
    <3> QED BY <2>3, <3>1 DEF HasLeaf
  <2>5. /\ run'[r] = [[[[[run[r] EXCEPT !.pc = "append"] EXCEPT !.next = n + 1]
                        EXCEPT !.index = 0] EXCEPT !.level = 0] EXCEPT !.pos = 0]
        /\ \A q \in Run \ {r} : run'[q] = run[q]
        /\ run' = [q \in Run |-> run'[q]]
        /\ announced' = FALSE
        /\ UNCHANGED <<onNet, removed, groupInDb, inner, restarts, cut, alone>>
    BY <1>2, <1>3, <1>6, <2>1 DEF SaveNode, net, past
  <2>6. PICK x \in RunRecord :
          /\ x = run'[r] /\ x.pc = "append" /\ x.next = n + 1
          /\ x.members = run[r].members /\ x.record = run[r].record
    <3>1. run'[r] = [pc |-> "append", record |-> run[r].record,
                     members |-> run[r].members, next |-> n + 1,
                     index |-> 0, level |-> 0, pos |-> 0, changed |-> run[r].changed]
      BY <1>2, <2>5, RecordIs
    <3>2. PICK x : x = run'[r]
      OBVIOUS
    <3>3. /\ x.pc = "append" /\ x.members = run[r].members /\ x.next = n + 1
          /\ x.record = run[r].record /\ x.index = 0 /\ x.level = 0 /\ x.pos = 0
          /\ x.changed = run[r].changed
      BY <3>1, <3>2
    <3>4. x.pc \in RunPlace /\ n + 1 \in Nat \ {0} /\ 0 \in 0 .. Depth - 1
      BY <3>3, BoundsAssumption DEF RunPlace
    <3>5. x \in RunRecord
      BY <1>2, <3>1, <3>2, <3>3, <3>4, RecordIs, RecordMade
    <3> QED BY <3>2, <3>3, <3>5
  <2>7. STypeOK' /\ RunInv'
    <3>1. run' \in [Run -> RunRecord]
      BY <1>2, <2>5, <2>6
    <3>2. RunOk(x)'
      <4>1. \A i \in 1 .. (n + 1) - 1 : HasLeaf(i)'
        BY <1>1, <1>2, <2>1, <2>4 DEF RunOk, Linked
      <4>2. /\ x.members <= onNet' /\ n + 1 <= x.members + 1
            /\ x.record # NoGroup => groupInDb' # NoGroup
        BY <1>2, <2>1, <2>5, <2>6, RecordIs DEF RunOk, Linked
      <4> QED BY <2>6, <4>1, <4>2 DEF RunOk, Linked, HasLeaf
    <3> QED BY <1>2, <2>3, <2>4, <2>5, <2>6, <3>1, <3>2, RunMoves
  <2>8. AloneInv' /\ AnnounceInv'
    <3>1. alone => AloneOk(x)'
      BY <1>1, <2>5, <2>6, RunType DEF AloneOk, Appending
    <3>2. alone => \A k \in DOMAIN leaves' : leaves'[k].slot <= onNet
      BY <1>2, <2>2, <2>3, RunType
    <3>3. WillAnnounce(x)
      BY <2>6 DEF WillAnnounce, Appending
    <3> QED BY <1>1, <2>5, <2>6, <3>1, <3>2, <3>3, WorkMoves
  <2>9. \A k \in DOMAIN leaves :
          /\ leaves'[k].slot = leaves[k].slot /\ leaves'[k].index = leaves[k].index
          /\ leaves'[k].linked = IF k = m THEN TRUE ELSE leaves[k].linked
    BY <2>2, <2>3
  <2>10. LeavesInOrder'
    <3>1. ASSUME alone, ~ cut, NEW k \in DOMAIN leaves
          PROVE  leaves'[k].linked
                   \/ \E q \in Run : run'[q].pc \in Linked /\ run'[q].index = k
      <4>1. CASE k = m
        BY <2>9, <4>1
      <4>2. CASE k # m
        <5>1. leaves[k].linked
                \/ \E q \in Run \ {r} : run[q].pc \in Linked /\ run[q].index = k
          BY <2>1, <3>1, <4>2 DEF SyncInv, LeavesInOrder, Linking, Linked
        <5> QED BY <2>5, <2>9, <4>2, <5>1
      <4> QED BY <4>1, <4>2
    <3> QED BY <2>3, <2>5, <2>9, <3>1 DEF SyncInv, LeavesInOrder, Linking, Linked
  <2>11. CutInv'
    <3> SUFFICES ASSUME alone, ~ cut PROVE PathInv'
      BY <2>5 DEF SyncInv, CutInv
    <3>1. \A l, p : Present(l, p)' <=> Present(l, p)
      BY <2>3, <2>5, <2>9 DEF Present
    <3>2. \A l \in 0 .. Depth - 1 : \A p : ~ Works(run[r], l, p)
      BY <1>1, <1>3, <1>6, BoundsAssumption DEF Works
    <3>3. NoGap'
      BY <1>4, <3>1 DEF NoGap
    <3>4. \A q \in Run, l \in 0 .. Depth - 1 : \A p : Works(run[q], l, p) => Works(run'[q], l, p)
      BY <2>5, <3>2
    <3>5. Parented'
      <4> SUFFICES ASSUME NEW l \in 0 .. Depth - 1, NEW p \in Nat, Present(l, p)
                   PROVE  <<l + 1, p \div 2>> \in inner \/ \E q \in Run : Works(run'[q], l, p)
        BY <2>5, <3>1 DEF Parented, Works
      <4>1. <<l + 1, p \div 2>> \in inner \/ \E q \in Run : Works(run[q], l, p)
        BY <1>4 DEF Parented
      <4> QED BY <3>4, <4>1
    <3>6. ASSUME NEW q \in Run PROVE WorkOk(run[q])'
      <4>1. CASE q = r
        BY <2>6, <4>1 DEF WorkOk
      <4>2. CASE q # r
        <5>1. run'[q].pc = "idle"
          BY <1>2, <2>5, <4>2
        <5> QED BY <5>1 DEF WorkOk
      <4> QED BY <4>1, <4>2
    <3> QED BY <3>3, <3>5, <3>6 DEF PathInv
  <2>12. NobodyIsLost'
    <3>1. groupInDb # NoGroup => groupInDb.number_of_leaves \in Nat
      BY <1>2 DEF GroupRecord
    <3> QED BY <2>4, <2>5, <3>1 DEF SyncInv, NobodyIsLost, HasLeaf
  <2> QED BY <2>7, <2>8, <2>10, <2>11, <2>12 DEF SyncInv
<1> QED BY <1>5, <1>6

\* A run writes the Group document; what it counts has leaves.
LEMMA GroupStep ==
  ASSUME SyncInv, NEW r \in Run, NEW x \in RunRecord, run[r].pc \in {"appended", "removed"},
         run' \in [Run -> RunRecord], run'[r] = x,
         \A q \in Run \ {r} : run'[q] = run[q],
         UNCHANGED <<net, leaves, inner, announced, past>>,
         x.pc \in {"removed", "publish"}, x.members = run[r].members,
         x.pc = "removed" => x.record # NoGroup,
         NEW group \in GroupRecord, groupInDb' = group, group # NoGroup,
         \A i \in 1 .. group.number_of_leaves : HasLeaf(i),
         alone => x.changed
  PROVE  SyncInv'
<1>1. /\ STypeOK /\ UNCHANGED <<onNet, removed, restarts, cut, alone>>
      /\ inner \subseteq (1 .. Depth) \X Nat
      /\ run[r] \in RunRecord /\ RunOk(run[r])
      /\ announced \in BOOLEAN /\ alone \in BOOLEAN /\ leaves \in Seq(Leaf)
  BY RunType DEF SyncInv, net, past
<1>2. RunOk(x)'
  BY <1>1 DEF RunOk, Linked
<1>3. STypeOK' /\ RunInv'
  BY <1>1, <1>2, RunMoves DEF HasLeaf
<1>4. AloneInv' /\ AnnounceInv'
  <2>1. AloneOk(x)'
    BY DEF AloneOk, Appending
  <2>2. alone => WillAnnounce(x)
    BY DEF WillAnnounce
  <2> QED BY <1>1, <2>1, <2>2, WorkMoves, RunType
<1>5. LeavesInOrder' /\ CutInv'
  BY <1>1, OrderStays, PathStays DEF Linked
<1>6. NobodyIsLost'
  BY DEF NobodyIsLost, HasLeaf
<1> QED BY <1>3, <1>4, <1>5, <1>6 DEF SyncInv

LEMMA SaveGroupStep ==
  ASSUME SyncInv, NEW r \in Run, SaveGroup(r)
  PROVE  SyncInv'
<1>1. /\ run \in [Run -> RunRecord] /\ run[r] \in RunRecord /\ RunOk(run[r])
      /\ run[r].pc = "appended" /\ run[r].record = NoGroup
      /\ groupInDb \in GroupRecord \cup {NoGroup}
  BY RunType DEF SaveGroup
<1>2. PICK members \in Nat : members = run[r].members
        /\ \A i \in 1 .. members : HasLeaf(i)
  BY <1>1, RecordIs DEF RunOk, Linked
<1>3. PICK changed \in BOOLEAN : changed = (groupInDb = NoGroup)
  OBVIOUS
<1>4. /\ run'[r] = [[run[r] EXCEPT !.pc = "publish"] EXCEPT !.changed = changed]
      /\ \A q \in Run \ {r} : run'[q] = run[q]
      /\ run' = [q \in Run |-> run'[q]]
      /\ UNCHANGED <<net, leaves, inner, announced, past>>
      /\ groupInDb' = IF groupInDb # NoGroup THEN groupInDb ELSE NewGroup(members)
  BY <1>1, <1>2, <1>3 DEF SaveGroup
<1>5. PICK x \in RunRecord :
        /\ x = run'[r] /\ x.pc = "publish" /\ x.changed = changed
        /\ x.members = run[r].members
  <2>1. run'[r] = [pc |-> "publish", record |-> run[r].record,
                   members |-> run[r].members, next |-> run[r].next,
                   index |-> run[r].index, level |-> run[r].level,
                   pos |-> run[r].pos, changed |-> changed]
    BY <1>1, <1>4, RecordIs
  <2>2. PICK x : x = run'[r]
    OBVIOUS
  <2>3. /\ x.pc = "publish" /\ x.members = run[r].members /\ x.next = run[r].next
        /\ x.record = run[r].record /\ x.index = run[r].index /\ x.changed = changed
        /\ x.level = run[r].level /\ x.pos = run[r].pos
    BY <2>1, <2>2
  <2>4. x.pc \in RunPlace
    BY <2>3 DEF RunPlace
  <2>5. x \in RunRecord
    BY <1>1, <2>1, <2>2, <2>3, <2>4, RecordIs, RecordMade
  <2> QED BY <2>2, <2>3, <2>5
<1>6. run' \in [Run -> RunRecord]
  BY <1>1, <1>4, <1>5
<1>7. PICK group \in GroupRecord :
        /\ groupInDb' = group /\ group # NoGroup
        /\ \A i \in 1 .. group.number_of_leaves : HasLeaf(i)
  <2>1. CASE groupInDb # NoGroup
    BY <1>1, <1>4, <2>1 DEF SyncInv, NobodyIsLost
  <2>2. CASE groupInDb = NoGroup
    <3>1. PICK group \in GroupRecord :
            groupInDb' = group /\ group.number_of_leaves = members
      BY <1>2, <1>4, <2>2 DEF NewGroup, GroupRecord
    <3> QED BY <1>2, <3>1, GroupAssumption DEF GroupRecord
  <2> QED BY <2>1, <2>2
<1>8. alone => x.changed
  BY <1>1, <1>3, <1>5, RunType DEF AloneOk, Appending
<1> QED BY <1>1, <1>4, <1>5, <1>6, <1>7, <1>8, GroupStep

LEMMA UpdateNumberOfLeavesStep ==
  ASSUME SyncInv, NEW r \in Run, UpdateNumberOfLeaves(r)
  PROVE  SyncInv'
<1>1. /\ run \in [Run -> RunRecord] /\ run[r] \in RunRecord /\ RunOk(run[r])
      /\ run[r].pc = "appended" /\ run[r].record # NoGroup
      /\ groupInDb \in GroupRecord \cup {NoGroup}
  BY RunType DEF UpdateNumberOfLeaves
<1>2. PICK members \in Nat : members = run[r].members
        /\ \A i \in 1 .. members : HasLeaf(i)
  BY <1>1, RecordIs DEF RunOk, Linked
<1>3. PICK pc \in {"removed", "publish"} :
        run' = [run EXCEPT ![r].pc = pc, ![r].changed = TRUE]
  BY DEF UpdateNumberOfLeaves, AfterAppend
<1>4. /\ run'[r] = [[run[r] EXCEPT !.pc = pc] EXCEPT !.changed = TRUE]
      /\ \A q \in Run \ {r} : run'[q] = run[q]
      /\ run' = [q \in Run |-> run'[q]]
  BY <1>1, <1>3
<1>5. /\ UNCHANGED <<net, leaves, inner, announced, past>>
      /\ groupInDb' = [groupInDb EXCEPT !.number_of_leaves = members]
  BY <1>2 DEF UpdateNumberOfLeaves
<1>6. PICK x \in RunRecord :
        /\ x = run'[r] /\ x.pc = pc /\ x.changed = TRUE
        /\ x.members = run[r].members /\ x.record = run[r].record
  <2>1. run'[r] = [pc |-> pc, record |-> run[r].record,
                   members |-> run[r].members, next |-> run[r].next,
                   index |-> run[r].index, level |-> run[r].level,
                   pos |-> run[r].pos, changed |-> TRUE]
    BY <1>1, <1>4, RecordIs
  <2>2. PICK x : x = run'[r]
    OBVIOUS
  <2>3. /\ x.pc = pc /\ x.members = run[r].members /\ x.next = run[r].next
        /\ x.record = run[r].record /\ x.index = run[r].index /\ x.changed = TRUE
        /\ x.level = run[r].level /\ x.pos = run[r].pos
    BY <2>1, <2>2
  <2>4. x.pc \in RunPlace
    BY <2>3 DEF RunPlace
  <2>5. x \in RunRecord
    BY <1>1, <2>1, <2>2, <2>3, <2>4, RecordIs, RecordMade
  <2> QED BY <2>2, <2>3, <2>5
<1>7. run' \in [Run -> RunRecord]
  BY <1>1, <1>4, <1>6
<1>8. PICK group \in GroupRecord :
        /\ groupInDb' = group /\ group # NoGroup
        /\ \A i \in 1 .. group.number_of_leaves : HasLeaf(i)
  <2>1. groupInDb \in GroupRecord
    BY <1>1 DEF RunOk, Linked
  <2>2. PICK group \in GroupRecord :
          groupInDb' = group /\ group.number_of_leaves = members
    BY <1>2, <1>5, <2>1 DEF GroupRecord
  <2> QED BY <1>2, <2>2, GroupAssumption DEF GroupRecord
<1> QED BY <1>1, <1>4, <1>5, <1>6, <1>7, <1>8, GroupStep

LEMMA UpdateSizeStep ==
  ASSUME SyncInv, NEW r \in Run, UpdateSize(r)
  PROVE  SyncInv'
<1>1. /\ run \in [Run -> RunRecord] /\ run[r] \in RunRecord /\ RunOk(run[r])
      /\ run[r].pc = "removed" /\ run[r].members \in Nat
      /\ groupInDb \in GroupRecord \cup {NoGroup}
  BY RunType, RecordIs DEF UpdateSize
<1>2. /\ run'[r] = [[run[r] EXCEPT !.pc = "publish"] EXCEPT !.changed = TRUE]
      /\ \A q \in Run \ {r} : run'[q] = run[q]
      /\ run' = [q \in Run |-> run'[q]]
      /\ UNCHANGED <<net, leaves, inner, announced, past>>
      /\ groupInDb' = [groupInDb EXCEPT !.size = run[r].members]
  BY <1>1 DEF UpdateSize
<1>3. PICK x \in RunRecord :
        /\ x = run'[r] /\ x.pc = "publish" /\ x.changed = TRUE
        /\ x.members = run[r].members
  <2>1. run'[r] = [pc |-> "publish", record |-> run[r].record,
                   members |-> run[r].members, next |-> run[r].next,
                   index |-> run[r].index, level |-> run[r].level,
                   pos |-> run[r].pos, changed |-> TRUE]
    BY <1>1, <1>2, RecordIs
  <2>2. PICK x : x = run'[r]
    OBVIOUS
  <2>3. /\ x.pc = "publish" /\ x.members = run[r].members /\ x.next = run[r].next
        /\ x.record = run[r].record /\ x.index = run[r].index /\ x.changed = TRUE
        /\ x.level = run[r].level /\ x.pos = run[r].pos
    BY <2>1, <2>2
  <2>4. x.pc \in RunPlace
    BY <2>3 DEF RunPlace
  <2>5. x \in RunRecord
    BY <1>1, <2>1, <2>2, <2>3, <2>4, RecordIs, RecordMade
  <2> QED BY <2>2, <2>3, <2>5
<1>4. run' \in [Run -> RunRecord]
  BY <1>1, <1>2, <1>3
<1>5. PICK group \in GroupRecord :
        /\ groupInDb' = group /\ group # NoGroup
        /\ \A i \in 1 .. group.number_of_leaves : HasLeaf(i)
  <2>1. groupInDb \in GroupRecord /\ groupInDb # NoGroup
    BY <1>1 DEF RunOk, Linked
  <2>2. PICK group \in GroupRecord :
          groupInDb' = group /\ group.number_of_leaves = groupInDb.number_of_leaves
    BY <1>1, <1>2, <2>1 DEF GroupRecord
  <2>3. \A i \in 1 .. groupInDb.number_of_leaves : HasLeaf(i)
    BY <2>1 DEF SyncInv, NobodyIsLost
  <2> QED BY <2>2, <2>3, GroupAssumption DEF GroupRecord
<1> QED BY <1>1, <1>2, <1>3, <1>4, <1>5, GroupStep

LEMMA PublishStep ==
  ASSUME SyncInv, NEW r \in Run, Publish(r)
  PROVE  SyncInv'
<1>1. /\ run \in [Run -> RunRecord] /\ run[r] \in RunRecord /\ run[r].pc = "publish"
      /\ announced \in BOOLEAN /\ alone \in BOOLEAN /\ leaves \in Seq(Leaf)
      /\ groupInDb \in GroupRecord \cup {NoGroup} /\ onNet \in Nat
      /\ inner \subseteq (1 .. Depth) \X Nat
  BY RunType DEF Publish
<1>2. PICK x \in RunRecord :
        x = Idle /\ x.pc = "idle" /\ x.next = 1 /\ x.members = 0 /\ x.record = NoGroup
  BY IdleRecord
<1>3. /\ run' \in [Run -> RunRecord] /\ run'[r] = x
      /\ \A q \in Run \ {r} : run'[q] = run[q]
      /\ UNCHANGED <<onNet, removed, groupInDb, leaves, inner, restarts, cut, alone>>
      /\ announced' = (announced \/ run[r].changed) /\ announced' \in BOOLEAN
  BY <1>1, <1>2, RecordIs DEF Publish, net, past
<1>4. RunOk(x)' /\ AloneOk(x)'
  BY <1>1, <1>2, <1>3 DEF RunOk, Linked, AloneOk, Appending
<1>5. STypeOK' /\ RunInv'
  BY <1>1, <1>3, <1>4, RunMoves DEF HasLeaf
<1>6. AloneInv' /\ AnnounceInv'
  <2>1. announced \/ WillAnnounce(run[r]) => announced'
    BY <1>1, <1>3 DEF WillAnnounce, Appending
  <2> QED BY <1>1, <1>3, <1>4, <2>1, WorkMoves, RunType
<1>7. LeavesInOrder' /\ CutInv'
  BY <1>1, <1>2, <1>3, OrderStays, PathStays DEF Linked
<1>8. NobodyIsLost'
  BY <1>3 DEF SyncInv, NobodyIsLost, HasLeaf
<1> QED BY <1>5, <1>6, <1>7, <1>8 DEF SyncInv

LEMMA GetGroupsStep ==
  ASSUME SyncInv, NEW r \in Run, GetGroups(r)
  PROVE  SyncInv'
<1>1. /\ run \in [Run -> RunRecord] /\ run[r] \in RunRecord /\ RunOk(run[r])
      /\ run[r].pc = "idle" /\ leaves \in Seq(Leaf) /\ onNet \in Nat
      /\ announced \in BOOLEAN /\ alone \in BOOLEAN
      /\ groupInDb \in GroupRecord \cup {NoGroup} /\ inner \subseteq (1 .. Depth) \X Nat
  BY RunType DEF GetGroups
<1>2. PICK record : record = groupInDb
  OBVIOUS
<1>3. /\ run'[r] = [[run[r] EXCEPT !.pc = "load"] EXCEPT !.record = record]
      /\ \A q \in Run \ {r} : run'[q] = run[q]
      /\ run' = [q \in Run |-> run'[q]]
  BY <1>1, <1>2 DEF GetGroups
<1>4. /\ UNCHANGED <<onNet, removed, groupInDb, leaves, inner, announced, restarts, cut>>
      /\ alone' \in BOOLEAN
      /\ alone' => alone /\ \A q \in Run : run[q].pc = "idle"
  BY <1>1 DEF GetGroups, net
<1>5. PICK x \in RunRecord :
        /\ x = run'[r] /\ x.pc = "load" /\ x.record = groupInDb
        /\ x.members = run[r].members /\ x.next = run[r].next
  <2>1. run'[r] = [pc |-> "load", record |-> record,
                   members |-> run[r].members, next |-> run[r].next,
                   index |-> run[r].index, level |-> run[r].level,
                   pos |-> run[r].pos, changed |-> run[r].changed]
    BY <1>1, <1>3, RecordIs
  <2>2. PICK x : x = run'[r]
    OBVIOUS
  <2>3. /\ x.pc = "load" /\ x.members = run[r].members /\ x.next = run[r].next
        /\ x.record = record /\ x.index = run[r].index /\ x.changed = run[r].changed
        /\ x.level = run[r].level /\ x.pos = run[r].pos
    BY <2>1, <2>2
  <2>4. x.pc \in RunPlace
    BY <2>3 DEF RunPlace
  <2>5. x \in RunRecord
    BY <1>1, <1>2, <2>1, <2>2, <2>3, <2>4, RecordIs, RecordMade
  <2> QED BY <1>2, <2>2, <2>3, <2>5
<1>6. STypeOK' /\ RunInv'
  <2>1. run' \in [Run -> RunRecord]
    BY <1>1, <1>3, <1>5
  <2>2. RunOk(x)'
    BY <1>1, <1>4, <1>5 DEF RunOk, Linked
  <2> QED BY <1>1, <1>4, <1>5, <1>3, <2>1, <2>2, RunMoves DEF HasLeaf
<1>7. AloneInv'
  <2>1. alone' => \A q \in Run : AloneOk(run[q])'
    BY <1>3, <1>4, <1>5 DEF AloneOk, Appending
  <2> QED BY <1>3, <1>4, <2>1 DEF SyncInv, AloneInv
<1>8. AnnounceInv'
  <2>1. (\A q \in Run : run[q].pc = "idle") => \A q \in Run : ~ WillAnnounce(run[q])
    BY DEF WillAnnounce, Appending
  <2> QED BY <1>4, <2>1 DEF SyncInv, AnnounceInv
<1>9. LeavesInOrder' /\ CutInv'
  BY <1>1, <1>3, <1>4, <1>5, OrderStays, PathStays DEF Linked
<1>10. NobodyIsLost'
  BY <1>4 DEF SyncInv, NobodyIsLost, HasLeaf
<1> QED BY <1>6, <1>7, <1>8, <1>9, <1>10 DEF SyncInv

LEMMA AroundStep ==
  ASSUME SyncInv, Join \/ Leave \/ UNCHANGED svars
  PROVE  SyncInv'
<1>1. /\ onNet' \in 0 .. MaxMembers /\ onNet <= onNet' /\ removed' \in BOOLEAN
      /\ UNCHANGED <<groupInDb, leaves, inner, announced, run, restarts, cut, alone>>
  <2>1. onNet \in 0 .. MaxMembers /\ removed \in BOOLEAN /\ MaxMembers \in Nat
    BY BoundsAssumption DEF SyncInv, STypeOK
  <2>2. CASE Join
    BY <2>1, <2>2 DEF Join, past
  <2>3. CASE Leave
    BY <2>1, <2>3 DEF Leave, past
  <2>4. CASE UNCHANGED svars
    BY <2>1, <2>4 DEF svars, net, past
  <2> QED BY <2>2, <2>3, <2>4
<1>2. onNet \in Nat /\ onNet' \in Nat /\ run \in [Run -> RunRecord]
      /\ leaves \in Seq(Leaf)
  BY <1>1, BoundsAssumption DEF SyncInv, STypeOK, RunRecord, RunPlace
<1>3. STypeOK'
  BY <1>1 DEF SyncInv, STypeOK
<1>4. RunInv'
  <2>1. ASSUME NEW r \in Run PROVE RunOk(run[r])'
    <3>1. PICK x \in RunRecord : x = run[r] /\ RunOk(x)
      BY <1>2 DEF SyncInv, RunInv
    <3>2. RunOk(x)'
      BY <1>1, <1>2, <3>1, RunOkStays DEF SyncInv, HasLeaf
    <3> QED BY <1>1, <3>1, <3>2 DEF RunOk, Linked
  <2> QED BY <2>1 DEF RunInv
<1>5. AloneInv'
  <2>1. \A k \in DOMAIN leaves : leaves[k].slot \in Nat
    <3>1. \A k \in DOMAIN leaves : leaves[k] \in Leaf
      BY <1>2, LenProperties, ElementOfSeq
    <3> QED BY <3>1, BoundsAssumption DEF Leaf
  <2>2. alone => \A k \in DOMAIN leaves : leaves[k].slot <= onNet'
    BY <1>1, <1>2, <2>1 DEF SyncInv, AloneInv
  <2>3. alone => \A r \in Run : AloneOk(run[r])'
    BY <1>1 DEF SyncInv, AloneInv, AloneOk, HasLeaf
  <2> QED BY <1>1, <2>2, <2>3 DEF SyncInv, AloneInv
<1>6. AnnounceInv'
  <2>1. onNet' <= Capacity => onNet <= Capacity
    BY <1>1, <1>2, BoundsAssumption
  <2> QED BY <1>1, <2>1 DEF SyncInv, AnnounceInv, WillAnnounce
<1>7. LeavesInOrder' /\ NobodyIsLost'
  BY <1>1 DEF SyncInv, LeavesInOrder, NobodyIsLost, HasLeaf, Linking
<1>8. CutInv'
  BY <1>1 DEF SyncInv, CutInv, PathInv, NoGap, Parented, WorkOk, Present, Works
<1> QED BY <1>3, <1>4, <1>5, <1>6, <1>7, <1>8 DEF SyncInv

LEMMA RestartStep ==
  ASSUME SyncInv, Restart
  PROVE  SyncInv'
<1>1. Idle \in RunRecord /\ Idle.pc = "idle" /\ Idle.next = 1
      /\ Idle.members = 0 /\ Idle.record = NoGroup
  BY IdleRecord
<1>2. /\ run' = [r \in Run |-> Idle] /\ restarts' = restarts + 1
      /\ cut' = (cut \/ \E r \in Run : Linking(r))
      /\ UNCHANGED <<onNet, removed, groupInDb, leaves, inner, announced, alone>>
      /\ restarts < MaxRestarts
  BY DEF Restart, net
<1>3. /\ restarts \in Nat /\ restarts' # 0 /\ restarts' \in 0 .. MaxRestarts
      /\ onNet \in Nat /\ cut' \in BOOLEAN
  BY <1>2, BoundsAssumption DEF SyncInv, STypeOK
<1>4. run' \in [Run -> RunRecord] /\ \A r \in Run : run'[r] = Idle
  BY <1>1, <1>2
<1>5. STypeOK'
  BY <1>2, <1>3, <1>4 DEF SyncInv, STypeOK, RunRecord, RunPlace
<1>6. RunInv'
  BY <1>1, <1>2, <1>3, <1>4 DEF RunInv, RunOk, Linked
<1>7. AloneInv'
  <2>1. \A r \in Run : AloneOk(run[r])'
    BY <1>1, <1>4 DEF AloneOk, Appending
  <2> QED BY <1>1, <1>2, <1>4, <2>1 DEF SyncInv, AloneInv
<1>8. ~ cut' => ~ cut /\ \A r \in Run : run[r].pc \notin Linked
  BY <1>2 DEF Linking, Linked
<1>9. LeavesInOrder'
  BY <1>2, <1>8 DEF SyncInv, LeavesInOrder, Linking, Linked
<1>10. CutInv'
  <2>1. \A level, p : Present(level, p)' <=> Present(level, p)
    BY <1>2 DEF Present
  <2> SUFFICES ASSUME alone', ~ cut' PROVE PathInv'
    BY <1>3 DEF CutInv
  <2>2. PathInv /\ \A r \in Run : run[r].pc \notin Linked
    BY <1>2, <1>8 DEF SyncInv, CutInv
  <2>3. \A r \in Run : \A level, p : ~ Works(run[r], level, p)
    BY <2>2 DEF Works, Linked
  <2>4. NoGap'
    BY <2>1, <2>2 DEF PathInv, NoGap
  <2>5. Parented'
    BY <1>2, <2>1, <2>2, <2>3 DEF PathInv, Parented
  <2>6. \A r \in Run : WorkOk(run[r])'
    BY <1>1, <1>4 DEF WorkOk
  <2> QED BY <2>4, <2>5, <2>6 DEF PathInv
<1>11. AnnounceInv' /\ NobodyIsLost'
  BY <1>2, <1>3 DEF SyncInv, AnnounceInv, NobodyIsLost, HasLeaf
<1> QED BY <1>5, <1>6, <1>7, <1>9, <1>10, <1>11 DEF SyncInv

LEMMA SyncInvariant ==
  SSpec => []SyncInv
<1>1. SInit => SyncInv
  BY SyncAtStart
<1>2. SyncInv /\ [SNext]_svars => SyncInv'
  <2> SUFFICES ASSUME SyncInv, [SNext]_svars PROVE SyncInv'
    OBVIOUS
  <2>1. ASSUME NEW r \in Run, Step(r) PROVE SyncInv'
    <3>1. onNet \in 0 .. onNet /\ 0 \in 0 .. onNet
      BY RunType, BoundsAssumption
    <3>2. CASE LoadGroupMembers(r) \/ LoadNothing(r)
      BY <3>1, <3>2, LoadedStep DEF LoadGroupMembers, LoadNothing
    <3> QED
      BY <2>1, <3>2, GetGroupsStep, AppendUsersStep, UsersAppendedStep, TreeIsFullStep,
         CreateLeafStep, FindParentStep, PathBreaksStep, SaveNodeStep,
         SaveGroupStep, UpdateNumberOfLeavesStep,
         UpdateSizeStep, RemoveUsersStep, PublishStep
      DEF Step
  <2> QED BY <2>1, AroundStep, RestartStep DEF SNext
<1> QED BY <1>1, <1>2, PTL DEF SSpec

\* The documents, the list of leaves and the place of every run have their types:
\* every leaf is that of a member the group may have.
THEOREM SyncTypeCorrect ==
  SSpec => []STypeOK
<1>1. SyncInv => STypeOK
  BY DEF SyncInv
<1> QED BY <1>1, SyncInvariant, PTL

\* Every member that the Group document counts has a leaf, however many runs
\* overlap, whatever fetches fail and wherever the server is restarted.
THEOREM NobodyIsEverLost ==
  SSpec => []NobodyIsLost
<1>1. SyncInv => NobodyIsLost
  BY DEF SyncInv
<1> QED BY <1>1, SyncInvariant, PTL

\* While no two runs overlap, the leaves are numbered without gap or repetition,
\* one for each member, and only the one at work is without its path, unless a
\* restart came in the middle of one.
THEOREM LoneRunsKeepOrder ==
  SSpec => []LeavesInOrder
<1>1. SyncInv => LeavesInOrder
  BY DEF SyncInv
<1> QED BY <1>1, SyncInvariant, PTL

\* When a synchroniser that was alone rests, what it changed was announced.
THEOREM ChangesAreAnnounced ==
  SSpec => []AllAnnounced
<1>1. SyncInv => AllAnnounced
  BY DEF SyncInv, AnnounceInv, WillAnnounce, Appending, AllAnnounced
<1> QED BY <1>1, SyncInvariant, PTL

==============================================================================
