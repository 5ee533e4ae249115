-------------------------- MODULE HostReceiveProofs --------------------------
(***************************************************************************)
(* The two halves of a receive on the host, for any number of capsules,    *)
(* requests and messages: what the drain of ChatHandoff keeps through      *)
(* failures, and what the coordinator promises to manual requests.  They   *)
(* share the capsules and nothing else.                                    *)
(***************************************************************************)
EXTENDS ChatHandoff, ReceiveRequests, SequenceTheorems, FiniteSetTheorems, TLAPS

CONSTANT None

VARIABLES foreground, followUp, op, pending, recent, cooling

Coordinator == INSTANCE ReceiveCoordinator

-----------------------------------------------------------------------------
(* Sets of messages in order *)

Finite(S) == S \subseteq Nat /\ IsFiniteSet(S)

LEMMA FiniteSubset ==
  ASSUME NEW S, Finite(S), NEW T \in SUBSET S
  PROVE  /\ Finite(T) /\ Cardinality(T) \in Nat /\ Cardinality(S) \in Nat
         /\ Cardinality(T) <= Cardinality(S)
         /\ Cardinality(T) = Cardinality(S) => T = S
BY FS_Subset, FS_CardinalityType DEF Finite

Above(S, m) == {k \in S : k > m}
Below(S, m) == {k \in S : k < m}

\* Distinct messages have different numbers of newer ones, and of older ones.
LEMMA CountsDiffer ==
  ASSUME NEW S, Finite(S), NEW x \in S, NEW y \in S, x < y
  PROVE  /\ Cardinality(Above(S, y)) < Cardinality(Above(S, x))
         /\ Cardinality(Below(S, x)) < Cardinality(Below(S, y))
<1>. x \in Nat /\ y \in Nat
  BY DEF Finite
<1>1. /\ Above(S, y) \in SUBSET Above(S, x) /\ y \in Above(S, x) /\ y \notin Above(S, y)
      /\ Below(S, x) \in SUBSET Below(S, y) /\ x \in Below(S, y) /\ x \notin Below(S, x)
  <2>1. ASSUME NEW k \in S PROVE (k > y => k > x) /\ (k < x => k < y) /\ k \in Nat
    BY DEF Finite
  <2>2. y > x /\ ~(y > y) /\ ~(x < x)
    OBVIOUS
  <2> QED BY <2>1, <2>2 DEF Above, Below
<1>2. Above(S, x) \in SUBSET S /\ Below(S, y) \in SUBSET S
  BY DEF Above, Below
<1>3. Finite(Above(S, x)) /\ Finite(Below(S, y))
  BY <1>2, FiniteSubset
<1>4. /\ Cardinality(Above(S, y)) <= Cardinality(Above(S, x))
      /\ Cardinality(Above(S, y)) # Cardinality(Above(S, x))
      /\ Cardinality(Above(S, y)) \in Nat /\ Cardinality(Above(S, x)) \in Nat
  BY <1>1, <1>3, FiniteSubset
<1>5. /\ Cardinality(Below(S, x)) <= Cardinality(Below(S, y))
      /\ Cardinality(Below(S, x)) # Cardinality(Below(S, y))
      /\ Cardinality(Below(S, x)) \in Nat /\ Cardinality(Below(S, y)) \in Nat
  BY <1>1, <1>3, FiniteSubset
<1> QED BY <1>4, <1>5

\* A file bounded to its newest n records has at most n.
LEMMA NewestBounded ==
  ASSUME NEW S, Finite(S), NEW n \in Nat
  PROVE  /\ Newest(S, n) \subseteq S /\ Finite(Newest(S, n))
         /\ Cardinality(Newest(S, n)) <= n
<1>. DEFINE N == Newest(S, n)
            f == [m \in N |-> Cardinality(Above(S, m)) + 1]
<1>1. N \in SUBSET S /\ \A m \in N : Cardinality(Above(S, m)) < n
  BY DEF Newest, Above
<1>2. \A m \in S : Cardinality(Above(S, m)) \in Nat
  <2>1. \A m \in S : Above(S, m) \in SUBSET S
    BY DEF Above
  <2> QED BY <2>1, FiniteSubset
<1>3. f \in [N -> 1..n]
  BY <1>1, <1>2
<1>4. ASSUME NEW x \in N, NEW y \in N, f[x] = f[y] PROVE x = y
  <2>1. x \in S /\ y \in S /\ x \in Nat /\ y \in Nat
    BY <1>1, <1>4 DEF Finite
  <2>2. Cardinality(Above(S, x)) = Cardinality(Above(S, y))
    BY <1>2, <1>4, <2>1
  <2>3. ~(x < y)
    BY <1>2, <2>1, <2>2, CountsDiffer
  <2>4. ~(y < x)
    BY <1>2, <2>1, <2>2, CountsDiffer
  <2> QED BY <2>1, <2>3, <2>4
<1>. HIDE DEF N, f
<1>5. f \in Injection(N, 1..n)
  BY <1>3, <1>4 DEF Injection, IsInjective
<1>6. IsFiniteSet(1..n) /\ Cardinality(1..n) = n
  BY FS_Interval
<1>7. IsFiniteSet(N) /\ Cardinality(N) <= n
  BY <1>5, <1>6, FS_Injection
<1> QED BY <1>1, <1>7 DEF Finite, N


\* A set in order lists each of its messages once.
LEMMA InOrderLists ==
  ASSUME NEW S, Finite(S)
  PROVE  /\ InOrder(S) \in Seq(S) /\ Range(InOrder(S)) = S /\ IsInjective(InOrder(S))
         /\ Len(InOrder(S)) = Cardinality(S)
<1>. DEFINE n == Cardinality(S)
            f == [m \in S |-> Cardinality(Below(S, m)) + 1]
            s == InOrder(S)
<1>1. n \in Nat /\ IsFiniteSet(S) /\ S \subseteq Nat
  BY FS_CardinalityType DEF Finite
<1>2. ASSUME NEW m \in S PROVE Cardinality(Below(S, m)) \in 0..(n - 1)
  <2>1. Below(S, m) \in SUBSET S /\ Below(S, m) # S
    BY <1>1 DEF Below
  <2> QED BY <1>1, <2>1, FiniteSubset
<1>3. f \in [S -> 1..n]
  BY <1>1, <1>2
<1>4. ASSUME NEW x \in S, NEW y \in S, f[x] = f[y] PROVE x = y
  <2>1. x \in Nat /\ y \in Nat
    BY <1>1
  <2>2. Cardinality(Below(S, x)) = Cardinality(Below(S, y))
    BY <1>1, <1>2, <1>4
  <2>3. ~(x < y)
    BY <1>2, <2>1, <2>2, CountsDiffer
  <2>4. ~(y < x)
    BY <1>2, <2>1, <2>2, CountsDiffer
  <2> QED BY <2>1, <2>3, <2>4
<1>5. f \in Surjection(S, 1..n)
  <2>. HIDE DEF f, n
  <2>1. f \in Injection(S, 1..n)
    BY <1>3, <1>4 DEF Injection, IsInjective
  <2>2. IsFiniteSet(1..n) /\ Cardinality(1..n) = n
    BY <1>1, FS_Interval
  <2> QED BY <2>1, <2>2, FS_Injection DEF n
<1>6. ASSUME NEW i \in 1..n
      PROVE  s[i] \in S /\ Cardinality(Below(S, s[i])) = i - 1
  <2>1. PICK m \in S : f[m] = i
    <3>. HIDE DEF f, n
    <3> QED BY <1>5 DEF Surjection
  <2>2. Cardinality(Below(S, m)) = i - 1
    BY <1>1, <1>2, <2>1
  <2>3. s[i] = CHOOSE k \in S : Cardinality(Below(S, k)) = i - 1
    BY DEF InOrder, Below
  <2> QED BY <2>1, <2>2, <2>3
<1>7. s \in [1..n -> S]
  BY <1>6 DEF InOrder
<1>. HIDE DEF s
<1>8. s \in Seq(S) /\ Len(s) = n
  BY <1>1, <1>6, <1>7
<1>9. \A i, j \in 1..n : s[i] = s[j] => i = j
  BY <1>1, <1>6
<1>10. ASSUME NEW m \in S PROVE \E i \in 1..n : s[i] = m
  <2>1. f[m] \in 1..n /\ f[m] - 1 = Cardinality(Below(S, m))
    BY <1>1, <1>2, <1>3
  <2>2. s[f[m]] \in S /\ Cardinality(Below(S, s[f[m]])) = f[m] - 1
    BY <1>6, <2>1
  <2>3. f[s[f[m]]] = f[m]
    BY <1>1, <1>2, <2>1, <2>2
  <2> QED BY <1>4, <2>1, <2>2, <2>3
<1>11. Range(s) = S /\ IsInjective(s)
  BY <1>6, <1>7, <1>9, <1>10 DEF Range, IsInjective
<1> QED BY <1>8, <1>11 DEF s


\* append_chat_tombstones: every id given is remembered once, and none forgotten
\* unless the window is full afterwards.
LEMMA TombstonesRemember ==
  ASSUME NEW t \in Seq(Messages), IsInjective(t), Len(t) <= TombstoneCapacity,
         NEW S \in SUBSET Messages
  PROVE  /\ WithTombstones(t, S) \in Seq(Messages)
         /\ IsInjective(WithTombstones(t, S))
         /\ Range(WithTombstones(t, S)) \subseteq Range(t) \cup S
         /\ Len(WithTombstones(t, S)) <= TombstoneCapacity
         /\ \/ Range(WithTombstones(t, S)) = Range(t) \cup S
            \/ Len(WithTombstones(t, S)) = TombstoneCapacity
         /\ Len(t) = TombstoneCapacity => Len(WithTombstones(t, S)) = TombstoneCapacity
<1>. DEFINE new == InOrder(S \ Range(t))
            all == t \o new
            over == Len(all) - TombstoneCapacity
            w == WithTombstones(t, S)
<1>1. TombstoneCapacity \in Nat
  BY HandoffAssumption
<1>2. /\ new \in Seq(Messages) /\ Range(new) = S \ Range(t) /\ IsInjective(new)
  <2>1. Finite(Messages)
    BY HandoffAssumption DEF Finite
  <2>2. (S \ Range(t)) \in SUBSET Messages
    OBVIOUS
  <2>3. Finite(S \ Range(t))
    BY <2>1, <2>2, FiniteSubset
  <2>4. new \in Seq(S \ Range(t)) /\ Range(new) = S \ Range(t) /\ IsInjective(new)
    BY <2>3, InOrderLists
  <2>. HIDE DEF new
  <2>5. new \in Seq(Messages)
    BY <2>2, <2>4
  <2> QED BY <2>4, <2>5
<1>. HIDE DEF new
<1>3. /\ all \in Seq(Messages) /\ Len(all) = Len(t) + Len(new)
      /\ Len(t) \in Nat /\ Len(new) \in Nat
      /\ \A i \in 1..Len(t) : all[i] = t[i]
      /\ \A i \in (Len(t) + 1)..Len(all) : all[i] = new[i - Len(t)] /\ i - Len(t) \in 1..Len(new)
  BY <1>2
<1>4. \A i \in 1..Len(t) : t[i] \in Range(t)
  BY DEF Range
<1>5. \A i \in 1..Len(new) : new[i] \in S \ Range(t)
  <2>1. \A i \in 1..Len(new) : new[i] \in Range(new)
    BY <1>2 DEF Range
  <2> QED BY <1>2, <2>1
<1>6. \A i, j \in 1..Len(t) : t[i] = t[j] => i = j
  BY DEF IsInjective
<1>7. \A i, j \in 1..Len(new) : new[i] = new[j] => i = j
  BY <1>2 DEF IsInjective
<1>. HIDE DEF all
<1>8. ASSUME NEW i \in 1..Len(all), NEW j \in 1..Len(all), all[i] = all[j]
      PROVE  i = j
  <2>1. CASE i <= Len(t) /\ j <= Len(t)
    BY <1>3, <1>6, <1>8, <2>1
  <2>2. CASE i > Len(t) /\ j > Len(t)
    <3>1. i \in (Len(t) + 1)..Len(all) /\ j \in (Len(t) + 1)..Len(all)
      BY <1>3, <2>2
    <3>2. new[i - Len(t)] = new[j - Len(t)]
      BY <1>3, <1>8, <3>1
    <3>3. i - Len(t) = j - Len(t)
      BY <1>3, <1>7, <3>1, <3>2
    <3> QED BY <1>3, <3>3
  <2>3. CASE i <= Len(t) /\ j > Len(t)
    <3>1. i \in 1..Len(t) /\ j \in (Len(t) + 1)..Len(all)
      BY <1>3, <2>3
    <3>2. all[i] \in Range(t) /\ all[j] \notin Range(t)
      BY <1>3, <1>4, <1>5, <3>1
    <3> QED BY <1>8, <3>2
  <2>4. CASE i > Len(t) /\ j <= Len(t)
    <3>1. j \in 1..Len(t) /\ i \in (Len(t) + 1)..Len(all)
      BY <1>3, <2>4
    <3>2. all[j] \in Range(t) /\ all[i] \notin Range(t)
      BY <1>3, <1>4, <1>5, <3>1
    <3> QED BY <1>8, <3>2
  <2> QED BY <1>3, <2>1, <2>2, <2>3, <2>4
<1>9. ASSUME NEW i \in 1..Len(all) PROVE all[i] \in Range(t) \cup S
  <2>1. CASE i <= Len(t)
    BY <1>3, <1>4, <2>1
  <2>2. CASE i > Len(t)
    <3>1. i \in (Len(t) + 1)..Len(all)
      BY <1>3, <2>2
    <3> QED BY <1>3, <1>5, <3>1
  <2> QED BY <1>3, <2>1, <2>2
<1>10. CASE over > 0
  <2>1. w = SubSeq(all, over + 1, Len(all))
    BY <1>10 DEF WithTombstones, all, new
  <2>2. /\ over \in Nat /\ Len(all) = TombstoneCapacity + over
    BY <1>1, <1>3, <1>10
  <2>3. /\ w \in Seq(Messages) /\ Len(w) = TombstoneCapacity
        /\ \A i \in 1..TombstoneCapacity : w[i] = all[i + over] /\ i + over \in 1..Len(all)
    <3>. HIDE DEF over, w
    <3>1. Len(all) - (over + 1) + 1 = TombstoneCapacity
      BY <1>1, <2>2
    <3>2. over + 1 \in Int /\ 1 <= over + 1 /\ over + 1 <= Len(all) + 1
          /\ \A i \in 1..TombstoneCapacity : i + over \in 1..Len(all) /\ (over + 1) + i - 1 = i + over
      BY <1>1, <2>2
    <3> QED BY <1>3, <2>1, <3>1, <3>2, SubSeqProperties
  <2>. HIDE DEF over, w
  <2>4. \A i, j \in 1..TombstoneCapacity : w[i] = w[j] => i = j
    BY <1>1, <1>8, <2>2, <2>3
  <2>5. \A i \in 1..TombstoneCapacity : w[i] \in Range(t) \cup S
    BY <1>9, <2>3
  <2>6. DOMAIN w = 1..TombstoneCapacity
    BY <2>3
  <2>7. IsInjective(w) /\ Range(w) \subseteq Range(t) \cup S
    BY <2>4, <2>5, <2>6 DEF IsInjective, Range
  <2> QED BY <1>1, <2>3, <2>7 DEF w
<1>11. CASE ~(over > 0)
  <2>1. w = all
    BY <1>11 DEF WithTombstones, all, new
  <2>2. Len(all) <= TombstoneCapacity
    BY <1>1, <1>3, <1>11
  <2>3. IsInjective(all)
    BY <1>3, <1>8 DEF IsInjective
  <2>4. Range(all) = Range(t) \cup S
    <3>1. Range(all) \subseteq Range(t) \cup S
      BY <1>3, <1>9 DEF Range
    <3>2. ASSUME NEW m \in Range(t) PROVE m \in Range(all)
      <4>1. PICK i \in 1..Len(t) : t[i] = m
        BY <3>2 DEF Range
      <4>2. i \in 1..Len(all) /\ all[i] = m
        BY <1>3, <4>1
      <4> QED BY <1>3, <4>2 DEF Range
    <3>3. ASSUME NEW m \in S \ Range(t) PROVE m \in Range(all)
      <4>1. PICK i \in 1..Len(new) : new[i] = m
        BY <1>2, <3>3 DEF Range
      <4>2. i + Len(t) \in (Len(t) + 1)..Len(all) /\ (i + Len(t)) - Len(t) = i
        BY <1>3, <4>1
      <4>3. all[i + Len(t)] = m /\ i + Len(t) \in 1..Len(all)
        BY <1>3, <4>1, <4>2
      <4> QED BY <1>3, <4>3 DEF Range
    <3> QED BY <3>1, <3>2, <3>3
  <2> QED BY <1>1, <1>3, <2>1, <2>2, <2>3, <2>4
<1> QED BY <1>10, <1>11

-----------------------------------------------------------------------------
(* The inductive invariant *)

Phases == {"idle", "polling", "begun", "listed", "loaded", "judged", "merged", "replaced"}
DrainState ==
  [at : Phases, local : Capsules, boot : Capsules, got : SUBSET Messages,
   old : SUBSET Messages, commit : SUBSET Messages, defer : SUBSET Messages,
   terminal : SUBSET Messages]

Shapes ==
  /\ active \in Capsules
  /\ attested \in [Capsules -> BOOLEAN]
  /\ records \in [Capsules -> SUBSET Messages]
  /\ tombstones \in [Capsules -> Seq(Messages)]
  /\ deferred \in [Capsules -> SUBSET Messages]
  /\ timeline \in [Capsules -> SUBSET Messages]
  /\ drain \in [Capsules -> DrainState]
  /\ consumed \subseteq Messages /\ rejected \subseteq Messages
  /\ switches \in Nat

Bounds ==
  \A c \in Capsules :
    /\ Cardinality(records[c]) <= HandoffCapacity
    /\ Cardinality(deferred[c]) <= DeferredCapacity
    /\ Cardinality(timeline[c]) <= TimelineCapacity

\* A file remembers each event id once, either as a record or as a tombstone.
Evidence ==
  \A c \in Capsules :
    /\ IsInjective(tombstones[c]) /\ Len(tombstones[c]) <= TombstoneCapacity
    /\ records[c] \cap Range(tombstones[c]) = {}

\* The file forgets a message it consumed only out of a full window.
Recalled ==
  \A c \in Capsules :
    /\ \A m \in records[c] : To[m] = c
    /\ \A m \in consumed :
         \/ To[m] # c
         \/ m \in records[c] \cup Range(tombstones[c])
         \/ Len(tombstones[c]) = TombstoneCapacity

\* What the drain of one capsule knows at each phase, as long as it is the capsule
\* in the foreground throughout: the deferred inbox is as it was loaded until it is
\* replaced, and what was listed or loaded is on its way to a place of its own.
Knows(c, d) ==
  /\ d.at # "idle" => c = active
  /\ d.at \notin {"idle", "polling"} => d.local = c
  /\ d.at \notin {"idle", "polling", "begun"} => d.boot = c
  /\ d.at \in {"loaded", "judged", "merged"} => d.old = deferred[c]
  /\ d.at \in {"judged", "merged", "replaced"} => d.terminal = d.got \cup d.old
  /\ d.at \in {"judged", "merged"} => d.terminal \subseteq d.commit \cup d.defer \cup Strangers
  /\ d.at = "merged" => d.commit \subseteq timeline[c] \cup rejected
  /\ d.at = "replaced" =>
       d.terminal \subseteq timeline[c] \cup deferred[c] \cup rejected \cup Strangers

\* Whom no consensus can cover is never deferred.
NoStrangers ==
  \A c \in Capsules : deferred[c] \cap Strangers = {} /\ drain[c].defer \cap Strangers = {}

Untouched == switches = 0 => Kept /\ \A c \in Capsules : Knows(c, drain[c])

IInv == Shapes /\ Bounds /\ Evidence /\ Recalled /\ NoStrangers /\ Untouched

LEMMA MessagesFinite ==
  ASSUME NEW S \in SUBSET Messages
  PROVE  Finite(S)
BY HandoffAssumption, FiniteSubset DEF Finite

-----------------------------------------------------------------------------
(* Steps that write no file *)

\* Such a step has only its drain, the foreground and the counters to account for.
LEMMA QuietStep ==
  ASSUME IInv, UNCHANGED files, UNCHANGED ghosts, active' \in Capsules,
         attested' \in [Capsules -> BOOLEAN], drain' \in [Capsules -> DrainState],
         switches' \in Nat, \A c \in Capsules : drain'[c].defer \cap Strangers = {},
         switches' = 0 => switches = 0 /\ \A c \in Capsules : Knows(c, drain[c])'
  PROVE  IInv'
<1>1. /\ records' = records /\ tombstones' = tombstones /\ deferred' = deferred
      /\ timeline' = timeline /\ consumed' = consumed /\ rejected' = rejected
  BY DEF files, ghosts
<1>2. Shapes' /\ Bounds' /\ Evidence' /\ Recalled' /\ NoStrangers'
  BY <1>1 DEF IInv, Shapes, Bounds, Evidence, Recalled, NoStrangers
<1>3. Untouched'
  BY <1>1 DEF IInv, Untouched, Kept
<1> QED BY <1>2, <1>3 DEF IInv

LEMMA NoDrainShape ==
  ASSUME active \in Capsules
  PROVE  NoDrain \in DrainState /\ NoDrain.at = "idle" /\ NoDrain.defer = {}
<1>1. (CHOOSE c \in Capsules : TRUE) \in Capsules
  OBVIOUS
<1> QED BY <1>1 DEF NoDrain, DrainState, Phases

\* A capsule's drain takes a step, and the others' know what they knew.
LEMMA OneDrainMoves ==
  ASSUME IInv, NEW c \in Capsules, NEW d \in DrainState,
         UNCHANGED <<active, attested, files, switches, ghosts>>,
         drain' = [drain EXCEPT ![c] = d], d.defer \cap Strangers = {},
         switches = 0 => Knows(c, d)
  PROVE  IInv'
<1>1. /\ drain' \in [Capsules -> DrainState]
      /\ \A b \in Capsules : drain'[b] = IF b = c THEN d ELSE drain[b]
  BY DEF IInv, Shapes
<1>2. \A b \in Capsules : drain'[b].defer \cap Strangers = {}
  BY <1>1 DEF IInv, NoStrangers
<1>3. ASSUME switches' = 0, NEW b \in Capsules PROVE Knows(b, drain[b])'
  <2>1. Knows(b, drain'[b])
    BY <1>1, <1>3 DEF IInv, Untouched
  <2> QED BY <2>1 DEF Knows, files, ghosts
<1> QED BY <1>1, <1>2, <1>3, QuietStep DEF IInv, Shapes, files, ghosts

LEMMA FailsStep ==
  ASSUME IInv, NEW c \in Capsules, Fails(c)
  PROVE  IInv'
<1>1. NoDrain \in DrainState /\ NoDrain.defer = {} /\ Knows(c, NoDrain)
  BY NoDrainShape DEF IInv, Shapes, Knows
<1> QED BY <1>1, OneDrainMoves DEF Fails

LEMMA TriggerStep ==
  ASSUME IInv, NEW c \in Capsules, Trigger(c)
  PROVE  IInv'
<1>. DEFINE d == [NoDrain EXCEPT !.at = "polling"]
<1>1. d \in DrainState /\ d.at = "polling" /\ d.defer = {}
  BY NoDrainShape DEF IInv, Shapes, DrainState, Phases
<1>2. c = active /\ drain' = [drain EXCEPT ![c] = d]
      /\ UNCHANGED <<active, attested, files, switches, ghosts>>
  BY DEF Trigger, Step, counters
<1>. HIDE DEF d
<1>3. Knows(c, d)
  BY <1>1, <1>2 DEF Knows
<1> QED BY <1>1, <1>2, <1>3, OneDrainMoves

LEMMA BeginStep ==
  ASSUME IInv, NEW c \in Capsules, Begin(c)
  PROVE  IInv'
<1>. DEFINE d == [NoDrain EXCEPT !.at = "begun", !.local = active]
<1>1. d \in DrainState /\ d.at = "begun" /\ d.defer = {} /\ d.local = active
  <2>1. active \in Capsules /\ NoDrain \in DrainState /\ NoDrain.defer = {}
    BY NoDrainShape DEF IInv, Shapes
  <2> QED BY <2>1 DEF DrainState, Phases
<1>2. drain[c].at = "polling" /\ drain' = [drain EXCEPT ![c] = d]
      /\ UNCHANGED <<active, attested, files, switches, ghosts>>
  BY DEF Begin, Step, counters
<1>. HIDE DEF d
<1>3. switches = 0 => Knows(c, d)
  BY <1>1, <1>2 DEF IInv, Untouched, Knows
<1> QED BY <1>1, <1>2, <1>3, OneDrainMoves

LEMMA ListStep ==
  ASSUME IInv, NEW c \in Capsules, List(c)
  PROVE  IInv'
<1>. DEFINE e == drain[c]
            d == [e EXCEPT !.at = "listed", !.boot = active, !.got = records[active]]
<1>1. /\ d \in DrainState /\ d.at = "listed" /\ d.defer = e.defer /\ d.local = e.local
      /\ d.boot = active
  <2>1. e \in DrainState /\ active \in Capsules /\ records[active] \in SUBSET Messages
    BY DEF IInv, Shapes
  <2>. HIDE DEF e
  <2> QED BY <2>1 DEF DrainState, Phases
<1>2. e.at = "begun" /\ drain' = [drain EXCEPT ![c] = d]
      /\ UNCHANGED <<active, attested, files, switches, ghosts>>
  BY DEF List, Step, counters
<1>3. e.defer \cap Strangers = {} /\ (switches = 0 => Knows(c, e))
  BY DEF IInv, NoStrangers, Untouched
<1>. HIDE DEF d, e
<1>4. switches = 0 => Knows(c, d)
  BY <1>1, <1>2, <1>3 DEF Knows
<1> QED BY <1>1, <1>2, <1>3, <1>4, OneDrainMoves

LEMMA LoadDeferredStep ==
  ASSUME IInv, NEW c \in Capsules, LoadDeferred(c)
  PROVE  IInv'
<1>. DEFINE e == drain[c]
            d == [e EXCEPT !.at = "loaded", !.old = deferred[e.local]]
<1>1. /\ d \in DrainState /\ d.at = "loaded" /\ d.defer = e.defer /\ d.local = e.local
      /\ d.boot = e.boot /\ d.old = deferred[e.local]
  <2>1. e \in DrainState /\ deferred[e.local] \in SUBSET Messages
    BY DEF IInv, Shapes, DrainState
  <2>. HIDE DEF e
  <2> QED BY <2>1 DEF DrainState, Phases
<1>2. e.at = "listed" /\ drain' = [drain EXCEPT ![c] = d]
      /\ UNCHANGED <<active, attested, files, switches, ghosts>>
  BY DEF LoadDeferred, Step, counters
<1>3. e.defer \cap Strangers = {} /\ (switches = 0 => Knows(c, e))
  BY DEF IInv, NoStrangers, Untouched
<1>. HIDE DEF d, e
<1>4. switches = 0 => Knows(c, d)
  BY <1>1, <1>2, <1>3 DEF Knows
<1> QED BY <1>1, <1>2, <1>3, <1>4, OneDrainMoves

LEMMA JudgeStep ==
  ASSUME IInv, NEW c \in Capsules, Judge(c)
  PROVE  IInv'
<1>. DEFINE e == drain[c]
            all == e.got \cup e.old
            put == Deferred(e.got, e.old)
            d == [e EXCEPT !.at = "judged", !.commit = all \ (Strangers \cup put),
                           !.defer = put, !.terminal = all]
<1>1. e \in DrainState
  BY DEF IInv, Shapes
<1>2. put \subseteq all /\ put \cap Strangers = {}
  BY DEF Deferred
<1>. HIDE DEF put
<1>3. /\ d \in DrainState /\ d.at = "judged" /\ d.local = e.local /\ d.boot = e.boot
      /\ d.got = e.got /\ d.old = e.old /\ d.commit = all \ (Strangers \cup put)
      /\ d.defer = put /\ d.terminal = all
  <2>. HIDE DEF e
  <2> QED BY <1>1, <1>2 DEF DrainState, Phases
<1>4. e.at = "loaded" /\ drain' = [drain EXCEPT ![c] = d]
      /\ UNCHANGED <<active, attested, files, switches, ghosts>>
  BY DEF Judge, Step, counters, put
<1>5. switches = 0 => Knows(c, e)
  BY DEF IInv, Untouched
<1>. HIDE DEF d, e
<1>6. switches = 0 => Knows(c, d)
  BY <1>2, <1>3, <1>4, <1>5 DEF Knows
<1> QED BY <1>2, <1>3, <1>4, <1>6, OneDrainMoves

-----------------------------------------------------------------------------
(* Steps that write a file *)

Place(c) == records[c] \cup deferred[c] \cup timeline[c]

\* What leaves a file without another taking it is accounted for as rejected.
LEMMA KeptIfPlaced ==
  ASSUME Kept, consumed' = consumed, rejected \subseteq rejected',
         \A c \in Capsules : Place(c) \subseteq Place(c)' \cup rejected'
  PROVE  Kept'
<1>1. SUFFICES ASSUME NEW m \in consumed, m \notin rejected'
               PROVE  \E c \in Capsules : m \in Place(c)'
  BY DEF Kept, Place
<1>2. PICK c \in Capsules : m \in Place(c)
  BY <1>1 DEF Kept, Place
<1> QED BY <1>1, <1>2

\* Only the drain of the capsule in the foreground is under way.
LEMMA OthersIdle ==
  ASSUME IInv, switches = 0, NEW c \in Capsules, NEW b \in Capsules, b # c,
         drain[c].at # "idle"
  PROVE  drain[b].at = "idle"
BY DEF IInv, Untouched, Knows

LEMMA ReceiveStep ==
  ASSUME IInv, NEW m \in Messages, Receive(m)
  PROVE  IInv'
<1>. DEFINE c == To[m]
            all == records[c] \cup {m}
            kept == Newest(all, HandoffCapacity)
            evicted == all \ kept
            w == WithTombstones(tombstones[c], evicted)
<1>1. c \in Capsules /\ HandoffCapacity \in Nat /\ TombstoneCapacity \in Nat
  BY HandoffAssumption
<1>2. /\ all \in SUBSET Messages /\ evicted \in SUBSET Messages
      /\ kept \subseteq all /\ Cardinality(kept) <= HandoffCapacity
  <2>1. all \in SUBSET Messages
    BY <1>1 DEF IInv, Shapes
  <2>. HIDE DEF all
  <2>2. Finite(all)
    BY <2>1, MessagesFinite
  <2> QED BY <1>1, <2>1, <2>2, NewestBounded
<1>3. /\ w \in Seq(Messages) /\ IsInjective(w) /\ Range(w) \subseteq Range(tombstones[c]) \cup evicted
      /\ Len(w) <= TombstoneCapacity
      /\ \/ Range(w) = Range(tombstones[c]) \cup evicted
         \/ Len(w) = TombstoneCapacity
      /\ Len(tombstones[c]) = TombstoneCapacity => Len(w) = TombstoneCapacity
  <2>1. /\ tombstones[c] \in Seq(Messages) /\ IsInjective(tombstones[c])
        /\ Len(tombstones[c]) <= TombstoneCapacity
    BY <1>1 DEF IInv, Shapes, Evidence
  <2>. HIDE DEF c, evicted
  <2> QED BY <1>2, <2>1, TombstonesRemember
<1>4. /\ m \notin Range(tombstones[c])
      /\ records' = [records EXCEPT ![c] = kept]
      /\ tombstones' = [tombstones EXCEPT ![c] = w]
      /\ consumed' = consumed \cup {m} /\ rejected' = rejected \cup evicted
      /\ UNCHANGED <<active, attested, deferred, timeline, drain, switches>>
  BY DEF Receive
<1>. HIDE DEF w
<1>5. /\ records \in [Capsules -> SUBSET Messages] /\ tombstones \in [Capsules -> Seq(Messages)]
      /\ records[c] \subseteq all /\ m \in all /\ records[c] \cap Range(tombstones[c]) = {}
      /\ \A b \in Capsules : \A k \in records[b] : To[k] = b
      /\ all \subseteq kept \cup evicted /\ kept \cap evicted = {}
      /\ all \subseteq records[c] \cup {m}
  BY <1>1 DEF IInv, Shapes, Evidence, Recalled
<1>. HIDE DEF all, kept, evicted
<1>6. /\ \A b \in Capsules : records'[b] = IF b = c THEN kept ELSE records[b]
      /\ \A b \in Capsules : tombstones'[b] = IF b = c THEN w ELSE tombstones[b]
  BY <1>4, <1>5
<1>7. Shapes'
  BY <1>1, <1>2, <1>3, <1>4, <1>5 DEF IInv, Shapes
<1>8. Bounds' /\ NoStrangers'
  BY <1>2, <1>4, <1>6 DEF IInv, Bounds, NoStrangers
<1>9. Evidence'
  <2>1. kept \cap Range(w) = {}
    BY <1>2, <1>3, <1>4, <1>5
  <2> QED BY <1>3, <1>6, <2>1 DEF IInv, Evidence
<1>10. Recalled'
  <2>1. ASSUME NEW b \in Capsules, NEW k \in records'[b] PROVE To[k] = b
    <3>1. \A k1 \in kept : k1 \in records[c] \/ k1 = m
      BY <1>2, <1>5
    <3> QED BY <1>5, <1>6, <2>1, <3>1 DEF c
  <2>2. ASSUME NEW b \in Capsules, NEW k \in consumed', To[k] = b,
               Len(tombstones'[b]) # TombstoneCapacity
        PROVE  k \in records'[b] \cup Range(tombstones'[b])
    <3>1. CASE b # c
      <4>1. k \in consumed
        BY <1>4, <2>2, <3>1 DEF c
      <4> QED BY <1>6, <2>2, <3>1, <4>1 DEF IInv, Recalled
    <3>2. CASE b = c
      <4>1. /\ Len(w) # TombstoneCapacity /\ Len(tombstones[c]) # TombstoneCapacity
            /\ records'[b] = kept /\ tombstones'[b] = w
        BY <1>3, <1>6, <2>2, <3>2
      <4>2. k = m \/ k \in records[c] \cup Range(tombstones[c])
        BY <1>1, <1>4, <2>2, <3>2, <4>1 DEF IInv, Recalled
      <4>3. k \in all \cup Range(tombstones[c])
        BY <1>5, <4>2
      <4> QED BY <1>3, <1>5, <4>1, <4>3
    <3> QED BY <3>1, <3>2
  <2> QED BY <2>1, <2>2 DEF Recalled
<1>11. ASSUME switches' = 0 PROVE Kept'
  <2>1. SUFFICES ASSUME NEW k \in consumed', k \notin rejected'
                 PROVE  \E b \in Capsules : k \in Place(b)'
    BY DEF Kept, Place
  <2>2. CASE k = m
    <3>1. k \in kept
      BY <1>4, <1>5, <2>1, <2>2
    <3> QED BY <1>1, <1>6, <3>1 DEF Place
  <2>3. CASE k # m
    <3>1. k \in consumed /\ k \notin rejected /\ k \notin evicted
      BY <1>4, <2>1, <2>3
    <3>2. PICK b \in Capsules : k \in Place(b)
      BY <1>4, <1>11, <3>1 DEF IInv, Untouched, Kept, Place
    <3>3. k \in records[b] => k \in records'[b]
      BY <1>5, <1>6, <3>1
    <3> QED BY <1>4, <3>2, <3>3 DEF Place
  <2> QED BY <2>2, <2>3
<1>12. ASSUME switches' = 0, NEW b \in Capsules PROVE Knows(b, drain[b])'
  <2>1. Knows(b, drain[b]) /\ rejected \subseteq rejected'
    BY <1>4, <1>12 DEF IInv, Untouched
  <2> QED BY <1>4, <2>1 DEF Knows
<1> QED BY <1>7, <1>8, <1>9, <1>10, <1>11, <1>12 DEF IInv, Untouched

LEMMA MergeStep ==
  ASSUME IInv, NEW c \in Capsules, Merge(c)
  PROVE  IInv'
<1>. DEFINE e == drain[c]
            d == [e EXCEPT !.at = "merged"]
            x == e.boot
            all == timeline[x] \cup e.commit
            kept == Newest(all, TimelineCapacity)
<1>1. /\ TimelineCapacity \in Nat /\ x \in Capsules /\ e.commit \in SUBSET Messages
      /\ all \in SUBSET Messages /\ e \in DrainState /\ e.defer \cap Strangers = {}
      /\ timeline \in [Capsules -> SUBSET Messages]
      /\ drain \in [Capsules -> DrainState]
  BY HandoffAssumption DEF IInv, Shapes, NoStrangers, DrainState
<1>2. /\ d \in DrainState /\ d.at = "merged" /\ d.local = e.local /\ d.boot = e.boot
      /\ d.got = e.got /\ d.old = e.old /\ d.commit = e.commit /\ d.defer = e.defer
      /\ d.terminal = e.terminal
  <2>. HIDE DEF e
  <2> QED BY <1>1 DEF DrainState, Phases
<1>. HIDE DEF all
<1>3. kept \subseteq all /\ Cardinality(kept) <= TimelineCapacity
  <2>1. Finite(all)
    BY <1>1, MessagesFinite
  <2> QED BY <1>1, <2>1, NewestBounded
<1>4. /\ e.at = "judged" /\ drain' = [drain EXCEPT ![c] = d]
      /\ timeline' = [timeline EXCEPT ![x] = kept]
      /\ rejected' = rejected \cup (all \ kept)
      /\ UNCHANGED <<active, attested, records, tombstones, deferred, switches, consumed>>
  BY DEF Merge, Step, counters, all
<1>5. timeline[x] \subseteq all /\ e.commit \subseteq all
  BY DEF all
<1>6. e.at = "judged" /\ (switches = 0 => Knows(c, e))
  BY <1>4 DEF IInv, Untouched
<1>. HIDE DEF d, e, kept, x
<1>7. /\ \A b \in Capsules : drain'[b] = IF b = c THEN d ELSE drain[b]
      /\ \A b \in Capsules : timeline'[b] = IF b = x THEN kept ELSE timeline[b]
  BY <1>1, <1>4
<1>8. Shapes'
  BY <1>1, <1>2, <1>3, <1>4 DEF IInv, Shapes
<1>9. Bounds' /\ Evidence' /\ Recalled' /\ NoStrangers'
  BY <1>1, <1>2, <1>3, <1>4, <1>7 DEF IInv, Bounds, Evidence, Recalled, NoStrangers
<1>10. ASSUME switches' = 0 PROVE Kept'
  <2>1. \A b \in Capsules : Place(b) \subseteq Place(b)' \cup rejected'
    BY <1>4, <1>5, <1>7 DEF Place
  <2> QED BY <1>4, <1>10, <2>1, KeptIfPlaced DEF IInv, Untouched
<1>11. ASSUME switches' = 0, NEW b \in Capsules PROVE Knows(b, drain[b])'
  <2>1. switches = 0 /\ Knows(c, e) /\ drain[c] = e
    BY <1>4, <1>6, <1>11 DEF e
  <2>2. CASE b = c
    <3>1. drain'[b] = d /\ x = c /\ timeline'[c] = kept
      BY <1>2, <1>6, <1>7, <2>1, <2>2 DEF Knows, x
    <3>2. d.commit \subseteq timeline'[c] \cup rejected'
      BY <1>2, <1>4, <1>5, <3>1
    <3> QED BY <1>2, <1>4, <1>6, <2>1, <2>2, <3>1, <3>2 DEF Knows
  <2>3. CASE b # c
    <3>1. drain'[b].at = "idle"
      BY <1>6, <1>7, <2>1, <2>3, OthersIdle
    <3> QED BY <3>1 DEF Knows
  <2> QED BY <2>2, <2>3
<1> QED BY <1>8, <1>9, <1>10, <1>11 DEF IInv, Untouched

LEMMA ReplaceDeferredStep ==
  ASSUME IInv, NEW c \in Capsules, ReplaceDeferred(c)
  PROVE  IInv'
<1>. DEFINE e == drain[c]
            d == [e EXCEPT !.at = "replaced"]
            x == e.local
<1>1. /\ DeferredCapacity \in Nat /\ x \in Capsules /\ e.defer \in SUBSET Messages
      /\ e \in DrainState /\ e.defer \cap Strangers = {}
      /\ deferred \in [Capsules -> SUBSET Messages]
      /\ drain \in [Capsules -> DrainState]
  BY HandoffAssumption DEF IInv, Shapes, NoStrangers, DrainState
<1>2. /\ d \in DrainState /\ d.at = "replaced" /\ d.local = e.local /\ d.boot = e.boot
      /\ d.got = e.got /\ d.old = e.old /\ d.commit = e.commit /\ d.defer = e.defer
      /\ d.terminal = e.terminal
  <2>. HIDE DEF e
  <2> QED BY <1>1 DEF DrainState, Phases
<1>3. PICK kept \in SUBSET e.defer :
        /\ Cardinality(e.defer) <= DeferredCapacity => kept = e.defer
        /\ Cardinality(e.defer) > DeferredCapacity => Cardinality(kept) = DeferredCapacity
        /\ e.at = "merged" /\ drain' = [drain EXCEPT ![c] = d]
        /\ deferred' = [deferred EXCEPT ![x] = kept]
        /\ rejected' = rejected \cup (e.defer \ kept)
        /\ UNCHANGED <<active, attested, records, tombstones, timeline, switches, consumed>>
  BY DEF ReplaceDeferred, Step, counters
<1>4. Cardinality(kept) <= DeferredCapacity
  <2>1. Finite(e.defer)
    BY <1>1, MessagesFinite
  <2>2. Cardinality(e.defer) \in Nat
    BY <2>1, FiniteSubset
  <2> QED BY <1>1, <1>3, <2>2
<1>5. e.at = "merged" /\ (switches = 0 => Knows(c, e))
  BY <1>3 DEF IInv, Untouched
<1>. HIDE DEF d, e, x
<1>6. /\ \A b \in Capsules : drain'[b] = IF b = c THEN d ELSE drain[b]
      /\ \A b \in Capsules : deferred'[b] = IF b = x THEN kept ELSE deferred[b]
  BY <1>1, <1>3
<1>7. Shapes'
  BY <1>1, <1>2, <1>3 DEF IInv, Shapes
<1>8. Bounds' /\ Evidence' /\ Recalled' /\ NoStrangers'
  BY <1>1, <1>2, <1>3, <1>4, <1>6 DEF IInv, Bounds, Evidence, Recalled, NoStrangers
<1>9. ASSUME switches = 0
      PROVE  /\ x = c /\ deferred[c] \cap Strangers = {}
             /\ e.commit \subseteq timeline[c] \cup rejected
             /\ e.terminal \subseteq e.commit \cup e.defer \cup Strangers
             /\ deferred[c] \subseteq e.terminal
  BY <1>5, <1>9 DEF IInv, NoStrangers, Knows, x
<1>10. ASSUME switches' = 0 PROVE Kept'
  <2>1. switches = 0 /\ Kept
    BY <1>3, <1>10 DEF IInv, Untouched
  <2>2. ASSUME NEW b \in Capsules PROVE Place(b) \subseteq Place(b)' \cup rejected'
    <3>1. deferred[c] \subseteq timeline[c] \cup rejected \cup e.defer
      BY <1>9, <2>1
    <3>2. CASE b = x
      BY <1>3, <1>6, <1>9, <2>1, <3>1, <3>2 DEF Place
    <3>3. CASE b # x
      BY <1>3, <1>6, <3>3 DEF Place
    <3> QED BY <3>2, <3>3
  <2> QED BY <1>3, <2>1, <2>2, KeptIfPlaced
<1>11. ASSUME switches' = 0, NEW b \in Capsules PROVE Knows(b, drain[b])'
  <2>1. switches = 0 /\ Knows(c, e) /\ drain[c] = e
    BY <1>3, <1>5, <1>11 DEF e
  <2>2. CASE b = c
    <3>1. drain'[b] = d /\ deferred'[c] = kept
      BY <1>6, <1>9, <2>1, <2>2
    <3>2. d.terminal \subseteq timeline'[c] \cup deferred'[c] \cup rejected' \cup Strangers
      BY <1>2, <1>3, <1>9, <2>1, <3>1
    <3> QED BY <1>2, <1>3, <1>5, <2>1, <2>2, <3>1, <3>2 DEF Knows
  <2>3. CASE b # c
    <3>1. drain'[b].at = "idle"
      BY <1>5, <1>6, <2>1, <2>3, OthersIdle
    <3> QED BY <3>1 DEF Knows
  <2> QED BY <2>2, <2>3
<1> QED BY <1>7, <1>8, <1>10, <1>11 DEF IInv, Untouched

\* A list of ids longer than the handoff is refused.
LEMMA RefusedAckStep ==
  ASSUME IInv, NEW c \in Capsules, Ack(c), ~(Cardinality(drain[c].terminal) <= HandoffCapacity)
  PROVE  IInv'
<1>1. NoDrain \in DrainState /\ NoDrain.defer = {} /\ Knows(c, NoDrain)
  BY NoDrainShape DEF IInv, Shapes, Knows
<1>2. drain' = [drain EXCEPT ![c] = NoDrain] /\ UNCHANGED <<active, attested, files, switches, ghosts>>
  BY DEF Ack, Step, counters, files, ghosts
<1> QED BY <1>1, <1>2, OneDrainMoves

LEMMA AckStep ==
  ASSUME IInv, NEW c \in Capsules, Ack(c), Cardinality(drain[c].terminal) <= HandoffCapacity
  PROVE  IInv'
<1>. DEFINE e == drain[c]
            x == e.boot
            done == records[x] \cap e.terminal
            w == WithTombstones(tombstones[x], done)
<1>1. /\ x \in Capsules /\ e.terminal \in SUBSET Messages /\ done \in SUBSET Messages
      /\ e \in DrainState /\ drain \in [Capsules -> DrainState]
      /\ records \in [Capsules -> SUBSET Messages] /\ tombstones \in [Capsules -> Seq(Messages)]
      /\ records[x] \cap Range(tombstones[x]) = {}
  BY DEF IInv, Shapes, DrainState, Evidence
<1>2. NoDrain \in DrainState /\ NoDrain.at = "idle" /\ NoDrain.defer = {}
  BY NoDrainShape DEF IInv, Shapes
<1>3. /\ w \in Seq(Messages) /\ IsInjective(w) /\ Range(w) \subseteq Range(tombstones[x]) \cup done
      /\ Len(w) <= TombstoneCapacity
      /\ \/ Range(w) = Range(tombstones[x]) \cup done
         \/ Len(w) = TombstoneCapacity
      /\ Len(tombstones[x]) = TombstoneCapacity => Len(w) = TombstoneCapacity
  <2>1. /\ tombstones[x] \in Seq(Messages) /\ IsInjective(tombstones[x])
        /\ Len(tombstones[x]) <= TombstoneCapacity
    BY <1>1 DEF IInv, Evidence
  <2>. HIDE DEF x, done
  <2> QED BY <1>1, <2>1, TombstonesRemember
<1>4. /\ e.at = "replaced" /\ drain' = [drain EXCEPT ![c] = NoDrain]
      /\ records' = [records EXCEPT ![x] = records[x] \ e.terminal]
      /\ tombstones' = [tombstones EXCEPT ![x] = w]
      /\ rejected' = rejected \cup (e.terminal \cap Strangers)
      /\ UNCHANGED <<active, attested, deferred, timeline, switches, consumed>>
  BY DEF Ack, Step, Acknowledge, counters
<1>5. e.at = "replaced" /\ (switches = 0 => Knows(c, e))
  BY <1>4 DEF IInv, Untouched
<1>6. done \subseteq records[x] /\ done \subseteq e.terminal
      /\ records[x] \subseteq (records[x] \ e.terminal) \cup done
  OBVIOUS
<1>. HIDE DEF w, done, x, e
<1>7. /\ \A b \in Capsules : drain'[b] = IF b = c THEN NoDrain ELSE drain[b]
      /\ \A b \in Capsules : records'[b] = IF b = x THEN records[x] \ e.terminal ELSE records[b]
      /\ \A b \in Capsules : tombstones'[b] = IF b = x THEN w ELSE tombstones[b]
  BY <1>1, <1>4
<1>8. Shapes'
  BY <1>1, <1>2, <1>3, <1>4 DEF IInv, Shapes
<1>9. Bounds'
  <2>1. records[x] \in SUBSET Messages /\ Cardinality(records[x]) <= HandoffCapacity
        /\ HandoffCapacity \in Nat
    BY <1>1, HandoffAssumption DEF IInv, Bounds
  <2>2. Finite(records[x])
    BY <2>1, MessagesFinite
  <2>3. Cardinality(records[x] \ e.terminal) <= Cardinality(records[x])
        /\ Cardinality(records[x] \ e.terminal) \in Nat /\ Cardinality(records[x]) \in Nat
    BY <2>2, FiniteSubset
  <2>4. Cardinality(records[x] \ e.terminal) <= HandoffCapacity
    BY <2>1, <2>3
  <2> QED BY <1>4, <1>7, <2>4 DEF IInv, Bounds
<1>10. Evidence'
  <2>1. (records[x] \ e.terminal) \cap Range(w) = {}
    BY <1>1, <1>3, <1>6
  <2> QED BY <1>3, <1>7, <2>1 DEF IInv, Evidence
<1>11. Recalled'
  <2>1. ASSUME NEW b \in Capsules, NEW k \in records'[b] PROVE To[k] = b
    BY <1>7, <2>1 DEF IInv, Recalled
  <2>2. ASSUME NEW b \in Capsules, NEW k \in consumed', To[k] = b,
               Len(tombstones'[b]) # TombstoneCapacity
        PROVE  k \in records'[b] \cup Range(tombstones'[b])
    <3>1. CASE b # x
      BY <1>4, <1>7, <2>2, <3>1 DEF IInv, Recalled
    <3>2. CASE b = x
      <4>1. /\ Len(w) # TombstoneCapacity /\ Len(tombstones[x]) # TombstoneCapacity
            /\ records'[b] = records[x] \ e.terminal /\ tombstones'[b] = w
        BY <1>3, <1>7, <2>2, <3>2
      <4>2. k \in records[x] \cup Range(tombstones[x])
        BY <1>4, <2>2, <3>2, <4>1 DEF IInv, Recalled
      <4> QED BY <1>3, <1>6, <4>1, <4>2
    <3> QED BY <3>1, <3>2
  <2> QED BY <2>1, <2>2 DEF Recalled
<1>12. NoStrangers'
  BY <1>2, <1>4, <1>7 DEF IInv, NoStrangers
<1>13. ASSUME switches' = 0 PROVE Kept'
  <2>1. switches = 0 /\ Kept /\ Knows(c, e)
    BY <1>4, <1>5, <1>13 DEF IInv, Untouched
  <2>2. x = c /\ e.terminal \subseteq timeline[c] \cup deferred[c] \cup rejected \cup Strangers
    BY <1>5, <2>1 DEF Knows, x
  <2>3. e.terminal \subseteq timeline[x] \cup deferred[x] \cup rejected'
    BY <1>4, <2>2
  <2>4. ASSUME NEW b \in Capsules PROVE Place(b) \subseteq Place(b)' \cup rejected'
    <3>1. CASE b = x
      <4>1. records[x] \subseteq (records[x] \ e.terminal) \cup e.terminal
        OBVIOUS
      <4>2. records'[x] = records[x] \ e.terminal
        BY <1>1, <1>7
      <4> QED BY <1>4, <2>3, <3>1, <4>1, <4>2 DEF Place
    <3>2. CASE b # x
      BY <1>4, <1>7, <3>2 DEF Place
    <3> QED BY <3>1, <3>2
  <2> QED BY <1>4, <2>1, <2>4, KeptIfPlaced
<1>14. ASSUME switches' = 0, NEW b \in Capsules PROVE Knows(b, drain[b])'
  <2>1. switches = 0 /\ Knows(c, e) /\ drain[c] = e
    BY <1>4, <1>5, <1>14 DEF e
  <2>2. drain'[b].at = "idle"
    <3>1. CASE b = c
      BY <1>2, <1>7, <3>1
    <3>2. CASE b # c
      BY <1>5, <1>7, <2>1, <3>2, OthersIdle
    <3> QED BY <3>1, <3>2
  <2> QED BY <2>2 DEF Knows
<1> QED BY <1>8, <1>9, <1>10, <1>11, <1>12, <1>13, <1>14 DEF IInv, Untouched

-----------------------------------------------------------------------------
(* The user and the pairs *)

\* A switch between drains is not counted: every drain is idle then.
LEMMA SwitchStep ==
  ASSUME IInv, NEW c \in Capsules, Switch(c)
  PROVE  IInv'
<1>1. active' = c /\ UNCHANGED <<attested, files, drain, ghosts>>
  BY DEF Switch
<1>2. /\ switches' \in Nat
      /\ switches' = 0 => switches = 0 /\ \A b \in Capsules : drain[b].at = "idle"
  BY DEF Switch, IInv, Shapes
<1>3. attested' \in [Capsules -> BOOLEAN] /\ drain' \in [Capsules -> DrainState]
      /\ \A b \in Capsules : drain'[b].defer \cap Strangers = {}
  BY <1>1 DEF IInv, Shapes, NoStrangers
<1>4. ASSUME switches' = 0, NEW b \in Capsules PROVE Knows(b, drain[b])'
  BY <1>1, <1>2, <1>4 DEF Knows
<1> QED BY <1>1, <1>2, <1>3, <1>4, QuietStep

LEMMA AttestStep ==
  ASSUME IInv, NEW c \in Capsules, Attest(c)
  PROVE  IInv'
<1>1. UNCHANGED <<active, files, drain, switches, ghosts>>
  BY DEF Attest
<1>2. /\ active' \in Capsules /\ attested' \in [Capsules -> BOOLEAN] /\ switches' \in Nat
      /\ drain' \in [Capsules -> DrainState]
      /\ \A b \in Capsules : drain'[b].defer \cap Strangers = {}
  BY <1>1 DEF Attest, IInv, Shapes, NoStrangers
<1>3. ASSUME switches' = 0, NEW b \in Capsules PROVE Knows(b, drain[b])'
  BY <1>1, <1>3 DEF IInv, Untouched, Knows, files, ghosts
<1> QED BY <1>1, <1>2, <1>3, QuietStep

LEMMA CrashStep ==
  ASSUME IInv, Crash
  PROVE  IInv'
<1>1. UNCHANGED <<active, attested, files, switches, ghosts>>
      /\ drain' = [b \in Capsules |-> NoDrain]
  BY DEF Crash
<1>2. NoDrain \in DrainState /\ NoDrain.at = "idle" /\ NoDrain.defer = {}
  BY NoDrainShape DEF IInv, Shapes
<1>3. /\ active' \in Capsules /\ attested' \in [Capsules -> BOOLEAN] /\ switches' \in Nat
      /\ drain' \in [Capsules -> DrainState]
      /\ \A b \in Capsules : drain'[b].at = "idle" /\ drain'[b].defer \cap Strangers = {}
  BY <1>1, <1>2 DEF IInv, Shapes
<1>4. ASSUME switches' = 0, NEW b \in Capsules PROVE Knows(b, drain[b])'
  BY <1>3 DEF Knows
<1> QED BY <1>1, <1>3, <1>4, QuietStep

-----------------------------------------------------------------------------
(* The theorems *)

LEMMA Initially == Init => IInv
<1>. SUFFICES ASSUME Init PROVE IInv
  OBVIOUS
<1>1. NoDrain \in DrainState /\ NoDrain.at = "idle" /\ NoDrain.defer = {}
  BY NoDrainShape DEF Init
<1>2. IsFiniteSet({}) /\ Cardinality({}) = 0
  BY FS_EmptySet
<1>3. \A n \in {HandoffCapacity, TombstoneCapacity, DeferredCapacity, TimelineCapacity} :
        n \in Nat /\ 0 <= n
  BY HandoffAssumption
<1>4. <<>> \in Seq(Messages) /\ Len(<<>>) = 0 /\ IsInjective(<<>>)
  BY DEF IsInjective
<1>5. Shapes
  BY <1>1, <1>4 DEF Init, Shapes
<1>6. Bounds /\ Evidence /\ Recalled /\ NoStrangers
  BY <1>1, <1>2, <1>3, <1>4 DEF Init, Bounds, Evidence, Recalled, NoStrangers
<1>7. Untouched
  BY <1>1 DEF Init, Untouched, Kept, Knows
<1> QED BY <1>5, <1>6, <1>7 DEF IInv

LEMMA Inductive == IInv /\ [Next]_vars => IInv'
<1>. SUFFICES ASSUME IInv, [Next]_vars PROVE IInv'
  OBVIOUS
<1>1. ASSUME NEW m \in Messages, Receive(m) PROVE IInv'
  BY <1>1, ReceiveStep
<1>2. ASSUME NEW c \in Capsules, Drain(c) PROVE IInv'
  BY <1>2, TriggerStep, BeginStep, ListStep, LoadDeferredStep, JudgeStep, MergeStep,
     ReplaceDeferredStep, RefusedAckStep, AckStep DEF Drain
<1>3. ASSUME NEW c \in Capsules, Fails(c) PROVE IInv'
  BY <1>3, FailsStep
<1>4. ASSUME NEW c \in Capsules, Switch(c) PROVE IInv'
  BY <1>4, SwitchStep
<1>5. ASSUME NEW c \in Capsules, Attest(c) PROVE IInv'
  BY <1>5, AttestStep
<1>6. ASSUME Crash PROVE IInv'
  BY <1>6, CrashStep
<1>7. CASE UNCHANGED vars
  <2>1. /\ UNCHANGED files /\ UNCHANGED ghosts
        /\ UNCHANGED <<active, attested, drain, switches>>
    BY <1>7 DEF vars, files, ghosts
  <2>2. /\ active' \in Capsules /\ attested' \in [Capsules -> BOOLEAN] /\ switches' \in Nat
        /\ drain' \in [Capsules -> DrainState]
        /\ \A b \in Capsules : drain'[b].defer \cap Strangers = {}
    BY <2>1 DEF IInv, Shapes, NoStrangers
  <2>3. ASSUME switches' = 0, NEW b \in Capsules PROVE Knows(b, drain[b])'
    BY <2>1, <2>3 DEF IInv, Untouched, Knows, files, ghosts
  <2> QED BY <2>1, <2>2, <2>3, QuietStep
<1> QED BY <1>1, <1>2, <1>3, <1>4, <1>5, <1>6, <1>7 DEF Next

LEMMA Invariance == Spec => []IInv
BY Initially, Inductive, PTL DEF Spec

\* The files of every capsule stay within their bounds, and an event id is either
\* waiting in the handoff file or a tombstone of it, never both.
THEOREM ChatTypeCorrect == Spec => []TypeOK
<1>1. IInv => TypeOK
  <2>. SUFFICES ASSUME IInv PROVE TypeOK
    OBVIOUS
  <2>1. \A c \in Capsules : Range(tombstones[c]) \subseteq Messages
    BY DEF IInv, Shapes, Range
  <2>2. \A c \in Capsules : drain[c].at \in Phases
    BY DEF IInv, Shapes, DrainState
  <2> QED BY <2>1, <2>2 DEF TypeOK, IInv, Shapes, Bounds, Evidence, Phases
<1> QED BY <1>1, Invariance, PTL

\* However drains fail and processes die between the writes of chat_api.rs and of
\* the inboxes, a message taken over stays in one of the three files unless a
\* policy or a bound removed it, as long as no drain saw its capsule replaced.
THEOREM KeepsMessages == Spec => []NothingLost
<1>1. IInv => NothingLost
  BY DEF IInv, Untouched, NothingLost
<1> QED BY <1>1, Invariance, PTL

\* Only a full window of tombstones lets the handoff take the same envelope again.
THEOREM TakenOnce == Spec => StaysConsumed
<1>1. ASSUME IInv, [Next]_vars, NEW c \in Capsules, NEW m \in records'[c] \ records[c],
             m \in consumed
      PROVE  Len(tombstones[c]) = TombstoneCapacity
  <2>1. CASE \E k \in Messages : Receive(k)
    <3>1. PICK k \in Messages : Receive(k)
      BY <2>1
    <3>2. To[k] \in Capsules /\ records \in [Capsules -> SUBSET Messages]
      BY <1>1, <3>1, HandoffAssumption DEF IInv, Shapes
    <3>3. c = To[k] /\ m \in Newest(records[To[k]] \cup {k}, HandoffCapacity)
      BY <1>1, <3>1, <3>2 DEF Receive
    <3>4. m = k /\ m \notin records[c] /\ m \notin Range(tombstones[c])
      BY <1>1, <3>1, <3>3 DEF Receive, Newest
    <3> QED BY <1>1, <3>3, <3>4 DEF IInv, Recalled
  <2>2. CASE \E b \in Capsules : Ack(b)
    <3>1. PICK b \in Capsules : Ack(b)
      BY <2>2
    <3>2. /\ \/ records' = [records EXCEPT ![drain[b].boot] = @ \ drain[b].terminal]
             \/ records' = records
          /\ records \in [Capsules -> SUBSET Messages]
      BY <1>1, <3>1 DEF Ack, Acknowledge, IInv, Shapes
    <3>3. records'[c] \subseteq records[c]
      BY <3>2
    <3> QED BY <1>1, <3>3
  <2>3. CASE records' = records
    BY <1>1, <2>3
  <2> QED BY <1>1, <2>1, <2>2, <2>3
       DEF Next, Drain, Trigger, Begin, List, LoadDeferred, Judge, Merge, ReplaceDeferred,
           Fails, Switch, Attest, Crash, files, vars
<1>2. IInv /\ [Next]_vars =>
        \A c \in Capsules : \A m \in records'[c] \ records[c] :
          m \in consumed => Len(tombstones[c]) = TombstoneCapacity
  BY <1>1
<1> QED BY <1>2, Invariance, PTL DEF Spec, StaysConsumed

-----------------------------------------------------------------------------
(* The coordinator *)

Ops == [at : {"idle", "fetching", "polling", "draining"}, manual : BOOLEAN,
        polled : BOOLEAN, waiters : SUBSET Requests]

Timers ==
  /\ foreground \in Capsules \cup {None} /\ followUp \in Capsules \cup {None}
  /\ followUp # None => followUp = foreground
  /\ recent \in [Capsules -> BOOLEAN] /\ cooling \in [Capsules -> BOOLEAN]

QueueShapes ==
  /\ op \in [Capsules -> Ops] /\ pending \in [Capsules -> SUBSET Requests]
  /\ request \in [Requests -> [manual : BOOLEAN,
                               status : {"none", "waiting", "polled", "skipped"}]]

Of(c) == op[c].waiters \cup pending[c]

\* What TypeOK says of the operations.
Placed ==
  \A c \in Capsules :
    /\ op[c].at = "idle" => op[c] = Coordinator!NoOperation /\ pending[c] = {}
    /\ op[c].manual => pending[c] = {}
    /\ op[c].waiters \cap pending[c] = {}

Waiting ==
  \A r \in Requests : request[r].status = "waiting" <=> \E c \in Capsules : r \in Of(c)

\* ManualIsPolled is not inductive.  It is once a manual request never waits in
\* an automatic receive, a manual receive never gets past its poll without it,
\* and no request waits for two capsules.
Manual ==
  /\ \A c, d \in Capsules : c # d => Of(c) \cap Of(d) = {}
  /\ \A c \in Capsules : \A r \in pending[c] : request[r].manual
  /\ \A c \in Capsules : \A r \in op[c].waiters : request[r].manual => op[c].manual
  /\ \A c \in Capsules : op[c].manual /\ op[c].at = "draining" => op[c].polled

Queues == QueueShapes /\ Placed /\ Waiting /\ Manual /\ ManualIsPolled

Settled == Timers /\ Queues

LEMMA OperationShape ==
  ASSUME NEW manual \in BOOLEAN, NEW who \in SUBSET Requests
  PROVE  /\ Coordinator!Operation(manual, who) \in Ops
         /\ Coordinator!Operation(manual, who).at = "fetching"
         /\ Coordinator!Operation(manual, who).manual = manual
         /\ Coordinator!Operation(manual, who).polled = FALSE
         /\ Coordinator!Operation(manual, who).waiters = who
BY DEF Coordinator!Operation, Ops

LEMMA NoOperationShape ==
  /\ Coordinator!NoOperation \in Ops /\ Coordinator!NoOperation.at = "idle"
  /\ Coordinator!NoOperation.manual = FALSE /\ Coordinator!NoOperation.polled = FALSE
  /\ Coordinator!NoOperation.waiters = {}
BY DEF Coordinator!NoOperation, Coordinator!Operation, Ops

\* The three outcomes of run: a new receive, a request that joins, a request
\* that waits.  What is new is who, and who waits nowhere yet.
LEMMA RunEffect ==
  ASSUME Queues, NEW c \in Capsules, NEW manual \in BOOLEAN, NEW who \in SUBSET Requests,
         Coordinator!Run(c, manual, who)
  PROVE  /\ op' \in [Capsules -> Ops] /\ pending' \in [Capsules -> SUBSET Requests]
         /\ \A d \in Capsules : d # c => op'[d] = op[d] /\ pending'[d] = pending[d]
         /\ Of(c)' = Of(c) \cup who
         /\ \/ /\ op[c].at = "idle" /\ op'[c] = Coordinator!Operation(manual, who)
               /\ pending'[c] = {} /\ pending[c] = {}
            \/ /\ op[c].at # "idle" /\ op'[c] = [op[c] EXCEPT !.waiters = @ \cup who]
               /\ ~manual \/ op[c].manual
               /\ pending'[c] = pending[c]
            \/ /\ op[c].at # "idle" /\ op'[c] = op[c] /\ manual /\ ~op[c].manual
               /\ pending'[c] = pending[c] \cup who
<1>1. /\ op \in [Capsules -> Ops] /\ pending \in [Capsules -> SUBSET Requests]
      /\ op[c] \in Ops /\ pending[c] \subseteq Requests
      /\ op[c].at = "idle" => op[c] = Coordinator!NoOperation /\ pending[c] = {}
  BY DEF Queues, QueueShapes, Placed
<1>2. CASE op[c].at = "idle"
  <2>1. op' = [op EXCEPT ![c] = Coordinator!Operation(manual, who)] /\ pending' = pending
    BY <1>2 DEF Coordinator!Run
  <2>2. op[c].waiters = {} /\ pending[c] = {}
    BY <1>1, <1>2, NoOperationShape
  <2>3. op'[c] = Coordinator!Operation(manual, who) 
        /\ Coordinator!Operation(manual, who).waiters = who
    BY <1>1, <2>1, OperationShape
  <2>4. Of(c)' = Of(c) \cup who
    BY <2>1, <2>2, <2>3 DEF Of
  <2>5. op' \in [Capsules -> Ops] /\ \A d \in Capsules : d # c => op'[d] = op[d]
    BY <1>1, <2>1, OperationShape
  <2> QED BY <1>1, <1>2, <2>1, <2>2, <2>3, <2>4, <2>5
<1>3. CASE op[c].at # "idle" /\ (~manual \/ op[c].manual)
  <2>1. op' = [op EXCEPT ![c].waiters = @ \cup who] /\ pending' = pending
    BY <1>3 DEF Coordinator!Run
  <2>2. op'[c] = [op[c] EXCEPT !.waiters = @ \cup who]
    BY <1>1, <2>1
  <2>3. [op[c] EXCEPT !.waiters = @ \cup who] \in Ops
        /\ [op[c] EXCEPT !.waiters = @ \cup who].waiters = op[c].waiters \cup who
    BY <1>1 DEF Ops
  <2>4. Of(c)' = Of(c) \cup who
    BY <2>1, <2>2, <2>3 DEF Of
  <2>5. op' \in [Capsules -> Ops] /\ \A d \in Capsules : d # c => op'[d] = op[d]
    BY <1>1, <2>1, <2>3
  <2> QED BY <1>1, <1>3, <2>1, <2>2, <2>4, <2>5
<1>4. CASE op[c].at # "idle" /\ manual /\ ~op[c].manual
  <2>1. op' = op /\ pending' = [pending EXCEPT ![c] = @ \cup who]
    BY <1>4 DEF Coordinator!Run
  <2>2. Of(c)' = Of(c) \cup who
    BY <1>1, <2>1 DEF Of
  <2> QED BY <1>1, <1>4, <2>1, <2>2
<1> QED BY <1>2, <1>3, <1>4

\* A timer asks for nobody, so no request changes.
LEMMA TimerRuns ==
  ASSUME Queues, NEW c \in Capsules, Coordinator!Run(c, FALSE, {}), request' = request
  PROVE  Queues'
<1>1. /\ op' \in [Capsules -> Ops] /\ pending' \in [Capsules -> SUBSET Requests]
      /\ \A d \in Capsules : d # c => op'[d] = op[d] /\ pending'[d] = pending[d]
      /\ Of(c)' = Of(c)
      /\ \/ op[c].at = "idle" /\ op'[c] = Coordinator!Operation(FALSE, {})
            /\ pending'[c] = {} /\ pending[c] = {}
         \/ op[c].at # "idle" /\ op'[c] = op[c] /\ pending'[c] = pending[c]
  <2>1. op[c] \in Ops /\ [op[c] EXCEPT !.waiters = @ \cup {}] = op[c]
    BY DEF Queues, QueueShapes, Ops
  <2>2. {} \in SUBSET Requests /\ FALSE \in BOOLEAN
    OBVIOUS
  <2>3. /\ op' \in [Capsules -> Ops] /\ pending' \in [Capsules -> SUBSET Requests]
        /\ \A d \in Capsules : d # c => op'[d] = op[d] /\ pending'[d] = pending[d]
        /\ Of(c)' = Of(c) \cup {}
        /\ \/ /\ op[c].at = "idle" /\ op'[c] = Coordinator!Operation(FALSE, {})
              /\ pending'[c] = {} /\ pending[c] = {}
           \/ /\ op[c].at # "idle" /\ op'[c] = [op[c] EXCEPT !.waiters = @ \cup {}]
              /\ pending'[c] = pending[c]
    BY <2>2, RunEffect, Zenon
  <2>4. Of(c)' = Of(c)
    BY <2>3
  <2> QED BY <2>1, <2>3, <2>4
<1>2. QueueShapes'
  BY <1>1 DEF Queues, QueueShapes
<1>. DEFINE new == Coordinator!Operation(FALSE, {})
<1>3. /\ new \in Ops /\ new.at = "fetching" /\ new.manual = FALSE /\ new.waiters = {}
  BY OperationShape
<1>. HIDE DEF new
<1>4. Placed'
  <2> SUFFICES ASSUME NEW d \in Capsules
               PROVE  /\ op'[d].at = "idle" => op'[d] = Coordinator!NoOperation /\ pending'[d] = {}
                      /\ op'[d].manual => pending'[d] = {}
                      /\ op'[d].waiters \cap pending'[d] = {}
    BY DEF Placed, Coordinator!NoOperation, Coordinator!Operation
  <2>1. /\ op[d].at = "idle" => op[d] = Coordinator!NoOperation /\ pending[d] = {}
        /\ op[d].manual => pending[d] = {}
        /\ op[d].waiters \cap pending[d] = {}
    BY DEF Queues, Placed
  <2>2. \/ op'[d] = op[d] /\ pending'[d] = pending[d]
        \/ op'[d] = new /\ pending'[d] = {}
    BY <1>1 DEF new
  <2> QED BY <1>3, <2>1, <2>2
<1>5. \A d \in Capsules : Of(d)' = Of(d)
  BY <1>1 DEF Of
<1>6. Waiting'
  BY <1>5 DEF Queues, Waiting
<1>7. Manual'
  <2>1. \A d, e \in Capsules : d # e => Of(d)' \cap Of(e)' = {}
    BY <1>5 DEF Queues, Manual
  <2>2. \A d \in Capsules :
          /\ \A r \in pending'[d] : request[r].manual
          /\ \A r \in op'[d].waiters : request[r].manual => op'[d].manual
          /\ op'[d].manual /\ op'[d].at = "draining" => op'[d].polled
    BY <1>1, <1>3 DEF Queues, Manual, new
  <2> QED BY <2>1, <2>2 DEF Manual
<1> QED BY <1>2, <1>4, <1>6, <1>7 DEF Queues, ManualIsPolled

\* A screen asks: the request was nowhere and waits for c from now on.
LEMMA RequestRuns ==
  ASSUME Queues, NEW c \in Capsules, NEW r \in Requests, NEW manual \in BOOLEAN,
         Coordinator!Request(r, c, manual)
  PROVE  Queues'
<1>1. /\ request[r].status = "none" /\ Coordinator!Run(c, manual, {r})
      /\ request' = [request EXCEPT ![r] = [manual |-> manual, status |-> "waiting"]]
  BY DEF Coordinator!Request
<1>. DEFINE new == Coordinator!Operation(manual, {r})
<1>2. {r} \in SUBSET Requests
  OBVIOUS
<1>3. /\ new \in Ops /\ new.at = "fetching" /\ new.manual = manual /\ new.waiters = {r}
  BY <1>2, OperationShape
<1>. HIDE DEF new
<1>4. /\ op' \in [Capsules -> Ops] /\ pending' \in [Capsules -> SUBSET Requests]
      /\ \A d \in Capsules : d # c => op'[d] = op[d] /\ pending'[d] = pending[d]
      /\ Of(c)' = Of(c) \cup {r}
      /\ \/ /\ op[c].at = "idle" /\ op'[c] = new
            /\ pending'[c] = {} /\ pending[c] = {}
         \/ /\ op[c].at # "idle" /\ op'[c] = [op[c] EXCEPT !.waiters = @ \cup {r}]
            /\ ~manual \/ op[c].manual
            /\ pending'[c] = pending[c]
         \/ /\ op[c].at # "idle" /\ op'[c] = op[c] /\ manual /\ ~op[c].manual
            /\ pending'[c] = pending[c] \cup {r}
  BY <1>1, <1>2, RunEffect DEF new
<1>5. /\ op[c] \in Ops
      /\ [op[c] EXCEPT !.waiters = @ \cup {r}] \in Ops
      /\ [op[c] EXCEPT !.waiters = @ \cup {r}].waiters = op[c].waiters \cup {r}
      /\ [op[c] EXCEPT !.waiters = @ \cup {r}].at = op[c].at
      /\ [op[c] EXCEPT !.waiters = @ \cup {r}].manual = op[c].manual
      /\ [op[c] EXCEPT !.waiters = @ \cup {r}].polled = op[c].polled
  BY DEF Queues, QueueShapes, Ops
<1>6. /\ request'[r].manual = manual /\ request'[r].status = "waiting"
      /\ \A q \in Requests : q # r => request'[q] = request[q]
  BY <1>1 DEF Queues, QueueShapes
<1>7. \A d \in Capsules : r \notin Of(d)
  BY <1>1 DEF Queues, Waiting
<1>8. \A d \in Capsules : d # c => Of(d)' = Of(d)
  BY <1>4 DEF Of
<1>9. QueueShapes'
  BY <1>1, <1>4 DEF Queues, QueueShapes
<1>10. Placed'
  <2> SUFFICES ASSUME NEW d \in Capsules
               PROVE  /\ op'[d].at = "idle" => op'[d] = Coordinator!NoOperation /\ pending'[d] = {}
                      /\ op'[d].manual => pending'[d] = {}
                      /\ op'[d].waiters \cap pending'[d] = {}
    BY DEF Placed, Coordinator!NoOperation, Coordinator!Operation
  <2>1. /\ op[d].at = "idle" => op[d] = Coordinator!NoOperation /\ pending[d] = {}
        /\ op[d].manual => pending[d] = {}
        /\ op[d].waiters \cap pending[d] = {}
    BY DEF Queues, Placed
  <2>2. CASE d # c
    BY <1>4, <2>1, <2>2
  <2>3. CASE d = c
    <3>1. r \notin op[c].waiters /\ r \notin pending[c]
      BY <1>7 DEF Of
    <3> QED BY <1>3, <1>4, <1>5, <2>1, <2>3, <3>1
  <2> QED BY <2>2, <2>3
<1>11. Waiting'
  <2>1. \A q \in Requests : q # r =>
          ((\E d \in Capsules : q \in Of(d)') <=> \E d \in Capsules : q \in Of(d))
    BY <1>4, <1>8
  <2> QED BY <1>4, <1>6, <2>1 DEF Queues, Waiting
<1>12. Manual'
  <2>1. \A d, e \in Capsules : d # e => Of(d)' \cap Of(e)' = {}
    BY <1>4, <1>7, <1>8 DEF Queues, Manual
  <2>2. ASSUME NEW d \in Capsules
        PROVE  /\ \A q \in pending'[d] : request'[q].manual
               /\ \A q \in op'[d].waiters : request'[q].manual => op'[d].manual
               /\ op'[d].manual /\ op'[d].at = "draining" => op'[d].polled
    <3>1. /\ \A q \in pending[d] : q # r /\ request[q].manual
          /\ \A q \in op[d].waiters : q # r /\ (request[q].manual => op[d].manual)
          /\ op[d].manual /\ op[d].at = "draining" => op[d].polled
      BY <1>7 DEF Queues, Manual, Of
    <3>2. pending[d] \subseteq Requests /\ op[d].waiters \subseteq Requests
      BY DEF Queues, QueueShapes, Ops
    <3>3. CASE d # c
      BY <1>4, <1>6, <3>1, <3>2, <3>3
    <3>4. CASE d = c
      <4>1. CASE op'[c] = new /\ pending'[c] = {}
        BY <1>3, <1>6, <3>4, <4>1
      <4>2. CASE /\ op'[c] = [op[c] EXCEPT !.waiters = @ \cup {r}]
                 /\ ~manual \/ op[c].manual
                 /\ pending'[c] = pending[c]
        BY <1>5, <1>6, <3>1, <3>2, <3>4, <4>2
      <4>3. CASE op'[c] = op[c] /\ manual /\ pending'[c] = pending[c] \cup {r}
        BY <1>6, <3>1, <3>2, <3>4, <4>3
      <4> QED BY <1>4, <4>1, <4>2, <4>3
    <3> QED BY <3>3, <3>4
  <2> QED BY <2>1, <2>2 DEF Manual
<1>13. ManualIsPolled'
  BY <1>6 DEF Queues, ManualIsPolled
<1> QED BY <1>9, <1>10, <1>11, <1>12, <1>13 DEF Queues

\* The receive goes on to its poll or past it; who waits is not touched.
LEMMA PollStep ==
  ASSUME Queues, NEW c \in Capsules, Coordinator!Ingress(c) \/ Coordinator!PollEnds(c)
  PROVE  Queues'
<1>1. PICK at \in {"polling", "draining"}, polled \in BOOLEAN :
        /\ op[c].at # "idle"
        /\ op' = [op EXCEPT ![c].at = at, ![c].polled = polled]
        /\ op[c].manual /\ at = "draining" => polled
        /\ pending' = pending /\ request' = request
  <2>1. op \in [Capsules -> Ops] /\ op[c] \in Ops
    BY DEF Queues, QueueShapes
  <2>2. CASE Coordinator!Ingress(c)
    <3>1. [op EXCEPT ![c].at = "polling"]
            = [op EXCEPT ![c].at = "polling", ![c].polled = op[c].polled]
      BY <2>1 DEF Ops
    <3>2. [op EXCEPT ![c].at = "draining"]
            = [op EXCEPT ![c].at = "draining", ![c].polled = op[c].polled]
      BY <2>1 DEF Ops
    <3>3. op[c].polled \in BOOLEAN
      BY <2>1 DEF Ops
    <3>4. CASE Coordinator!MayPoll(c)
      BY <2>2, <3>1, <3>3, <3>4 DEF Coordinator!Ingress
    <3>5. CASE ~Coordinator!MayPoll(c)
      BY <2>2, <3>2, <3>3, <3>5 DEF Coordinator!Ingress, Coordinator!MayPoll
    <3> QED BY <3>4, <3>5
  <2>3. CASE Coordinator!PollEnds(c)
    BY <2>3 DEF Coordinator!PollEnds
  <2> QED BY <2>2, <2>3
<1>2. /\ op \in [Capsules -> Ops] /\ op[c] \in Ops
  BY DEF Queues, QueueShapes
<1>3. /\ op' \in [Capsules -> Ops]
      /\ op'[c].at = at /\ op'[c].polled = polled
      /\ op'[c].manual = op[c].manual /\ op'[c].waiters = op[c].waiters
      /\ \A d \in Capsules : d # c => op'[d] = op[d]
  BY <1>1, <1>2 DEF Ops
<1>4. \A d \in Capsules : op'[d].waiters = op[d].waiters /\ op'[d].manual = op[d].manual
  BY <1>3
<1>5. \A d \in Capsules : Of(d)' = Of(d)
  BY <1>1, <1>4 DEF Of
<1>6. QueueShapes'
  BY <1>1, <1>3 DEF Queues, QueueShapes
<1>7. Placed'
  BY <1>1, <1>3 DEF Queues, Placed, Coordinator!NoOperation, Coordinator!Operation
<1>8. Waiting' /\ ManualIsPolled'
  BY <1>1, <1>5 DEF Queues, Waiting, ManualIsPolled
<1>9. Manual'
  BY <1>1, <1>3, <1>4, <1>5 DEF Queues, Manual
<1> QED BY <1>6, <1>7, <1>8, <1>9 DEF Queues

\* The receive ends: those in it have their answer, those behind it are in the
\* next one.
LEMMA FinishStep ==
  ASSUME Queues, NEW c \in Capsules, Coordinator!Finish(c)
  PROVE  Queues'
<1>1. /\ op[c].at = "draining" /\ op \in [Capsules -> Ops] /\ op[c] \in Ops
      /\ pending \in [Capsules -> SUBSET Requests]
      /\ request \in [Requests -> [manual : BOOLEAN,
                                   status : {"none", "waiting", "polled", "skipped"}]]
  BY DEF Coordinator!Finish, Queues, QueueShapes
<1>. DEFINE new == IF pending[c] = {} THEN Coordinator!NoOperation
                   ELSE Coordinator!Operation(TRUE, pending[c])
<1>2. /\ new \in Ops /\ new.waiters = pending[c] /\ new.at \in {"idle", "fetching"}
      /\ new.at = "idle" => new = Coordinator!NoOperation
      /\ new.manual <=> pending[c] # {}
  BY <1>1, OperationShape, NoOperationShape
<1>3. op' = [op EXCEPT ![c] = new] /\ pending' = [pending EXCEPT ![c] = {}]
  BY DEF Coordinator!Finish, Coordinator!Advance
<1>. HIDE DEF new
<1>4. /\ op'[c] = new /\ pending'[c] = {}
      /\ \A d \in Capsules : d # c => op'[d] = op[d] /\ pending'[d] = pending[d]
  BY <1>1, <1>3
<1>5. Of(c)' = pending[c] /\ \A d \in Capsules : d # c => Of(d)' = Of(d)
  BY <1>2, <1>4 DEF Of
<1>6. \A q \in Requests :
        /\ request'[q].manual = request[q].manual
        /\ q \notin op[c].waiters => request'[q] = request[q]
        /\ q \in op[c].waiters =>
             request'[q].status = IF op[c].polled THEN "polled" ELSE "skipped"
  BY <1>1 DEF Coordinator!Finish
<1>7. QueueShapes'
  <2>1. op' \in [Capsules -> Ops] /\ pending' \in [Capsules -> SUBSET Requests]
    BY <1>1, <1>2, <1>3
  <2>2. request' \in [Requests -> [manual : BOOLEAN,
                                  status : {"none", "waiting", "polled", "skipped"}]]
    BY <1>1 DEF Coordinator!Finish
  <2> QED BY <2>1, <2>2 DEF QueueShapes
<1>8. Placed'
  BY <1>2, <1>4 DEF Queues, Placed, Coordinator!NoOperation, Coordinator!Operation
<1>9. /\ op[c].waiters \cap pending[c] = {} /\ op[c].waiters \subseteq Of(c)
      /\ pending[c] \subseteq Of(c) /\ Of(c) = op[c].waiters \cup pending[c]
      /\ \A d \in Capsules : d # c => Of(c) \cap Of(d) = {}
  BY DEF Queues, Placed, Manual, Of
<1>10. Waiting'
  <2> SUFFICES ASSUME NEW q \in Requests
               PROVE  request'[q].status = "waiting" <=> \E d \in Capsules : q \in Of(d)'
    BY DEF Waiting
  <2>1. CASE q \in op[c].waiters
    BY <1>5, <1>6, <1>9, <2>1
  <2>2. CASE q \notin op[c].waiters
    <3>1. \A d \in Capsules : q \in Of(d)' <=> q \in Of(d)
      BY <1>5, <1>9, <2>2
    <3> QED BY <1>6, <2>2, <3>1 DEF Queues, Waiting
  <2> QED BY <2>1, <2>2
<1>11. Manual'
  <2>1. \A d, e \in Capsules : d # e => Of(d)' \cap Of(e)' = {}
    BY <1>5, <1>9 DEF Queues, Manual
  <2>2. ASSUME NEW d \in Capsules
        PROVE  /\ \A q \in pending'[d] : request'[q].manual
               /\ \A q \in op'[d].waiters : request'[q].manual => op'[d].manual
               /\ op'[d].manual /\ op'[d].at = "draining" => op'[d].polled
    <3>1. pending[d] \subseteq Requests /\ op[d].waiters \subseteq Requests
      BY DEF Queues, QueueShapes, Ops
    <3>2. CASE d # c
      BY <1>4, <1>6, <3>1, <3>2 DEF Queues, Manual
    <3>3. CASE d = c
      BY <1>2, <1>4, <3>3
    <3> QED BY <3>2, <3>3
  <2> QED BY <2>1, <2>2 DEF Manual
<1>12. ManualIsPolled'
  <2> SUFFICES ASSUME NEW q \in Requests, request'[q].manual,
                      request'[q].status \notin {"none", "waiting"}
               PROVE  request'[q].status = "polled"
    BY DEF ManualIsPolled
  <2>1. CASE q \in op[c].waiters
    BY <1>1, <1>6, <2>1 DEF Queues, Manual
  <2>2. CASE q \notin op[c].waiters
    BY <1>6, <2>2 DEF Queues, ManualIsPolled
  <2> QED BY <2>1, <2>2
<1> QED BY <1>7, <1>8, <1>10, <1>11, <1>12 DEF Queues

LEMMA CoordinatorInitially == Coordinator!Init => Settled
<1> SUFFICES ASSUME Coordinator!Init PROVE Settled
  OBVIOUS
<1>1. Timers
  BY DEF Coordinator!Init, Timers
<1>2. QueueShapes
  BY NoOperationShape DEF Coordinator!Init, QueueShapes
<1>3. \A c \in Capsules : Of(c) = {}
  BY NoOperationShape DEF Coordinator!Init, Of
<1>4. Placed /\ Waiting /\ Manual /\ ManualIsPolled
  BY <1>3, NoOperationShape
    DEF Coordinator!Init, Placed, Waiting, Manual, ManualIsPolled
<1> QED BY <1>1, <1>2, <1>4 DEF Settled, Queues

\* Every step of the coalescer, the poll and the triggers keeps its part.
LEMMA CoordinatorInductive == Settled /\ [Coordinator!Next]_Coordinator!vars => Settled'
<1> SUFFICES ASSUME Settled, [Coordinator!Next]_Coordinator!vars PROVE Settled'
  OBVIOUS
<1> USE DEF Settled
<1>1. CASE UNCHANGED Coordinator!vars
  BY <1>1
    DEF Coordinator!vars, Timers, Queues, QueueShapes, Placed, Waiting, Manual,
         ManualIsPolled, Of
<1>2. ASSUME NEW c \in Capsules, Coordinator!Receive(c) PROVE Settled'
  <2>1. CASE Coordinator!Ingress(c)
    BY <2>1, PollStep DEF Coordinator!Ingress, Coordinator!policy, Timers
  <2>2. CASE Coordinator!PollEnds(c)
    <3>1. /\ recent' \in [Capsules -> BOOLEAN] /\ cooling' \in [Capsules -> BOOLEAN]
          /\ foreground' = foreground /\ followUp' = followUp
      BY <2>2 DEF Coordinator!PollEnds, Timers
    <3> QED BY <2>2, <3>1, PollStep DEF Timers
  <2>3. CASE Coordinator!Finish(c)
    BY <2>3, FinishStep DEF Coordinator!Finish, Coordinator!policy, Timers
  <2> QED BY <1>2, <2>1, <2>2, <2>3 DEF Coordinator!Receive
<1>3. ASSUME NEW c \in Capsules, Coordinator!Elapse(c) PROVE Settled'
  <2>1. Timers'
    BY <1>3 DEF Coordinator!Elapse, Timers
  <2>2. Queues'
    BY <1>3
      DEF Coordinator!Elapse, Queues, QueueShapes, Placed, Waiting, Manual,
           ManualIsPolled, Of
  <2> QED BY <2>1, <2>2
<1>4. ASSUME NEW c \in Capsules, Coordinator!ActivateForeground(c) PROVE Settled'
  BY <1>4, TimerRuns DEF Coordinator!ActivateForeground, Coordinator!policy, Timers
<1>5. ASSUME NEW c \in Capsules, NEW r \in Requests, NEW manual \in BOOLEAN,
             Coordinator!Request(r, c, manual)
      PROVE  Settled'
  BY <1>5, RequestRuns DEF Coordinator!Request, Coordinator!policy, Timers
<1>6. CASE Coordinator!ConnectivityRestored
  BY <1>6, TimerRuns DEF Coordinator!ConnectivityRestored, Coordinator!policy, Timers
<1>7. CASE Coordinator!PauseForeground
  <2>1. Timers'
    BY <1>7 DEF Coordinator!PauseForeground, Coordinator!policy, Timers
  <2>2. Queues'
    BY <1>7
      DEF Coordinator!PauseForeground, Queues, QueueShapes, Placed, Waiting, Manual,
           ManualIsPolled, Of
  <2> QED BY <2>1, <2>2
<1>8. CASE Coordinator!Periodic
  BY <1>8, TimerRuns DEF Coordinator!Periodic, Coordinator!policy, Timers
<1>9. CASE Coordinator!FollowUp
  <2>1. Timers'
    BY <1>9 DEF Coordinator!FollowUp, Coordinator!policy, Timers
  <2>2. CASE foreground = followUp
    BY <1>9, <2>1, <2>2, TimerRuns DEF Coordinator!FollowUp, Timers
  <2>3. CASE foreground # followUp
    BY <1>9, <2>1, <2>3
      DEF Coordinator!FollowUp, Queues, QueueShapes, Placed, Waiting, Manual,
          ManualIsPolled, Of
  <2> QED BY <2>2, <2>3
<1> QED BY <1>1, <1>2, <1>3, <1>4, <1>5, <1>6, <1>7, <1>8, <1>9 DEF Coordinator!Next

LEMMA CoordinatorConsequences == Settled => Coordinator!TypeOK /\ ManualIsPolled
BY DEF Settled, Timers, Queues, QueueShapes, Placed, Waiting, Coordinator!TypeOK, Ops, Of

\* A request waits exactly while it is in a running receive or behind one, and
\* nobody waits for a receive that does not run (the type invariant of the
\* coalescer, _ProcessReceiveCoalescer).
THEOREM CoordinatorTypeCorrect == Coordinator!Spec => []Coordinator!TypeOK
BY CoordinatorInitially, CoordinatorInductive, CoordinatorConsequences, PTL
  DEF Coordinator!Spec

\* What answers a manual request has polled the relays, however many automatic
\* and manual requests join, queue and cool down (run and _advance).
THEOREM ManualRequestsPoll == Coordinator!Spec => []ManualIsPolled
BY CoordinatorInitially, CoordinatorInductive, CoordinatorConsequences, PTL
  DEF Coordinator!Spec
=============================================================================
