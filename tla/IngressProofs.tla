--------------------------- MODULE IngressProofs ---------------------------
(***************************************************************************)
(* The safety properties of Ingress for any relays, envelopes, capacities, *)
(* limits, clocks and failures.                                            *)
(*                                                                         *)
(* An id enters the seen set, and a cursor moves, when a batch is          *)
(* resolved: what has to be known then is that each item was taken by its  *)
(* owner while it was routed, and that the items are all a relay had       *)
(* before the date its cursor gets.  The invariant therefore says it of    *)
(* every item already routed and of every date a pending batch may set;    *)
(* and that no envelope still to come is stamped before such a date.       *)
(***************************************************************************)
EXTENDS Ingress, FiniteSetTheorems, WellFoundedInduction, TLAPS

-----------------------------------------------------------------------------
(* The inductive invariant *)

\* What a crash between receives cannot lose, once the host stores what a receive
\* returned.
Kept == IF call.at = "returned" THEN Durable \cup call.mem ELSE Durable

\* No envelope a receive can still get at will be published with a stamp before
\* the date, if senders' clocks are at most the overlap of a second behind.
Reached(date) == date <= 0 \/ date <= now - 1 \/ date <= now - Lookback

RelaysTyped ==
  /\ now \in 0..MaxNow
  /\ stored \in [Relays -> SUBSET DOMAIN stamp]
  /\ DOMAIN stamp \subseteq Events
  /\ \A e \in DOMAIN stamp : stamp[e] \in Nat

SeenTyped ==
  /\ seen \subseteq DOMAIN stamp
  /\ Cardinality(seen) <= SeenCapacity
  /\ pending.items \cap seen = {}

CursorsTyped ==
  /\ DOMAIN cursor \subseteq Relays
  /\ \A r \in DOMAIN cursor : cursor[r] \in 0..MaxNow

BatchTyped ==
  /\ pending.items = UNION {pending.relays[r].ids : r \in DOMAIN pending.relays}
  /\ DOMAIN pending.relays \subseteq Relays
  /\ \A r \in DOMAIN pending.relays :
       /\ pending.relays[r].candidate \in 0..MaxNow
       /\ pending.relays[r].ids \subseteq DOMAIN stamp

CallTyped ==
  /\ call \in [at : {"idle", "recover", "fetch", "route", "returned"},
               mem : SUBSET Core, todo : SUBSET Events, retry : SUBSET Events]
  /\ call.todo \cup call.retry \subseteq pending.items
  /\ call.at # "route" => call.todo = {} /\ call.retry = {}
  /\ call.at # "idle" => journal \subseteq call.mem

OwnersTyped ==
  /\ faults \in Nat
  /\ journal \subseteq Core
  /\ held \cap done = {} /\ expired \subseteq done
  /\ inbox \subseteq Attestation /\ Cardinality(inbox) <= InboxCapacity
  /\ handed \subseteq Chat \cup Attestation

Typed ==
  RelaysTyped /\ SeenTyped /\ CursorsTyped /\ BatchTyped /\ CallTyped /\ OwnersTyped

SeenKept == seen \subseteq Kept

\* An item of the batch already routed, and not in vain, has an owner.
RoutedKept ==
  call.at = "route" =>
    pending.items \ (call.todo \cup call.retry) \subseteq Durable \cup call.mem

CursorsKept ==
  \A r \in DOMAIN cursor :
    Reached(cursor[r]) /\ (Behind <= 1 => Passed(r, cursor[r]) \subseteq Kept)

\* What a relay has before the date its cursor may get is kept, or in the batch.
BatchKept ==
  \A r \in DOMAIN pending.relays :
    /\ Reached(pending.relays[r].candidate)
    /\ Behind <= 1 =>
         Passed(r, pending.relays[r].candidate) \subseteq Kept \cup pending.relays[r].ids

\* While nothing failed, the worker has what was recovered until the host stores it.
Recovered ==
  faults = 0 =>
    (done \ expired) \cap Core \subseteq IF call.at = "idle" THEN journal ELSE call.mem

IInv == Typed /\ SeenKept /\ RoutedKept /\ CursorsKept /\ BatchKept /\ Recovered

-----------------------------------------------------------------------------
(* Extrema, finite sets *)

\* A nonempty finite set of integers has a greatest element.
LEMMA MaxOfSet ==
  ASSUME NEW S \in SUBSET Int, IsFiniteSet(S), S # {}
  PROVE  Max(S) \in S /\ \A m \in S : m <= Max(S)
<1>. DEFINE above(n) == {k \in S : k >= n}
            T == {above(n) : n \in S}
<1>1. T \subseteq FiniteSubsetsOf(S) /\ T # {}
  <2>1. ASSUME NEW n \in S PROVE IsFiniteSet(above(n)) /\ above(n) \subseteq S
    BY FS_Subset
  <2> QED BY <2>1 DEF FiniteSubsetsOf
<1>2. PICK X \in T : \A Y \in T : ~(<<Y, X>> \in StrictSubsetOrdering(S))
  BY <1>1, WFMin, FS_StrictSubsetOrderingWellFounded
<1>3. PICK n \in S : X = above(n)
  BY <1>2
<1>4. ASSUME NEW m \in S, m > n PROVE FALSE
  <2>1. above(m) \in T /\ above(m) \subseteq X /\ n \in X /\ n \notin above(m)
    <3>1. above(m) \in T /\ n \in above(n) /\ n \notin above(m)
      BY <1>3, <1>4
    <3>2. above(m) \subseteq above(n)
      <4>1. ASSUME NEW x \in S, x >= m PROVE x >= n
        <5>1. x \in Int /\ m \in Int /\ n \in Int
          BY <1>3, <1>4
        <5> QED BY <1>4, <4>1, <5>1
      <4> QED BY <4>1
    <3> QED BY <1>3, <3>1, <3>2
  <2>2. <<above(m), X>> \in StrictSubsetOrdering(S)
    BY <2>1, <1>1, <1>2 DEF StrictSubsetOrdering, FiniteSubsetsOf
  <2> QED BY <1>2, <2>1, <2>2
<1>5. \A m \in S : n >= m
  BY <1>3, <1>4
<1> QED BY <1>3, <1>5 DEF Max

LEMMA MaxOfTwo ==
  ASSUME NEW a \in Int, NEW b \in Int
  PROVE  Max({a, b}) = IF a >= b THEN a ELSE b
<1>1. \E x \in {a, b} : \A y \in {a, b} : x >= y
  OBVIOUS
<1> QED BY <1>1 DEF Max

LEMMA MinOfTwo ==
  ASSUME NEW a \in Int, NEW b \in Int
  PROVE  Min({a, b}) = IF a <= b THEN a ELSE b
<1>1. \E x \in {a, b} : \A y \in {a, b} : x <= y
  OBVIOUS
<1> QED BY <1>1 DEF Min

LEMMA MaxOfThree ==
  ASSUME NEW a \in Int, NEW b \in Int, NEW c \in Int
  PROVE  /\ Max({a, b, c}) \in {a, b, c}
         /\ a <= Max({a, b, c}) /\ b <= Max({a, b, c}) /\ c <= Max({a, b, c})
<1>1. \E x \in {a, b, c} : \A y \in {a, b, c} : x >= y
  OBVIOUS
<1> QED BY <1>1 DEF Max

LEMMA StoredFinite ==
  ASSUME RelaysTyped, NEW S \in SUBSET DOMAIN stamp
  PROVE  IsFiniteSet(S) /\ Cardinality(S) \in Nat
BY IngressAssumption, FS_Subset, FS_CardinalityType DEF RelaysTyped

-----------------------------------------------------------------------------
(* Dates *)

\* receive_since_for_relay is a date of the past that skips nothing a receive can
\* still get at.
LEMMA SinceIsReached ==
  ASSUME RelaysTyped, CursorsTyped, CursorsKept, NEW r \in Relays
  PROVE  /\ Since(r) \in 0..MaxNow
         /\ Reached(Since(r))
         /\ Behind <= 1 => Passed(r, Since(r)) \subseteq Kept
<1>1. CASE r \in DOMAIN cursor
  BY <1>1 DEF CursorsTyped, CursorsKept, Since
<1>2. CASE r \notin DOMAIN cursor
  <2>1. Since(r) = IF 0 >= now - Lookback THEN 0 ELSE now - Lookback
    BY <1>2, MaxOfTwo, IngressAssumption DEF Since, RelaysTyped
  <2>2. Since(r) \in 0..MaxNow /\ Reached(Since(r))
    BY <2>1, IngressAssumption DEF RelaysTyped, Reached
  <2>3. Passed(r, Since(r)) = {}
    BY <2>1, IngressAssumption DEF RelaysTyped, Passed
  <2> QED BY <2>2, <2>3
<1> QED BY <1>1, <1>2

\* next_receive_cursor neither goes back nor beyond the second before now.
LEMMA CandidateIsReached ==
  ASSUME RelaysTyped, NEW s \in 0..MaxNow, Reached(s), NEW newest \in Nat
  PROVE  /\ NextReceiveCursor(s, newest) \in 0..MaxNow
         /\ Reached(NextReceiveCursor(s, newest))
         /\ NextReceiveCursor(s, newest) <= s \/ NextReceiveCursor(s, newest) <= now
<1>. DEFINE m == Min({newest, now})
<1>1. m \in Int /\ m <= now
  BY MinOfTwo DEF RelaysTyped
<1>2. NextReceiveCursor(s, newest) = Max({s, m - 1, 0})
  BY DEF NextReceiveCursor
<1>. HIDE DEF m
<1>3. NextReceiveCursor(s, newest) \in {s, m - 1, 0} /\ NextReceiveCursor(s, newest) >= 0
  <2>1. s \in Int /\ m - 1 \in Int /\ 0 \in Int
    BY <1>1, IngressAssumption
  <2>2. Max({s, m - 1, 0}) \in {s, m - 1, 0} /\ 0 <= Max({s, m - 1, 0})
    BY <2>1, MaxOfThree
  <2>3. Max({s, m - 1, 0}) \in Int
    BY <2>1, <2>2
  <2> QED BY <1>2, <2>2, <2>3
<1> QED BY <1>1, <1>3, IngressAssumption DEF RelaysTyped, Reached

\* Time passes and envelopes are published: a date reached stays so, and no
\* envelope comes to be passed.
LEMMA PassedOnlyShrinks ==
  ASSUME RelaysTyped, RelaysTyped',
         Tick \/ (\E e \in Events, R \in SUBSET Relays : Publish(e, R)),
         NEW r \in Relays, NEW d \in Int, Reached(d)
  PROVE  /\ Reached(d)'
         /\ Behind <= 1 => Passed(r, d)' \subseteq Passed(r, d)
<1>1. CASE Tick
  BY <1>1, IngressAssumption DEF Tick, RelaysTyped, Reached, Passed
<1>2. ASSUME NEW e \in Events, NEW R \in SUBSET Relays, Publish(e, R)
      PROVE  /\ Reached(d)'
             /\ Behind <= 1 => Passed(r, d)' \subseteq Passed(r, d)
  <2>1. PICK t \in (now - Behind)..(now + Ahead) :
          /\ t >= 0
          /\ stamp' = [f \in DOMAIN stamp \cup {e} |-> IF f = e THEN t ELSE stamp[f]]
    BY <1>2 DEF Publish
  <2>2. now' = now /\ Reached(d)'
    BY <1>2 DEF Publish, Reached
  <2>3. stored[r] \subseteq stored'[r] /\ stored'[r] \subseteq stored[r] \cup {e}
    BY <1>2 DEF Publish
  <2>4. Cardinality(stored[r]) <= Cardinality(stored'[r]) /\ Cardinality(stored[r]) \in Nat
        /\ Cardinality(stored'[r]) \in Nat
    <3>1. stored'[r] \in SUBSET DOMAIN stamp' /\ stored[r] \in SUBSET DOMAIN stamp
      BY DEF RelaysTyped
    <3>2. IsFiniteSet(stored'[r])
      BY <3>1, IngressAssumption, FS_Subset DEF RelaysTyped
    <3> QED BY <2>3, <3>2, FS_Subset, FS_CardinalityType
  <2>5. ASSUME Behind <= 1, NEW f \in Passed(r, d)' PROVE f \in Passed(r, d)
    <3>1. /\ f \in stored'[r] /\ Cardinality(stored'[r]) <= FetchLimit
          /\ now - Lookback <= stamp'[f] /\ stamp'[f] < d
      BY <2>2, <2>5 DEF Passed
    <3>2. f # e
      <4>1. SUFFICES ASSUME f = e PROVE FALSE
        OBVIOUS
      <4>2. stamp'[f] = t
        BY <2>1, <4>1
      <4> QED BY <2>1, <2>5, <3>1, <4>2, IngressAssumption DEF RelaysTyped, Reached
    <3>3. f \in stored[r] /\ f \in DOMAIN stamp /\ stamp'[f] = stamp[f]
      BY <2>1, <2>3, <3>1, <3>2 DEF RelaysTyped
    <3> QED BY <2>4, <3>1, <3>3, IngressAssumption DEF Passed
  <2> QED BY <2>2, <2>5
<1> QED BY <1>1, <1>2

-----------------------------------------------------------------------------
(* Types *)

LEMMA NoBatchTyped ==
  /\ NoBatch.items = {} /\ DOMAIN NoBatch.relays = {}
  /\ NoBatch.items = UNION {NoBatch.relays[r].ids : r \in DOMAIN NoBatch.relays}
BY DEF NoBatch

\* What the steps that leave the relays alone keep of their types.
LEMMA SameRelays ==
  ASSUME RelaysTyped, UNCHANGED relayVars
  PROVE  /\ RelaysTyped' /\ now' = now /\ stored' = stored /\ stamp' = stamp
         /\ \A d : Reached(d)' <=> Reached(d)
         /\ \A r, d : Passed(r, d)' = Passed(r, d)
BY DEF RelaysTyped, relayVars, Reached, Passed

\* What the steps that leave the transport alone keep.
LEMMA SameTransport ==
  ASSUME Typed, UNCHANGED relayVars, UNCHANGED transportVars, seen' = seen
  PROVE  /\ RelaysTyped' /\ SeenTyped' /\ CursorsTyped' /\ BatchTyped'
         /\ pending' = pending /\ cursor' = cursor
BY SameRelays
   DEF Typed, relayVars, transportVars, SeenTyped, CursorsTyped, BatchTyped

LEMMA SameTransportKept ==
  ASSUME IInv, UNCHANGED relayVars, UNCHANGED transportVars, seen' = seen,
         Kept \subseteq Kept'
  PROVE  SeenKept' /\ CursorsKept' /\ BatchKept'
<1>1. /\ \A d : Reached(d)' <=> Reached(d)
      /\ \A r, d : Passed(r, d)' = Passed(r, d)
      /\ pending' = pending /\ cursor' = cursor
  BY SameRelays, SameTransport DEF IInv, Typed
<1>2. SeenKept'
  BY DEF IInv, SeenKept
<1>3. CursorsKept'
  <2>1. SUFFICES ASSUME NEW r \in DOMAIN cursor
                 PROVE  /\ Reached(cursor[r])'
                        /\ Behind <= 1 => Passed(r, cursor[r])' \subseteq Kept'
    BY <1>1 DEF CursorsKept
  <2>2. Reached(cursor[r]) /\ (Behind <= 1 => Passed(r, cursor[r]) \subseteq Kept)
    BY DEF IInv, CursorsKept
  <2>3. Reached(cursor[r])'
    BY <1>1, <2>2, SameRelays DEF relayVars, Reached
  <2>4. Passed(r, cursor[r])' = Passed(r, cursor[r])
    BY <1>1 DEF relayVars, Passed
  <2> QED BY <2>2, <2>3, <2>4
<1>4. BatchKept'
  <2>1. SUFFICES ASSUME NEW r \in DOMAIN pending.relays
                 PROVE  /\ Reached(pending.relays[r].candidate)'
                        /\ Behind <= 1 =>
                             Passed(r, pending.relays[r].candidate)'
                               \subseteq Kept' \cup pending.relays[r].ids
    BY <1>1 DEF BatchKept
  <2>2. /\ Reached(pending.relays[r].candidate)
        /\ Behind <= 1 =>
             Passed(r, pending.relays[r].candidate) \subseteq Kept \cup pending.relays[r].ids
    BY DEF IInv, BatchKept
  <2>3. Reached(pending.relays[r].candidate)'
    BY <1>1, <2>2 DEF relayVars, Reached
  <2>4. Passed(r, pending.relays[r].candidate)' = Passed(r, pending.relays[r].candidate)
    BY <1>1 DEF relayVars, Passed
  <2> QED BY <2>2, <2>3, <2>4
<1> QED BY <1>2, <1>3, <1>4

\* A transport built anew has no cursor and no batch to say anything about.
LEMMA TransportForgets ==
  ASSUME NewTransport
  PROVE  /\ CursorsTyped' /\ BatchTyped' /\ CursorsKept' /\ BatchKept'
         /\ pending'.items = {}
<1>1. DOMAIN cursor' = {} /\ DOMAIN pending'.relays = {} /\ pending'.items = {}
      /\ pending'.items = UNION {pending'.relays[r].ids : r \in DOMAIN pending'.relays}
  BY NoBatchTyped DEF NewTransport
<1> QED BY <1>1 DEF CursorsTyped, BatchTyped, CursorsKept, BatchKept

-----------------------------------------------------------------------------
(* Senders, relays, time *)

LEMMA PublishTyped ==
  ASSUME Typed, NEW e \in Events, NEW R \in SUBSET Relays, Publish(e, R)
  PROVE  Typed'
<1>1. RelaysTyped'
  <2>1. PICK t \in (now - Behind)..(now + Ahead) :
          /\ t >= 0
          /\ stamp' = [f \in DOMAIN stamp \cup {e} |-> IF f = e THEN t ELSE stamp[f]]
    BY DEF Publish
  <2>2. t \in Nat
    BY <2>1, IngressAssumption DEF Typed, RelaysTyped
  <2>3. DOMAIN stamp' = DOMAIN stamp \cup {e} /\ \A f \in DOMAIN stamp' : stamp'[f] \in Nat
    BY <2>1, <2>2 DEF Typed, RelaysTyped
  <2>4. stored' \in [Relays -> SUBSET DOMAIN stamp']
    BY <2>3 DEF Typed, RelaysTyped, Publish
  <2> QED BY <2>3, <2>4 DEF Typed, RelaysTyped, Publish
<1>2. DOMAIN stamp \subseteq DOMAIN stamp'
  BY DEF Publish
<1>3. SeenTyped' /\ CursorsTyped' /\ BatchTyped'
  BY <1>2 DEF Typed, Publish, transportVars, SeenTyped, CursorsTyped, BatchTyped
<1>4. CallTyped' /\ OwnersTyped'
  BY DEF Typed, Publish, transportVars, quarantineVars, ownerVars, CallTyped, OwnersTyped
<1> QED BY <1>1, <1>3, <1>4 DEF Typed

LEMMA TickTyped ==
  ASSUME Typed, Tick
  PROVE  Typed'
<1>1. RelaysTyped'
  BY IngressAssumption DEF Typed, Tick, RelaysTyped
<1>2. SeenTyped' /\ CursorsTyped' /\ BatchTyped'
  BY DEF Typed, Tick, transportVars, SeenTyped, CursorsTyped, BatchTyped
<1>3. CallTyped' /\ OwnersTyped'
  BY DEF Typed, Tick, transportVars, quarantineVars, ownerVars, CallTyped, OwnersTyped
<1> QED BY <1>1, <1>2, <1>3 DEF Typed

LEMMA WorldStep ==
  ASSUME IInv, Tick \/ (\E e \in Events, R \in SUBSET Relays : Publish(e, R))
  PROVE  IInv'
<1>1. Typed'
  BY PublishTyped, TickTyped DEF IInv
<1>2. /\ seen' = seen /\ call' = call /\ journal' = journal /\ faults' = faults
      /\ cursor' = cursor /\ pending' = pending /\ held' = held /\ done' = done
      /\ expired' = expired /\ inbox' = inbox /\ handed' = handed
  BY DEF Tick, Publish, transportVars, quarantineVars, ownerVars
<1>3. Kept' = Kept /\ Durable' = Durable
  BY <1>2 DEF Kept, Durable
<1>4. SeenKept' /\ RoutedKept' /\ Recovered'
  BY <1>2, <1>3 DEF IInv, SeenKept, RoutedKept, Recovered
<1>5. RelaysTyped /\ RelaysTyped' /\ CursorsTyped /\ BatchTyped
  BY <1>1 DEF IInv, Typed
<1>6. CursorsKept'
  <2>1. SUFFICES ASSUME NEW r \in DOMAIN cursor
                 PROVE  /\ Reached(cursor[r])'
                        /\ Behind <= 1 => Passed(r, cursor[r])' \subseteq Kept
    BY <1>2, <1>3 DEF CursorsKept
  <2>. DEFINE d == cursor[r]
  <2>2. r \in Relays /\ d \in Int /\ cursor'[r] = d
    BY <1>2, <1>5 DEF CursorsTyped
  <2>3. Reached(d) /\ (Behind <= 1 => Passed(r, d) \subseteq Kept)
    BY DEF IInv, CursorsKept
  <2>4. Reached(cursor[r])' = (d <= 0 \/ d <= now' - 1 \/ d <= now' - Lookback)
    BY <2>2 DEF Reached
  <2>5. Passed(r, cursor[r])' =
          {e \in stored'[r] : /\ Cardinality(stored'[r]) <= FetchLimit
                              /\ now' - Lookback <= stamp'[e] /\ stamp'[e] < d}
    BY <2>2 DEF Passed
  <2>6. ASSUME NEW x \in Int, Reached(x)
        PROVE  /\ x <= 0 \/ x <= now' - 1 \/ x <= now' - Lookback
               /\ Behind <= 1 =>
                    {e \in stored'[r] : /\ Cardinality(stored'[r]) <= FetchLimit
                                        /\ now' - Lookback <= stamp'[e] /\ stamp'[e] < x}
                      \subseteq Passed(r, x)
    BY <1>5, <2>2, <2>6, PassedOnlyShrinks DEF Reached, Passed
  <2>. HIDE DEF d
  <2> QED BY <2>2, <2>3, <2>4, <2>5, <2>6
<1>7. BatchKept'
  <2>1. SUFFICES ASSUME NEW r \in DOMAIN pending.relays
                 PROVE  /\ Reached(pending.relays[r].candidate)'
                        /\ Behind <= 1 =>
                             Passed(r, pending.relays[r].candidate)'
                               \subseteq Kept \cup pending.relays[r].ids
    BY <1>2, <1>3 DEF BatchKept
  <2>. DEFINE d == pending.relays[r].candidate
  <2>2. r \in Relays /\ d \in Int /\ pending'.relays[r].candidate = d
    BY <1>2, <1>5 DEF BatchTyped
  <2>3. Reached(d) /\ (Behind <= 1 => Passed(r, d) \subseteq Kept \cup pending.relays[r].ids)
    BY DEF IInv, BatchKept
  <2>4. Reached(pending.relays[r].candidate)' =
          (d <= 0 \/ d <= now' - 1 \/ d <= now' - Lookback)
    BY <2>2 DEF Reached
  <2>5. Passed(r, pending.relays[r].candidate)' =
          {e \in stored'[r] : /\ Cardinality(stored'[r]) <= FetchLimit
                              /\ now' - Lookback <= stamp'[e] /\ stamp'[e] < d}
    BY <2>2 DEF Passed
  <2>6. ASSUME NEW x \in Int, Reached(x)
        PROVE  /\ x <= 0 \/ x <= now' - 1 \/ x <= now' - Lookback
               /\ Behind <= 1 =>
                    {e \in stored'[r] : /\ Cardinality(stored'[r]) <= FetchLimit
                                        /\ now' - Lookback <= stamp'[e] /\ stamp'[e] < x}
                      \subseteq Passed(r, x)
    BY <1>5, <2>2, <2>6, PassedOnlyShrinks DEF Reached, Passed
  <2>. HIDE DEF d
  <2> QED BY <2>2, <2>3, <2>4, <2>5, <2>6
<1> QED BY <1>1, <1>4, <1>6, <1>7 DEF IInv

-----------------------------------------------------------------------------
(* Steps that leave the transport alone *)

\* Types and what is routed are all that is left to show of such a step.
LEMMA OwnerStep ==
  ASSUME IInv, UNCHANGED relayVars, UNCHANGED transportVars, seen' = seen,
         CallTyped', OwnersTyped', Kept \subseteq Kept', RoutedKept', Recovered'
  PROVE  IInv'
<1>1. RelaysTyped' /\ SeenTyped' /\ CursorsTyped' /\ BatchTyped'
  BY SameTransport DEF IInv
<1>2. SeenKept' /\ CursorsKept' /\ BatchKept'
  BY SameTransportKept
<1> QED BY <1>1, <1>2 DEF IInv, Typed

\* An envelope a kind's owner took is with it, and nothing left its owner.
LEMMA ConsumeKeeps ==
  ASSUME Typed, NEW e \in Events, NEW at, NEW todo, NEW retry,
         Consume(e, at, todo, retry)
  PROVE  /\ call' = Call(at, call'.mem, todo, retry)
         /\ call'.mem = IF e \in Core THEN call.mem \cup {e} ELSE call.mem
         /\ inbox \subseteq inbox' /\ handed \subseteq handed'
         /\ e \notin Invalid => e \in call'.mem \cup inbox' \cup handed'
         /\ inbox' \subseteq Attestation /\ Cardinality(inbox') <= InboxCapacity
         /\ handed' \subseteq Chat \cup Attestation
<1>1. /\ call' = Call(at, call'.mem, todo, retry)
      /\ call'.mem = IF e \in Core THEN call.mem \cup {e} ELSE call.mem
  BY DEF Consume, Call
<1>2. e \in Invalid \/ e \in Core \/ e \in Chat \/ e \in Attestation
  BY DEF Events
<1>3. inbox \subseteq Attestation /\ handed \subseteq Chat \cup Attestation
      /\ Cardinality(inbox) <= InboxCapacity
  BY DEF Typed, OwnersTyped
<1>4. Cardinality(inbox') <= InboxCapacity
  <2>1. CASE e \in Attestation \ inbox
    <3>1. inbox' = inbox \cup {e} /\ Cardinality(inbox) < InboxCapacity
      BY <2>1 DEF Consume
    <3>2. Attestation \in SUBSET Events
      BY DEF Events
    <3>3. IsFiniteSet(inbox) /\ Cardinality(inbox) \in Nat
      BY <1>3, <3>2, IngressAssumption, FS_Subset, FS_CardinalityType
    <3>4. Cardinality(inbox \cup {e}) = Cardinality(inbox) + 1
      BY <2>1, <3>3, FS_AddElement
    <3> QED BY <3>1, <3>3, <3>4, IngressAssumption
  <2>2. CASE e \notin Attestation \ inbox
    <3>1. inbox' = inbox
      BY <2>2 DEF Consume
    <3> QED BY <1>3, <3>1
  <2> QED BY <2>1, <2>2
<1>5. /\ inbox' = IF e \in Attestation THEN inbox \cup {e} ELSE inbox
      /\ handed' = IF e \in Chat THEN handed \cup {e} ELSE handed
  BY DEF Consume
<1> QED BY <1>1, <1>2, <1>3, <1>4, <1>5

LEMMA StartStep ==
  ASSUME IInv, Start
  PROVE  IInv'
<1>1. CallTyped' /\ OwnersTyped'
  BY DEF IInv, Typed, Start, Call, transportVars, quarantineVars, ownerVars,
         CallTyped, OwnersTyped
<1>2. Kept' = Kept /\ call'.at = "recover" /\ call'.mem = journal
  BY DEF Start, Call, quarantineVars, ownerVars, Kept, Durable
<1>3. RoutedKept'
  BY <1>2 DEF RoutedKept
<1>4. Recovered'
  BY <1>2 DEF IInv, Start, quarantineVars, Recovered
<1> QED BY <1>1, <1>2, <1>3, <1>4, OwnerStep DEF Start

LEMMA ExpireStep ==
  ASSUME IInv, Expire
  PROVE  IInv'
<1>1. CallTyped' /\ OwnersTyped'
  BY DEF IInv, Typed, Expire, transportVars, ownerVars, CallTyped, OwnersTyped
<1>2. Kept' = Kept /\ call'.at = "recover"
  BY DEF Expire, ownerVars, Kept, Durable
<1>3. RoutedKept'
  BY <1>2 DEF RoutedKept
<1>4. Recovered'
  <2>1. done' \ expired' \subseteq done \ expired
    BY DEF Expire
  <2> QED BY <2>1 DEF IInv, Expire, Recovered
<1> QED BY <1>1, <1>2, <1>3, <1>4, OwnerStep DEF Expire

LEMMA NothingDueStep ==
  ASSUME IInv, NothingDue
  PROVE  IInv'
<1>1. /\ call'.at = "fetch" /\ call'.mem = call.mem /\ call.at = "recover"
      /\ call'.todo = call.todo /\ call'.retry = call.retry
      /\ call' \in [at : {"idle", "recover", "fetch", "route", "returned"},
                    mem : SUBSET Core, todo : SUBSET Events, retry : SUBSET Events]
  BY DEF IInv, Typed, CallTyped, NothingDue
<1>2. CallTyped'
  BY <1>1 DEF IInv, Typed, NothingDue, transportVars, CallTyped
<1>3. OwnersTyped'
  BY DEF IInv, Typed, NothingDue, Fault, quarantineVars, ownerVars, OwnersTyped
<1>4. Kept' = Kept
  BY <1>1 DEF NothingDue, quarantineVars, ownerVars, Kept, Durable
<1>5. RoutedKept'
  BY <1>1 DEF RoutedKept
<1>6. Recovered'
  BY <1>1 DEF IInv, Typed, OwnersTyped, NothingDue, Fault, quarantineVars, Recovered
<1> QED BY <1>2, <1>3, <1>4, <1>5, <1>6, OwnerStep DEF NothingDue

LEMMA RecoverStep ==
  ASSUME IInv, NEW e \in Events, Recover(e)
  PROVE  IInv'
<1>1. /\ call' = Call("fetch", call'.mem, {}, {})
      /\ call'.mem = IF e \in Core THEN call.mem \cup {e} ELSE call.mem
      /\ inbox \subseteq inbox' /\ handed \subseteq handed'
      /\ inbox' \subseteq Attestation /\ Cardinality(inbox') <= InboxCapacity
      /\ handed' \subseteq Chat \cup Attestation
  BY ConsumeKeeps DEF IInv, Recover
<1>2. CallTyped'
  BY <1>1 DEF IInv, Typed, Recover, Call, transportVars, CallTyped
<1>3. OwnersTyped'
  BY <1>1 DEF IInv, Typed, Recover, OwnersTyped
<1>4. Kept \subseteq Kept'
  BY <1>1 DEF Recover, Call, Kept, Durable
<1>5. RoutedKept'
  BY <1>1 DEF Call, RoutedKept
<1>6. Recovered'
  BY <1>1 DEF IInv, Recover, Call, Recovered
<1> QED BY <1>2, <1>3, <1>4, <1>5, <1>6, OwnerStep DEF Recover

LEMMA RepresentStep ==
  ASSUME IInv, Represent
  PROVE  IInv'
<1>1. /\ call' = Call("route", call.mem, pending.items, {})
      /\ pending' = pending /\ journal' = journal /\ call.at = "fetch"
  BY DEF Represent, transportVars
<1>2. pending.items \subseteq Events
  BY DEF IInv, Typed, BatchTyped, RelaysTyped
<1>3. CallTyped'
  BY <1>1, <1>2 DEF IInv, Typed, Call, CallTyped
<1>4. OwnersTyped'
  BY DEF IInv, Typed, Represent, quarantineVars, ownerVars, OwnersTyped
<1>5. Kept' = Kept
  BY <1>1 DEF Represent, Call, quarantineVars, ownerVars, Kept, Durable
<1>6. RoutedKept'
  BY <1>1 DEF Call, RoutedKept
<1>7. Recovered'
  BY <1>1 DEF IInv, Represent, Call, quarantineVars, Recovered
<1> QED BY <1>3, <1>4, <1>5, <1>6, <1>7, OwnerStep DEF Represent

\* Routing an item leaves the rest of the call as it is.
LEMMA RoutedItem ==
  ASSUME Typed, NEW e, Routing(e), UNCHANGED transportVars, journal' = journal,
         call' = [call EXCEPT !.todo = @ \ {e}]
           \/ call' = [call EXCEPT !.todo = @ \ {e}, !.retry = @ \cup {e}]
  PROVE  /\ CallTyped'
         /\ call'.at = "route" /\ call.at = "route"
         /\ call'.mem = call.mem /\ call'.todo = call.todo \ {e}
<1>1. e \in pending.items /\ e \in Events
  BY DEF Typed, CallTyped, Routing
<1>2. /\ call'.at = "route" /\ call.at = "route"
      /\ call'.mem = call.mem /\ call'.todo = call.todo \ {e}
      /\ call'.retry = call.retry \/ call'.retry = call.retry \cup {e}
      /\ call' \in [at : {"idle", "recover", "fetch", "route", "returned"},
                    mem : SUBSET Core, todo : SUBSET Events, retry : SUBSET Events]
  <2>1. /\ call \in [at : {"idle", "recover", "fetch", "route", "returned"},
                     mem : SUBSET Core, todo : SUBSET Events, retry : SUBSET Events]
        /\ call.at = "route"
    BY DEF Typed, CallTyped, Routing
  <2>2. CASE call' = [call EXCEPT !.todo = @ \ {e}]
    BY <2>1, <2>2
  <2>3. CASE call' = [call EXCEPT !.todo = @ \ {e}, !.retry = @ \cup {e}]
    <3>1. call' = [at |-> call.at, mem |-> call.mem, todo |-> call.todo \ {e},
                   retry |-> call.retry \cup {e}]
      BY <2>1, <2>3
    <3> QED BY <1>1, <2>1, <3>1
  <2> QED BY <2>2, <2>3
<1> QED BY <1>1, <1>2 DEF Typed, transportVars, CallTyped

LEMMA SkipItemStep ==
  ASSUME IInv, NEW e \in Events, SkipItem(e)
  PROVE  IInv'
<1>1. /\ CallTyped'
      /\ call'.at = "route" /\ call.at = "route"
      /\ call'.mem = call.mem /\ call'.todo = call.todo \ {e} /\ call'.retry = call.retry
  BY RoutedItem DEF IInv, Typed, CallTyped, SkipItem
<1>2. OwnersTyped'
  BY DEF IInv, Typed, SkipItem, quarantineVars, ownerVars, OwnersTyped
<1>3. Durable' = Durable /\ Kept' = Kept /\ e \in Durable
  BY <1>1 DEF SkipItem, Unheard, quarantineVars, ownerVars, Kept, Durable
<1>4. RoutedKept'
  BY <1>1, <1>3 DEF IInv, SkipItem, transportVars, RoutedKept
<1>5. Recovered'
  BY <1>1 DEF IInv, SkipItem, quarantineVars, Recovered
<1> QED BY <1>1, <1>2, <1>3, <1>4, <1>5, OwnerStep DEF SkipItem

LEMMA ConsumeItemStep ==
  ASSUME IInv, NEW e \in Events, ConsumeItem(e)
  PROVE  IInv'
<1>1. /\ call' = Call("route", call'.mem, call.todo \ {e}, call.retry)
      /\ call'.mem = IF e \in Core THEN call.mem \cup {e} ELSE call.mem
      /\ inbox \subseteq inbox' /\ handed \subseteq handed'
      /\ e \in call'.mem \cup inbox' \cup handed'
      /\ inbox' \subseteq Attestation /\ Cardinality(inbox') <= InboxCapacity
      /\ handed' \subseteq Chat \cup Attestation
  <2>1. e \in Events \ Invalid /\ Consume(e, "route", call.todo \ {e}, call.retry) /\ Typed
    BY DEF IInv, ConsumeItem, Unheard
  <2>2. call' = Call("route", call'.mem, call.todo \ {e}, call.retry)
    BY <2>1 DEF Consume, Call
  <2> QED BY <2>1, <2>2, ConsumeKeeps
<1>2. call.at = "route"
  BY DEF ConsumeItem, Routing
<1>3. CallTyped'
  BY <1>1, <1>2 DEF IInv, Typed, ConsumeItem, Call, transportVars, CallTyped
<1>4. OwnersTyped'
  BY <1>1 DEF IInv, Typed, ConsumeItem, quarantineVars, OwnersTyped
<1>5. Durable \subseteq Durable' /\ Kept \subseteq Kept'
  BY <1>1, <1>2 DEF ConsumeItem, Call, quarantineVars, Kept, Durable
<1>6. RoutedKept'
  BY <1>1, <1>2, <1>5 DEF IInv, ConsumeItem, Call, transportVars, RoutedKept, Durable
<1>7. Recovered'
  BY <1>1, <1>2 DEF IInv, ConsumeItem, Call, quarantineVars, Recovered
<1> QED BY <1>3, <1>4, <1>5, <1>6, <1>7, OwnerStep DEF ConsumeItem

LEMMA QuarantineItemStep ==
  ASSUME IInv, NEW e \in Events, QuarantineItem(e)
  PROVE  IInv'
<1>1. /\ CallTyped'
      /\ call'.at = "route" /\ call.at = "route"
      /\ call'.mem = call.mem /\ call'.todo = call.todo \ {e} /\ call'.retry = call.retry
  BY RoutedItem DEF IInv, Typed, CallTyped, QuarantineItem
<1>2. OwnersTyped'
  BY DEF IInv, Typed, QuarantineItem, Unheard, ownerVars, OwnersTyped
<1>3. Durable' = Durable \cup {e} /\ Kept \subseteq Kept'
  BY <1>1 DEF QuarantineItem, ownerVars, Kept, Durable
<1>4. RoutedKept'
  BY <1>1, <1>3 DEF IInv, QuarantineItem, transportVars, RoutedKept
<1>5. Recovered'
  BY <1>1 DEF IInv, QuarantineItem, Recovered
<1> QED BY <1>1, <1>2, <1>3, <1>4, <1>5, OwnerStep DEF QuarantineItem

LEMMA RetryItemStep ==
  ASSUME IInv, NEW e \in Events, RetryItem(e)
  PROVE  IInv'
<1>1. /\ CallTyped'
      /\ call'.at = "route" /\ call.at = "route"
      /\ call'.mem = call.mem /\ call'.todo = call.todo \ {e}
      /\ call'.retry = call.retry \cup {e}
  BY RoutedItem DEF IInv, Typed, CallTyped, RetryItem
<1>2. OwnersTyped' /\ faults' # 0
  BY DEF IInv, Typed, RetryItem, Fault, quarantineVars, ownerVars, OwnersTyped
<1>3. Durable' = Durable /\ Kept' = Kept
  BY <1>1 DEF RetryItem, quarantineVars, ownerVars, Kept, Durable
<1>4. RoutedKept'
  BY <1>1, <1>3 DEF IInv, RetryItem, transportVars, RoutedKept
<1>5. Recovered'
  BY <1>2 DEF Recovered
<1> QED BY <1>1, <1>2, <1>3, <1>4, <1>5, OwnerStep DEF RetryItem

LEMMA HostStoresStep ==
  ASSUME IInv, HostStores
  PROVE  IInv'
<1>1. call' = Idle /\ call.at = "returned" /\ journal' = call.mem
      /\ journal \subseteq call.mem /\ call.mem \subseteq Core
  BY DEF IInv, Typed, CallTyped, HostStores
<1>2. CallTyped' /\ OwnersTyped'
  BY <1>1 DEF IInv, Typed, HostStores, Idle, Call, transportVars, quarantineVars, ownerVars,
              CallTyped, OwnersTyped
<1>3. Kept \subseteq Kept'
  BY <1>1 DEF HostStores, Idle, Call, quarantineVars, ownerVars, Kept, Durable
<1>4. RoutedKept' /\ Recovered'
  BY <1>1 DEF IInv, HostStores, Idle, Call, quarantineVars, RoutedKept, Recovered
<1> QED BY <1>2, <1>3, <1>4, OwnerStep DEF HostStores

LEMMA DrainStep ==
  ASSUME IInv, Drain
  PROVE  IInv'
<1>1. /\ call' = call /\ pending' = pending /\ journal' = journal /\ faults' = faults
      /\ held' = held /\ done' = done /\ expired' = expired
  BY DEF Drain, transportVars, quarantineVars
<1>2. CallTyped'
  BY <1>1 DEF IInv, Typed, CallTyped
<1>3. OwnersTyped'
  BY <1>1, FS_EmptySet, IngressAssumption DEF IInv, Typed, Drain, OwnersTyped
<1>4. Durable' = Durable /\ Kept' = Kept
  BY <1>1 DEF Drain, Kept, Durable
<1>5. RoutedKept' /\ Recovered'
  BY <1>1, <1>4 DEF IInv, RoutedKept, Recovered
<1> QED BY <1>2, <1>3, <1>4, <1>5, OwnerStep DEF Drain

-----------------------------------------------------------------------------
(* Steps that replace the transport *)

\* A step that ends the call and builds the transport anew: what was pending is
\* fetched again, and what was seen has its owner still.
LEMMA ForgottenStep ==
  ASSUME IInv, UNCHANGED relayVars, NewTransport, seen' = seen \/ seen' = {},
         call' = Idle, call.at # "returned", OwnersTyped', journal' = journal,
         seen' # {} => Durable' = Durable, Recovered'
  PROVE  IInv'
<1>1. /\ CursorsTyped' /\ BatchTyped' /\ CursorsKept' /\ BatchKept'
      /\ pending'.items = {}
  BY TransportForgets
<1>2. RelaysTyped' /\ stamp' = stamp
  BY SameRelays DEF IInv, Typed
<1>3. SeenTyped'
  BY <1>1, <1>2, FS_EmptySet, IngressAssumption DEF IInv, Typed, SeenTyped
<1>4. CallTyped' /\ RoutedKept'
  BY DEF Idle, Call, CallTyped, RoutedKept
<1>5. SeenKept'
  BY DEF IInv, SeenKept, Kept, Idle, Call
<1> QED BY <1>1, <1>2, <1>3, <1>4, <1>5 DEF IInv, Typed

LEMMA ReceiveFailsStep ==
  ASSUME IInv, ReceiveFails
  PROVE  IInv'
<1>1. /\ call' = Idle /\ call.at \in {"recover", "fetch"} /\ journal' = journal
      /\ seen' = seen
  BY DEF ReceiveFails
<1>2. OwnersTyped' /\ faults' # 0
  BY DEF IInv, Typed, ReceiveFails, Fault, quarantineVars, ownerVars, OwnersTyped
<1>3. Durable' = Durable
  BY DEF ReceiveFails, quarantineVars, ownerVars, Durable
<1>4. Recovered'
  BY <1>2 DEF Recovered
<1>5. CASE UNCHANGED transportVars
  <2>1. CallTyped' /\ RoutedKept'
    BY <1>1 DEF Idle, Call, CallTyped, RoutedKept
  <2>2. Kept' = Kept
    BY <1>1, <1>3 DEF Idle, Call, Kept
  <2> QED BY <1>1, <1>2, <1>4, <1>5, <2>1, <2>2, OwnerStep DEF ReceiveFails
<1>6. CASE NewTransport
  BY <1>1, <1>2, <1>3, <1>4, <1>6, ForgottenStep DEF ReceiveFails
<1> QED BY <1>5, <1>6 DEF ReceiveFails

LEMMA ResolveFailsStep ==
  ASSUME IInv, ResolveFails
  PROVE  IInv'
<1>1. OwnersTyped' /\ faults' # 0
  BY DEF IInv, Typed, ResolveFails, Fault, quarantineVars, ownerVars, OwnersTyped
<1>2. Durable' = Durable
  BY DEF ResolveFails, quarantineVars, ownerVars, Durable
<1>3. Recovered'
  BY <1>1 DEF Recovered
<1> QED BY <1>1, <1>2, <1>3, ForgottenStep DEF ResolveFails

LEMMA ReplaceTransportStep ==
  ASSUME IInv, ReplaceTransport
  PROVE  IInv'
<1>1. OwnersTyped' /\ faults' # 0
  BY DEF IInv, Typed, ReplaceTransport, Fault, quarantineVars, ownerVars, OwnersTyped
<1>2. Durable' = Durable
  BY DEF ReplaceTransport, quarantineVars, ownerVars, Durable
<1>3. Recovered'
  BY <1>1 DEF Recovered
<1>4. call' = call /\ call.at = "idle"
  BY DEF ReplaceTransport
<1>5. /\ CursorsTyped' /\ BatchTyped' /\ CursorsKept' /\ BatchKept'
      /\ pending'.items = {}
  BY TransportForgets DEF ReplaceTransport
<1>6. RelaysTyped' /\ stamp' = stamp /\ seen' = seen /\ journal' = journal
  BY SameRelays DEF IInv, Typed, ReplaceTransport
<1>7. SeenTyped' /\ CallTyped'
  BY <1>4, <1>5, <1>6 DEF IInv, Typed, SeenTyped, CallTyped
<1>8. SeenKept' /\ RoutedKept'
  BY <1>2, <1>4, <1>6 DEF IInv, SeenKept, RoutedKept, Kept
<1> QED BY <1>1, <1>3, <1>5, <1>6, <1>7, <1>8 DEF IInv, Typed

\* A crash forgets the seen ids with everything that was not kept.
LEMMA CrashStep ==
  ASSUME IInv, Crash
  PROVE  IInv'
<1>1. OwnersTyped' /\ faults' # 0
  BY FS_EmptySet, IngressAssumption
     DEF IInv, Typed, Crash, Fault, quarantineVars, OwnersTyped
<1>2. /\ CursorsTyped' /\ BatchTyped' /\ CursorsKept' /\ BatchKept'
  BY TransportForgets DEF Crash
<1>3. RelaysTyped' /\ SeenTyped'
  BY SameRelays, FS_EmptySet, IngressAssumption DEF IInv, Typed, Crash, SeenTyped
<1>4. CallTyped' /\ RoutedKept'
  BY DEF Crash, Idle, Call, CallTyped, RoutedKept
<1>5. SeenKept' /\ Recovered'
  BY <1>1 DEF Crash, SeenKept, Recovered
<1> QED BY <1>1, <1>2, <1>3, <1>4, <1>5 DEF IInv, Typed

-----------------------------------------------------------------------------
(* Fetching and resolving a batch *)

\* Receiving what a relay stores finds everything it passes: it returns the newest
\* it has in the window, and all of them if it stores no more than the limit.
LEMMA FetchMissesNothing ==
  ASSUME Typed, SeenKept, CursorsKept, call.at = "fetch", Behind <= 1,
         NEW r \in Relays, NEW F \in Limited(Visible(r)),
         NEW date \in 0..MaxNow, date <= Since(r) \/ date <= now,
         NEW e \in Passed(r, date)
  PROVE  e \in Kept \cup (F \ seen)
<1>1. RelaysTyped /\ CursorsTyped /\ stored[r] \in SUBSET DOMAIN stamp
  BY DEF Typed, RelaysTyped
<1>2. Since(r) \in 0..MaxNow /\ Passed(r, Since(r)) \subseteq Kept
  BY <1>1, SinceIsReached
<1>3. /\ e \in stored[r] /\ Cardinality(stored[r]) <= FetchLimit
      /\ now - Lookback <= stamp[e] /\ stamp[e] < date
      /\ stamp[e] \in Nat /\ now \in 0..MaxNow
  BY <1>1 DEF Passed, RelaysTyped
<1>4. CASE stamp[e] < Since(r)
  BY <1>2, <1>3, <1>4 DEF Passed
<1>5. CASE ~(stamp[e] < Since(r))
  <2>1. stamp[e] < now
    BY <1>2, <1>3, <1>5, IngressAssumption
  <2>2. e \in Visible(r)
    BY <1>2, <1>3, <1>5, <2>1, IngressAssumption DEF Visible
  <2>3. Visible(r) \in SUBSET stored[r]
    BY DEF Visible
  <2>4. /\ IsFiniteSet(stored[r]) /\ IsFiniteSet(Visible(r))
        /\ Cardinality(Visible(r)) <= Cardinality(stored[r])
        /\ Cardinality(Visible(r)) \in Nat /\ Cardinality(stored[r]) \in Nat
    BY <1>1, <2>3, StoredFinite, FS_Subset, FS_CardinalityType
  <2>5. Min({FetchLimit, Cardinality(Visible(r))}) = Cardinality(Visible(r))
    BY <1>3, <2>4, MinOfTwo, IngressAssumption
  <2>6. F = Visible(r)
    BY <2>4, <2>5, FS_Subset DEF Limited
  <2> QED BY <2>2, <2>6 DEF SeenKept
<1> QED BY <1>4, <1>5

\* The newest of what a relay returned has a date.
LEMMA NewestIsDate ==
  ASSUME RelaysTyped, NEW r \in Relays, Since(r) \in 0..MaxNow,
         NEW F \in Limited(Visible(r)), F # {}
  PROVE  Max({stamp[e] : e \in F}) \in Nat
<1>. DEFINE D == {stamp[e] : e \in F}
<1>1. F \subseteq Visible(r) /\ F \subseteq DOMAIN stamp
  BY DEF RelaysTyped, Limited, Visible
<1>2. now + FutureSkew \in Nat /\ \A e \in F : stamp[e] \in 0..(now + FutureSkew)
  BY <1>1, IngressAssumption DEF RelaysTyped, Visible
<1>3. D \in SUBSET (0..(now + FutureSkew)) /\ D # {}
  BY <1>2
<1>4. IsFiniteSet(D) /\ D \in SUBSET Int
  <2>. HIDE DEF D
  <2>1. IsFiniteSet(0..(now + FutureSkew))
    BY <1>2, FS_Interval
  <2>2. IsFiniteSet(D)
    BY <1>3, <2>1, FS_Subset
  <2>3. 0..(now + FutureSkew) \subseteq Int
    BY <1>2
  <2> QED BY <1>3, <2>2, <2>3
<1>5. Max(D) \in D
  <2>. HIDE DEF D
  <2> QED BY <1>3, <1>4, MaxOfSet
<1> QED BY <1>2, <1>3, <1>5

LEMMA ReadStep ==
  ASSUME IInv, NEW S \in SUBSET Relays, Read(S)
  PROVE  IInv'
<1>. DEFINE newest(F) == Max({stamp[e] : e \in F})
            batch(got) == [r \in {s \in S : got[s] # {}} |->
                             [candidate |-> NextReceiveCursor(Since(r), newest(got[r])),
                              ids |-> got[r] \ seen]]
<1>1. PICK got \in [S -> SUBSET DOMAIN stamp] :
        /\ \A r \in S : got[r] \in Limited(Visible(r))
        /\ pending' = Batch((UNION {got[r] : r \in S}) \ seen, batch(got))
        /\ call' = Call("route", call.mem, pending'.items, {})
  BY DEF Read
<1>2. /\ UNCHANGED relayVars /\ seen' = seen /\ journal' = journal
      /\ call.at = "fetch"
      /\ cursor' = IF S = {} THEN cursor ELSE [r \in Relays |-> Since(r)]
  BY DEF Read
<1>3. Typed /\ RelaysTyped /\ CursorsTyped /\ SeenKept /\ CursorsKept
  BY DEF IInv, Typed
<1>4. /\ RelaysTyped' /\ now' = now /\ stored' = stored /\ stamp' = stamp
  BY <1>2, <1>3, SameRelays
<1>5. /\ pending'.items = (UNION {got[r] : r \in S}) \ seen
      /\ DOMAIN pending'.relays = {s \in S : got[s] # {}}
      /\ \A r \in DOMAIN pending'.relays :
           /\ pending'.relays[r].candidate = NextReceiveCursor(Since(r), newest(got[r]))
           /\ pending'.relays[r].ids = got[r] \ seen
  <2>. HIDE DEF newest
  <2> QED BY <1>1 DEF Batch
<1>6. /\ call'.at = "route" /\ call'.mem = call.mem /\ call'.todo = pending'.items
      /\ call'.retry = {}
      /\ call' = [at |-> "route", mem |-> call.mem, todo |-> pending'.items, retry |-> {}]
  BY <1>1 DEF Call
<1>7. Durable' = Durable /\ Kept' = Durable /\ Kept = Durable
  BY <1>2, <1>6 DEF Read, quarantineVars, ownerVars, Kept, Durable
<1>8. \A r \in Relays : /\ Since(r) \in 0..MaxNow /\ Reached(Since(r))
                        /\ Behind <= 1 => Passed(r, Since(r)) \subseteq Kept
  BY <1>3, SinceIsReached
<1>9. ASSUME NEW r \in DOMAIN pending'.relays
      PROVE  /\ r \in Relays /\ got[r] \in Limited(Visible(r)) /\ got[r] \subseteq DOMAIN stamp
             /\ pending'.relays[r].candidate \in 0..MaxNow
             /\ Reached(pending'.relays[r].candidate)
             /\ pending'.relays[r].candidate <= Since(r)
                  \/ pending'.relays[r].candidate <= now
  <2>1. r \in Relays /\ got[r] \in Limited(Visible(r)) /\ got[r] # {}
        /\ got[r] \subseteq DOMAIN stamp
    BY <1>1, <1>5
  <2>2. newest(got[r]) \in Nat
    BY <1>3, <1>8, <2>1, NewestIsDate
  <2>. HIDE DEF newest
  <2>3. pending'.relays[r].candidate = NextReceiveCursor(Since(r), newest(got[r]))
    BY <1>5
  <2>4. /\ NextReceiveCursor(Since(r), newest(got[r])) \in 0..MaxNow
        /\ Reached(NextReceiveCursor(Since(r), newest(got[r])))
        /\ NextReceiveCursor(Since(r), newest(got[r])) <= Since(r)
             \/ NextReceiveCursor(Since(r), newest(got[r])) <= now
    BY <1>3, <1>8, <2>1, <2>2, CandidateIsReached
  <2> QED BY <2>1, <2>3, <2>4
<1>. HIDE DEF newest, batch
<1>10. SeenTyped' /\ CursorsTyped'
  <2>1. SeenTyped'
    BY <1>2, <1>3, <1>4, <1>5 DEF Typed, SeenTyped
  <2>2. CASE S = {}
    BY <1>2, <1>3, <2>1, <2>2 DEF CursorsTyped
  <2>3. CASE S # {}
    <3>1. cursor' = [r \in Relays |-> Since(r)]
      BY <1>2, <2>3
    <3> QED BY <1>8, <2>1, <3>1 DEF CursorsTyped
  <2> QED BY <2>1, <2>2, <2>3
<1>11. BatchTyped'
  <2>1. pending'.items = UNION {pending'.relays[r].ids : r \in DOMAIN pending'.relays}
    BY <1>5
  <2>2. \A r \in DOMAIN pending'.relays : pending'.relays[r].ids \subseteq DOMAIN stamp'
    BY <1>4, <1>5, <1>9
  <2> QED BY <1>9, <2>1, <2>2 DEF BatchTyped
<1>12. CallTyped'
  <2>1. pending'.items \subseteq Events
    BY <1>4, <1>11 DEF BatchTyped, RelaysTyped
  <2> QED BY <1>2, <1>3, <1>6, <2>1 DEF Typed, CallTyped
<1>13. OwnersTyped'
  BY <1>2, <1>3 DEF Read, Typed, Fault, quarantineVars, ownerVars, OwnersTyped
<1>14. SeenKept' /\ RoutedKept'
  BY <1>2, <1>3, <1>6, <1>7 DEF SeenKept, RoutedKept
<1>15. CursorsKept'
  <2>1. SUFFICES ASSUME NEW r \in DOMAIN cursor'
                 PROVE  /\ Reached(cursor[r])'
                        /\ Behind <= 1 => Passed(r, cursor[r])' \subseteq Kept'
    BY DEF CursorsKept
  <2>2. r \in Relays /\ cursor'[r] = Since(r)
    BY <1>2, <1>3 DEF CursorsTyped, Since
  <2>3. Reached(cursor[r])'
    BY <1>4, <1>8, <2>2 DEF Reached
  <2>4. Passed(r, cursor[r])' = Passed(r, Since(r))
    BY <1>4, <2>2 DEF Passed
  <2> QED BY <1>7, <1>8, <2>2, <2>3, <2>4
<1>16. BatchKept'
  <2>1. SUFFICES ASSUME NEW r \in DOMAIN pending'.relays
                 PROVE  /\ Reached(pending.relays[r].candidate)'
                        /\ Behind <= 1 =>
                             Passed(r, pending.relays[r].candidate)'
                               \subseteq Kept' \cup pending'.relays[r].ids
    BY DEF BatchKept
  <2>. DEFINE d == pending'.relays[r].candidate
  <2>2. Reached(pending.relays[r].candidate)'
    BY <1>4, <1>9 DEF Reached
  <2>3. Passed(r, pending.relays[r].candidate)' = Passed(r, d)
    BY <1>4 DEF Passed
  <2>4. r \in Relays /\ got[r] \in Limited(Visible(r)) /\ d \in 0..MaxNow
        /\ (d <= Since(r) \/ d <= now) /\ pending'.relays[r].ids = got[r] \ seen
    BY <1>5, <1>9
  <2>. HIDE DEF d
  <2>5. ASSUME Behind <= 1, NEW e \in Passed(r, d) PROVE e \in Kept \cup (got[r] \ seen)
    BY <1>2, <1>3, <2>4, <2>5, FetchMissesNothing
  <2> QED BY <1>7, <2>2, <2>3, <2>4, <2>5
<1>17. Recovered'
  <2>1. faults' = faults \/ faults' = faults + 1
    BY DEF Read, Fault
  <2>2. faults' = 0 => faults = 0
    BY <1>3, <2>1 DEF Typed, OwnersTyped
  <2>3. done' = done /\ expired' = expired
    BY DEF Read, quarantineVars
  <2> QED BY <1>2, <1>6, <2>2, <2>3 DEF IInv, Recovered
<1> QED BY <1>4, <1>10, <1>11, <1>12, <1>13, <1>14, <1>15, <1>16, <1>17 DEF IInv, Typed

\* The seen ids are cleared when they are full, and hold nothing but what was seen.
LEMMA RememberBounds ==
  ASSUME Typed, NEW ids \in SUBSET DOMAIN stamp, NEW K \in Remember(ids)
  PROVE  K \subseteq seen \cup ids /\ Cardinality(K) <= SeenCapacity
<1>1. CASE ids = {} \/ Cardinality(seen) + Cardinality(ids) <= SeenCapacity
  <2>1. K = seen \cup ids
    BY <1>1 DEF Remember
  <2>2. /\ IsFiniteSet(seen) /\ IsFiniteSet(ids)
        /\ Cardinality(seen) \in Nat /\ Cardinality(ids) \in Nat
        /\ Cardinality(seen) <= SeenCapacity
    BY StoredFinite DEF Typed, SeenTyped
  <2>3. CASE ids = {}
    BY <2>1, <2>2, <2>3
  <2>4. CASE Cardinality(seen) + Cardinality(ids) <= SeenCapacity
    <3>1. /\ Cardinality(seen \cup ids)
               = Cardinality(seen) + Cardinality(ids) - Cardinality(seen \cap ids)
          /\ IsFiniteSet(seen \cap ids)
      BY <2>2, FS_Union, FS_Intersection
    <3>2. Cardinality(seen \cap ids) \in Nat
      BY <3>1, FS_CardinalityType
    <3> QED BY <2>1, <2>2, <2>4, <3>1, <3>2, IngressAssumption
  <2> QED BY <1>1, <2>3, <2>4
<1>2. CASE ~(ids = {} \/ Cardinality(seen) + Cardinality(ids) <= SeenCapacity)
  BY <1>2 DEF Remember
<1> QED BY <1>1, <1>2

LEMMA ResolveStep ==
  ASSUME IInv, Resolve
  PROVE  IInv'
<1>. DEFINE complete == {r \in DOMAIN pending.relays :
                           Complete(pending.relays[r].ids, TerminalItems)}
            left == [r \in DOMAIN pending.relays \ complete |->
                       [candidate |-> pending.relays[r].candidate,
                        ids |-> pending.relays[r].ids \cap call.retry]]
<1>1. /\ call.at = "route" /\ call.todo = {} /\ journal' = journal /\ faults' = faults
      /\ seen' \in Remember(TerminalItems)
      /\ cursor' = [r \in DOMAIN cursor |->
                      IF r \in complete
                      THEN Max({cursor[r], pending.relays[r].candidate}) ELSE cursor[r]]
      /\ pending' = IF call.retry = {} THEN NoBatch ELSE Batch(call.retry, left)
      /\ call' = Call("returned", call.mem, {}, {})
      /\ UNCHANGED relayVars /\ UNCHANGED quarantineVars /\ UNCHANGED ownerVars
  BY DEF Resolve
<1>2. Typed /\ RelaysTyped /\ SeenTyped /\ CursorsTyped /\ BatchTyped /\ CallTyped
  BY DEF IInv, Typed
<1>3. /\ RelaysTyped' /\ now' = now /\ stored' = stored /\ stamp' = stamp
  BY <1>1, <1>2, SameRelays
<1>4. /\ call' = [at |-> "returned", mem |-> call.mem, todo |-> {}, retry |-> {}]
      /\ call'.at = "returned" /\ call'.mem = call.mem /\ call'.todo = {} /\ call'.retry = {}
  BY <1>1 DEF Call
<1>5. /\ Durable' = Durable /\ Kept = Durable /\ Kept' = Durable \cup call.mem
      /\ TerminalItems \subseteq Kept'
  BY <1>1, <1>4
     DEF IInv, RoutedKept, TerminalItems, quarantineVars, ownerVars, Kept, Durable
<1>6. TerminalItems \subseteq DOMAIN stamp /\ call.retry \subseteq pending.items
      /\ TerminalItems = pending.items \ call.retry
  BY <1>2 DEF BatchTyped, CallTyped, TerminalItems
<1>7. seen' \subseteq seen \cup TerminalItems /\ Cardinality(seen') <= SeenCapacity
  BY <1>1, <1>2, <1>6, RememberBounds
<1>8. /\ pending'.items = call.retry
      /\ DOMAIN pending'.relays \subseteq DOMAIN pending.relays \ complete
      /\ \A r \in DOMAIN pending'.relays :
           /\ pending'.relays[r].candidate = pending.relays[r].candidate
           /\ pending'.relays[r].ids = pending.relays[r].ids \cap call.retry
      /\ call.retry # {} => DOMAIN pending'.relays = DOMAIN pending.relays \ complete
  <2>1. CASE call.retry = {}
    BY <1>1, <2>1, NoBatchTyped
  <2>2. CASE call.retry # {}
    <3>1. pending'.items = call.retry /\ pending'.relays = left
      BY <1>1, <2>2 DEF Batch
    <3> QED BY <3>1
  <2> QED BY <2>1, <2>2
<1>9. \A r \in complete : /\ r \in DOMAIN pending.relays
                          /\ pending.relays[r].ids \subseteq TerminalItems
  BY DEF Complete
<1>10. ASSUME NEW r \in DOMAIN pending.relays
       PROVE  /\ r \in Relays /\ pending.relays[r].ids \subseteq pending.items
              /\ pending.relays[r].ids \subseteq DOMAIN stamp
              /\ pending.relays[r].candidate \in 0..MaxNow
              /\ Reached(pending.relays[r].candidate)
              /\ Behind <= 1 =>
                   Passed(r, pending.relays[r].candidate) \subseteq Kept \cup pending.relays[r].ids
  BY <1>2 DEF BatchTyped, IInv, BatchKept
<1>11. ASSUME NEW r \in DOMAIN cursor
       PROVE  /\ r \in Relays /\ cursor[r] \in 0..MaxNow /\ Reached(cursor[r])
              /\ Behind <= 1 => Passed(r, cursor[r]) \subseteq Kept
  BY <1>2 DEF CursorsTyped, IInv, CursorsKept
<1>12. ASSUME NEW r \in DOMAIN cursor'
       PROVE  /\ r \in DOMAIN cursor
              /\ cursor'[r] = cursor[r]
                   \/ (r \in complete /\ cursor'[r] = pending.relays[r].candidate)
  <2>1. r \in DOMAIN cursor
    BY <1>1
  <2>2. CASE r \in complete
    <3>1. cursor[r] \in Int /\ pending.relays[r].candidate \in Int
      BY <1>9, <1>10, <1>11, <2>1, <2>2
    <3>2. Max({cursor[r], pending.relays[r].candidate})
            \in {cursor[r], pending.relays[r].candidate}
      BY <3>1, MaxOfTwo
    <3> QED BY <1>1, <2>1, <2>2, <3>2
  <2>3. CASE r \notin complete
    BY <1>1, <2>1, <2>3
  <2> QED BY <2>2, <2>3
<1>. HIDE DEF complete, left
<1>13. SeenTyped'
  BY <1>2, <1>3, <1>6, <1>7, <1>8 DEF SeenTyped
<1>14. CursorsTyped'
  <2>1. ASSUME NEW r \in DOMAIN cursor' PROVE r \in Relays /\ cursor'[r] \in 0..MaxNow
    BY <1>9, <1>10, <1>11, <1>12
  <2> QED BY <2>1 DEF CursorsTyped
<1>15. BatchTyped'
  <2>1. pending'.items = UNION {pending'.relays[r].ids : r \in DOMAIN pending'.relays}
    <3>1. ASSUME NEW e \in call.retry
          PROVE  \E r \in DOMAIN pending'.relays : e \in pending'.relays[r].ids
      <4>1. PICK r \in DOMAIN pending.relays : e \in pending.relays[r].ids
        BY <1>2, <1>6 DEF BatchTyped
      <4>2. r \notin complete
        BY <1>6, <1>9, <4>1
      <4> QED BY <1>8, <4>1, <4>2
    <3>2. \A r \in DOMAIN pending'.relays : pending'.relays[r].ids \subseteq call.retry
      BY <1>8
    <3> QED BY <1>8, <3>1, <3>2
  <2>2. ASSUME NEW r \in DOMAIN pending'.relays
        PROVE  /\ r \in Relays /\ pending'.relays[r].candidate \in 0..MaxNow
               /\ pending'.relays[r].ids \subseteq DOMAIN stamp'
    BY <1>3, <1>8, <1>10
  <2> QED BY <2>1, <2>2 DEF BatchTyped
<1>16. CallTyped' /\ OwnersTyped'
  <2>1. CallTyped'
    BY <1>1, <1>2, <1>4 DEF CallTyped
  <2>2. OwnersTyped'
    BY <1>1, <1>2 DEF Typed, quarantineVars, ownerVars, OwnersTyped
  <2> QED BY <2>1, <2>2
<1>17. SeenKept' /\ RoutedKept'
  BY <1>4, <1>5, <1>7 DEF IInv, SeenKept, RoutedKept
<1>18. \A d : (Reached(d)' <=> Reached(d)) /\ \A r : Passed(r, d)' = Passed(r, d)
  BY <1>1, <1>2, SameRelays
<1>19. CursorsKept'
  <2>1. SUFFICES ASSUME NEW r \in DOMAIN cursor'
                 PROVE  /\ Reached(cursor[r])'
                        /\ Behind <= 1 => Passed(r, cursor[r])' \subseteq Kept'
    BY DEF CursorsKept
  <2>. DEFINE d == cursor'[r]
  <2>2. Reached(d) /\ (Behind <= 1 => Passed(r, d) \subseteq Kept')
    <3>1. CASE d = cursor[r]
      BY <1>5, <1>11, <1>12, <3>1
    <3>2. CASE r \in complete /\ d = pending.relays[r].candidate
      <4>1. /\ r \in DOMAIN pending.relays
            /\ pending.relays[r].ids \subseteq TerminalItems
        BY <1>9, <3>2
      <4> QED BY <1>5, <1>10, <3>2, <4>1
    <3> QED BY <1>12, <3>1, <3>2
  <2>3. Reached(cursor[r])' <=> Reached(d)
    BY <1>3 DEF Reached
  <2>4. Passed(r, cursor[r])' = Passed(r, d)
    BY <1>3 DEF Passed
  <2> QED BY <2>2, <2>3, <2>4
<1>20. BatchKept'
  <2>1. SUFFICES ASSUME NEW r \in DOMAIN pending'.relays
                 PROVE  /\ Reached(pending.relays[r].candidate)'
                        /\ Behind <= 1 =>
                             Passed(r, pending.relays[r].candidate)'
                               \subseteq Kept' \cup pending'.relays[r].ids
    BY DEF BatchKept
  <2>. DEFINE d == pending'.relays[r].candidate
  <2>2. r \in DOMAIN pending.relays /\ d = pending.relays[r].candidate
        /\ pending'.relays[r].ids = pending.relays[r].ids \cap call.retry
    BY <1>8
  <2>3. Reached(pending.relays[r].candidate)' <=> Reached(d)
    BY <1>3 DEF Reached
  <2>4. Passed(r, pending.relays[r].candidate)' = Passed(r, d)
    BY <1>3 DEF Passed
  <2>5. pending.relays[r].ids \subseteq Kept' \cup pending'.relays[r].ids
    BY <1>5, <1>6, <1>10, <2>2
  <2>. HIDE DEF d
  <2>6. Reached(d) /\ (Behind <= 1 => Passed(r, d) \subseteq Kept \cup pending.relays[r].ids)
    BY <1>10, <2>2
  <2> QED BY <1>5, <2>3, <2>4, <2>5, <2>6
<1>21. Recovered'
  BY <1>1, <1>4 DEF IInv, quarantineVars, Recovered
<1> QED BY <1>3, <1>13, <1>14, <1>15, <1>16, <1>17, <1>19, <1>20, <1>21 DEF IInv, Typed

-----------------------------------------------------------------------------
(* The theorems *)

LEMMA InitInv ==
  ASSUME Init
  PROVE  IInv
<1>1. DOMAIN stamp = {} /\ DOMAIN cursor = {} /\ pending.items = {}
      /\ DOMAIN pending.relays = {}
      /\ pending.items = UNION {pending.relays[r].ids : r \in DOMAIN pending.relays}
  BY NoBatchTyped DEF Init
<1>2. RelaysTyped /\ CursorsTyped /\ BatchTyped
  BY <1>1, IngressAssumption DEF Init, RelaysTyped, CursorsTyped, BatchTyped
<1>3. SeenTyped /\ CallTyped /\ OwnersTyped
  BY <1>1, FS_EmptySet, IngressAssumption
     DEF Init, Idle, Call, SeenTyped, CallTyped, OwnersTyped
<1>4. SeenKept /\ RoutedKept /\ CursorsKept /\ BatchKept /\ Recovered
  BY <1>1 DEF Init, Idle, Call, SeenKept, RoutedKept, CursorsKept, BatchKept, Recovered
<1> QED BY <1>2, <1>3, <1>4 DEF IInv, Typed

LEMMA NextKeepsInv ==
  ASSUME IInv, [Next]_vars
  PROVE  IInv'
<1>1. CASE UNCHANGED vars
  BY <1>1 DEF vars, IInv, Typed, RelaysTyped, SeenTyped, CursorsTyped, BatchTyped, CallTyped,
              OwnersTyped, SeenKept, RoutedKept, CursorsKept, BatchKept, Recovered, Kept,
              Durable, Reached, Passed
<1>2. CASE Receive
  <2>1. CASE Start \/ NothingDue \/ Represent \/ Resolve \/ HostStores
    BY <2>1, StartStep, NothingDueStep, RepresentStep, ResolveStep, HostStoresStep
  <2>2. CASE Read(Relays)
    BY <2>2, ReadStep
  <2>3. CASE \E e \in Events : Recover(e) \/ SkipItem(e) \/ ConsumeItem(e)
    BY <2>3, RecoverStep, SkipItemStep, ConsumeItemStep
  <2> QED BY <1>2, <2>1, <2>2, <2>3 DEF Receive
<1>3. CASE Expire \/ ReceiveFails \/ ResolveFails \/ ReplaceTransport \/ Crash \/ Drain
  BY <1>3, ExpireStep, ReceiveFailsStep, ResolveFailsStep, ReplaceTransportStep, CrashStep,
     DrainStep
<1>4. CASE \E S \in SUBSET Relays : Read(S)
  BY <1>4, ReadStep
<1>5. CASE \E e \in Events : QuarantineItem(e) \/ RetryItem(e)
  BY <1>5, QuarantineItemStep, RetryItemStep
<1>6. CASE Tick \/ (\E e \in Events, R \in SUBSET Relays : Publish(e, R))
  BY <1>6, WorldStep
<1> QED BY <1>1, <1>2, <1>3, <1>4, <1>5, <1>6 DEF Next

\* What is seen, passed by a cursor or routed has its owner, in every state of a
\* capsule that receives: the inductive invariant of the receive path.
THEOREM HandledIsKept == Spec => []IInv
<1>1. Init => IInv
  BY InitInv
<1>2. IInv /\ [Next]_vars => IInv'
  BY NextKeepsInv
<1> QED BY <1>1, <1>2, PTL DEF Spec

\* The relays of a pending batch always share its items out among them, none of
\* which is seen, and the seen ids and the attestation queue stay within bounds.
THEOREM TypeCorrect == Spec => []TypeOK
<1>1. IInv => TypeOK
  BY DEF IInv, Typed, RelaysTyped, SeenTyped, CursorsTyped, BatchTyped, CallTyped,
         OwnersTyped, TypeOK
<1> QED BY <1>1, HandledIsKept, PTL

\* Between receives, what the adapter will not present again is safe from a crash,
\* for any relays, batches, retries, replaced transports and crashes.
THEOREM SkippedStaysDurable == Spec => []SkippedIsDurable
<1>1. IInv => SkippedIsDurable
  BY DEF IInv, SeenKept, CursorsKept, Kept, PassedIsDurable, SkippedIsDurable
<1> QED BY <1>1, HandledIsKept, PTL

\* While nothing fails, an envelope recovered from the quarantine is in the stored
\* journal when the receive has ended.
THEOREM RecoveredStored == Spec => []RecoveredIsStored
<1>1. IInv => RecoveredIsStored
  BY DEF IInv, Recovered, RecoveredIsStored
<1> QED BY <1>1, HandledIsKept, PTL

=============================================================================
