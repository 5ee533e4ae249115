--------------------------- MODULE ExchangeProofs ---------------------------
(***************************************************************************)
(* The safety properties of Exchange for any capsules, invitations,        *)
(* starter kinds, slots and crashes.                                       *)
(*                                                                         *)
(* Two journals agree because every row that came from elsewhere can be    *)
(* traced: an offer received to the offer sent, a terminal to the offer it *)
(* ends and to the journal that decided it, a relationship row to the      *)
(* acceptance behind it, a burn to the rejection that earned it.  Journals *)
(* only grow, so what is traced once stays traced; what has to be shown of *)
(* each step is where its new rows come from.  Invitation ids tie the two  *)
(* sides together: an id is sent by one capsule, once.                     *)
(***************************************************************************)
EXTENDS Exchange, SequenceTheorems, FiniteSetTheorems, WellFoundedInduction, TLAPS

-----------------------------------------------------------------------------
(* The inductive invariant *)

Has(l, e) == \E k \in DOMAIN l : l[k] = e

IsSent(e, i) == e.type = "InvitationSent" /\ e.inv = i
IsReceived(e, i) == e.type = "InvitationReceived" /\ e.inv = i
IsAnswer(e) == e.type \in {"InvitationAccepted", "InvitationRejected"}
IsOwnExpiry(e, c) == e.type = "InvitationExpired" /\ e.signer = c

\* The row in the sender's journal that an offer received comes from.
AsSent(e) == Offer("InvitationSent", e.signer, e.inv, e.starter, e.kind, e.to)

\* What follows is said of row k in the journal of c, L being all journals.

\* What only the owner writes into its journal.
OwnRow(L, c, k) ==
  L[c][k].type \in {"StarterCreated", "StarterBurned", "InvitationSent",
                    "RelationshipEstablished"} => L[c][k].signer = c

\* An invitation is sent to somebody else, and one received was sent, to this
\* capsule.
OfferTraced(L, c, k) ==
  /\ L[c][k].type = "InvitationSent" => L[c][k].to # c
  /\ L[c][k].type = "InvitationReceived" =>
       /\ L[c][k].to = c /\ L[c][k].signer # c
       /\ Has(L[L[c][k].signer], AsSent(L[c][k]))

\* A terminal follows the offer it ends; one from elsewhere is in the journal of
\* the other side of that offer.
AnswerTraced(L, c, k) ==
  IsAnswer(L[c][k]) =>
    IF L[c][k].signer = c
    THEN \E j \in 1..(k - 1) : IsReceived(L[c][j], L[c][k].inv)
    ELSE /\ \E j \in 1..(k - 1) : /\ IsSent(L[c][j], L[c][k].inv)
                                  /\ L[c][j].to = L[c][k].signer
         /\ Has(L[L[c][k].signer], L[c][k])

ExpiryTraced(L, c, k) ==
  L[c][k].type = "InvitationExpired" =>
    IF L[c][k].signer = c
    THEN \E j \in 1..(k - 1) : IsSent(L[c][j], L[c][k].inv)
    ELSE /\ \E j \in 1..(k - 1) : /\ IsReceived(L[c][j], L[c][k].inv)
                                  /\ L[c][j].signer = L[c][k].signer
         /\ Has(L[L[c][k].signer], L[c][k])

\* Nothing ended an invitation before it was accepted, or revoked by its sender.
ResolvesFirst(L, c, k) ==
  L[c][k].type = "InvitationAccepted" \/ IsOwnExpiry(L[c][k], c)
    => \A j \in 1..(k - 1) : ~IsTerminalOf(L[c][j], L[c][k].inv)

\* An own acceptance comes with its relationship row.
AcceptanceBinds(L, c, k) ==
  L[c][k].type = "InvitationAccepted" /\ L[c][k].signer = c
    => \E j \in DOMAIN L[c] :
         /\ IsReceived(L[c][j], L[c][k].inv)
         /\ Has(L[c], RelationshipEstablished(c, L[c][j].signer, L[c][k].starter,
                        L[c][j].starter, L[c][j].kind, L[c][k].inv))

\* A relationship row of the inviting side has the acceptance behind it.
BoundByAcceptance(L, c, r) ==
  \E j \in DOMAIN L[c] :
    /\ IsSent(L[c][j], r.inv)
    /\ L[c][j].to = r.peer /\ L[c][j].starter = r.starter /\ L[c][j].kind = r.kind
    /\ Has(L[r.peer], InvitationAccepted(r.peer, r.inv, r.peerStarter))
    /\ \E t \in DOMAIN L[c] : IsTerminalOf(L[c][t], r.inv)

RelationshipTraced(L, c, k) ==
  L[c][k].type = "RelationshipEstablished" =>
    \/ BoundByAcceptance(L, c, L[c][k])
    \/ \E j \in DOMAIN L[c] : IsReceived(L[c][j], L[c][k].inv)

\* A burn has the rejection behind it.
BurnTraced(L, c, k) ==
  L[c][k].type = "StarterBurned" =>
    \E j \in DOMAIN L[c] :
      /\ L[c][j].type = "InvitationSent" /\ L[c][j].starter = L[c][k].starter
      /\ Has(L[L[c][j].to], InvitationRejected(L[c][j].to, L[c][j].inv, "EmptySlot"))

RowTraced(L, c, k) ==
  /\ OwnRow(L, c, k) /\ OfferTraced(L, c, k)
  /\ AnswerTraced(L, c, k) /\ ExpiryTraced(L, c, k) /\ ResolvesFirst(L, c, k)
  /\ AcceptanceBinds(L, c, k) /\ RelationshipTraced(L, c, k) /\ BurnTraced(L, c, k)

AllTraced(L) == \A c \in Capsules : \A k \in DOMAIN L[c] : RowTraced(L, c, k)

\* An invitation is sent once.
OneSender(L) ==
  \A c, d \in Capsules : \A j \in DOMAIN L[c], k \in DOMAIN L[d] :
    /\ L[c][j].type = "InvitationSent" /\ L[d][k].type = "InvitationSent"
    /\ L[c][j].inv = L[d][k].inv
    => c = d /\ j = k

\* Jobs and messages can be traced, too.
JobTraced(L, c, job) ==
  /\ job.op = "send" => job.to # c
  /\ job.op \in {"accept", "reject"} => \E j \in DOMAIN L[c] : IsReceived(L[c][j], job.inv)

OfferMessage(L, m) ==
  /\ m.event.type = "InvitationReceived"
  /\ m.event.to = m.to /\ m.to # m.from
  /\ Has(L[m.from], AsSent(m.event))

AnswerMessage(L, m) ==
  /\ IsAnswer(m.event)
  /\ Has(L[m.from], m.event)
  /\ \E j \in DOMAIN L[m.from] : IsReceived(L[m.from][j], m.event.inv) /\ L[m.from][j].signer = m.to

ExpiryMessage(L, m) ==
  /\ m.event.type = "InvitationExpired"
  /\ Has(L[m.from], m.event)
  /\ \E j \in DOMAIN L[m.from] : IsSent(L[m.from][j], m.event.inv) /\ L[m.from][j].to = m.to

MessageTraced(L, m) ==
  /\ m.event.signer = m.from
  /\ OfferMessage(L, m) \/ AnswerMessage(L, m) \/ ExpiryMessage(L, m)

\* The starters the first n rows created and neither they burn nor any revoke of
\* the journal takes away: at no point were there more than slots.
CreatedIn(l, c, n) ==
  {l[k].starter : k \in {k \in 1..n : l[k].type = "StarterCreated" /\ l[k].signer = c}}
BurnedIn(l, c, n) ==
  {l[k].starter : k \in {k \in 1..n : l[k].type = "StarterBurned" /\ l[k].signer = c}}
Live(l, c, gone, n) == CreatedIn(l, c, n) \ (BurnedIn(l, c, n) \cup gone)

SlotsSuffice(l, c) ==
  \A n \in 0..Len(l) : Cardinality(Live(l, c, RevokedStarters(l), n)) <= NumSlots

IInv ==
  /\ TypeOK
  /\ AllTraced(ledger)
  /\ OneSender(ledger)
  /\ \A c \in Capsules : \A k \in DOMAIN queue[c] : JobTraced(ledger, c, queue[c][k])
  /\ \A m \in net : MessageTraced(ledger, m)
  /\ \A c \in Capsules : SlotsSuffice(ledger[c], c)

-----------------------------------------------------------------------------
(* Naturals and first rows *)

\* A nonempty set of naturals has a least element.
LEMMA LeastNatural ==
  ASSUME NEW S \in SUBSET Nat, S # {}
  PROVE  \E n \in S : \A m \in S : n <= m
<1>. DEFINE upTo(n) == S \cap (0..n)
            T == {upTo(n) : n \in S}
<1>1. T \subseteq FiniteSubsetsOf(Nat) /\ T # {}
  <2>1. ASSUME NEW n \in S PROVE IsFiniteSet(upTo(n)) /\ upTo(n) \subseteq Nat
    <3>1. n \in Int /\ IsFiniteSet(0..n)
      BY FS_Interval
    <3> QED BY <3>1, FS_Intersection
  <2> QED BY <2>1 DEF FiniteSubsetsOf
<1>2. PICK X \in T : \A Y \in T : ~(<<Y, X>> \in StrictSubsetOrdering(Nat))
  BY <1>1, WFMin, FS_StrictSubsetOrderingWellFounded
<1>3. PICK n \in S : X = upTo(n)
  BY <1>2
<1>4. ASSUME NEW m \in S, m < n PROVE FALSE
  <2>1. upTo(m) \in T /\ upTo(m) \subseteq X /\ n \in X /\ n \notin upTo(m)
    BY <1>3, <1>4
  <2>2. <<upTo(m), X>> \in StrictSubsetOrdering(Nat)
    BY <2>1, <1>1, <1>2 DEF StrictSubsetOrdering, FiniteSubsetsOf
  <2> QED BY <1>2, <2>1, <2>2
<1> QED BY <1>4

LEMMA MinIsLeast ==
  ASSUME NEW S \in SUBSET Nat, S # {}
  PROVE  Min(S) \in S /\ \A m \in S : Min(S) <= m
BY LeastNatural DEF Min

LEMMA MaxIsGreatest ==
  ASSUME NEW n \in Nat, NEW S \in SUBSET (0..n), S # {}
  PROVE  Max(S) \in S /\ \A m \in S : m <= Max(S)
<1>. DEFINE down == {k \in 0..n : n - k \in S}
<1>1. PICK x \in S : TRUE
  OBVIOUS
<1>2. down \in SUBSET Nat /\ down # {}
  <2>1. n - (n - x) = x /\ n - x \in 0..n
    BY <1>1
  <2>2. n - x \in down
    BY <1>1, <2>1
  <2>3. down \subseteq Nat
    OBVIOUS
  <2> QED BY <2>2, <2>3
<1>3. PICK y \in down : \A m \in down : y <= m
  <2> HIDE DEF down
  <2> QED BY <1>2, LeastNatural
<1>4. n - y \in S /\ \A m \in S : m <= n - y
  <2>1. ASSUME NEW m \in S PROVE m <= n - y
    <3>1. n - m \in down
      OBVIOUS
    <3> QED BY <1>3, <3>1
  <2> QED BY <1>3, <2>1
<1> QED BY <1>4 DEF Max

\* Induction over the naturals, for a property given as a set.
LEMMA SetInduction ==
  ASSUME NEW S, 0 \in S, \A n \in Nat : n \in S => n + 1 \in S
  PROVE  \A n \in Nat : n \in S
<1>1. SUFFICES ASSUME Nat \ S # {} PROVE FALSE
  OBVIOUS
<1>2. PICK n \in Nat \ S : \A m \in Nat \ S : n <= m
  BY <1>1, LeastNatural
<1>3. n - 1 \in Nat /\ n - 1 \in S
  BY <1>2
<1> QED BY <1>2, <1>3

-----------------------------------------------------------------------------
(* The slots *)

\* The recursion that defines Replay has a solution, so it is one.
LEMMA ReplaySteps ==
  ASSUME NEW l, NEW c, NEW gone, Len(l) \in Nat
  PROVE  /\ Replay(l, c, gone)[0] = NoSlots(gone)
         /\ \A n \in 1..Len(l) :
              Replay(l, c, gone)[n] = Projected(Replay(l, c, gone)[n - 1], l[n], c)
<1>. DEFINE Solves(g, m) ==
              g = [n \in 0..m |-> IF n = 0 THEN NoSlots(gone) ELSE Projected(g[n - 1], l[n], c)]
            solvable == {m \in Nat : \E g : Solves(g, m)}
<1>1. 0 \in solvable
  <2>. DEFINE g == [n \in 0..0 |-> NoSlots(gone)]
  <2>1. Solves(g, 0)
    OBVIOUS
  <2> QED BY <2>1
<1>2. ASSUME NEW m \in Nat, m \in solvable PROVE m + 1 \in solvable
  <2>1. PICK g : Solves(g, m)
    BY <1>2
  <2>. DEFINE h == [n \in 0..(m + 1) |-> IF n = m + 1 THEN Projected(g[m], l[m + 1], c) ELSE g[n]]
              body == [n \in 0..(m + 1) |-> IF n = 0 THEN NoSlots(gone)
                                             ELSE Projected(h[n - 1], l[n], c)]
  <2>2. ASSUME NEW n \in 0..(m + 1) PROVE h[n] = body[n]
    <3>1. CASE n = 0
      BY <2>1, <3>1
    <3>2. CASE n = m + 1
      <4>1. h[n - 1] = g[m]
        BY <3>2
      <4> QED BY <3>2, <4>1
    <3>3. CASE n \in 1..m
      <4>1. h[n - 1] = g[n - 1] /\ h[n] = g[n]
        BY <3>3
      <4>2. g[n] = Projected(g[n - 1], l[n], c)
        BY <2>1, <3>3
      <4> QED BY <3>3, <4>1, <4>2
    <3> QED BY <3>1, <3>2, <3>3
  <2>3. Solves(h, m + 1)
    BY <2>2
  <2>. HIDE DEF h
  <2> QED BY <2>3
<1>. HIDE DEF solvable
<1>3. Len(l) \in solvable
  BY <1>1, <1>2, SetInduction
<1>. USE DEF solvable
<1>4. Solves(Replay(l, c, gone), Len(l))
  BY <1>3 DEF Replay
<1> QED BY <1>4

SlotArrays == [Slots -> StarterIds \cup {None}]
Occupied(slots) == {slots[k] : k \in Slots} \ {None}
Distinct(slots) == \A j, k \in Slots : slots[j] = slots[k] /\ slots[j] # None => j = k

LEMMA SlotsAreNaturals == NumSlots \in Nat /\ Slots = 1..NumSlots
BY CapsuleAssumption DEF Slots

LEMMA FirstFreeSlot ==
  ASSUME NEW slots \in SlotArrays
  PROVE  \/ FirstFree(slots) = 0 /\ \A k \in Slots : slots[k] # None
         \/ FirstFree(slots) \in Slots /\ slots[FirstFree(slots)] = None
<1>. DEFINE free == {k \in 1..Len(slots) : slots[k] = None}
<1>1. Len(slots) = NumSlots /\ slots \in [1..NumSlots -> StarterIds \cup {None}]
  BY SlotsAreNaturals DEF SlotArrays
<1>2. FirstFree(slots) = IF free # {} THEN Min(free) ELSE 0
  BY DEF FirstFree, SelectInSeq
<1>3. free \in SUBSET Nat
  BY <1>1, SlotsAreNaturals
<1>4. free # {} => Min(free) \in free
  <2> HIDE DEF free
  <2> QED BY <1>3, MinIsLeast
<1> QED BY <1>1, <1>2, <1>4, SlotsAreNaturals

LEMMA OccupiedAreStarters ==
  ASSUME NEW slots \in SlotArrays PROVE Occupied(slots) \subseteq StarterIds
BY DEF SlotArrays, Occupied

\* When every slot is taken there are as many starters as slots.
LEMMA FullSlots ==
  ASSUME NEW slots \in SlotArrays, Distinct(slots), \A k \in Slots : slots[k] # None
  PROVE  IsFiniteSet(Occupied(slots)) /\ Cardinality(Occupied(slots)) = NumSlots
<1>1. slots \in Bijection(Slots, Occupied(slots))
  BY DEF SlotArrays, Distinct, Occupied, Bijection, Injection, IsInjective, Surjection
<1>2. IsFiniteSet(Slots) /\ Cardinality(Slots) = NumSlots
  BY SlotsAreNaturals, FS_Interval
<1>3. ExistsBijection(Slots, Occupied(slots))
  BY <1>1 DEF ExistsBijection
<1> QED BY <1>2, <1>3, FS_Bijection

LEMMA FreeStarterEffect ==
  ASSUME NEW slots \in SlotArrays, Distinct(slots), NEW s
  PROVE  /\ FreeStarter(slots, s) \in SlotArrays /\ Distinct(FreeStarter(slots, s))
         /\ Occupied(FreeStarter(slots, s)) = Occupied(slots) \ {s}
<1>1. /\ DOMAIN slots = Slots
      /\ FreeStarter(slots, s) \in SlotArrays
      /\ \A k \in Slots : FreeStarter(slots, s)[k] = IF slots[k] = s THEN None ELSE slots[k]
  BY DEF FreeStarter, SlotArrays
<1>2. Distinct(FreeStarter(slots, s))
  BY <1>1 DEF Distinct
<1>3. Occupied(FreeStarter(slots, s)) = Occupied(slots) \ {s}
  BY <1>1 DEF Occupied
<1> QED BY <1>1, <1>2, <1>3

LEMMA PutStarterEffect ==
  ASSUME NEW slots \in SlotArrays, Distinct(slots), NEW s \in StarterIds
  PROVE  /\ PutStarter(slots, s) \in SlotArrays /\ Distinct(PutStarter(slots, s))
         /\ \/ Occupied(PutStarter(slots, s)) = Occupied(slots) \cup {s}
            \/ s \notin Occupied(slots) /\ \A k \in Slots : slots[k] # None
<1>. DEFINE f == FirstFree(slots)
<1>0. s # None /\ ToSet(slots) = {slots[k] : k \in Slots}
  BY NoneIsNoStarter DEF ToSet, SlotArrays
<1>1. CASE s \in ToSet(slots)
  BY <1>0, <1>1 DEF PutStarter, Occupied
<1>2. CASE s \notin ToSet(slots) /\ f = 0
  BY <1>0, <1>2, FirstFreeSlot, SlotsAreNaturals DEF PutStarter, Occupied
<1>3. CASE s \notin ToSet(slots) /\ f # 0
  <2>1. f \in Slots /\ slots[f] = None
    BY <1>3, FirstFreeSlot
  <2>2. PutStarter(slots, s) = [slots EXCEPT ![f] = s]
    BY <1>3 DEF PutStarter
  <2> HIDE DEF f
  <2>3. /\ PutStarter(slots, s) \in SlotArrays
        /\ \A k \in Slots : PutStarter(slots, s)[k] = IF k = f THEN s ELSE slots[k]
    BY <2>1, <2>2 DEF SlotArrays
  <2>4. Distinct(PutStarter(slots, s))
    BY <1>0, <1>3, <2>1, <2>3 DEF Distinct
  <2>5. Occupied(PutStarter(slots, s)) = Occupied(slots) \cup {s}
    BY <1>0, <2>1, <2>3 DEF Occupied
  <2> QED BY <2>3, <2>4, <2>5
<1> QED BY <1>1, <1>2, <1>3

\* One row more.
LEMMA OneRowMore ==
  ASSUME NEW l, NEW c, NEW n \in Nat
  PROVE  /\ l[n + 1].type = "StarterCreated" /\ l[n + 1].signer = c
              => CreatedIn(l, c, n + 1) = CreatedIn(l, c, n) \cup {l[n + 1].starter}
         /\ ~(l[n + 1].type = "StarterCreated" /\ l[n + 1].signer = c)
              => CreatedIn(l, c, n + 1) = CreatedIn(l, c, n)
         /\ l[n + 1].type = "StarterBurned" /\ l[n + 1].signer = c
              => BurnedIn(l, c, n + 1) = BurnedIn(l, c, n) \cup {l[n + 1].starter}
         /\ ~(l[n + 1].type = "StarterBurned" /\ l[n + 1].signer = c)
              => BurnedIn(l, c, n + 1) = BurnedIn(l, c, n)
<1>1. 1..(n + 1) = 1..n \cup {n + 1}
  OBVIOUS
<1>. DEFINE created == {k \in 1..n : l[k].type = "StarterCreated" /\ l[k].signer = c}
            burned == {k \in 1..n : l[k].type = "StarterBurned" /\ l[k].signer = c}
<1>2. /\ CreatedIn(l, c, n) = {l[k].starter : k \in created}
      /\ BurnedIn(l, c, n) = {l[k].starter : k \in burned}
  BY DEF CreatedIn, BurnedIn
<1>3. CASE l[n + 1].type = "StarterCreated" /\ l[n + 1].signer = c
  <2>1. /\ {k \in 1..(n + 1) : l[k].type = "StarterCreated" /\ l[k].signer = c}
             = created \cup {n + 1}
        /\ {k \in 1..(n + 1) : l[k].type = "StarterBurned" /\ l[k].signer = c} = burned
    BY <1>1, <1>3
  <2> HIDE DEF created, burned
  <2> QED BY <1>2, <1>3, <2>1 DEF CreatedIn, BurnedIn
<1>4. CASE l[n + 1].type = "StarterBurned" /\ l[n + 1].signer = c
  <2>1. /\ {k \in 1..(n + 1) : l[k].type = "StarterBurned" /\ l[k].signer = c}
             = burned \cup {n + 1}
        /\ {k \in 1..(n + 1) : l[k].type = "StarterCreated" /\ l[k].signer = c} = created
    BY <1>1, <1>4
  <2> HIDE DEF created, burned
  <2> QED BY <1>2, <1>4, <2>1 DEF CreatedIn, BurnedIn
<1>5. CASE /\ ~(l[n + 1].type = "StarterCreated" /\ l[n + 1].signer = c)
           /\ ~(l[n + 1].type = "StarterBurned" /\ l[n + 1].signer = c)
  <2>1. /\ {k \in 1..(n + 1) : l[k].type = "StarterBurned" /\ l[k].signer = c} = burned
        /\ {k \in 1..(n + 1) : l[k].type = "StarterCreated" /\ l[k].signer = c} = created
    BY <1>1, <1>5
  <2> HIDE DEF created, burned
  <2> QED BY <1>2, <1>5, <2>1 DEF CreatedIn, BurnedIn
<1> QED BY <1>3, <1>4, <1>5

\* What the slots show: each starter live after n rows has one, and no other has.
Shows(acc, l, c, gone, n) ==
  /\ acc = [slots |-> acc.slots, gone |-> acc.gone]
  /\ acc.slots \in SlotArrays /\ Distinct(acc.slots)
  /\ acc.gone = BurnedIn(l, c, n) \cup gone
  /\ Occupied(acc.slots) = Live(l, c, gone, n)
  /\ IsFiniteSet(Live(l, c, gone, n))

LEMMA ReplayRow ==
  ASSUME NEW l, NEW c, NEW gone, NEW n \in Nat, l[n + 1] \in Events,
         NEW acc, Shows(acc, l, c, gone, n),
         Cardinality(Live(l, c, gone, n + 1)) <= NumSlots
  PROVE  Shows(Projected(acc, l[n + 1], c), l, c, gone, n + 1)
<1>. DEFINE e == l[n + 1]
            new == Projected(acc, e, c)
<1>1. CASE e.type = "StarterBurned" /\ e.signer = c
  <2>1. new = [slots |-> FreeStarter(acc.slots, e.starter), gone |-> acc.gone \cup {e.starter}]
    BY <1>1 DEF Projected
  <2>2. /\ CreatedIn(l, c, n + 1) = CreatedIn(l, c, n)
        /\ BurnedIn(l, c, n + 1) = BurnedIn(l, c, n) \cup {e.starter}
    BY <1>1, OneRowMore
  <2>3. Live(l, c, gone, n + 1) = Live(l, c, gone, n) \ {e.starter}
    BY <2>2 DEF Live
  <2>4. IsFiniteSet(Live(l, c, gone, n + 1))
    BY <2>3, FS_RemoveElement DEF Shows
  <2>5. /\ FreeStarter(acc.slots, e.starter) \in SlotArrays
        /\ Distinct(FreeStarter(acc.slots, e.starter))
        /\ Occupied(FreeStarter(acc.slots, e.starter)) = Occupied(acc.slots) \ {e.starter}
    BY FreeStarterEffect DEF Shows
  <2>6. new.gone = BurnedIn(l, c, n + 1) \cup gone
    BY <2>1, <2>2 DEF Shows
  <2>7. Shows(new, l, c, gone, n + 1)
    <3> HIDE DEF e, new
    <3> QED BY <2>1, <2>3, <2>4, <2>5, <2>6 DEF Shows
  <2> QED BY <2>7
<1>2. CASE e.type = "StarterCreated" /\ e.signer = c /\ e.starter \notin acc.gone
  <2>1. new = [slots |-> PutStarter(acc.slots, e.starter), gone |-> acc.gone]
    BY <1>2 DEF Projected
  <2>2. /\ CreatedIn(l, c, n + 1) = CreatedIn(l, c, n) \cup {e.starter}
        /\ BurnedIn(l, c, n + 1) = BurnedIn(l, c, n)
    BY <1>2, OneRowMore
  <2>3. Live(l, c, gone, n + 1) = Live(l, c, gone, n) \cup {e.starter}
    BY <1>2, <2>2 DEF Live, Shows
  <2>4. /\ IsFiniteSet(Live(l, c, gone, n + 1))
        /\ Cardinality(Live(l, c, gone, n + 1)) =
             IF e.starter \in Live(l, c, gone, n) THEN Cardinality(Live(l, c, gone, n))
                                                  ELSE Cardinality(Live(l, c, gone, n)) + 1
    <3>1. IsFiniteSet(Live(l, c, gone, n))
      BY DEF Shows
    <3> HIDE DEF e
    <3> QED BY <2>3, <3>1, FS_AddElement
  <2>5. e.starter \in StarterIds
    BY <1>2 DEF Events
  <2>6. /\ PutStarter(acc.slots, e.starter) \in SlotArrays
        /\ Distinct(PutStarter(acc.slots, e.starter))
        /\ \/ Occupied(PutStarter(acc.slots, e.starter)) = Occupied(acc.slots) \cup {e.starter}
           \/ /\ e.starter \notin Occupied(acc.slots)
              /\ \A k \in Slots : acc.slots[k] # None
    BY <2>5, PutStarterEffect DEF Shows
  <2>7. Occupied(PutStarter(acc.slots, e.starter)) = Occupied(acc.slots) \cup {e.starter}
    <3>1. CASE e.starter \notin Occupied(acc.slots) /\ \A k \in Slots : acc.slots[k] # None
      <4>1. Cardinality(Live(l, c, gone, n)) = NumSlots
        BY <3>1, FullSlots DEF Shows
      <4> QED BY <3>1, <4>1, <2>4, SlotsAreNaturals DEF Shows
    <3> QED BY <2>6, <3>1
  <2> QED BY <2>1, <2>2, <2>3, <2>4, <2>6, <2>7 DEF Shows
<1>3. CASE ~(e.type = "StarterBurned" /\ e.signer = c)
           /\ ~(e.type = "StarterCreated" /\ e.signer = c /\ e.starter \notin acc.gone)
  <2>1. new = acc
    BY <1>3 DEF Projected
  <2>2. Live(l, c, gone, n + 1) = Live(l, c, gone, n) /\ BurnedIn(l, c, n + 1) = BurnedIn(l, c, n)
    <3>1. BurnedIn(l, c, n + 1) = BurnedIn(l, c, n)
      BY <1>3, OneRowMore
    <3>2. CASE e.type = "StarterCreated" /\ e.signer = c
      <4>1. e.starter \in BurnedIn(l, c, n) \cup gone
        BY <1>3, <3>2 DEF Shows
      <4>2. CreatedIn(l, c, n + 1) = CreatedIn(l, c, n) \cup {e.starter}
        BY <3>2, OneRowMore
      <4> QED BY <3>1, <4>1, <4>2 DEF Live
    <3>3. CASE ~(e.type = "StarterCreated" /\ e.signer = c)
      <4>1. CreatedIn(l, c, n + 1) = CreatedIn(l, c, n)
        BY <3>3, OneRowMore
      <4> QED BY <3>1, <4>1 DEF Live
    <3> QED BY <3>1, <3>2, <3>3
  <2> QED BY <2>1, <2>2 DEF Shows
<1> QED BY <1>1, <1>2, <1>3

LEMMA ReplayShows ==
  ASSUME NEW l \in Seq(Events), NEW c, NEW gone,
         \A n \in 0..Len(l) : Cardinality(Live(l, c, gone, n)) <= NumSlots
  PROVE  \A n \in 0..Len(l) : Shows(Replay(l, c, gone)[n], l, c, gone, n)
<1>. DEFINE good == {n \in Nat : n <= Len(l) => Shows(Replay(l, c, gone)[n], l, c, gone, n)}
<1>1. 0 \in good
  <2>1. CreatedIn(l, c, 0) = {} /\ BurnedIn(l, c, 0) = {}
    BY DEF CreatedIn, BurnedIn
  <2>2. IsFiniteSet(Live(l, c, gone, 0)) /\ Live(l, c, gone, 0) = {}
    BY <2>1, FS_EmptySet DEF Live
  <2>3. Shows(NoSlots(gone), l, c, gone, 0)
    BY <2>1, <2>2 DEF Shows, NoSlots, SlotArrays, Distinct, Occupied
  <2> QED BY <2>3, ReplaySteps
<1>2. ASSUME NEW n \in Nat, n \in good PROVE n + 1 \in good
  <2>1. SUFFICES ASSUME n + 1 <= Len(l)
                 PROVE  Shows(Replay(l, c, gone)[n + 1], l, c, gone, n + 1)
    OBVIOUS
  <2>2. l[n + 1] \in Events
    BY <2>1, ElementOfSeq
  <2>3. Replay(l, c, gone)[n + 1] = Projected(Replay(l, c, gone)[n], l[n + 1], c)
    BY <2>1, ReplaySteps
  <2>4. Shows(Replay(l, c, gone)[n], l, c, gone, n)
    BY <1>2, <2>1
  <2> QED BY <2>1, <2>2, <2>3, <2>4, ReplayRow
<1>. HIDE DEF good
<1>3. \A n \in Nat : n \in good
  BY <1>1, <1>2, SetInduction
<1> QED BY <1>3 DEF good

\* The slots of a journal: every live starter has one, no other has.
LEMMA LayoutIs ==
  ASSUME NEW l \in Seq(Events), NEW c, SlotsSuffice(l, c)
  PROVE  /\ Layout(l, c) \in SlotArrays /\ Distinct(Layout(l, c))
         /\ Occupied(Layout(l, c)) = Live(l, c, RevokedStarters(l), Len(l))
<1>1. Len(l) \in 0..Len(l)
  BY LenProperties
<1>2. \A n \in 0..Len(l) : Shows(Replay(l, c, RevokedStarters(l))[n], l, c, RevokedStarters(l), n)
  BY ReplayShows DEF SlotsSuffice
<1>3. Shows(Replay(l, c, RevokedStarters(l))[Len(l)], l, c, RevokedStarters(l), Len(l))
  BY <1>1, <1>2
<1> QED BY <1>3 DEF Layout, Shows

\* A free slot leaves room for one more starter.
LEMMA FreeSlot ==
  ASSUME NEW slots \in SlotArrays, NEW k \in Slots, slots[k] = None
  PROVE  /\ IsFiniteSet(Occupied(slots)) /\ Cardinality(Occupied(slots)) \in Nat
         /\ Cardinality(Occupied(slots)) + 1 <= NumSlots
<1>. DEFINE taken == {j \in Slots : slots[j] # None}
            at == [j \in taken |-> slots[j]]
<1>1. IsFiniteSet(Slots) /\ Cardinality(Slots) = NumSlots
  BY SlotsAreNaturals, FS_Interval
<1>2. /\ IsFiniteSet(Slots \ {k}) /\ Cardinality(Slots \ {k}) = NumSlots - 1
  BY <1>1, FS_RemoveElement
<1>3. taken \subseteq Slots \ {k}
  OBVIOUS
<1>4. IsFiniteSet(taken) /\ Cardinality(taken) <= NumSlots - 1
  BY <1>2, <1>3, FS_Subset
<1>5. at \in Surjection(taken, Occupied(slots))
  BY DEF Surjection, Occupied
<1>7. IsFiniteSet(Occupied(slots)) /\ Cardinality(Occupied(slots)) <= Cardinality(taken)
  <2> HIDE DEF taken, at
  <2> QED BY <1>4, <1>5, FS_Surjection
<1>8. Cardinality(Occupied(slots)) \in Nat /\ Cardinality(taken) \in Nat
  BY <1>4, <1>7, FS_CardinalityType
<1> QED BY <1>4, <1>7, <1>8, SlotsAreNaturals

-----------------------------------------------------------------------------
(* Events and lookups *)

LEMMA EventFields ==
  ASSUME NEW e \in Events
  PROVE  /\ e.signer \in Capsules
         /\ e.type \in {"StarterCreated", "StarterBurned", "RelationshipEstablished"}
                         \cup OfferTypes \cup TerminalTypes
         /\ e.type \in OfferTypes => /\ e.inv \in Invitations /\ e.starter \in StarterIds
                                     /\ e.kind \in ToSet(Kinds) /\ e.to \in Capsules
         /\ e.type \in TerminalTypes => e.inv \in Invitations
         /\ e.type \in {"StarterCreated", "StarterBurned", "InvitationAccepted"}
              => e.starter \in StarterIds
         /\ e.type = "StarterCreated" => e.kind \in ToSet(Kinds)
         /\ e.type = "RelationshipEstablished" =>
              /\ e.peer \in Capsules /\ e.starter \in StarterIds
              /\ e.peerStarter \in StarterIds /\ e.kind \in ToSet(Kinds) /\ e.inv \in Invitations
BY DEF Events, OfferTypes, TerminalTypes

\* An event is what it was made of.
LEMMA EventMade ==
  ASSUME NEW e \in Events
  PROVE  /\ e.type \in OfferTypes
              => e = Offer(e.type, e.signer, e.inv, e.starter, e.kind, e.to)
         /\ e.type = "InvitationAccepted" => e = InvitationAccepted(e.signer, e.inv, e.starter)
         /\ e.type = "InvitationRejected" => e = InvitationRejected(e.signer, e.inv, e.reason)
         /\ e.type = "InvitationExpired" => e = InvitationExpired(e.signer, e.inv)
         /\ e.type = "RelationshipEstablished"
              => e = RelationshipEstablished(e.signer, e.peer, e.starter, e.peerStarter,
                                             e.kind, e.inv)
BY DEF Events, OfferTypes, TerminalTypes, Offer, InvitationAccepted, InvitationRejected,
       InvitationExpired, RelationshipEstablished

\* What counts as the same event to append_if_missing.
LEMMA SameButSigner ==
  ASSUME NEW r \in Events, NEW e \in Events, [r EXCEPT !.signer = e.signer] = e
  PROVE  r.type = e.type /\ (r.signer = e.signer => r = e)
<1>1. r.type = e.type
  BY DEF Events, OfferTypes, TerminalTypes
<1>2. r.signer = e.signer => r = e
  BY DEF Events, OfferTypes, TerminalTypes
<1> QED BY <1>1, <1>2

\* The first row at some positions is a row of the journal.
LEMMA FirstRowIs ==
  ASSUME NEW l \in Seq(Events), NEW at \in SUBSET DOMAIN l
  PROVE  /\ at = {} <=> FirstRow(l, at) = None
         /\ at # {} => /\ Min(at) \in at /\ \A m \in at : Min(at) <= m
                       /\ FirstRow(l, at) = l[Min(at)] /\ FirstRow(l, at) \in Events
<1>1. at \in SUBSET Nat
  BY LenProperties
<1>2. CASE at = {}
  BY <1>2 DEF FirstRow
<1>3. CASE at # {}
  <2>1. Min(at) \in at /\ \A m \in at : Min(at) <= m
    BY <1>1, <1>3, MinIsLeast
  <2>2. l[Min(at)] \in Events
    BY <2>1, LenProperties, ElementOfSeq
  <2> QED BY <1>3, <2>1, <2>2, NoneIsNoEvent DEF FirstRow
<1> QED BY <1>2, <1>3

LEMMA OutgoingIs ==
  ASSUME NEW l \in Seq(Events), NEW i
  PROVE  /\ FindOutgoing(l, i) = None => \A k \in DOMAIN l : ~IsSent(l[k], i)
         /\ FindOutgoing(l, i) # None =>
              \E k \in DOMAIN l : l[k] = FindOutgoing(l, i) /\ IsSent(l[k], i)
<1>. DEFINE at == {k \in DOMAIN l : IsSent(l[k], i)}
<1>1. FindOutgoing(l, i) = FirstRow(l, at)
  BY DEF FindOutgoing, IsSent
<1>2. CASE at = {}
  BY <1>1, <1>2, FirstRowIs
<1>3. CASE at # {}
  <2>1. Min(at) \in at /\ FirstRow(l, at) = l[Min(at)] /\ FirstRow(l, at) # None
    BY <1>3, FirstRowIs
  <2> QED BY <1>1, <2>1
<1> QED BY <1>2, <1>3

LEMMA IncomingIs ==
  ASSUME NEW l \in Seq(Events), NEW i
  PROVE  /\ FindIncoming(l, i) = None => \A k \in DOMAIN l : ~IsReceived(l[k], i)
         /\ FindIncoming(l, i) # None =>
              \E k \in DOMAIN l : l[k] = FindIncoming(l, i) /\ IsReceived(l[k], i)
<1>. DEFINE at == {k \in DOMAIN l : IsReceived(l[k], i)}
<1>1. FindIncoming(l, i) = FirstRow(l, at)
  BY DEF FindIncoming, IsReceived
<1>2. CASE at = {}
  BY <1>1, <1>2, FirstRowIs
<1>3. CASE at # {}
  <2>1. Min(at) \in at /\ FirstRow(l, at) = l[Min(at)] /\ FirstRow(l, at) # None
    BY <1>3, FirstRowIs
  <2> QED BY <1>1, <2>1
<1> QED BY <1>2, <1>3

\* The first offer of an id, at the position where the projection finds it.
LEMMA FirstOfferIs ==
  ASSUME NEW l \in Seq(Events), NEW i
  PROVE  /\ OffersOf(l, i) = {} <=> FirstOffer(l, i) = None
         /\ OffersOf(l, i) = {} => \A k \in DOMAIN l : ~IsSent(l[k], i) /\ ~IsReceived(l[k], i)
         /\ OffersOf(l, i) # {} =>
              /\ Min(OffersOf(l, i)) \in DOMAIN l
              /\ FirstOffer(l, i) = l[Min(OffersOf(l, i))]
              /\ IsSent(FirstOffer(l, i), i) \/ IsReceived(FirstOffer(l, i), i)
              /\ \A k \in DOMAIN l : IsSent(l[k], i) \/ IsReceived(l[k], i)
                                       => Min(OffersOf(l, i)) <= k
<1>1. OffersOf(l, i) = {k \in DOMAIN l : IsSent(l[k], i) \/ IsReceived(l[k], i)}
  BY DEF OffersOf, IsOfferOf, OfferTypes, IsSent, IsReceived
<1>2. OffersOf(l, i) \in SUBSET DOMAIN l /\ FirstOffer(l, i) = FirstRow(l, OffersOf(l, i))
  BY <1>1 DEF FirstOffer
<1>3. OffersOf(l, i) = {} <=> FirstOffer(l, i) = None
  BY <1>2, FirstRowIs
<1>4. CASE OffersOf(l, i) # {}
  <2>1. /\ Min(OffersOf(l, i)) \in OffersOf(l, i)
        /\ \A m \in OffersOf(l, i) : Min(OffersOf(l, i)) <= m
        /\ FirstOffer(l, i) = l[Min(OffersOf(l, i))]
    BY <1>2, <1>4, FirstRowIs
  <2> QED BY <1>1, <1>3, <1>4, <2>1
<1> QED BY <1>1, <1>3, <1>4

\* A starter with a slot was created by its owner, so its kind is known.
LEMMA KindKnown ==
  ASSUME NEW l \in Seq(Events), NEW c, NEW s, s \in CreatedIn(l, c, Len(l))
  PROVE  KindOf(l, c, s) \in ToSet(Kinds)
<1>. DEFINE at == {k \in 1..Len(l) : /\ l[k].type = "StarterCreated"
                                     /\ l[k].signer = c /\ l[k].starter = s}
            last == SelectLastInSeq(l, LAMBDA e : /\ e.type = "StarterCreated"
                                                  /\ e.signer = c /\ e.starter = s)
<1>1. last = IF at # {} THEN Max(at) ELSE 0
  BY DEF SelectLastInSeq
<1>2. at # {} /\ at \subseteq 0..Len(l) /\ Len(l) \in Nat
  BY LenProperties DEF CreatedIn
<1>3. Max(at) \in at
  <2> HIDE DEF at
  <2> QED BY <1>2, MaxIsGreatest
<1>4. last \in 1..Len(l) /\ l[last].type = "StarterCreated" /\ l[last] \in Events
  <2>1. last = Max(at)
    BY <1>1, <1>2
  <2> QED BY <1>3, <2>1, ElementOfSeq
<1>5. KindOf(l, c, s) = IF last = 0 THEN None ELSE l[last].kind
  BY DEF KindOf
<1>6. last # 0
  BY <1>2, <1>4
<1>7. l[last].kind \in ToSet(Kinds)
  BY <1>4, EventFields
<1> QED BY <1>5, <1>6, <1>7

-----------------------------------------------------------------------------
(* Journals only grow, and what is traced stays traced *)

Journals == [Capsules -> Seq(Events)]

Extends(m, l) == /\ DOMAIN l \subseteq DOMAIN m
                 /\ \A k \in DOMAIN l : m[k] = l[k]

AllExtend(M, L) == \A c \in Capsules : Extends(M[c], L[c])

LEMMA HasKept ==
  ASSUME NEW l, NEW m, Extends(m, l), NEW e, Has(l, e)
  PROVE  Has(m, e)
BY DEF Has, Extends

LEMMA JournalRow ==
  ASSUME NEW L \in Journals, NEW c \in Capsules, NEW k \in DOMAIN L[c]
  PROVE  /\ L[c] \in Seq(Events) /\ k \in 1..Len(L[c]) /\ Len(L[c]) \in Nat
         /\ L[c][k] \in Events /\ L[c][k].signer \in Capsules
<1>1. L[c] \in Seq(Events)
  BY DEF Journals
<1>2. k \in 1..Len(L[c]) /\ Len(L[c]) \in Nat
  BY <1>1, LenProperties
<1>3. L[c][k] \in Events
  BY <1>1, <1>2, ElementOfSeq
<1> QED BY <1>1, <1>2, <1>3, EventFields

LEMMA RowKept ==
  ASSUME NEW L \in Journals, NEW M \in Journals, AllExtend(M, L),
         NEW c \in Capsules, NEW k \in DOMAIN L[c], RowTraced(L, c, k)
  PROVE  RowTraced(M, c, k)
<1>1. /\ M[c][k] = L[c][k] /\ L[c][k] \in Events /\ L[c][k].signer \in Capsules
      /\ k \in Nat /\ \A j \in 1..(k - 1) : j \in DOMAIN L[c] /\ M[c][j] = L[c][j]
      /\ DOMAIN L[c] \subseteq DOMAIN M[c] /\ \A j \in DOMAIN L[c] : M[c][j] = L[c][j]
  <2>1. k \in 1..Len(L[c]) /\ DOMAIN L[c] = 1..Len(L[c])
    BY JournalRow, LenProperties
  <2> QED BY <2>1, JournalRow DEF AllExtend, Extends
<1>2. \A d \in Capsules : \A e : Has(L[d], e) => Has(M[d], e)
  BY HasKept DEF AllExtend
<1>3. OwnRow(M, c, k)
  BY <1>1 DEF RowTraced, OwnRow
<1>4. OfferTraced(M, c, k)
  BY <1>1, <1>2 DEF RowTraced, OfferTraced
<1>5. AnswerTraced(M, c, k)
  BY <1>1, <1>2 DEF RowTraced, AnswerTraced
<1>6. ExpiryTraced(M, c, k)
  BY <1>1, <1>2 DEF RowTraced, ExpiryTraced
<1>7. ResolvesFirst(M, c, k)
  BY <1>1 DEF RowTraced, ResolvesFirst
<1>8. AcceptanceBinds(M, c, k)
  BY <1>1, <1>2 DEF RowTraced, AcceptanceBinds
<1>9. RelationshipTraced(M, c, k)
  <2>1. CASE L[c][k].type # "RelationshipEstablished"
    BY <1>1, <2>1 DEF RelationshipTraced
  <2>2. CASE /\ L[c][k].type = "RelationshipEstablished"
             /\ BoundByAcceptance(L, c, L[c][k])
    <3>1. L[c][k].peer \in Capsules
      BY <1>1, <2>2, EventFields
    <3>2. BoundByAcceptance(M, c, L[c][k])
      BY <1>1, <1>2, <2>2, <3>1 DEF BoundByAcceptance
    <3> QED BY <1>1, <3>2 DEF RelationshipTraced
  <2>3. CASE \E j \in DOMAIN L[c] : IsReceived(L[c][j], L[c][k].inv)
    BY <1>1, <2>3 DEF RelationshipTraced
  <2> QED BY <2>1, <2>2, <2>3 DEF RowTraced, RelationshipTraced
<1>10. BurnTraced(M, c, k)
  <2>1. SUFFICES ASSUME L[c][k].type = "StarterBurned" PROVE BurnTraced(M, c, k)
    BY <1>1 DEF BurnTraced
  <2>2. PICK j \in DOMAIN L[c] :
          /\ L[c][j].type = "InvitationSent" /\ L[c][j].starter = L[c][k].starter
          /\ Has(L[L[c][j].to], InvitationRejected(L[c][j].to, L[c][j].inv, "EmptySlot"))
    BY <2>1 DEF RowTraced, BurnTraced
  <2>3. L[c][j].to \in Capsules
    BY <2>2, JournalRow, EventFields DEF OfferTypes
  <2> QED BY <1>1, <1>2, <2>2, <2>3 DEF BurnTraced
<1> QED BY <1>3, <1>4, <1>5, <1>6, <1>7, <1>8, <1>9, <1>10 DEF RowTraced

LEMMA JobKept ==
  ASSUME NEW L \in Journals, NEW M \in Journals, AllExtend(M, L),
         NEW c \in Capsules, NEW job, JobTraced(L, c, job)
  PROVE  JobTraced(M, c, job)
BY DEF AllExtend, Extends, JobTraced

LEMMA MessageKept ==
  ASSUME NEW L \in Journals, NEW M \in Journals, AllExtend(M, L),
         NEW m \in Messages, MessageTraced(L, m)
  PROVE  MessageTraced(M, m)
<1>1. m.from \in Capsules
  BY DEF Messages
<1>2. \A e : Has(L[m.from], e) => Has(M[m.from], e)
  BY <1>1, HasKept DEF AllExtend
<1>3. DOMAIN L[m.from] \subseteq DOMAIN M[m.from]
      /\ \A j \in DOMAIN L[m.from] : M[m.from][j] = L[m.from][j]
  BY <1>1 DEF AllExtend, Extends
<1> QED BY <1>2, <1>3 DEF MessageTraced, OfferMessage, AnswerMessage, ExpiryMessage

LEMMA CreatedFinite ==
  ASSUME NEW l, NEW c, NEW n \in Nat
  PROVE  IsFiniteSet(CreatedIn(l, c, n))
<1>. DEFINE created == {k \in 1..n : l[k].type = "StarterCreated" /\ l[k].signer = c}
            at == [k \in created |-> l[k].starter]
<1>1. IsFiniteSet(1..n)
  BY FS_Interval
<1>2. IsFiniteSet(created)
  BY <1>1, FS_Subset
<1>3. at \in Surjection(created, CreatedIn(l, c, n))
  BY DEF Surjection, CreatedIn
<1>. HIDE DEF at, created
<1> QED BY <1>2, <1>3, FS_Surjection

\* A starter that goes away stays away, and one that is created where a slot is
\* free fits.
LEMMA SlotsStillSuffice ==
  ASSUME NEW l \in Seq(Events), NEW m \in Seq(Events), Extends(m, l),
         NEW c, SlotsSuffice(l, c), NEW s,
         \A k \in DOMAIN m \ DOMAIN l : m[k].type = "StarterCreated" =>
           /\ m[k].starter = s
           /\ Cardinality(Live(l, c, RevokedStarters(l), Len(l))) + 1 <= NumSlots
  PROVE  SlotsSuffice(m, c)
<1>1. /\ DOMAIN l = 1..Len(l) /\ DOMAIN m = 1..Len(m) /\ Len(l) \in Nat /\ Len(m) \in Nat
      /\ Len(l) <= Len(m) /\ \A k \in 1..Len(l) : m[k] = l[k]
  <2>1. DOMAIN l = 1..Len(l) /\ DOMAIN m = 1..Len(m) /\ Len(l) \in Nat /\ Len(m) \in Nat
    BY LenProperties
  <2> QED BY <2>1 DEF Extends
<1>2. RevokedStarters(l) \subseteq RevokedStarters(m)
  BY DEF Extends, RevokedStarters
<1>3. SUFFICES ASSUME NEW n \in 0..Len(m)
               PROVE  Cardinality(Live(m, c, RevokedStarters(m), n)) <= NumSlots
  BY DEF SlotsSuffice
<1>4. \A k \in 0..Len(l) : /\ IsFiniteSet(Live(l, c, RevokedStarters(l), k))
                           /\ Cardinality(Live(l, c, RevokedStarters(l), k)) \in Nat
                           /\ Cardinality(Live(l, c, RevokedStarters(l), k)) <= NumSlots
  <2>1. ASSUME NEW k \in 0..Len(l)
        PROVE  /\ IsFiniteSet(Live(l, c, RevokedStarters(l), k))
               /\ Cardinality(Live(l, c, RevokedStarters(l), k)) \in Nat
    <3>1. IsFiniteSet(CreatedIn(l, c, k))
      BY <1>1, CreatedFinite
    <3>2. Live(l, c, RevokedStarters(l), k) \in SUBSET CreatedIn(l, c, k)
      BY DEF Live
    <3>3. IsFiniteSet(Live(l, c, RevokedStarters(l), k))
      BY <3>1, <3>2, FS_Subset
    <3> QED BY <3>3, FS_CardinalityType
  <2> QED BY <2>1 DEF SlotsSuffice
<1>5. CASE n <= Len(l)
  <2>1. n \in 0..Len(l) /\ 1..n \subseteq 1..Len(l)
    BY <1>1, <1>5
  <2>2. CreatedIn(m, c, n) = CreatedIn(l, c, n) /\ BurnedIn(m, c, n) = BurnedIn(l, c, n)
    BY <1>1, <2>1 DEF CreatedIn, BurnedIn
  <2>3. Live(m, c, RevokedStarters(m), n) \in SUBSET Live(l, c, RevokedStarters(l), n)
    BY <1>2, <2>2 DEF Live
  <2>4. /\ IsFiniteSet(Live(m, c, RevokedStarters(m), n))
        /\ Cardinality(Live(m, c, RevokedStarters(m), n))
             <= Cardinality(Live(l, c, RevokedStarters(l), n))
    BY <1>4, <2>1, <2>3, FS_Subset
  <2>5. Cardinality(Live(m, c, RevokedStarters(m), n)) \in Nat
    BY <2>4, FS_CardinalityType
  <2> QED BY <1>4, <2>1, <2>4, <2>5, SlotsAreNaturals
<1>6. CASE Len(l) < n
  <2>. DEFINE old == Live(l, c, RevokedStarters(l), Len(l))
  <2>1. Len(l) \in 0..Len(l) /\ 1..Len(l) \subseteq 1..n /\ 1..n \subseteq 1..Len(m)
    BY <1>1, <1>6
  <2>2. BurnedIn(l, c, Len(l)) \subseteq BurnedIn(m, c, n)
    BY <1>1, <2>1 DEF BurnedIn
  <2>3. CASE \A k \in DOMAIN m \ DOMAIN l : m[k].type # "StarterCreated"
    <3>1. CreatedIn(m, c, n) \subseteq CreatedIn(l, c, Len(l))
      BY <1>1, <2>1, <2>3 DEF CreatedIn
    <3>2. Live(m, c, RevokedStarters(m), n) \in SUBSET old
      BY <1>2, <2>2, <3>1 DEF Live
    <3>3. /\ IsFiniteSet(Live(m, c, RevokedStarters(m), n))
          /\ Cardinality(Live(m, c, RevokedStarters(m), n)) <= Cardinality(old)
      BY <1>4, <2>1, <3>2, FS_Subset
    <3>4. Cardinality(Live(m, c, RevokedStarters(m), n)) \in Nat
      BY <3>3, FS_CardinalityType
    <3> QED BY <1>4, <2>1, <3>3, <3>4, SlotsAreNaturals
  <2>4. CASE \E k \in DOMAIN m \ DOMAIN l : m[k].type = "StarterCreated"
    <3>1. Cardinality(old) + 1 <= NumSlots
      BY <2>4
    <3>2. CreatedIn(m, c, n) \subseteq CreatedIn(l, c, Len(l)) \cup {s}
      BY <1>1, <2>1 DEF CreatedIn
    <3>3. Live(m, c, RevokedStarters(m), n) \in SUBSET (old \cup {s})
      BY <1>2, <2>2, <3>2 DEF Live
    <3>4. IsFiniteSet(old) /\ Cardinality(old) \in Nat
      BY <1>4, <2>1
    <3>. HIDE DEF old
    <3>5. /\ IsFiniteSet(old \cup {s})
          /\ Cardinality(old \cup {s}) = IF s \in old THEN Cardinality(old) ELSE Cardinality(old) + 1
      BY <3>4, FS_AddElement
    <3>6. /\ IsFiniteSet(Live(m, c, RevokedStarters(m), n))
          /\ Cardinality(Live(m, c, RevokedStarters(m), n)) <= Cardinality(old \cup {s})
      BY <3>3, <3>5, FS_Subset
    <3>7. Cardinality(Live(m, c, RevokedStarters(m), n)) \in Nat
      BY <3>6, FS_CardinalityType
    <3> QED BY <3>1, <3>4, <3>5, <3>6, <3>7, SlotsAreNaturals
  <2> QED BY <2>3, <2>4
<1> QED BY <1>1, <1>5, <1>6

\* Rows that create nothing take no slot.
LEMMA WithoutStarterSuffice ==
  ASSUME NEW l \in Seq(Events), NEW m \in Seq(Events), Extends(m, l),
         NEW c, SlotsSuffice(l, c),
         \A k \in DOMAIN m \ DOMAIN l : m[k].type # "StarterCreated"
  PROVE  SlotsSuffice(m, c)
<1>1. \A k \in DOMAIN m \ DOMAIN l : m[k].type = "StarterCreated" =>
        /\ m[k].starter = None
        /\ Cardinality(Live(l, c, RevokedStarters(l), Len(l))) + 1 <= NumSlots
  OBVIOUS
<1> QED BY <1>1, SlotsStillSuffice

\* What a step that extends one journal has to show of its rows.
LEMMA OneJournalGrows ==
  ASSUME NEW L \in Journals, NEW c \in Capsules, NEW l \in Seq(Events), Extends(l, L[c]),
         NEW M, M = [L EXCEPT ![c] = l], AllTraced(L),
         \A d \in Capsules : SlotsSuffice(L[d], d), SlotsSuffice(l, c),
         \A k \in DOMAIN l \ DOMAIN L[c] : RowTraced(M, c, k)
  PROVE  /\ M \in Journals /\ AllExtend(M, L) /\ AllTraced(M)
         /\ \A d \in Capsules : SlotsSuffice(M[d], d)
<1>1. M \in Journals /\ M[c] = l /\ \A d \in Capsules \ {c} : M[d] = L[d]
  BY DEF Journals
<1>2. AllExtend(M, L)
  BY <1>1 DEF AllExtend, Extends
<1>3. ASSUME NEW d \in Capsules, NEW k \in DOMAIN M[d] PROVE RowTraced(M, d, k)
  <2>1. CASE k \in DOMAIN L[d]
    BY <1>1, <1>2, <2>1, RowKept DEF AllTraced
  <2>2. CASE k \notin DOMAIN L[d]
    BY <1>1, <2>2
  <2> QED BY <2>1, <2>2
<1>4. \A d \in Capsules : SlotsSuffice(M[d], d)
  BY <1>1
<1> QED BY <1>1, <1>2, <1>3, <1>4 DEF AllTraced

LEMMA NoNewOffer ==
  ASSUME NEW L \in Journals, NEW c \in Capsules, NEW l, Extends(l, L[c]), OneSender(L),
         NEW M, M = [L EXCEPT ![c] = l],
         \A k \in DOMAIN l \ DOMAIN L[c] : l[k].type # "InvitationSent"
  PROVE  OneSender(M)
<1>1. M[c] = l /\ \A d \in Capsules \ {c} : M[d] = L[d]
  BY DEF Journals
<1>2. \A d \in Capsules : \A k \in DOMAIN M[d] : M[d][k].type = "InvitationSent" =>
         k \in DOMAIN L[d] /\ M[d][k] = L[d][k]
  BY <1>1 DEF Extends
<1> QED BY <1>2 DEF OneSender

-----------------------------------------------------------------------------
(* Steps *)

\* Every job of the queues was there before.
NoNewJob ==
  \A d \in Capsules : \A k \in DOMAIN queue'[d] : \E j \in DOMAIN queue[d] :
    queue'[d][k] = queue[d][j]

LEMMA PopIs ==
  ASSUME TypeOK, NEW c \in Capsules, Pop(c)
  PROVE  queue' \in [Capsules -> Seq(Jobs)] /\ NoNewJob
<1>. DEFINE rest == IF queue[c] = <<>> THEN queue[c] ELSE Tail(queue[c])
<1>1. queue[c] \in Seq(Jobs) /\ queue' = [queue EXCEPT ![c] = rest]
  BY DEF TypeOK, Pop
<1>2. rest \in Seq(Jobs) /\ \A k \in DOMAIN rest : \E j \in DOMAIN queue[c] : rest[k] = queue[c][j]
  <2>1. CASE queue[c] = <<>>
    BY <1>1, <2>1
  <2>2. CASE queue[c] # <<>>
    <3>1. /\ Tail(queue[c]) \in Seq(Jobs) /\ Len(Tail(queue[c])) = Len(queue[c]) - 1
          /\ \A i \in 1..Len(Tail(queue[c])) : Tail(queue[c])[i] = queue[c][i + 1]
      BY <1>1, <2>2, HeadTailProperties
    <3>2. DOMAIN queue[c] = 1..Len(queue[c]) /\ DOMAIN Tail(queue[c]) = 1..Len(Tail(queue[c]))
          /\ Len(queue[c]) \in Nat
      BY <1>1, <3>1, LenProperties
    <3>3. \A i \in 1..Len(Tail(queue[c])) : i + 1 \in DOMAIN queue[c]
      BY <3>1, <3>2
    <3> QED BY <2>2, <3>1, <3>2, <3>3
  <2> QED BY <2>1, <2>2
<1>. HIDE DEF rest
<1>3. queue' \in [Capsules -> Seq(Jobs)]
  BY <1>1, <1>2 DEF TypeOK
<1>4. queue'[c] = rest /\ \A d \in Capsules \ {c} : queue'[d] = queue[d]
  BY <1>1 DEF TypeOK
<1> QED BY <1>2, <1>3, <1>4 DEF NoNewJob

LEMMA DiesIs ==
  ASSUME TypeOK, NEW c \in Capsules, Dies(c)
  PROVE  /\ queue' \in [Capsules -> Seq(Jobs)] /\ NoNewJob
         /\ seen' \in [Capsules -> SUBSET net] /\ crashes' \in 0..MaxCrashes
<1>1. queue' \in [Capsules -> Seq(Jobs)]
  BY EmptySeq DEF TypeOK, Dies
<1>2. queue'[c] = <<>> /\ \A d \in Capsules \ {c} : queue'[d] = queue[d]
  BY DEF TypeOK, Dies
<1>3. NoNewJob
  BY <1>2 DEF NoNewJob
<1>4. seen' \in [Capsules -> SUBSET net] /\ crashes' \in 0..MaxCrashes
  BY ExchangeAssumption DEF TypeOK, Dies
<1> QED BY <1>1, <1>3, <1>4

LEMMA OutcomeIs ==
  ASSUME TypeOK, NEW c \in Capsules, NEW l \in Seq(Events), NEW item \in Items,
         Outcome(c, l, item)
  PROVE  TypeOK' /\ NoNewJob /\ net' = net /\ ledger' = [ledger EXCEPT ![c] = l]
<1>1. /\ net' = net /\ ledger' = [ledger EXCEPT ![c] = l]
      /\ outbox' = [outbox EXCEPT ![c][item] = "pending"] \/ outbox' = outbox
  BY DEF Outcome, Commit
<1>2. outbox' \in [Capsules -> [Items -> OutboxStatus]]
  <2>. DEFINE row == [outbox[c] EXCEPT ![item] = "pending"]
  <2>1. outbox[c] \in [Items -> OutboxStatus]
    BY DEF TypeOK
  <2>2. row \in [Items -> OutboxStatus]
    BY <2>1 DEF OutboxStatus
  <2>3. outbox' = [outbox EXCEPT ![c] = row] \/ outbox' = outbox
    BY <1>1
  <2>. HIDE DEF row
  <2> QED BY <2>2, <2>3 DEF TypeOK
<1>3. ledger' \in [Capsules -> Seq(Events)] /\ net' \subseteq Messages
  BY <1>1 DEF TypeOK
<1>4. /\ queue' \in [Capsules -> Seq(Jobs)] /\ NoNewJob
      /\ seen' \in [Capsules -> SUBSET net'] /\ crashes' \in 0..MaxCrashes
  <2>1. CASE Pop(c) /\ UNCHANGED <<seen, crashes>>
    BY <1>1, <2>1, PopIs DEF TypeOK
  <2>2. CASE Dies(c)
    BY <1>1, <2>2, DiesIs
  <2> QED BY <2>1, <2>2 DEF Outcome
<1> QED BY <1>1, <1>2, <1>3, <1>4 DEF TypeOK

\* A refused job is dropped.
LEMMA RefusedIs ==
  ASSUME TypeOK, NEW c \in Capsules, Refused(c)
  PROVE  TypeOK' /\ NoNewJob /\ net' = net /\ ledger' = ledger
BY PopIs DEF Refused, TypeOK

LEMMA JobsKept ==
  ASSUME IInv, NoNewJob
  PROVE  \A d \in Capsules : \A k \in DOMAIN queue'[d] : JobTraced(ledger, d, queue'[d][k])
BY DEF IInv, NoNewJob

\* What is left to show of a step.
LEMMA StepKeeps ==
  ASSUME IInv, TypeOK', AllExtend(ledger', ledger), AllTraced(ledger'), OneSender(ledger'),
         \A d \in Capsules : SlotsSuffice(ledger'[d], d),
         \A d \in Capsules : \A k \in DOMAIN queue'[d] : JobTraced(ledger, d, queue'[d][k]),
         \A m \in net' : MessageTraced(ledger, m)
  PROVE  IInv'
<1>1. ledger \in Journals /\ ledger' \in Journals
  BY DEF IInv, TypeOK, Journals
<1>2. \A d \in Capsules : \A k \in DOMAIN queue'[d] : JobTraced(ledger', d, queue'[d][k])
  BY <1>1, JobKept
<1>3. net' \subseteq Messages
  BY DEF TypeOK
<1>4. \A m \in net' : MessageTraced(ledger', m)
  BY <1>1, <1>3, MessageKept
<1> QED BY <1>2, <1>4 DEF IInv

LEMMA SameJournals ==
  ASSUME IInv, TypeOK', ledger' = ledger,
         \A d \in Capsules : \A k \in DOMAIN queue'[d] : JobTraced(ledger, d, queue'[d][k]),
         \A m \in net' : MessageTraced(ledger, m)
  PROVE  IInv'
<1>1. AllExtend(ledger', ledger)
  BY DEF AllExtend, Extends
<1>2. /\ AllTraced(ledger') /\ OneSender(ledger')
      /\ \A d \in Capsules : SlotsSuffice(ledger'[d], d)
  BY DEF IInv
<1> QED BY <1>1, <1>2, StepKeeps

LEMMA GenesisIs ==
  ASSUME NEW c \in Capsules
  PROVE  /\ Genesis(c) \in Seq(Events) /\ SlotsSuffice(Genesis(c), c)
         /\ \A k \in DOMAIN Genesis(c) : /\ Genesis(c)[k].type = "StarterCreated"
                                         /\ Genesis(c)[k].signer = c
<1>1. CASE c \notin Relays
  <2>1. Genesis(c) = <<>> /\ DOMAIN Genesis(c) = {} /\ Len(Genesis(c)) = 0
    BY <1>1 DEF Genesis
  <2>2. CreatedIn(Genesis(c), c, 0) = {}
    BY DEF CreatedIn
  <2>3. Live(Genesis(c), c, RevokedStarters(Genesis(c)), 0) = {}
    BY <2>2 DEF Live
  <2>4. SlotsSuffice(Genesis(c), c)
    BY <2>1, <2>3, FS_EmptySet, SlotsAreNaturals DEF SlotsSuffice
  <2> QED BY <2>1, <2>4, EmptySeq
<1>2. CASE c \in Relays
  <2>. DEFINE g == [k \in 1..NumSlots |-> StarterCreated(c, LineageId(c, k, None), Kinds[k])]
              own == [k \in Slots |-> LineageId(c, k, None)]
              all == {own[k] : k \in Slots}
  <2>1. Genesis(c) = g /\ Slots = 1..NumSlots /\ NumSlots \in Nat
    BY <1>2, SlotsAreNaturals DEF Genesis
  <2>2. \A k \in 1..NumSlots : Kinds[k] \in ToSet(Kinds)
    BY CapsuleAssumption, ExchangeAssumption, SlotsAreNaturals, LenProperties DEF ToSet
  <2>3. \A k \in 1..NumSlots : g[k] \in Events /\ g[k].type = "StarterCreated"
                               /\ g[k].signer = c /\ g[k].starter = own[k]
    BY <2>1, <2>2 DEF StarterCreated, LineageId, Events, StarterIds
  <2>4. g \in Seq(Events) /\ Len(g) = NumSlots /\ DOMAIN g = 1..NumSlots
    BY <2>1, <2>3
  <2>5. IsFiniteSet(all) /\ Cardinality(all) <= NumSlots
    <3>1. IsFiniteSet(Slots) /\ Cardinality(Slots) = NumSlots
      BY SlotsAreNaturals, FS_Interval
    <3>2. own \in Surjection(Slots, all)
      BY DEF Surjection
    <3>. HIDE DEF own, all
    <3> QED BY <3>1, <3>2, FS_Surjection
  <2>6. ASSUME NEW n \in 0..NumSlots
        PROVE  Cardinality(Live(g, c, RevokedStarters(g), n)) <= NumSlots
    <3>1. Live(g, c, RevokedStarters(g), n) \in SUBSET all
      BY <2>1, <2>3 DEF Live, CreatedIn
    <3>. HIDE DEF all, g
    <3>2. /\ IsFiniteSet(Live(g, c, RevokedStarters(g), n))
          /\ Cardinality(Live(g, c, RevokedStarters(g), n)) <= Cardinality(all)
      BY <2>5, <3>1, FS_Subset
    <3>3. Cardinality(Live(g, c, RevokedStarters(g), n)) \in Nat /\ Cardinality(all) \in Nat
      BY <2>5, <3>2, FS_CardinalityType
    <3> QED BY <2>1, <2>5, <3>2, <3>3
  <2>7. SlotsSuffice(g, c)
    BY <2>4, <2>6 DEF SlotsSuffice
  <2>. HIDE DEF g
  <2> QED BY <2>1, <2>3, <2>4, <2>7
<1> QED BY <1>1, <1>2

LEMMA InitIInv == Init => IInv
<1>. SUFFICES ASSUME Init PROVE IInv
  OBVIOUS
<1>1. \A c \in Capsules : ledger[c] = Genesis(c) /\ queue[c] = <<>>
  BY DEF Init
<1>2. TypeOK
  <2>1. ledger \in [Capsules -> Seq(Events)]
    BY GenesisIs DEF Init
  <2>2. /\ queue \in [Capsules -> Seq(Jobs)] /\ outbox \in [Capsules -> [Items -> OutboxStatus]]
        /\ net \subseteq Messages /\ seen \in [Capsules -> SUBSET net] /\ crashes \in 0..MaxCrashes
    BY ExchangeAssumption DEF Init, OutboxStatus
  <2> QED BY <2>1, <2>2 DEF TypeOK
<1>3. AllTraced(ledger)
  BY <1>1, GenesisIs DEF AllTraced, RowTraced, OwnRow, OfferTraced, AnswerTraced, ExpiryTraced,
     ResolvesFirst, AcceptanceBinds, RelationshipTraced, BurnTraced, IsAnswer, IsOwnExpiry
<1>4. OneSender(ledger)
  BY <1>1, GenesisIs DEF OneSender
<1>5. \A c \in Capsules : \A k \in DOMAIN queue[c] : JobTraced(ledger, c, queue[c][k])
  BY <1>1
<1>6. net = {} /\ \A c \in Capsules : SlotsSuffice(ledger[c], c)
  BY <1>1, GenesisIs DEF Init
<1> QED BY <1>2, <1>3, <1>4, <1>5, <1>6 DEF IInv

LEMMA DecideKeeps ==
  ASSUME IInv, NEW c \in Capsules, NEW job \in Jobs, JobTraced(ledger, c, job), Decide(c, job)
  PROVE  IInv'
<1>1. /\ queue[c] \in Seq(Jobs) /\ queue' = [queue EXCEPT ![c] = Append(queue[c], job)]
      /\ ledger' = ledger /\ UNCHANGED <<outbox, net, seen, crashes>>
  BY DEF IInv, TypeOK, Decide
<1>2. /\ Append(queue[c], job) \in Seq(Jobs)
      /\ \A k \in DOMAIN Append(queue[c], job) :
           \/ Append(queue[c], job)[k] = job
           \/ k \in DOMAIN queue[c] /\ Append(queue[c], job)[k] = queue[c][k]
  BY <1>1
<1>3. queue' \in [Capsules -> Seq(Jobs)]
  BY <1>1, <1>2 DEF IInv, TypeOK
<1>4. TypeOK'
  BY <1>1, <1>3 DEF IInv, TypeOK
<1>5. ASSUME NEW d \in Capsules, NEW k \in DOMAIN queue'[d]
      PROVE  JobTraced(ledger, d, queue'[d][k])
  <2>1. CASE d = c
    <3>1. queue'[c] = Append(queue[c], job)
      BY <1>1 DEF IInv, TypeOK
    <3> QED BY <1>2, <2>1, <3>1 DEF IInv
  <2>2. CASE d # c
    BY <1>1, <2>2 DEF IInv, TypeOK
  <2> QED BY <2>1, <2>2
<1>6. \A m \in net' : MessageTraced(ledger, m)
  BY <1>1 DEF IInv
<1> QED BY <1>1, <1>4, <1>5, <1>6, SameJournals

LEMMA DecisionsKeep ==
  ASSUME IInv, NEW c \in Capsules,
         \/ \E slot \in Slots, to \in Capsules : DecideSend(c, slot, to)
         \/ \E i \in Invitations : DecideAccept(c, i) \/ DecideReject(c, i) \/ DecideCancel(c, i)
  PROVE  IInv'
<1>0. ledger[c] \in Seq(Events)
  BY DEF IInv, TypeOK
<1>1. ASSUME NEW slot \in Slots, NEW to \in Capsules, DecideSend(c, slot, to) PROVE IInv'
  <2>. DEFINE job == [op |-> "send", slot |-> slot, to |-> to]
  <2>1. job \in Jobs /\ JobTraced(ledger, c, job) /\ Decide(c, job)
    BY <1>1 DEF DecideSend, Jobs, JobTraced
  <2> QED BY <2>1, DecideKeeps
<1>2. ASSUME NEW i \in Invitations, IncomingPending(ledger[c], c, i)
      PROVE  \E j \in DOMAIN ledger[c] : IsReceived(ledger[c][j], i)
  BY <1>0, <1>2, IncomingIs DEF IncomingPending
<1>3. ASSUME NEW i \in Invitations, DecideAccept(c, i) PROVE IInv'
  <2>. DEFINE job == [op |-> "accept", inv |-> i]
  <2>1. job \in Jobs /\ JobTraced(ledger, c, job) /\ Decide(c, job)
    BY <1>2, <1>3 DEF DecideAccept, Jobs, JobTraced
  <2> QED BY <2>1, DecideKeeps
<1>4. ASSUME NEW i \in Invitations, DecideReject(c, i) PROVE IInv'
  <2>. DEFINE job == [op |-> "reject", inv |-> i,
                      reason |-> IF FirstFree(Layout(ledger[c], c)) # 0 THEN "EmptySlot" ELSE "Other"]
  <2>1. job \in Jobs /\ JobTraced(ledger, c, job) /\ Decide(c, job)
    BY <1>2, <1>4 DEF DecideReject, Jobs, JobTraced, Reasons
  <2> QED BY <2>1, DecideKeeps
<1>5. ASSUME NEW i \in Invitations, DecideCancel(c, i) PROVE IInv'
  <2>. DEFINE job == [op |-> "cancel", inv |-> i]
  <2>1. job \in Jobs /\ JobTraced(ledger, c, job) /\ Decide(c, job)
    BY <1>5 DEF DecideCancel, Jobs, JobTraced
  <2> QED BY <2>1, DecideKeeps
<1> QED BY <1>1, <1>3, <1>4, <1>5

LEMMA OfferMessagesTraced ==
  ASSUME IInv, NEW c \in Capsules, NEW i \in Invitations, NEW m \in OfferMessages(c, i)
  PROVE  m \in Messages /\ MessageTraced(ledger, m)
<1>. DEFINE offer == FindOutgoing(ledger[c], i)
<1>1. ledger \in Journals /\ ledger[c] \in Seq(Events)
  BY DEF IInv, TypeOK, Journals
<1>2. offer # None /\ m = Message(c, offer.to, [offer EXCEPT !.type = "InvitationReceived"])
  BY DEF OfferMessages
<1>3. PICK k \in DOMAIN ledger[c] : ledger[c][k] = offer /\ IsSent(offer, i)
  BY <1>1, <1>2, OutgoingIs
<1>4. offer \in Events /\ RowTraced(ledger, c, k)
  BY <1>1, <1>3, JournalRow DEF IInv, AllTraced
<1>5. offer.signer = c /\ offer.to # c
  BY <1>3, <1>4 DEF RowTraced, OwnRow, OfferTraced, IsSent
<1>. HIDE DEF offer
<1>6. /\ offer = Offer("InvitationSent", offer.signer, offer.inv, offer.starter, offer.kind, offer.to)
      /\ offer.inv \in Invitations /\ offer.starter \in StarterIds
      /\ offer.kind \in ToSet(Kinds) /\ offer.to \in Capsules
  BY <1>3, <1>4, EventMade, EventFields DEF IsSent, OfferTypes
<1>7. m.event = Offer("InvitationReceived", c, offer.inv, offer.starter, offer.kind, offer.to)
      /\ m.from = c /\ m.to = offer.to
      /\ m = [from |-> c, to |-> offer.to, event |-> m.event]
  BY <1>2, <1>5, <1>6 DEF Message, Offer
<1>8. m.event \in Events
  BY <1>6, <1>7 DEF Offer, Events, OfferTypes
<1>9. m \in Messages
  BY <1>6, <1>7, <1>8 DEF Messages
<1>10. AsSent(m.event) = offer
  BY <1>5, <1>6, <1>7 DEF AsSent, Offer
<1>11. Has(ledger[c], AsSent(m.event))
  BY <1>3, <1>10 DEF Has
<1>12. m.event.signer = c /\ m.event.type = "InvitationReceived" /\ m.event.to = offer.to
  BY <1>7 DEF Offer
<1> QED BY <1>5, <1>7, <1>9, <1>11, <1>12 DEF MessageTraced, OfferMessage

RowsOf(l, c, i, type) ==
  {k \in 1..Len(l) : l[k].type = type /\ l[k].signer = c /\ l[k].inv = i}

LEMMA LastRowOf ==
  ASSUME NEW l \in Seq(Events), NEW c, NEW i, NEW type, NEW last,
         last = IF RowsOf(l, c, i, type) # {} THEN Max(RowsOf(l, c, i, type)) ELSE 0,
         last # 0
  PROVE  last \in DOMAIN l /\ l[last].type = type /\ l[last].signer = c /\ l[last].inv = i
<1>. DEFINE at == RowsOf(l, c, i, type)
<1>2. at # {} /\ last = Max(at)
  OBVIOUS
<1>3. at \subseteq 0..Len(l) /\ Len(l) \in Nat /\ DOMAIN l = 1..Len(l)
  BY LenProperties DEF RowsOf
<1>4. Max(at) \in at
  <2> HIDE DEF at
  <2> QED BY <1>2, <1>3, MaxIsGreatest
<1> QED BY <1>2, <1>3, <1>4 DEF RowsOf

LEMMA TerminalMessagesTraced ==
  ASSUME IInv, NEW c \in Capsules, NEW i \in Invitations, NEW m \in TerminalMessages(c, i)
  PROVE  m \in Messages /\ MessageTraced(ledger, m)
<1>. DEFINE l == ledger[c]
            lastOf(type) == SelectLastInSeq(l, LAMBDA e : e.type = type /\ e.signer = c /\ e.inv = i)
            peerIn == FindIncoming(l, i)
            peerOut == FindOutgoing(l, i)
<1>1. ledger \in Journals /\ l \in Seq(Events)
  BY DEF IInv, TypeOK, Journals
<1>2. \/ \E t \in {"InvitationAccepted", "InvitationRejected"} :
           lastOf(t) # 0 /\ peerIn # None /\ m = Message(c, peerIn.signer, l[lastOf(t)])
      \/ \E t \in {"InvitationExpired"} :
           lastOf(t) # 0 /\ peerOut # None /\ m = Message(c, peerOut.to, l[lastOf(t)])
  BY DEF TerminalMessages
<1>3. ASSUME NEW t \in {"InvitationAccepted", "InvitationRejected"}, lastOf(t) # 0, peerIn # None,
             m = Message(c, peerIn.signer, l[lastOf(t)])
      PROVE  m \in Messages /\ MessageTraced(ledger, m)
  <2>. DEFINE k == lastOf(t)
  <2>1. k = IF RowsOf(l, c, i, t) # {} THEN Max(RowsOf(l, c, i, t)) ELSE 0
    BY DEF SelectLastInSeq, RowsOf
  <2>2. k # 0
    BY <1>3
  <2>3. k \in DOMAIN l /\ l[k].type = t /\ l[k].signer = c /\ l[k].inv = i
    <3> HIDE DEF k, l
    <3> QED BY <2>1, <2>2, <1>1, LastRowOf
  <2>4. PICK j \in DOMAIN l : l[j] = peerIn /\ IsReceived(peerIn, i)
    BY <1>1, <1>3, IncomingIs
  <2>. HIDE DEF k
  <2>5. l[k] \in Events /\ peerIn.signer \in Capsules
    BY <1>1, <2>3, <2>4, JournalRow
  <2>6. m.from = c /\ m.to = peerIn.signer /\ m.event = l[k]
        /\ m = [from |-> c, to |-> peerIn.signer, event |-> l[k]]
    BY <1>3 DEF Message, k
  <2>7. m \in Messages
    BY <2>5, <2>6 DEF Messages
  <2>8. AnswerMessage(ledger, m)
    BY <1>3, <2>3, <2>4, <2>6 DEF AnswerMessage, IsAnswer, Has
  <2> QED BY <2>3, <2>6, <2>7, <2>8 DEF MessageTraced
<1>4. ASSUME NEW t \in {"InvitationExpired"}, lastOf(t) # 0, peerOut # None,
             m = Message(c, peerOut.to, l[lastOf(t)])
      PROVE  m \in Messages /\ MessageTraced(ledger, m)
  <2>. DEFINE k == lastOf(t)
  <2>1. k = IF RowsOf(l, c, i, t) # {} THEN Max(RowsOf(l, c, i, t)) ELSE 0
    BY DEF SelectLastInSeq, RowsOf
  <2>2. k # 0
    BY <1>4
  <2>3. k \in DOMAIN l /\ l[k].type = t /\ l[k].signer = c /\ l[k].inv = i
    <3> HIDE DEF k, l
    <3> QED BY <2>1, <2>2, <1>1, LastRowOf
  <2>4. PICK j \in DOMAIN l : l[j] = peerOut /\ IsSent(peerOut, i)
    BY <1>1, <1>4, OutgoingIs
  <2>. HIDE DEF k
  <2>5. l[k] \in Events /\ peerOut.to \in Capsules
    BY <1>1, <2>3, <2>4, JournalRow, EventFields DEF IsSent, OfferTypes
  <2>6. m.from = c /\ m.to = peerOut.to /\ m.event = l[k]
        /\ m = [from |-> c, to |-> peerOut.to, event |-> l[k]]
    BY <1>4 DEF Message, k
  <2>7. m \in Messages
    BY <2>5, <2>6 DEF Messages
  <2>8. ExpiryMessage(ledger, m)
    BY <1>4, <2>3, <2>4, <2>6 DEF ExpiryMessage, Has
  <2> QED BY <2>3, <2>6, <2>7, <2>8 DEF MessageTraced
<1> QED BY <1>2, <1>3, <1>4

LEMMA PublishKeeps ==
  ASSUME IInv, NEW c \in Capsules, NEW item \in Items, Publish(c, item)
  PROVE  IInv'
<1>. DEFINE all == IF item[1] = "offer" THEN OfferMessages(c, item[2])
                                        ELSE TerminalMessages(c, item[2])
<1>1. TypeOK /\ item[2] \in Invitations
  BY DEF IInv, Items
<1>2. \A m \in all : m \in Messages /\ MessageTraced(ledger, m)
  BY <1>1, OfferMessagesTraced, TerminalMessagesTraced
<1>3. PICK sent \in SUBSET all : /\ net' = net \cup sent
                                 /\ seen' = [d \in Capsules |-> seen[d] \ sent]
  BY DEF Publish
<1>4. /\ outbox' = [outbox EXCEPT ![c][item] = "settled"]
      /\ UNCHANGED <<ledger, queue, crashes>>
  BY DEF Publish
<1>. HIDE DEF all
<1>5. outbox' \in [Capsules -> [Items -> OutboxStatus]]
  <2>. DEFINE row == [outbox[c] EXCEPT ![item] = "settled"]
  <2>1. row \in [Items -> OutboxStatus]
    BY <1>1 DEF TypeOK, OutboxStatus
  <2>2. outbox' = [outbox EXCEPT ![c] = row]
    BY <1>4
  <2>. HIDE DEF row
  <2> QED BY <1>1, <2>1, <2>2 DEF TypeOK
<1>6. net' \subseteq Messages /\ seen' \in [Capsules -> SUBSET net']
  BY <1>1, <1>2, <1>3 DEF TypeOK
<1>7. TypeOK'
  BY <1>1, <1>4, <1>5, <1>6 DEF TypeOK
<1>8. \A m \in net' : MessageTraced(ledger, m)
  BY <1>2, <1>3 DEF IInv
<1>9. \A d \in Capsules : \A k \in DOMAIN queue'[d] : JobTraced(ledger, d, queue'[d][k])
  BY <1>4 DEF IInv
<1> QED BY <1>4, <1>7, <1>8, <1>9, SameJournals

LEMMA ReconcileKeeps ==
  ASSUME IInv, NEW c \in Capsules, Reconcile(c)
  PROVE  IInv'
<1>. DEFINE missing == {i \in Invitations : /\ outbox[c][<<"terminal", i>>] = "absent"
                                            /\ HasLocalTerminal(ledger[c], c, i)}
            row == [item \in Items |-> IF item[1] = "terminal" /\ item[2] \in missing
                                       THEN "pending" ELSE outbox[c][item]]
<1>1. TypeOK
  BY DEF IInv
<1>2. outbox' = [outbox EXCEPT ![c] = row] /\ UNCHANGED <<ledger, queue, net, seen, crashes>>
  BY DEF Reconcile
<1>3. row \in [Items -> OutboxStatus]
  <2> HIDE DEF missing
  <2> QED BY <1>1 DEF TypeOK, OutboxStatus
<1>. HIDE DEF row, missing
<1>4. TypeOK'
  BY <1>1, <1>2, <1>3 DEF TypeOK
<1>5. /\ \A d \in Capsules : \A k \in DOMAIN queue'[d] : JobTraced(ledger, d, queue'[d][k])
      /\ \A m \in net' : MessageTraced(ledger, m)
  BY <1>2 DEF IInv
<1> QED BY <1>2, <1>4, <1>5, SameJournals

LEMMA RestartKeeps ==
  ASSUME IInv, NEW c \in Capsules, Restart(c)
  PROVE  IInv'
<1>1. UNCHANGED <<ledger, outbox, net>> /\ TypeOK
  BY DEF Restart, IInv
<1>2. /\ queue' \in [Capsules -> Seq(Jobs)] /\ NoNewJob
      /\ seen' \in [Capsules -> SUBSET net] /\ crashes' \in 0..MaxCrashes
  BY <1>1, DiesIs DEF Restart
<1>3. TypeOK'
  BY <1>1, <1>2 DEF TypeOK
<1>4. \A m \in net' : MessageTraced(ledger, m)
  BY <1>1 DEF IInv
<1> QED BY <1>1, <1>2, <1>3, <1>4, JobsKept, SameJournals

LEMMA RefusedKeeps ==
  ASSUME IInv, NEW c \in Capsules, Refused(c)
  PROVE  IInv'
<1>1. TypeOK
  BY DEF IInv
<1>2. TypeOK' /\ NoNewJob /\ net' = net /\ ledger' = ledger
  BY <1>1, RefusedIs
<1>3. \A m \in net' : MessageTraced(ledger, m)
  BY <1>2 DEF IInv
<1> QED BY <1>2, <1>3, JobsKept, SameJournals

\* A worker that stores a journal.
LEMMA WorkerKeeps ==
  ASSUME IInv, NEW c \in Capsules, NEW item \in Items, NEW l \in Seq(Events),
         Outcome(c, l, item), Extends(l, ledger[c]), SlotsSuffice(l, c),
         \A k \in DOMAIN l \ DOMAIN ledger[c] : RowTraced([ledger EXCEPT ![c] = l], c, k),
         OneSender([ledger EXCEPT ![c] = l])
  PROVE  IInv'
<1>1. TypeOK /\ ledger \in Journals
  BY DEF IInv, TypeOK, Journals
<1>2. TypeOK' /\ NoNewJob /\ net' = net /\ ledger' = [ledger EXCEPT ![c] = l]
  BY <1>1, OutcomeIs
<1>3. /\ AllExtend(ledger', ledger) /\ AllTraced(ledger')
      /\ \A d \in Capsules : SlotsSuffice(ledger'[d], d)
  BY <1>1, <1>2, OneJournalGrows DEF IInv
<1>4. OneSender(ledger')
  BY <1>2
<1>5. \A m \in net' : MessageTraced(ledger, m)
  BY <1>2 DEF IInv
<1> QED BY <1>2, <1>3, <1>4, <1>5, JobsKept, StepKeeps

LEMMA AppendExtends ==
  ASSUME NEW l \in Seq(Events), NEW e \in Events
  PROVE  /\ Append(l, e) \in Seq(Events) /\ Extends(Append(l, e), l)
         /\ Len(l) \in Nat /\ DOMAIN l = 1..Len(l) /\ Len(Append(l, e)) = Len(l) + 1
         /\ DOMAIN Append(l, e) = DOMAIN l \cup {Len(l) + 1}
         /\ Len(l) + 1 \notin DOMAIN l /\ Append(l, e)[Len(l) + 1] = e
<1>1. Len(l) \in Nat /\ DOMAIN l = 1..Len(l)
  BY LenProperties
<1>2. /\ Append(l, e) \in Seq(Events) /\ Len(Append(l, e)) = Len(l) + 1
      /\ DOMAIN Append(l, e) = 1..(Len(l) + 1)
      /\ \A k \in 1..Len(l) : Append(l, e)[k] = l[k] /\ Append(l, e)[Len(l) + 1] = e
  OBVIOUS
<1>3. Append(l, e)[Len(l) + 1] = e
  OBVIOUS
<1>4. 1..(Len(l) + 1) = 1..Len(l) \cup {Len(l) + 1} /\ Len(l) + 1 \notin 1..Len(l)
  BY <1>1
<1> QED BY <1>1, <1>2, <1>3, <1>4 DEF Extends

LEMMA HeadJob ==
  ASSUME IInv, NEW c \in Capsules, queue[c] # <<>>
  PROVE  Head(queue[c]) \in Jobs /\ JobTraced(ledger, c, Head(queue[c]))
<1>1. queue[c] \in Seq(Jobs)
  BY DEF IInv, TypeOK
<1>2. 1 \in DOMAIN queue[c] /\ Head(queue[c]) = queue[c][1] /\ Head(queue[c]) \in Jobs
  BY <1>1
<1> QED BY <1>2 DEF IInv

\* A worker that stores what was there.
LEMMA NoRowKeeps ==
  ASSUME IInv, NEW c \in Capsules, NEW item \in Items, Outcome(c, ledger[c], item)
  PROVE  IInv'
<1>1. /\ ledger[c] \in Seq(Events) /\ Extends(ledger[c], ledger[c])
      /\ SlotsSuffice(ledger[c], c) /\ OneSender(ledger)
  BY DEF IInv, TypeOK, Extends
<1>2. [ledger EXCEPT ![c] = ledger[c]] = ledger
  BY DEF IInv, TypeOK
<1> QED BY <1>1, <1>2, WorkerKeeps

\* A worker that appends a row which neither sends nor creates.
LEMMA OneRowKeeps ==
  ASSUME IInv, NEW c \in Capsules, NEW item \in Items, NEW e \in Events,
         Outcome(c, Append(ledger[c], e), item),
         e.type \notin {"StarterCreated", "InvitationSent"},
         RowTraced([ledger EXCEPT ![c] = Append(ledger[c], e)], c, Len(ledger[c]) + 1)
  PROVE  IInv'
<1>. DEFINE l == Append(ledger[c], e)
<1>1. /\ ledger \in Journals /\ ledger[c] \in Seq(Events) /\ SlotsSuffice(ledger[c], c)
      /\ OneSender(ledger)
  BY DEF IInv, TypeOK, Journals
<1>2. /\ l \in Seq(Events) /\ Extends(l, ledger[c])
      /\ \A k \in DOMAIN l \ DOMAIN ledger[c] : k = Len(ledger[c]) + 1 /\ l[k] = e
  BY <1>1, AppendExtends
<1>. HIDE DEF l
<1>3. SlotsSuffice(l, c)
  <2>1. \A k \in DOMAIN l \ DOMAIN ledger[c] : l[k].type # "StarterCreated"
    BY <1>2
  <2> QED BY <1>1, <1>2, <2>1, WithoutStarterSuffice
<1>4. OneSender([ledger EXCEPT ![c] = l])
  <2>1. \A k \in DOMAIN l \ DOMAIN ledger[c] : l[k].type # "InvitationSent"
    BY <1>2
  <2> QED BY <1>1, <1>2, <2>1, NoNewOffer
<1>5. \A k \in DOMAIN l \ DOMAIN ledger[c] : RowTraced([ledger EXCEPT ![c] = l], c, k)
  BY <1>2 DEF l
<1> QED BY <1>2, <1>3, <1>4, <1>5, WorkerKeeps DEF l

LEMMA SendKeeps ==
  ASSUME IInv, NEW c \in Capsules, NEW i \in Invitations, Send(c, i)
  PROVE  IInv'
<1>. DEFINE job == Head(queue[c])
            s == Layout(ledger[c], c)[job.slot]
            e == Offer("InvitationSent", c, i, s, KindOf(ledger[c], c, s), job.to)
            l == Append(ledger[c], e)
            L == [ledger EXCEPT ![c] = l]
<1>1. /\ ledger \in Journals /\ ledger[c] \in Seq(Events) /\ SlotsSuffice(ledger[c], c)
      /\ OneSender(ledger)
  BY DEF IInv, TypeOK, Journals
<1>2. queue[c] # <<>> /\ job.op = "send" /\ i \notin Used
  BY DEF Send
<1>3. job.slot \in Slots /\ job.to \in Capsules /\ job.to # c
  BY <1>2, HeadJob DEF Jobs, JobTraced
<1>4. CASE s = None
  BY <1>4, RefusedKeeps DEF Send
<1>5. CASE s # None
  <2>1. Outcome(c, l, <<"offer", i>>) /\ <<"offer", i>> \in Items
    BY <1>5 DEF Send, Items
  <2>2. Layout(ledger[c], c) \in SlotArrays
        /\ Occupied(Layout(ledger[c], c)) \subseteq CreatedIn(ledger[c], c, Len(ledger[c]))
    BY <1>1, LayoutIs DEF Live
  <2>3. s \in StarterIds /\ KindOf(ledger[c], c, s) \in ToSet(Kinds)
    <3>1. s \in Occupied(Layout(ledger[c], c))
      BY <1>3, <1>5 DEF Occupied
    <3>. HIDE DEF s
    <3> QED BY <1>1, <2>2, <3>1, KindKnown, OccupiedAreStarters
  <2>. HIDE DEF s
  <2>4. e \in Events
    BY <1>3, <2>3 DEF Offer, Events, OfferTypes
  <2>5. e.type = "InvitationSent" /\ e.inv = i /\ e.signer = c /\ e.to # c
    BY <1>3 DEF Offer
  <2>. HIDE DEF e
  <2>6. /\ l \in Seq(Events) /\ Extends(l, ledger[c])
        /\ \A k \in DOMAIN l \ DOMAIN ledger[c] : l[k] = e
        /\ \A j, k \in DOMAIN l \ DOMAIN ledger[c] : j = k
    BY <1>1, <2>4, AppendExtends
  <2>7. SlotsSuffice(l, c)
    <3> HIDE DEF l
    <3>1. \A k \in DOMAIN l \ DOMAIN ledger[c] : l[k].type # "StarterCreated"
      BY <2>5, <2>6
    <3> QED BY <1>1, <2>6, <3>1, WithoutStarterSuffice
  <2>8. L[c] = l /\ \A d \in Capsules \ {c} : L[d] = ledger[d]
    BY <1>1 DEF Journals
  <2>. HIDE DEF l, L
  <2>9. ASSUME NEW k \in DOMAIN l \ DOMAIN ledger[c] PROVE RowTraced(L, c, k)
    <3>1. L[c][k] = e
      BY <2>6, <2>8
    <3> QED BY <2>5, <3>1 DEF RowTraced, OwnRow, OfferTraced, AnswerTraced, ExpiryTraced,
          ResolvesFirst, AcceptanceBinds, RelationshipTraced, BurnTraced, IsAnswer, IsOwnExpiry
  <2>10. OneSender(L)
    <3>1. \A d \in Capsules : \A k \in DOMAIN ledger[d] : ~IsSent(ledger[d][k], i)
      <4>1. \A d \in Capsules : FindOutgoing(ledger[d], i) = None
        BY <1>2 DEF Used
      <4>2. \A d \in Capsules : ledger[d] \in Seq(Events)
        BY <1>1 DEF Journals
      <4> QED BY <4>1, <4>2, OutgoingIs
    <3>2. \A d \in Capsules : \A k \in DOMAIN L[d] :
            \/ k \in DOMAIN ledger[d] /\ L[d][k] = ledger[d][k]
            \/ d = c /\ L[d][k] = e /\ k \in DOMAIN l \ DOMAIN ledger[c]
      BY <2>6, <2>8 DEF Extends
    <3> QED BY <1>1, <2>5, <2>6, <3>1, <3>2 DEF OneSender, IsSent
  <2> QED BY <2>1, <2>6, <2>7, <2>9, <2>10, WorkerKeeps DEF L
<1> QED BY <1>4, <1>5

\* The journals after an append, as its new row sees them.
LEMMA AfterAppend ==
  ASSUME NEW L \in Journals, NEW c \in Capsules, NEW e \in Events,
         NEW M, M = [L EXCEPT ![c] = Append(L[c], e)], NEW n, n = Len(L[c]) + 1
  PROVE  /\ M \in Journals /\ M[c][n] = e /\ DOMAIN M[c] = DOMAIN L[c] \cup {n}
         /\ 1..(n - 1) = DOMAIN L[c] /\ \A k \in DOMAIN L[c] : M[c][k] = L[c][k]
         /\ AllExtend(M, L)
<1>1. L[c] \in Seq(Events)
  BY DEF Journals
<1>2. /\ Append(L[c], e) \in Seq(Events) /\ Extends(Append(L[c], e), L[c])
      /\ DOMAIN Append(L[c], e) = DOMAIN L[c] \cup {n} /\ Append(L[c], e)[n] = e
      /\ 1..(n - 1) = DOMAIN L[c]
  BY <1>1, AppendExtends
<1>3. M \in Journals /\ M[c] = Append(L[c], e) /\ \A d \in Capsules \ {c} : M[d] = L[d]
  BY <1>2 DEF Journals
<1>4. AllExtend(M, L)
  BY <1>2, <1>3 DEF AllExtend, Extends
<1> QED BY <1>2, <1>3, <1>4 DEF Extends

LEMMA RejectKeeps ==
  ASSUME IInv, NEW c \in Capsules, Reject(c)
  PROVE  IInv'
<1>. DEFINE job == Head(queue[c])
            i == job.inv
            e == InvitationRejected(c, i, job.reason)
            L == [ledger EXCEPT ![c] = Append(ledger[c], e)]
            n == Len(ledger[c]) + 1
<1>1. ledger \in Journals
  BY DEF IInv, TypeOK, Journals
<1>2. queue[c] # <<>> /\ job.op = "reject"
  BY DEF Reject
<1>3. /\ i \in Invitations /\ job.reason \in Reasons
      /\ \E j \in DOMAIN ledger[c] : IsReceived(ledger[c][j], i)
  BY <1>2, HeadJob DEF Jobs, JobTraced
<1>4. <<"terminal", i>> \in Items
  BY <1>3 DEF Items
<1>5. \/ Refused(c)
      \/ Outcome(c, ledger[c], <<"terminal", i>>)
      \/ Outcome(c, Append(ledger[c], e), <<"terminal", i>>)
  BY DEF Reject, AppendIfMissing
<1>6. ASSUME Outcome(c, Append(ledger[c], e), <<"terminal", i>>) PROVE IInv'
  <2>1. e \in Events /\ e.type = "InvitationRejected" /\ e.signer = c /\ e.inv = i
    BY <1>3 DEF InvitationRejected, Events
  <2>. HIDE DEF e
  <2>2. L[c][n] = e /\ 1..(n - 1) = DOMAIN ledger[c]
        /\ \A k \in DOMAIN ledger[c] : L[c][k] = ledger[c][k]
    <3>1. L = [ledger EXCEPT ![c] = Append(ledger[c], e)] /\ n = Len(ledger[c]) + 1
      OBVIOUS
    <3> HIDE DEF L, n
    <3> QED BY <1>1, <2>1, <3>1, AfterAppend
  <2>. HIDE DEF L, n
  <2>3. RowTraced(L, c, n)
    BY <1>3, <2>1, <2>2 DEF RowTraced, OwnRow, OfferTraced, AnswerTraced, ExpiryTraced,
          ResolvesFirst, AcceptanceBinds, RelationshipTraced, BurnTraced, IsAnswer, IsOwnExpiry
  <2> QED BY <1>4, <1>6, <2>1, <2>3, OneRowKeeps DEF L, n
<1> QED BY <1>4, <1>5, <1>6, RefusedKeeps, NoRowKeeps

LEMMA ExpireKeeps ==
  ASSUME IInv, NEW c \in Capsules, Expire(c)
  PROVE  IInv'
<1>. DEFINE i == Head(queue[c]).inv
            e == InvitationExpired(c, i)
            L == [ledger EXCEPT ![c] = Append(ledger[c], e)]
            n == Len(ledger[c]) + 1
<1>1. ledger \in Journals /\ ledger[c] \in Seq(Events)
  BY DEF IInv, TypeOK, Journals
<1>2. queue[c] # <<>> /\ Head(queue[c]).op = "cancel"
  BY DEF Expire
<1>3. i \in Invitations /\ <<"terminal", i>> \in Items
  BY <1>2, HeadJob DEF Jobs, Items
<1>4. \/ Refused(c)
      \/ Outcome(c, ledger[c], <<"terminal", i>>)
      \/ /\ Outcome(c, Append(ledger[c], e), <<"terminal", i>>)
         /\ ~IsResolved(ledger[c], i)
         /\ FirstOffer(ledger[c], i) # None /\ FirstOffer(ledger[c], i).type = "InvitationSent"
  BY DEF Expire
<1>5. ASSUME Outcome(c, Append(ledger[c], e), <<"terminal", i>>), ~IsResolved(ledger[c], i),
             FirstOffer(ledger[c], i) # None, FirstOffer(ledger[c], i).type = "InvitationSent"
      PROVE IInv'
  <2>1. e \in Events /\ e.type = "InvitationExpired" /\ e.signer = c /\ e.inv = i
    BY <1>3 DEF InvitationExpired, Events
  <2>2. \E j \in DOMAIN ledger[c] : IsSent(ledger[c][j], i)
    BY <1>1, <1>5, FirstOfferIs DEF IsReceived
  <2>. HIDE DEF e
  <2>3. L[c][n] = e /\ 1..(n - 1) = DOMAIN ledger[c]
        /\ \A k \in DOMAIN ledger[c] : L[c][k] = ledger[c][k]
    <3>1. L = [ledger EXCEPT ![c] = Append(ledger[c], e)] /\ n = Len(ledger[c]) + 1
      OBVIOUS
    <3> HIDE DEF L, n
    <3> QED BY <1>1, <2>1, <3>1, AfterAppend
  <2>. HIDE DEF L, n
  <2>4. RowTraced(L, c, n)
    BY <1>5, <2>1, <2>2, <2>3 DEF RowTraced, OwnRow, OfferTraced, AnswerTraced, ExpiryTraced,
          ResolvesFirst, AcceptanceBinds, RelationshipTraced, BurnTraced, IsAnswer, IsOwnExpiry,
          IsResolved
  <2> QED BY <1>3, <1>5, <2>1, <2>4, OneRowKeeps DEF L, n
<1> QED BY <1>3, <1>4, <1>5, RefusedKeeps, NoRowKeeps

LEMMA ExtendsTwice ==
  ASSUME NEW l, NEW m, NEW n, Extends(m, l), Extends(n, m)
  PROVE  Extends(n, l)
BY DEF Extends

\* Among rows of one's own, append_if_missing leaves exactly one such row.
LEMMA AppendIfMissingIs ==
  ASSUME NEW l \in Seq(Events), NEW e \in Events, NEW m, m = AppendIfMissing(l, e),
         \A k \in DOMAIN l : l[k].type = e.type => l[k].signer = e.signer
  PROVE  /\ m \in Seq(Events) /\ Extends(m, l) /\ Has(m, e)
         /\ \A k \in DOMAIN m \ DOMAIN l : m[k] = e
<1>1. CASE \E k \in DOMAIN l : [l[k] EXCEPT !.signer = e.signer] = e
  <2>1. PICK k \in DOMAIN l : [l[k] EXCEPT !.signer = e.signer] = e
    BY <1>1
  <2>2. l[k] \in Events
    BY LenProperties, ElementOfSeq
  <2>3. l[k] = e
    BY <2>1, <2>2, SameButSigner
  <2>4. m = l
    BY <1>1 DEF AppendIfMissing
  <2> QED BY <2>3, <2>4 DEF Has, Extends
<1>2. CASE ~(\E k \in DOMAIN l : [l[k] EXCEPT !.signer = e.signer] = e)
  <2>1. m = Append(l, e)
    BY <1>2 DEF AppendIfMissing
  <2>2. /\ Append(l, e) \in Seq(Events) /\ Extends(Append(l, e), l)
        /\ DOMAIN Append(l, e) = DOMAIN l \cup {Len(l) + 1} /\ Append(l, e)[Len(l) + 1] = e
    BY AppendExtends
  <2> QED BY <2>1, <2>2 DEF Has
<1> QED BY <1>1, <1>2

\* What an acceptance binds and creates.
LEMMA PlanIs ==
  ASSUME NEW l \in Seq(Events), NEW c \in Capsules, SlotsSuffice(l, c), NEW i \in Invitations,
         NEW offer, offer # None => offer.kind \in ToSet(Kinds),
         NEW slots, slots = Layout(l, c),
         NEW kinds, kinds = ActiveKinds(l, c, slots),
         NEW plan, plan = AcceptPlan(l, c, i, offer, slots, kinds), plan.ok
  PROVE  /\ offer # None
         /\ plan.starter \in StarterIds
         /\ plan.created # None =>
              /\ plan.created \in StarterIds /\ plan.createdKind \in ToSet(Kinds)
              /\ Cardinality(Live(l, c, RevokedStarters(l), Len(l))) + 1 <= NumSlots
<1>. DEFINE kind == offer.kind
            match == SelectInSeq(kinds, LAMBDA k : k = kind)
            free == FirstFree(slots)
            missing == FirstMissingKind(kinds)
            p == PlanAcceptForKind(slots, kinds, kind)
            new == LineageId(c, p.fill, i)
<1>1. ~NoPlan.ok
  BY DEF NoPlan
<1>2. offer # None /\ plan = Acceptance(c, i, slots, p)
  BY <1>1 DEF AcceptPlan
<1>3. slots \in SlotArrays /\ Occupied(slots) = Live(l, c, RevokedStarters(l), Len(l))
  BY LayoutIs
<1>4. match # 0 => match \in Slots /\ slots[match] \in StarterIds
  <2>1. NumSlots \in Nat /\ Slots = 1..NumSlots /\ DOMAIN kinds = 1..NumSlots
        /\ Len(kinds) = NumSlots
    BY SlotsAreNaturals DEF ActiveKinds
  <2>. DEFINE at == {k \in 1..Len(kinds) : kinds[k] = kind}
  <2>2. match = IF at # {} THEN Min(at) ELSE 0
    BY DEF SelectInSeq
  <2>3. at \in SUBSET Nat
    BY <2>1
  <2>4. at # {} => Min(at) \in at
    <3> HIDE DEF at
    <3> QED BY <2>3, MinIsLeast
  <2>5. ASSUME match # 0 PROVE match \in Slots /\ kinds[match] = kind
    <3>1. match \in at
      BY <2>2, <2>4, <2>5
    <3> QED BY <2>1, <3>1
  <2>. HIDE DEF match
  <2>6. ASSUME match # 0 PROVE slots[match] \in StarterIds
    <3>1. kinds[match] # None
      BY <1>2, <2>5, <2>6, CapsuleAssumption
    <3>2. slots[match] # None
      BY <2>5, <2>6, <3>1 DEF ActiveKinds
    <3> QED BY <1>3, <2>5, <2>6, <3>2 DEF SlotArrays
  <2> QED BY <2>5, <2>6
<1>5. missing # 0 => missing \in 1..Len(Kinds) /\ Kinds[missing] \in ToSet(Kinds)
  <2>. DEFINE at == {k \in 1..Len(Kinds) : Kinds[k] \notin ToSet(kinds)}
  <2>1. missing = IF at # {} THEN Min(at) ELSE 0
    BY DEF FirstMissingKind, SelectInSeq
  <2>2. at \in SUBSET Nat
    BY CapsuleAssumption, LenProperties
  <2>3. at # {} => Min(at) \in at
    <3> HIDE DEF at
    <3> QED BY <2>2, MinIsLeast
  <2>4. missing # 0 => missing \in 1..Len(Kinds)
    BY <2>1, <2>3
  <2>. HIDE DEF missing
  <2> QED BY <2>4, CapsuleAssumption, LenProperties DEF ToSet
<1>6. /\ p.use = match
      /\ p.fill # 0 => p.fill = free /\ free # 0 /\ p.fillKind \in ToSet(Kinds)
  <2>1. p = IF match # 0 /\ (free = 0 \/ missing = 0)
            THEN [use |-> match, fill |-> 0, fillKind |-> None]
            ELSE [use |-> match, fill |-> free,
                  fillKind |-> IF match # 0 THEN Kinds[missing] ELSE kind]
    BY DEF PlanAcceptForKind
  <2>. HIDE DEF match, free, missing, p
  <2> QED BY <1>2, <1>5, <2>1
<1>7. free # 0 => free \in Slots /\ slots[free] = None
  BY <1>3, FirstFreeSlot
<1>. HIDE DEF match, free, missing, p
<1>8. ~(p.use = 0 /\ p.fill = 0)
  BY <1>1, <1>2 DEF Acceptance
<1>9. /\ plan.starter = IF p.use # 0 THEN slots[p.use] ELSE new
      /\ plan.created = IF p.fill # 0 THEN new ELSE None
      /\ plan.createdKind = p.fillKind
  BY <1>2, <1>8 DEF Acceptance
<1>10. p.fill # 0 => new \in StarterIds
  BY <1>6, <1>7 DEF LineageId, StarterIds
<1>11. p.fill # 0 => Cardinality(Live(l, c, RevokedStarters(l), Len(l))) + 1 <= NumSlots
  BY <1>3, <1>6, <1>7, FreeSlot
<1>. HIDE DEF new
<1>12. plan.starter \in StarterIds
  BY <1>4, <1>6, <1>8, <1>9, <1>10
<1> QED BY <1>2, <1>6, <1>9, <1>10, <1>11, <1>12

LEMMA AcceptKeeps ==
  ASSUME IInv, NEW c \in Capsules, Accept(c)
  PROVE  IInv'
<1>. DEFINE l == ledger[c]
<1>0. /\ ledger \in Journals /\ l \in Seq(Events) /\ SlotsSuffice(l, c)
      /\ AllTraced(ledger) /\ OneSender(ledger)
  BY DEF IInv, TypeOK, Journals
<1>1. queue[c] # <<>> /\ Head(queue[c]).op = "accept"
  BY DEF Accept
<1>2. PICK i, offer, slots, kinds, plan :
        /\ i = Head(queue[c]).inv
        /\ offer = FindIncoming(l, i) /\ slots = Layout(l, c)
        /\ kinds = ActiveKinds(l, c, slots)
        /\ plan = AcceptPlan(l, c, i, offer, slots, kinds)
        /\ IF IsResolved(l, i) \/ ~plan.ok THEN Refused(c)
           ELSE Outcome(c, Finalized(Append(l, InvitationAccepted(c, i, plan.starter)),
                                     c, i, offer, plan),
                        <<"terminal", i>>)
  BY DEF Accept
<1>3. i \in Invitations /\ <<"terminal", i>> \in Items
  BY <1>1, <1>2, HeadJob DEF Jobs, Items
<1>4. CASE IsResolved(l, i) \/ ~plan.ok
  BY <1>2, <1>4, RefusedKeeps
<1>5. CASE ~IsResolved(l, i) /\ plan.ok
  <2>. DEFINE n == Len(l) + 1
              acc == InvitationAccepted(c, i, plan.starter)
              accepted == Append(l, acc)
              cre == StarterCreated(c, plan.created, plan.createdKind)
              filled == IF plan.created = None \/ IsActive(accepted, c, plan.created)
                        THEN accepted ELSE Append(accepted, cre)
              re == RelationshipEstablished(c, offer.signer, plan.starter, offer.starter,
                                            offer.kind, i)
              a == AppendIfMissing(filled, re)
  <2>1. Outcome(c, a, <<"terminal", i>>)
    BY <1>2, <1>5 DEF Finalized
  <2>2. offer # None => /\ IsReceived(offer, i) /\ \E k \in DOMAIN l : l[k] = offer
                        /\ offer \in Events /\ offer.signer \in Capsules
                        /\ offer.starter \in StarterIds /\ offer.kind \in ToSet(Kinds)
    <3>1. SUFFICES ASSUME offer # None
                   PROVE  /\ IsReceived(offer, i) /\ \E k \in DOMAIN l : l[k] = offer
                          /\ offer \in Events /\ offer.signer \in Capsules
                          /\ offer.starter \in StarterIds /\ offer.kind \in ToSet(Kinds)
      OBVIOUS
    <3>2. PICK k \in DOMAIN l : l[k] = offer /\ IsReceived(offer, i)
      BY <1>0, <1>2, <3>1, IncomingIs
    <3>3. offer \in Events
      BY <1>0, <3>2, JournalRow
    <3> QED BY <3>2, <3>3, EventFields DEF IsReceived, OfferTypes
  <2>3. /\ offer # None /\ plan.starter \in StarterIds
        /\ plan.created # None =>
             /\ plan.created \in StarterIds /\ plan.createdKind \in ToSet(Kinds)
             /\ Cardinality(Live(l, c, RevokedStarters(l), Len(l))) + 1 <= NumSlots
    BY <1>0, <1>2, <1>3, <1>5, <2>2, PlanIs
  <2>4. PICK k0 \in DOMAIN l : l[k0] = offer
    BY <2>2, <2>3
  <2>5. acc \in Events /\ acc.type = "InvitationAccepted"
    BY <1>3, <2>3 DEF InvitationAccepted, Events
  <2>6. plan.created # None => /\ cre \in Events /\ cre.type = "StarterCreated"
                               /\ cre.signer = c /\ cre.starter = plan.created
    BY <2>3 DEF StarterCreated, Events
  <2>7. re \in Events /\ re.type = "RelationshipEstablished" /\ re.signer = c
    BY <1>3, <2>2, <2>3 DEF RelationshipEstablished, Events
  <2>. HIDE DEF acc, cre, re
  <2>8. /\ accepted \in Seq(Events) /\ Extends(accepted, l)
        /\ n \in DOMAIN accepted /\ accepted[n] = acc /\ n \notin DOMAIN l
        /\ \A k \in DOMAIN accepted \ DOMAIN l : k = n
    BY <1>0, <2>5, AppendExtends
  <2>. HIDE DEF accepted, n
  <2>9. /\ filled \in Seq(Events) /\ Extends(filled, accepted)
        /\ \A k \in DOMAIN filled \ DOMAIN accepted : plan.created # None /\ filled[k] = cre
    <3>1. CASE plan.created = None \/ IsActive(accepted, c, plan.created)
      BY <2>8, <3>1 DEF Extends
    <3>2. CASE ~(plan.created = None \/ IsActive(accepted, c, plan.created))
      BY <2>6, <2>8, <3>2, AppendExtends
    <3> QED BY <3>1, <3>2
  <2>. HIDE DEF filled
  <2>10. \A k \in DOMAIN filled : filled[k].type = re.type => filled[k].signer = re.signer
    <3>1. \A k \in DOMAIN l : l[k].type = "RelationshipEstablished" => l[k].signer = c
      BY <1>0 DEF AllTraced, RowTraced, OwnRow
    <3>2. ASSUME NEW k \in DOMAIN filled
          PROVE  \/ k \in DOMAIN l /\ filled[k] = l[k]
                 \/ filled[k] = acc
                 \/ plan.created # None /\ filled[k] = cre
      BY <2>8, <2>9 DEF Extends
    <3> QED BY <2>5, <2>6, <2>7, <3>1, <3>2
  <2>11. /\ a \in Seq(Events) /\ Extends(a, filled) /\ Has(a, re)
         /\ \A k \in DOMAIN a \ DOMAIN filled : a[k] = re
    BY <2>7, <2>9, <2>10, AppendIfMissingIs
  <2>. HIDE DEF a
  <2>12. Extends(a, l) /\ n \in DOMAIN a /\ a[n] = acc
    BY <2>8, <2>9, <2>11 DEF Extends
  <2>13. \A k \in DOMAIN a \ DOMAIN l : \/ k = n
                                        \/ a[k] = re
                                        \/ plan.created # None /\ a[k] = cre
    BY <2>8, <2>9, <2>11 DEF Extends
  <2>14. \A k \in DOMAIN a \ DOMAIN l : RowTraced([ledger EXCEPT ![c] = a], c, k)
    <3>1. PICK M : M = [ledger EXCEPT ![c] = a]
      OBVIOUS
    <3>2. M[c] = a /\ 1..(n - 1) = DOMAIN l /\ \A k \in DOMAIN l : M[c][k] = l[k]
      <4>1. Len(l) \in Nat /\ DOMAIN l = 1..Len(l)
        BY <1>0, LenProperties
      <4>2. 1..(n - 1) = DOMAIN l
        BY <4>1 DEF n
      <4> QED BY <1>0, <2>12, <3>1, <4>2 DEF Journals, Extends
    <3>3. k0 \in DOMAIN M[c] /\ M[c][k0] = offer /\ IsReceived(offer, i)
      BY <2>2, <2>3, <2>4, <2>12, <3>2 DEF Extends
    <3>4. RowTraced(M, c, n)
      <4>1. M[c][n] = acc /\ acc.signer = c /\ acc.inv = i /\ acc.starter = plan.starter
        BY <2>12, <3>2 DEF acc, InvitationAccepted
      <4>2. OwnRow(M, c, n) /\ OfferTraced(M, c, n) /\ ExpiryTraced(M, c, n)
            /\ RelationshipTraced(M, c, n) /\ BurnTraced(M, c, n)
        BY <2>5, <4>1 DEF OwnRow, OfferTraced, ExpiryTraced, RelationshipTraced, BurnTraced
      <4>3. AnswerTraced(M, c, n)
        BY <2>4, <3>2, <3>3, <4>1 DEF AnswerTraced
      <4>4. ResolvesFirst(M, c, n)
        BY <1>5, <3>2, <4>1 DEF ResolvesFirst, IsResolved
      <4>5. AcceptanceBinds(M, c, n)
        BY <2>11, <3>2, <3>3, <4>1 DEF AcceptanceBinds, re
      <4> QED BY <4>2, <4>3, <4>4, <4>5 DEF RowTraced
    <3>5. ASSUME NEW k \in DOMAIN a, a[k] = re PROVE RowTraced(M, c, k)
      <4>1. M[c][k] = re /\ re.inv = i
        BY <3>2, <3>5 DEF re, RelationshipEstablished
      <4>2. RelationshipTraced(M, c, k)
        BY <3>3, <4>1 DEF RelationshipTraced
      <4> QED BY <2>7, <4>1, <4>2 DEF RowTraced, OwnRow, OfferTraced, AnswerTraced, ExpiryTraced,
              ResolvesFirst, AcceptanceBinds, BurnTraced, IsAnswer, IsOwnExpiry
    <3>6. ASSUME NEW k \in DOMAIN a, plan.created # None, a[k] = cre PROVE RowTraced(M, c, k)
      BY <2>6, <3>2, <3>6 DEF RowTraced, OwnRow, OfferTraced, AnswerTraced, ExpiryTraced,
         ResolvesFirst, AcceptanceBinds, RelationshipTraced, BurnTraced, IsAnswer, IsOwnExpiry
    <3> QED BY <2>13, <3>1, <3>4, <3>5, <3>6
  <2>15. SlotsSuffice(a, c)
    <3>1. \A k \in DOMAIN a \ DOMAIN l : a[k].type = "StarterCreated" =>
            /\ a[k].starter = plan.created
            /\ Cardinality(Live(l, c, RevokedStarters(l), Len(l))) + 1 <= NumSlots
      BY <2>3, <2>5, <2>6, <2>7, <2>12, <2>13
    <3> QED BY <1>0, <2>11, <2>12, <3>1, SlotsStillSuffice
  <2>16. OneSender([ledger EXCEPT ![c] = a])
    <3>1. \A k \in DOMAIN a \ DOMAIN l : a[k].type # "InvitationSent"
      BY <2>5, <2>6, <2>7, <2>12, <2>13
    <3> QED BY <1>0, <2>12, <3>1, NoNewOffer
  <2> QED BY <1>3, <2>1, <2>11, <2>12, <2>14, <2>15, <2>16, WorkerKeeps
<1> QED BY <1>4, <1>5

\* The offer a capsule sent is the only row of its journal that sends that id.
LEMMA OneOffer ==
  ASSUME NEW L \in Journals, OneSender(L), NEW c \in Capsules, NEW j \in DOMAIN L[c],
         NEW i, IsSent(L[c][j], i)
  PROVE  FindOutgoing(L[c], i) = L[c][j]
<1>1. L[c] \in Seq(Events)
  BY DEF Journals
<1>2. PICK k \in DOMAIN L[c] : L[c][k] = FindOutgoing(L[c], i) /\ IsSent(L[c][k], i)
  BY <1>1, OutgoingIs
<1> QED BY <1>2 DEF OneSender, IsSent

\* Where a message comes from, and what its recipient knows of it.
LEMMA MessageFacts ==
  ASSUME IInv, NEW m \in net
  PROVE  /\ m.event \in Events /\ m.from \in Capsules /\ m.event.signer = m.from
         /\ m.to \in Capsules /\ m.to # m.from
         /\ m.event.type \in OfferTypes =>
              /\ m.event.type = "InvitationReceived" /\ m.event.to = m.to
              /\ Has(ledger[m.from], AsSent(m.event))
         /\ m.event.type \in TerminalTypes => Has(ledger[m.from], m.event)
         /\ IsAnswer(m.event) => \E j \in DOMAIN ledger[m.to] :
              IsSent(ledger[m.to][j], m.event.inv) /\ ledger[m.to][j].to = m.from
         /\ m.event.type \in OfferTypes \cup TerminalTypes
<1>. DEFINE e == m.event
<1>1. /\ e \in Events /\ m.from \in Capsules /\ m.to \in Capsules /\ ledger \in Journals
      /\ MessageTraced(ledger, m) /\ AllTraced(ledger)
  BY DEF IInv, TypeOK, Messages, Journals
<1>2. e.signer = m.from
  BY <1>1 DEF MessageTraced
<1>3. CASE OfferMessage(ledger, m)
  BY <1>1, <1>2, <1>3 DEF OfferMessage, OfferTypes, TerminalTypes, IsAnswer
<1>4. CASE AnswerMessage(ledger, m)
  <2>1. PICK k \in DOMAIN ledger[m.from] : /\ IsReceived(ledger[m.from][k], e.inv)
                                           /\ ledger[m.from][k].signer = m.to
    BY <1>4 DEF AnswerMessage
  <2>2. /\ ledger[m.from][k].to = m.from /\ m.to # m.from
        /\ Has(ledger[m.to], AsSent(ledger[m.from][k]))
    BY <1>1, <2>1 DEF AllTraced, RowTraced, OfferTraced, IsReceived
  <2>3. /\ AsSent(ledger[m.from][k]).type = "InvitationSent"
        /\ AsSent(ledger[m.from][k]).inv = e.inv /\ AsSent(ledger[m.from][k]).to = m.from
    BY <2>1, <2>2 DEF AsSent, Offer, IsReceived
  <2> QED BY <1>1, <1>2, <1>4, <2>2, <2>3 DEF AnswerMessage, Has, IsSent, IsAnswer,
                                            OfferTypes, TerminalTypes
<1>5. CASE ExpiryMessage(ledger, m)
  <2>1. PICK k \in DOMAIN ledger[m.from] : /\ IsSent(ledger[m.from][k], e.inv)
                                           /\ ledger[m.from][k].to = m.to
    BY <1>5 DEF ExpiryMessage
  <2>2. m.to # m.from
    BY <1>1, <2>1 DEF AllTraced, RowTraced, OfferTraced, IsSent
  <2> QED BY <1>1, <1>2, <1>5, <2>2 DEF ExpiryMessage, IsAnswer, OfferTypes, TerminalTypes
<1> QED BY <1>1, <1>3, <1>4, <1>5 DEF MessageTraced

\* The row a delivery appends before its effects.
LEMMA ReceivedTraced ==
  ASSUME IInv, NEW m \in net, NEW c, c = m.to, ~ShouldSkip(ledger[c], m.event),
         NEW M \in Journals, AllExtend(M, ledger),
         NEW n, 1..(n - 1) = DOMAIN ledger[c], M[c][n] = m.event
  PROVE  RowTraced(M, c, n)
<1>. DEFINE e == m.event
<1>1. /\ ledger \in Journals /\ c \in Capsules /\ ledger[c] \in Seq(Events)
      /\ \A d \in Capsules : \A x : Has(ledger[d], x) => Has(M[d], x)
      /\ \A k \in DOMAIN ledger[c] : M[c][k] = ledger[c][k]
  BY HasKept DEF IInv, TypeOK, Journals, Messages, AllExtend, Extends
<1>2. CASE e.type = "InvitationReceived"
  <2>1. /\ e.to = c /\ e.signer # c /\ e.signer \in Capsules /\ Has(M[e.signer], AsSent(e))
    BY <1>1, <1>2, MessageFacts DEF OfferTypes
  <2> QED BY <1>2, <2>1 DEF RowTraced, OwnRow, OfferTraced, AnswerTraced, ExpiryTraced,
          ResolvesFirst, AcceptanceBinds, RelationshipTraced, BurnTraced, IsAnswer, IsOwnExpiry
<1>3. CASE e.type = "InvitationExpired"
  <2>1. e.signer # c /\ e.signer \in Capsules /\ Has(M[e.signer], e)
    BY <1>1, <1>3, MessageFacts DEF TerminalTypes
  <2>2. FindIncoming(ledger[c], e.inv) # None
        /\ FindIncoming(ledger[c], e.inv).signer = e.signer
    BY <1>3 DEF ShouldSkip
  <2>3. \E j \in DOMAIN ledger[c] : /\ IsReceived(ledger[c][j], e.inv)
                                    /\ ledger[c][j].signer = e.signer
    BY <1>1, <2>2, IncomingIs
  <2>4. ExpiryTraced(M, c, n)
    BY <1>1, <2>1, <2>3 DEF ExpiryTraced
  <2> QED BY <1>3, <2>1, <2>4 DEF RowTraced, OwnRow, OfferTraced, AnswerTraced,
          ResolvesFirst, AcceptanceBinds, RelationshipTraced, BurnTraced, IsAnswer, IsOwnExpiry
<1>4. CASE IsAnswer(e)
  <2>1. e.signer # c /\ e.signer \in Capsules /\ Has(M[e.signer], e)
    BY <1>1, <1>4, MessageFacts DEF TerminalTypes, IsAnswer
  <2>2. \E j \in DOMAIN ledger[c] : IsSent(ledger[c][j], e.inv) /\ ledger[c][j].to = e.signer
    BY <1>4, MessageFacts
  <2>3. ~IsResolved(ledger[c], e.inv)
    BY <1>4 DEF ShouldSkip, IsAnswer
  <2>4. AnswerTraced(M, c, n)
    BY <1>1, <2>1, <2>2 DEF AnswerTraced
  <2>5. ResolvesFirst(M, c, n)
    BY <1>1, <2>3 DEF ResolvesFirst, IsResolved
  <2> QED BY <1>4, <2>1, <2>4, <2>5 DEF RowTraced, OwnRow, OfferTraced, ExpiryTraced,
          AcceptanceBinds, RelationshipTraced, BurnTraced, IsAnswer, IsOwnExpiry
<1> QED BY <1>2, <1>3, <1>4, MessageFacts DEF OfferTypes, TerminalTypes, IsAnswer

LEMMA DeliverKeeps ==
  ASSUME IInv, NEW c \in Capsules, NEW m \in net, Deliver(c, m)
  PROVE  IInv'
<1>. DEFINE l == ledger[c]
            e == m.event
            n == Len(l) + 1
            received == IF ShouldSkip(l, e) THEN l ELSE Append(l, e)
            a == IF IsAnswer(e) THEN Effects(received, c, e) ELSE received
            offer == FindOutgoing(received, e.inv)
            re == RelationshipEstablished(c, e.signer, offer.starter, e.starter, offer.kind, e.inv)
            burn == StarterBurned(c, offer.starter)
<1>1. /\ ledger \in Journals /\ l \in Seq(Events) /\ SlotsSuffice(l, c)
      /\ AllTraced(ledger) /\ OneSender(ledger) /\ TypeOK
  BY DEF IInv, TypeOK, Journals
<1>2. /\ m.to = c /\ ledger' = [ledger EXCEPT ![c] = a]
      /\ seen' = [seen EXCEPT ![c] = seen[c] \cup {m}]
      /\ UNCHANGED <<queue, outbox, net, crashes>>
  BY DEF Deliver, IsAnswer
<1>3. /\ e \in Events /\ e.type \in OfferTypes \cup TerminalTypes
      /\ e.type # "InvitationSent" /\ e.type # "StarterCreated"
  BY MessageFacts DEF OfferTypes, TerminalTypes
<1>4. /\ received \in Seq(Events) /\ Extends(received, l)
      /\ \A k \in DOMAIN received \ DOMAIN l : k = n /\ received[k] = e /\ ~ShouldSkip(l, e)
      /\ ~ShouldSkip(l, e) => Has(received, e)
      /\ 1..(n - 1) = DOMAIN l
  <2>1. 1..(n - 1) = DOMAIN l
    BY <1>1, LenProperties
  <2>2. CASE ShouldSkip(l, e)
    BY <1>1, <2>1, <2>2 DEF Extends
  <2>3. CASE ~ShouldSkip(l, e)
    <3>1. /\ Append(l, e) \in Seq(Events) /\ Extends(Append(l, e), l)
          /\ DOMAIN Append(l, e) = DOMAIN l \cup {n} /\ Append(l, e)[n] = e
      BY <1>1, <1>3, AppendExtends
    <3> QED BY <2>1, <2>3, <3>1 DEF Has
  <2> QED BY <2>2, <2>3
<1>. HIDE DEF n, received
<1>5. ASSUME IsAnswer(e)
      PROVE  /\ \E j \in DOMAIN l : offer = l[j] /\ IsSent(l[j], e.inv) /\ l[j].to = e.signer
             /\ offer \in Events /\ offer.starter \in StarterIds /\ offer.kind \in ToSet(Kinds)
             /\ e.inv \in Invitations /\ e.signer \in Capsules
             /\ Has(ledger[e.signer], e)
             /\ \E t \in DOMAIN received : IsTerminalOf(received[t], e.inv)
  <2>1. PICK j \in DOMAIN l : IsSent(l[j], e.inv) /\ l[j].to = e.signer
    BY <1>2, <1>5, MessageFacts
  <2>2. offer = l[j]
    <3>1. PICK M : M = [ledger EXCEPT ![c] = received]
      OBVIOUS
    <3>2. M \in Journals /\ M[c] = received
      BY <1>1, <1>4, <3>1 DEF Journals
    <3>3. OneSender(M)
      <4>1. \A k \in DOMAIN received \ DOMAIN l : received[k].type # "InvitationSent"
        BY <1>3, <1>4
      <4> QED BY <1>1, <1>4, <3>1, <4>1, NoNewOffer
    <3>4. j \in DOMAIN M[c] /\ M[c][j] = l[j]
      BY <1>4, <3>2 DEF Extends
    <3>5. FindOutgoing(M[c], e.inv) = l[j]
      BY <2>1, <3>2, <3>3, <3>4, OneOffer
    <3> QED BY <3>2, <3>5
  <2>3. l[j] \in Events /\ e.signer \in Capsules
    BY <1>1, <1>3, JournalRow, EventFields
  <2>4. l[j].starter \in StarterIds /\ l[j].kind \in ToSet(Kinds) /\ e.inv \in Invitations
    BY <2>1, <2>3, EventFields DEF IsSent, OfferTypes
  <2>5. Has(ledger[e.signer], e)
    BY <1>5, MessageFacts DEF IsAnswer, TerminalTypes
  <2>6. \E t \in DOMAIN received : IsTerminalOf(received[t], e.inv)
    <3>1. CASE ShouldSkip(l, e)
      <4>1. FindOutgoing(l, e.inv) # None
        BY <1>1, <2>1, OutgoingIs
      <4>2. IsResolved(l, e.inv)
        BY <1>5, <3>1, <4>1 DEF ShouldSkip, IsAnswer
      <4> QED BY <1>4, <4>2 DEF IsResolved, Extends
    <3>2. CASE ~ShouldSkip(l, e)
      BY <1>4, <1>5, <3>2 DEF Has, IsTerminalOf, TerminalTypes, IsAnswer
    <3> QED BY <3>1, <3>2
  <2> QED BY <2>1, <2>2, <2>3, <2>4, <2>5, <2>6
<1>. HIDE DEF offer
<1>6. e.type = "InvitationAccepted" =>
        re \in Events /\ re.type = "RelationshipEstablished" /\ re.signer = c /\ re.inv = e.inv
  <2>1. e.type = "InvitationAccepted" => e.starter \in StarterIds
    BY <1>3, EventFields
  <2> QED BY <1>5, <2>1 DEF RelationshipEstablished, Events, IsAnswer
<1>7. e.type = "InvitationRejected" =>
        burn \in Events /\ burn.type = "StarterBurned" /\ burn.signer = c
        /\ burn.starter = offer.starter
  BY <1>5 DEF StarterBurned, Events, IsAnswer
<1>. HIDE DEF re, burn
<1>8. /\ a \in Seq(Events) /\ Extends(a, received)
      /\ \A k \in DOMAIN a \ DOMAIN received :
           \/ e.type = "InvitationAccepted" /\ a[k] = re
           \/ /\ e.type = "InvitationRejected" /\ e.reason = "EmptySlot"
              /\ a[k] = burn
  <2>1. CASE e.type = "InvitationAccepted"
    <3>1. \A k \in DOMAIN l : l[k].type = "RelationshipEstablished" => l[k].signer = c
      BY <1>1 DEF AllTraced, RowTraced, OwnRow
    <3>2. \A k \in DOMAIN received : received[k].type = re.type => received[k].signer = re.signer
      BY <1>4, <1>6, <2>1, <3>1 DEF Extends
    <3>3. a = AppendIfMissing(received, re)
      BY <2>1 DEF Effects, IsAnswer, re, offer
    <3>. HIDE DEF a
    <3> QED BY <1>4, <1>6, <2>1, <3>2, <3>3, AppendIfMissingIs
  <2>2. CASE e.type = "InvitationRejected"
    <3>1. a = received \/ (e.reason = "EmptySlot" /\ a = Append(received, burn))
      BY <2>2 DEF Effects, IsAnswer, burn, offer
    <3>. HIDE DEF a
    <3>2. CASE a = received
      BY <1>4, <3>2 DEF Extends
    <3>3. CASE e.reason = "EmptySlot" /\ a = Append(received, burn)
      BY <1>4, <1>7, <2>2, <3>3, AppendExtends
    <3> QED BY <3>1, <3>2, <3>3
  <2>3. CASE ~IsAnswer(e)
    BY <1>4, <2>3 DEF Extends
  <2> QED BY <2>1, <2>2, <2>3 DEF IsAnswer
<1>. HIDE DEF a
<1>9. /\ Extends(a, l)
      /\ \A k \in DOMAIN a \ DOMAIN l :
           \/ k = n /\ a[k] = e /\ ~ShouldSkip(l, e)
           \/ e.type = "InvitationAccepted" /\ a[k] = re
           \/ /\ e.type = "InvitationRejected" /\ e.reason = "EmptySlot"
              /\ a[k] = burn
  BY <1>4, <1>8 DEF Extends
<1>10. ledger' \in Journals /\ ledger'[c] = a /\ AllExtend(ledger', ledger)
  <2>1. ledger' \in Journals /\ ledger'[c] = a /\ \A d \in Capsules \ {c} : ledger'[d] = ledger[d]
    BY <1>1, <1>2, <1>8 DEF Journals
  <2> QED BY <1>9, <2>1 DEF AllExtend, Extends
<1>11. \A d \in Capsules : \A x : Has(ledger[d], x) => Has(ledger'[d], x)
  BY <1>10, HasKept DEF AllExtend
<1>12. ASSUME NEW k \in DOMAIN a \ DOMAIN l PROVE RowTraced(ledger', c, k)
  <2>1. CASE k = n /\ a[k] = e /\ ~ShouldSkip(l, e)
    BY <1>2, <1>4, <1>10, <2>1, ReceivedTraced
  <2>2. CASE e.type = "InvitationAccepted" /\ a[k] = re
    <3>1. IsAnswer(e)
      BY <2>2 DEF IsAnswer
    <3>2. PICK j \in DOMAIN l : offer = l[j] /\ IsSent(l[j], e.inv) /\ l[j].to = e.signer
      BY <1>5, <3>1
    <3>3. j \in DOMAIN a /\ a[j] = offer
      BY <1>9, <3>2 DEF Extends
    <3>4. \E t \in DOMAIN a : IsTerminalOf(a[t], e.inv)
      BY <1>5, <1>8, <3>1 DEF Extends
    <3>5. e = InvitationAccepted(e.signer, e.inv, e.starter)
      BY <1>3, <2>2, EventMade
    <3>6. Has(ledger'[e.signer], e)
      BY <1>5, <1>11, <3>1
    <3>7. /\ re.peer = e.signer /\ re.starter = offer.starter /\ re.peerStarter = e.starter
          /\ re.kind = offer.kind /\ re.inv = e.inv
      BY DEF re, RelationshipEstablished
    <3>8. BoundByAcceptance(ledger', c, re)
      BY <1>10, <3>2, <3>3, <3>4, <3>5, <3>6, <3>7 DEF BoundByAcceptance
    <3>9. RelationshipTraced(ledger', c, k)
      BY <1>10, <2>2, <3>8 DEF RelationshipTraced
    <3> QED BY <1>6, <1>10, <2>2, <3>9 DEF RowTraced, OwnRow, OfferTraced, AnswerTraced,
            ExpiryTraced, ResolvesFirst, AcceptanceBinds, BurnTraced, IsAnswer, IsOwnExpiry
  <2>3. CASE e.type = "InvitationRejected" /\ e.reason = "EmptySlot" /\ a[k] = burn
    <3>1. IsAnswer(e)
      BY <2>3 DEF IsAnswer
    <3>2. PICK j \in DOMAIN l : offer = l[j] /\ IsSent(l[j], e.inv) /\ l[j].to = e.signer
      BY <1>5, <3>1
    <3>3. j \in DOMAIN a /\ a[j] = offer
      BY <1>9, <3>2 DEF Extends
    <3>4. e = InvitationRejected(e.signer, e.inv, "EmptySlot")
      BY <1>3, <2>3, EventMade
    <3>5. Has(ledger'[e.signer], e)
      BY <1>5, <1>11, <3>1
    <3>6. BurnTraced(ledger', c, k)
      BY <1>7, <1>10, <2>3, <3>2, <3>3, <3>4, <3>5 DEF BurnTraced, IsSent
    <3> QED BY <1>7, <1>10, <2>3, <3>6 DEF RowTraced, OwnRow, OfferTraced, AnswerTraced,
            ExpiryTraced, ResolvesFirst, AcceptanceBinds, RelationshipTraced, IsAnswer, IsOwnExpiry
  <2> QED BY <1>9, <2>1, <2>2, <2>3
<1>13. \A k \in DOMAIN a \ DOMAIN l : a[k].type \notin {"StarterCreated", "InvitationSent"}
  BY <1>3, <1>6, <1>7, <1>9
<1>14. SlotsSuffice(a, c)
  <2>1. \A k \in DOMAIN a \ DOMAIN l : a[k].type # "StarterCreated"
    BY <1>13
  <2> QED BY <1>1, <1>8, <1>9, <2>1, WithoutStarterSuffice
<1>15. AllTraced(ledger') /\ \A d \in Capsules : SlotsSuffice(ledger'[d], d)
  BY <1>1, <1>2, <1>8, <1>9, <1>12, <1>14, OneJournalGrows DEF IInv
<1>16. OneSender(ledger')
  <2>1. \A k \in DOMAIN a \ DOMAIN l : a[k].type # "InvitationSent"
    BY <1>13
  <2> QED BY <1>1, <1>2, <1>9, <2>1, NoNewOffer
<1>17. TypeOK'
  <2>1. seen' \in [Capsules -> SUBSET net']
    BY <1>1, <1>2 DEF TypeOK
  <2> QED BY <1>1, <1>2, <1>10, <2>1 DEF TypeOK, Journals
<1>18. /\ \A d \in Capsules : \A k \in DOMAIN queue'[d] : JobTraced(ledger, d, queue'[d][k])
       /\ \A x \in net' : MessageTraced(ledger, x)
  BY <1>2 DEF IInv
<1> QED BY <1>10, <1>15, <1>16, <1>17, <1>18, StepKeeps

-----------------------------------------------------------------------------
(* What the two sides of an invitation know of each other *)

\* As much of IInv as two sides' journals need to agree.
Sound(L) == L \in Journals /\ AllTraced(L) /\ OneSender(L)

\* The sender's side: the offer is the only one of that id, every terminal of it
\* counts, and whoever received it received this very offer.
LEMMA SoundSenderSide ==
  ASSUME NEW L, Sound(L), NEW c \in Capsules, NEW k \in DOMAIN L[c],
         NEW i, IsSent(L[c][k], i)
  PROVE  /\ FindOutgoing(L[c], i) = L[c][k]
         /\ OffersOf(L[c], i) # {} /\ FirstOffer(L[c], i) = L[c][k]
         /\ \A j \in DOMAIN L[c] : ~IsReceived(L[c][j], i)
         /\ \A t \in DOMAIN L[c] :
              IsTerminalOf(L[c][t], i) => t > k /\ t \in ValidTerminals(L[c], c, i)
         /\ \A d \in Capsules : \A j \in DOMAIN L[d] :
              /\ IsSent(L[d][j], i) => d = c /\ j = k
              /\ IsReceived(L[d][j], i) =>
                   /\ d # c /\ L[d][j].signer = c /\ L[d][j].to = d
                   /\ AsSent(L[d][j]) = L[c][k]
<1>. DEFINE l == L[c]
<1>1. /\ L \in Journals /\ l \in Seq(Events) /\ AllTraced(L) /\ OneSender(L)
      /\ DOMAIN l \subseteq Nat
  BY LenProperties DEF Sound, Journals
<1>2. ASSUME NEW d \in Capsules, NEW j \in DOMAIN L[d], IsSent(L[d][j], i)
      PROVE  d = c /\ j = k
  BY <1>1, <1>2 DEF OneSender, IsSent
<1>3. ASSUME NEW d \in Capsules, NEW j \in DOMAIN L[d], IsReceived(L[d][j], i)
      PROVE  /\ d # c /\ L[d][j].signer = c /\ L[d][j].to = d
             /\ AsSent(L[d][j]) = L[c][k]
  <2>. DEFINE r == L[d][j]
  <2>1. r.signer \in Capsules /\ r.signer # d /\ r.to = d /\ Has(L[r.signer], AsSent(r))
    BY <1>1, <1>3, JournalRow DEF AllTraced, RowTraced, OfferTraced, IsReceived
  <2>2. PICK x \in DOMAIN L[r.signer] : L[r.signer][x] = AsSent(r)
    BY <2>1 DEF Has
  <2>3. IsSent(AsSent(r), i)
    BY <1>3 DEF AsSent, Offer, IsSent, IsReceived
  <2>4. r.signer = c /\ x = k
    BY <1>2, <2>1, <2>2, <2>3
  <2> QED BY <2>1, <2>2, <2>4
<1>4. \A j \in DOMAIN l : IsSent(l[j], i) \/ IsReceived(l[j], i) => j = k
  BY <1>2, <1>3
<1>5. OffersOf(l, i) # {} /\ Min(OffersOf(l, i)) = k
  BY <1>1, <1>4, FirstOfferIs
<1>6. FirstOffer(l, i) = l[k]
  BY <1>1, <1>5, FirstOfferIs
<1>7. FindOutgoing(l, i) = l[k]
  BY <1>1, OneOffer
<1>8. ASSUME NEW t \in DOMAIN l, IsTerminalOf(l[t], i)
      PROVE  t > k /\ t \in ValidTerminals(l, c, i)
  <2>1. RowTraced(L, c, t) /\ l[t].inv = i /\ l[t].type \in TerminalTypes
    BY <1>1, <1>8 DEF AllTraced, IsTerminalOf
  <2>2. t \in Nat /\ \A j \in 1..(t - 1) : j \in DOMAIN l
    <3>1. t \in 1..Len(l) /\ DOMAIN l = 1..Len(l)
      BY <1>1, LenProperties
    <3> QED BY <3>1
  <2>3. \A j \in 1..(t - 1) : /\ IsSent(l[j], i) => j = k
                              /\ ~IsReceived(l[j], i)
    BY <1>3, <1>4, <2>2
  <2>4. t > k
    BY <1>1, <2>1, <2>2, <2>3 DEF RowTraced, AnswerTraced, ExpiryTraced, TerminalTypes, IsAnswer
  <2>5. l[t].type = "InvitationExpired" => l[t].signer = c
    BY <2>1, <2>3 DEF RowTraced, ExpiryTraced
  <2>6. t \in ValidTerminals(l, c, i)
    BY <1>5, <1>8, <2>4, <2>5 DEF ValidTerminals, IsSent
  <2> QED BY <2>4, <2>6
<1> QED BY <1>2, <1>3, <1>5, <1>6, <1>7, <1>8

LEMMA RecipientOf ==
  ASSUME NEW L, Sound(L), NEW c \in Capsules, NEW k \in DOMAIN L[c],
         NEW i, IsSent(L[c][k], i)
  PROVE  \A d \in Capsules : \A j \in DOMAIN L[d] : IsReceived(L[d][j], i) =>
           d # c /\ L[d][j].signer = c /\ L[d][j].to = d /\ AsSent(L[d][j]) = L[c][k]
<1>1. ASSUME NEW d \in Capsules, NEW j \in DOMAIN L[d], IsReceived(L[d][j], i)
      PROVE  d # c /\ L[d][j].signer = c /\ L[d][j].to = d /\ AsSent(L[d][j]) = L[c][k]
  <2>1. d # c /\ L[d][j].to = d /\ AsSent(L[d][j]) = L[c][k]
    BY <1>1, SoundSenderSide
  <2>2. L[c][k].signer = c
    BY DEF Sound, AllTraced, RowTraced, OwnRow, IsSent
  <2>3. AsSent(L[d][j]).signer = L[d][j].signer
    BY DEF AsSent, Offer
  <2> QED BY <2>1, <2>2, <2>3
<1> QED BY <1>1

LEMMA SenderSide ==
  ASSUME IInv, NEW c \in Capsules, NEW k \in DOMAIN ledger[c],
         NEW i, IsSent(ledger[c][k], i)
  PROVE  /\ FindOutgoing(ledger[c], i) = ledger[c][k]
         /\ OffersOf(ledger[c], i) # {} /\ FirstOffer(ledger[c], i) = ledger[c][k]
         /\ \A j \in DOMAIN ledger[c] : ~IsReceived(ledger[c][j], i)
         /\ \A t \in DOMAIN ledger[c] :
              IsTerminalOf(ledger[c][t], i) => t > k /\ t \in ValidTerminals(ledger[c], c, i)
         /\ \A d \in Capsules : \A j \in DOMAIN ledger[d] :
              /\ IsSent(ledger[d][j], i) => d = c /\ j = k
              /\ IsReceived(ledger[d][j], i) =>
                   /\ d # c /\ ledger[d][j].signer = c /\ ledger[d][j].to = d
                   /\ AsSent(ledger[d][j]) = ledger[c][k]
<1>1. PICK L : L = ledger
  OBVIOUS
<1>2. Sound(L) /\ k \in DOMAIN L[c] /\ IsSent(L[c][k], i)
  BY <1>1 DEF IInv, Sound, TypeOK, Journals
<1>3. /\ FindOutgoing(L[c], i) = L[c][k]
      /\ OffersOf(L[c], i) # {} /\ FirstOffer(L[c], i) = L[c][k]
      /\ \A j \in DOMAIN L[c] : ~IsReceived(L[c][j], i)
  BY <1>2, SoundSenderSide
<1>4. \A t \in DOMAIN L[c] :
        IsTerminalOf(L[c][t], i) => t > k /\ t \in ValidTerminals(L[c], c, i)
  BY <1>2, SoundSenderSide
<1>5. \A d \in Capsules : \A j \in DOMAIN L[d] : IsSent(L[d][j], i) => d = c /\ j = k
  BY <1>2, SoundSenderSide
<1>6. ASSUME NEW d \in Capsules, NEW j \in DOMAIN L[d], IsReceived(L[d][j], i)
      PROVE  d # c /\ L[d][j].signer = c /\ L[d][j].to = d /\ AsSent(L[d][j]) = L[c][k]
  BY <1>2, <1>6, RecipientOf
<1> QED BY <1>1, <1>3, <1>4, <1>5, <1>6

LEMMA ReceivedAsSent ==
  ASSUME IInv, NEW c \in Capsules, NEW k \in DOMAIN ledger[c],
         NEW i, IsSent(ledger[c][k], i),
         NEW d \in Capsules, NEW j \in DOMAIN ledger[d], IsReceived(ledger[d][j], i)
  PROVE  ledger[d][j].signer = c /\ AsSent(ledger[d][j]) = ledger[c][k]
<1>1. \A b \in Capsules : \A x \in DOMAIN ledger[b] : IsReceived(ledger[b][x], i) =>
        ledger[b][x].signer = c /\ AsSent(ledger[b][x]) = ledger[c][k]
  BY SenderSide
<1> QED BY <1>1

\* Which terminal decides.
LEMMA StatusIs ==
  ASSUME NEW l \in Seq(Events), NEW c, NEW i, OffersOf(l, i) # {},
         NEW valid, valid = ValidTerminals(l, c, i)
  PROVE  /\ valid = {} => Status(l, c, i) = "Pending"
         /\ valid # {} =>
              /\ Min(valid) \in valid /\ \A m \in valid : Min(valid) <= m
              /\ l[Min(valid)].type \in TerminalTypes /\ Status(l, c, i) \in TerminalTypes
              /\ \/ Status(l, c, i) = l[Min(valid)].type
                 \/ /\ Status(l, c, i) = "InvitationExpired"
                    /\ FirstOffer(l, i).type = "InvitationReceived"
                    /\ \E k \in valid : l[k].type = "InvitationExpired"
<1>1. CASE valid = {}
  BY <1>1 DEF Status
<1>2. CASE valid # {}
  <2>1. valid \in SUBSET Nat /\ \A k \in valid : k \in DOMAIN l /\ l[k].type \in TerminalTypes
    BY LenProperties DEF ValidTerminals, IsTerminalOf
  <2>2. Min(valid) \in valid /\ \A m \in valid : Min(valid) <= m
    BY <1>2, <2>1, MinIsLeast
  <2>3. \/ Status(l, c, i) = l[Min(valid)].type
        \/ /\ Status(l, c, i) = "InvitationExpired"
           /\ FirstOffer(l, i).type = "InvitationReceived"
           /\ \E k \in valid : l[k].type = "InvitationExpired"
    BY <1>2 DEF Status
  <2> QED BY <1>2, <2>1, <2>2, <2>3 DEF TerminalTypes
<1> QED BY <1>1, <1>2

\* A sender that holds an acceptance holds nothing before it, and its recipient
\* has it in force.
LEMMA SoundAcceptance ==
  ASSUME NEW L, Sound(L), NEW c \in Capsules, NEW k \in DOMAIN L[c],
         NEW i, IsSent(L[c][k], i), NEW d, d = L[c][k].to,
         NEW t \in DOMAIN L[c], IsTerminalOf(L[c][t], i),
         L[c][t].type = "InvitationAccepted"
  PROVE  Status(L[d], d, i) = "InvitationAccepted"
<1>. DEFINE l == L[c]
            p == L[d]
<1>1. L \in Journals /\ AllTraced(L) /\ d \in Capsules /\ l \in Seq(Events)
      /\ RowTraced(L, c, t)
  <2>1. L \in Journals /\ AllTraced(L)
    BY DEF Sound
  <2>2. d \in Capsules
    BY <2>1, JournalRow, EventFields DEF IsSent, OfferTypes
  <2> QED BY <2>1, <2>2, JournalRow DEF AllTraced
<1>2. l[t].inv = i /\ IsAnswer(l[t]) /\ t \in Nat /\ \A j \in 1..(t - 1) : j \in DOMAIN l
  <2>1. t \in 1..Len(l) /\ DOMAIN l = 1..Len(l)
    BY <1>1, LenProperties
  <2> QED BY <2>1 DEF IsTerminalOf, IsAnswer
<1>3. l[t].signer = d /\ Has(p, l[t])
  <2>1. \A j \in 1..(t - 1) : /\ ~IsReceived(l[j], i)
                              /\ IsSent(l[j], i) => l[j] = l[k]
    BY <1>2, SoundSenderSide
  <2> QED BY <1>1, <1>2, <2>1 DEF RowTraced, AnswerTraced
<1>4. PICK u \in DOMAIN p : p[u] = l[t]
  BY <1>3 DEF Has
<1>5. p \in Seq(Events) /\ u \in 1..Len(p) /\ DOMAIN p = 1..Len(p) /\ Len(p) \in Nat
      /\ RowTraced(L, d, u)
  BY <1>1, JournalRow, LenProperties DEF AllTraced
<1>6. PICK o \in 1..(u - 1) : IsReceived(p[o], i)
  BY <1>2, <1>3, <1>4, <1>5 DEF RowTraced, AnswerTraced
<1>7. \A j \in 1..(u - 1) : ~IsTerminalOf(p[j], i)
  BY <1>2, <1>4, <1>5 DEF RowTraced, ResolvesFirst
<1>8. o \in DOMAIN p /\ o < u
  BY <1>5, <1>6
<1>9. OffersOf(p, i) # {} /\ Min(OffersOf(p, i)) \in DOMAIN p /\ Min(OffersOf(p, i)) <= o
  BY <1>5, <1>6, <1>8, FirstOfferIs
<1>10. u \in ValidTerminals(p, d, i)
  <2>1. Min(OffersOf(p, i)) < u
    BY <1>5, <1>8, <1>9
  <2> QED BY <1>4, <1>9, <2>1 DEF ValidTerminals, IsTerminalOf
<1>11. PICK valid : valid = ValidTerminals(p, d, i)
  OBVIOUS
<1>12. \A x \in valid : x \in DOMAIN p /\ IsTerminalOf(p[x], i)
  BY <1>11 DEF ValidTerminals
<1>13. /\ Min(valid) \in valid /\ \A m \in valid : Min(valid) <= m
       /\ \/ Status(p, d, i) = p[Min(valid)].type
          \/ \E x \in valid : p[x].type = "InvitationExpired"
  <2>1. p \in Seq(Events) /\ OffersOf(p, i) # {} /\ valid # {}
    BY <1>5, <1>9, <1>10, <1>11
  <2>. HIDE DEF p
  <2> QED BY <1>11, <2>1, StatusIs
<1>14. Min(valid) = u
  <2>1. PICK q : q = Min(valid)
    OBVIOUS
  <2>2. q \in 1..Len(p) /\ IsTerminalOf(p[q], i) /\ q <= u
    BY <1>5, <1>10, <1>11, <1>12, <1>13, <2>1
  <2>3. ~(q \in 1..(u - 1))
    BY <1>7, <2>2
  <2>4. q = u
    BY <1>5, <2>2, <2>3
  <2> QED BY <2>1, <2>4
<1>15. ASSUME NEW x \in DOMAIN p, IsTerminalOf(p[x], i), p[x].type = "InvitationExpired"
       PROVE  FALSE
  <2>1. RowTraced(L, d, x) /\ p[x].inv = i /\ \A j \in 1..(x - 1) : j \in DOMAIN p
    BY <1>1, <1>5, <1>15 DEF AllTraced, IsTerminalOf
  <2>2. d # c /\ \A j \in DOMAIN p : /\ ~IsSent(p[j], i)
                                     /\ IsReceived(p[j], i) => p[j].signer = c
    <3>1. \A b \in Capsules : \A j \in DOMAIN L[b] :
            /\ IsSent(L[b][j], i) => b = c
            /\ IsReceived(L[b][j], i) => b # c /\ L[b][j].signer = c
      BY SoundSenderSide
    <3>2. d # c
      BY <1>1, <1>6, <1>8, <3>1
    <3> QED BY <1>1, <3>1, <3>2
  <2>3. p[x].signer = c /\ Has(l, p[x])
    BY <1>15, <2>1, <2>2 DEF RowTraced, ExpiryTraced
  <2>4. PICK y \in DOMAIN l : l[y] = p[x]
    BY <2>3 DEF Has
  <2>5. RowTraced(L, c, y) /\ y \in Nat /\ t # y
        /\ t \in 1..Len(l) /\ y \in 1..Len(l) /\ Len(l) \in Nat
    BY <1>1, <1>15, <2>4, LenProperties DEF AllTraced
  <2>6. \A j \in 1..(y - 1) : ~IsTerminalOf(l[j], i)
    BY <1>15, <2>1, <2>3, <2>4, <2>5 DEF RowTraced, ResolvesFirst, IsOwnExpiry
  <2>7. \A j \in 1..(t - 1) : ~IsTerminalOf(l[j], i)
    BY <1>1, <1>2 DEF RowTraced, ResolvesFirst
  <2>8. t \in 1..(y - 1) \/ y \in 1..(t - 1)
    BY <2>5
  <2> QED BY <1>15, <2>4, <2>6, <2>7, <2>8
<1> QED BY <1>4, <1>12, <1>13, <1>14, <1>15

LEMMA AcceptedOnBothSides ==
  ASSUME IInv, NEW c \in Capsules, NEW k \in DOMAIN ledger[c],
         NEW i, IsSent(ledger[c][k], i), NEW d, d = ledger[c][k].to,
         NEW t \in DOMAIN ledger[c], IsTerminalOf(ledger[c][t], i),
         ledger[c][t].type = "InvitationAccepted"
  PROVE  Status(ledger[d], d, i) = "InvitationAccepted"
BY SoundAcceptance DEF IInv, Sound, TypeOK, Journals

-----------------------------------------------------------------------------
(* Theorems *)

LEMMA NextIInv ==
  ASSUME IInv, [Next]_vars
  PROVE  IInv'
<1>1. ASSUME NEW c \in Capsules, NEW i \in Invitations, Send(c, i) PROVE IInv'
  BY <1>1, SendKeeps
<1>2. ASSUME NEW c \in Capsules, Accept(c) \/ Reject(c) \/ Expire(c) PROVE IInv'
  BY <1>2, AcceptKeeps, RejectKeeps, ExpireKeeps
<1>3. ASSUME NEW c \in Capsules, NEW item \in Items, Publish(c, item) PROVE IInv'
  BY <1>3, PublishKeeps
<1>4. ASSUME NEW c \in Capsules, NEW m \in net, Deliver(c, m) PROVE IInv'
  BY <1>4, DeliverKeeps
<1>5. ASSUME NEW c \in Capsules, Reconcile(c) \/ Restart(c) PROVE IInv'
  BY <1>5, ReconcileKeeps, RestartKeeps
<1>6. CASE UNCHANGED vars
  <2>1. ledger' = ledger /\ queue' = queue /\ net' = net /\ TypeOK'
    BY <1>6 DEF vars, IInv, TypeOK
  <2>2. /\ \A d \in Capsules : \A k \in DOMAIN queue'[d] : JobTraced(ledger, d, queue'[d][k])
        /\ \A m \in net' : MessageTraced(ledger, m)
    BY <2>1 DEF IInv
  <2> QED BY <2>1, <2>2, SameJournals
<1> QED BY <1>1, <1>2, <1>3, <1>4, <1>5, <1>6, DecisionsKeep DEF Next

\* Everything above holds in every reachable state.
THEOREM Traced == Spec => []IInv
<1>1. Init => IInv
  BY InitIInv
<1>2. IInv /\ [Next]_vars => IInv'
  BY NextIInv
<1> QED BY <1>1, <1>2, PTL DEF Spec

\* Journals, queues, obligations and messages are always well formed: no handler
\* of invitation_api.rs stores a row without a starter, a kind or a capsule.
THEOREM TypeCorrect == Spec => []TypeOK
<1>1. IInv => TypeOK
  BY DEF IInv
<1> QED BY <1>1, Traced, PTL

LEMMA IInvAgreed == IInv => AcceptanceAgreed
<1>1. SUFFICES ASSUME IInv, NEW c \in Capsules, NEW i \in Outgoing(c),
                      Status(ledger[c], c, i) = "InvitationAccepted"
               PROVE  LET d == FindOutgoing(ledger[c], i).to
                      IN  Status(ledger[d], d, i) = "InvitationAccepted"
  BY DEF AcceptanceAgreed
<1>. DEFINE l == ledger[c]
<1>2. l \in Seq(Events)
  BY <1>1 DEF IInv, TypeOK
<1>3. PICK k \in DOMAIN l : l[k] = FindOutgoing(l, i) /\ IsSent(l[k], i)
  BY <1>1, <1>2, OutgoingIs DEF Outgoing
<1>4. OffersOf(l, i) # {} /\ FirstOffer(l, i) = l[k]
  BY <1>1, <1>3, SenderSide
<1>5. PICK valid : valid = ValidTerminals(l, c, i)
  OBVIOUS
<1>6. valid # {} /\ Min(valid) \in valid /\ l[Min(valid)].type = "InvitationAccepted"
  BY <1>1, <1>2, <1>4, <1>5, StatusIs
<1>7. PICK t \in DOMAIN l : IsTerminalOf(l[t], i) /\ l[t].type = "InvitationAccepted"
  BY <1>5, <1>6 DEF ValidTerminals
<1> QED BY <1>1, <1>3, <1>7, AcceptedOnBothSides

\* No late revoke, rejection or replay leaves a sender believing an invitation
\* accepted that its recipient does not hold accepted (route_inbound_envelope,
\* hivra_expire_invitation).
THEOREM AgreesOnAcceptance == Spec => []AcceptanceAgreed
BY IInvAgreed, Traced, PTL

LEMMA IInvMirrored == IInv => RelationshipMirrored
<1>1. SUFFICES ASSUME IInv, NEW c \in Capsules, NEW r \in EstablishedRows(ledger[c], c),
                      r.inv \in Outgoing(c)
               PROVE  RelationshipEstablished(r.peer, c, r.peerStarter, r.starter, r.kind, r.inv)
                        \in EstablishedRows(ledger[r.peer], r.peer)
  BY DEF RelationshipMirrored
<1>. DEFINE l == ledger[c]
            i == r.inv
            d == r.peer
            p == ledger[d]
<1>2. /\ ledger \in Journals /\ l \in Seq(Events) /\ AllTraced(ledger)
  BY <1>1 DEF IInv, TypeOK, Journals
<1>3. PICK k \in DOMAIN l : l[k] = FindOutgoing(l, i) /\ IsSent(l[k], i)
  BY <1>1, <1>2, OutgoingIs DEF Outgoing
<1>4. PICK x \in DOMAIN l : l[x] = r /\ r.type = "RelationshipEstablished"
  BY DEF EstablishedRows
<1>5. Status(l, c, i) \notin {"InvitationRejected", "InvitationExpired"}
  BY DEF EstablishedRows
<1>6. /\ OffersOf(l, i) # {} /\ FirstOffer(l, i) = l[k]
      /\ \A j \in DOMAIN l : ~IsReceived(l[j], i)
      /\ \A j \in DOMAIN l : IsSent(l[j], i) => j = k
      /\ \A t \in DOMAIN l : IsTerminalOf(l[t], i) => t \in ValidTerminals(l, c, i)
  BY <1>1, <1>3, SenderSide
<1>7. BoundByAcceptance(ledger, c, r)
  BY <1>2, <1>4, <1>6 DEF AllTraced, RowTraced, RelationshipTraced
<1>8. /\ l[k].to = d /\ l[k].starter = r.starter /\ l[k].kind = r.kind
      /\ Has(p, InvitationAccepted(d, i, r.peerStarter))
      /\ \E t \in DOMAIN l : IsTerminalOf(l[t], i)
  BY <1>6, <1>7 DEF BoundByAcceptance
<1>9. PICK valid : valid = ValidTerminals(l, c, i)
  OBVIOUS
<1>10. Min(valid) \in valid /\ l[Min(valid)].type = "InvitationAccepted"
  <2>1. valid # {}
    BY <1>6, <1>8, <1>9
  <2> QED BY <1>2, <1>5, <1>6, <1>9, <2>1, StatusIs DEF TerminalTypes
<1>11. PICK t \in DOMAIN l : IsTerminalOf(l[t], i) /\ l[t].type = "InvitationAccepted"
  BY <1>9, <1>10 DEF ValidTerminals
<1>12. Status(p, d, i) = "InvitationAccepted"
  BY <1>1, <1>3, <1>8, <1>11, AcceptedOnBothSides
<1>13. d \in Capsules
  BY <1>2, <1>4, JournalRow, EventFields
<1>14. PICK u \in DOMAIN p : p[u] = InvitationAccepted(d, i, r.peerStarter)
  BY <1>8 DEF Has
<1>15. PICK j \in DOMAIN p :
         /\ IsReceived(p[j], i)
         /\ Has(p, RelationshipEstablished(d, p[j].signer, r.peerStarter, p[j].starter,
                                           p[j].kind, i))
  <2>1. p[u].type = "InvitationAccepted" /\ p[u].signer = d /\ p[u].inv = i
        /\ p[u].starter = r.peerStarter
    BY <1>14 DEF InvitationAccepted
  <2>2. AcceptanceBinds(ledger, d, u)
    BY <1>2, <1>13 DEF AllTraced, RowTraced
  <2> QED BY <2>1, <2>2 DEF AcceptanceBinds
<1>16. p[j].signer = c /\ AsSent(p[j]) = l[k]
  <2>1. PICK b \in Capsules : b = d
    BY <1>13
  <2>2. IsReceived(ledger[b][j], i) /\ j \in DOMAIN ledger[b]
    BY <1>15, <2>1
  <2>3. IInv /\ IsSent(ledger[c][k], i)
    BY <1>1, <1>3
  <2>4. ledger[b][j].signer = c /\ AsSent(ledger[b][j]) = ledger[c][k]
    <3> HIDE DEF i, d
    <3> QED BY <1>1, <1>3, <2>1, <2>2, <2>3, ReceivedAsSent
  <2> QED BY <2>1, <2>4
<1>17. p[j].starter = r.starter /\ p[j].kind = r.kind
  BY <1>8, <1>16 DEF AsSent, Offer
<1>. DEFINE mirror == RelationshipEstablished(d, c, r.peerStarter, r.starter, r.kind, i)
<1>18. Has(p, mirror)
  BY <1>15, <1>16, <1>17
<1>19. mirror.type = "RelationshipEstablished" /\ mirror.inv = i
  BY DEF RelationshipEstablished
<1>. HIDE DEF mirror
<1>20. mirror \in EstablishedRows(p, d)
  BY <1>12, <1>18, <1>19 DEF EstablishedRows, Has
<1> QED BY <1>20 DEF mirror

\* A relationship the inviting side counts is counted on the other side, with the
\* starters swapped and the kind the same (project_relationship_from_invitation_accepted,
\* finalize_local_acceptance).
THEOREM MirrorsRelationships == Spec => []RelationshipMirrored
BY IInvMirrored, Traced, PTL

LEMMA IInvLocks == IInv => LocksMatchPending
<1>1. SUFFICES ASSUME IInv, NEW c \in Capsules
               PROVE  /\ LockedStarters(ledger[c], c) \subseteq PendingStarters(c)
                      /\ Cardinality(PendingStarters(c)) <= NumSlots
                           => LockedStarters(ledger[c], c) = PendingStarters(c)
  BY DEF LocksMatchPending
<1>. DEFINE l == ledger[c]
            pending == {k \in DOMAIN l :
                          /\ l[k].type = "InvitationSent" /\ l[k].signer = c
                          /\ \A j \in (k + 1)..Len(l) : ~IsTerminalOf(l[j], l[k].inv)}
            starters == {l[k].starter : k \in pending}
            before(k) == {l[j].starter : j \in {j \in pending : j < k}} \ {l[k].starter}
<1>2. /\ ledger \in Journals /\ l \in Seq(Events) /\ AllTraced(ledger)
      /\ DOMAIN l = 1..Len(l) /\ Len(l) \in Nat
  BY <1>1, LenProperties DEF IInv, TypeOK, Journals
<1>3. LockedStarters(l, c) = {l[k].starter : k \in {k \in pending : Cardinality(before(k)) < NumSlots}}
  BY DEF LockedStarters
<1>4. ASSUME NEW k \in DOMAIN l, l[k].type = "InvitationSent"
      PROVE  /\ l[k].inv \in Outgoing(c) /\ FindOutgoing(l, l[k].inv) = l[k]
             /\ k \in pending <=> Status(l, c, l[k].inv) = "Pending"
  <2>. DEFINE i == l[k].inv
  <2>1. IsSent(l[k], i) /\ i \in Invitations /\ l[k] # None /\ l[k].signer = c
    <3>1. l[k] \in Events
      BY <1>2, JournalRow
    <3>2. l[k].signer = c
      BY <1>2, <1>4 DEF AllTraced, RowTraced, OwnRow
    <3> QED BY <1>4, <3>1, <3>2, EventFields, NoneIsNoEvent DEF IsSent, OfferTypes
  <2>2. /\ FindOutgoing(l, i) = l[k] /\ OffersOf(l, i) # {}
        /\ \A t \in DOMAIN l : IsTerminalOf(l[t], i) => t > k /\ t \in ValidTerminals(l, c, i)
    <3> HIDE DEF i, pending
    <3> QED BY <1>1, <2>1, SenderSide
  <2>3. PICK valid : valid = ValidTerminals(l, c, i)
    OBVIOUS
  <2>4. valid = {} <=> \A t \in DOMAIN l : ~IsTerminalOf(l[t], i)
    BY <2>2, <2>3 DEF ValidTerminals
  <2>5. k \in pending <=> \A t \in DOMAIN l : ~IsTerminalOf(l[t], i)
    <3>1. ASSUME NEW t \in DOMAIN l, IsTerminalOf(l[t], i) PROVE t \in (k + 1)..Len(l)
      BY <1>2, <2>2, <3>1
    <3>2. (k + 1)..Len(l) \subseteq DOMAIN l
      BY <1>2
    <3> QED BY <1>4, <2>1, <3>1, <3>2
  <2>6. valid = {} <=> Status(l, c, i) = "Pending"
    BY <1>2, <2>2, <2>3, StatusIs DEF TerminalTypes
  <2> QED BY <2>1, <2>2, <2>4, <2>5, <2>6 DEF Outgoing
<1>5. PendingStarters(c) = starters
  <2>1. ASSUME NEW i \in Outgoing(c), Status(l, c, i) = "Pending"
        PROVE  FindOutgoing(l, i).starter \in starters
    <3>1. PICK k \in DOMAIN l : l[k] = FindOutgoing(l, i) /\ IsSent(l[k], i)
      BY <1>2, OutgoingIs DEF Outgoing
    <3>2. k \in pending
      BY <1>4, <2>1, <3>1 DEF IsSent
    <3> QED BY <3>1, <3>2
  <2>2. ASSUME NEW k \in pending
        PROVE  \E i \in Outgoing(c) : /\ Status(l, c, i) = "Pending"
                                      /\ FindOutgoing(l, i).starter = l[k].starter
    BY <1>4
  <2>. HIDE DEF pending
  <2> QED BY <2>1, <2>2 DEF PendingStarters
<1>6. LockedStarters(l, c) \subseteq starters
  <2> HIDE DEF pending
  <2> QED BY <1>3
<1>7. ASSUME Cardinality(starters) <= NumSlots PROVE starters \subseteq LockedStarters(l, c)
  <2>1. pending \subseteq 1..Len(l) /\ IsFiniteSet(1..Len(l))
    BY <1>2, FS_Interval
  <2>2. IsFiniteSet(starters)
    <3>. DEFINE at == [k \in pending |-> l[k].starter]
    <3>1. IsFiniteSet(pending)
      <4> HIDE DEF pending
      <4> QED BY <2>1, FS_Subset
    <3>2. at \in Surjection(pending, starters)
      <4> HIDE DEF pending
      <4> QED BY DEF Surjection
    <3>. HIDE DEF at, pending, starters
    <3> QED BY <3>1, <3>2, FS_Surjection
  <2>3. ASSUME NEW k \in pending PROVE l[k].starter \in LockedStarters(l, c)
    <3>. HIDE DEF pending
    <3>1. before(k) \in SUBSET (starters \ {l[k].starter}) /\ l[k].starter \in starters
      OBVIOUS
    <3>. HIDE DEF starters
    <3>2. /\ IsFiniteSet(starters \ {l[k].starter})
          /\ Cardinality(starters \ {l[k].starter}) = Cardinality(starters) - 1
      BY <2>2, <3>1, FS_RemoveElement
    <3>3. Cardinality(starters) \in Nat
      BY <2>2, FS_CardinalityType
    <3>4. IsFiniteSet(before(k)) /\ Cardinality(before(k)) <= Cardinality(starters) - 1
      BY <3>1, <3>2, FS_Subset
    <3>5. Cardinality(before(k)) \in Nat
      BY <3>4, FS_CardinalityType
    <3>6. Cardinality(before(k)) < NumSlots
      BY <1>7, <3>3, <3>4, <3>5, SlotsAreNaturals
    <3> QED BY <1>3, <3>6
  <2>. HIDE DEF pending
  <2> QED BY <2>3
<1> QED BY <1>5, <1>6, <1>7

\* The locks of slot.rs are the starters invitation.rs reports as pending, as far
\* as the lock array reaches.
THEOREM LocksAgree == Spec => []LocksMatchPending
BY IInvLocks, Traced, PTL

LEMMA IInvAccounted == IInv => StartersAccounted
<1>1. SUFFICES ASSUME IInv, NEW c \in Capsules
               PROVE  ToSet(Layout(ledger[c], c)) \ {None}
                        = Created(c) \ (Burned(c) \cup RevokedStarters(ledger[c]))
  BY DEF StartersAccounted
<1>. DEFINE l == ledger[c]
<1>2. l \in Seq(Events) /\ SlotsSuffice(l, c) /\ AllTraced(ledger) /\ DOMAIN l = 1..Len(l)
  BY <1>1, LenProperties DEF IInv, TypeOK
<1>3. /\ Layout(l, c) \in SlotArrays
      /\ Occupied(Layout(l, c)) = Live(l, c, RevokedStarters(l), Len(l))
  BY <1>2, LayoutIs
<1>4. ToSet(Layout(l, c)) \ {None} = Occupied(Layout(l, c))
  BY <1>3 DEF ToSet, Occupied, SlotArrays
<1>5. \A k \in DOMAIN l : l[k].type \in {"StarterCreated", "StarterBurned"} => l[k].signer = c
  BY <1>2 DEF AllTraced, RowTraced, OwnRow
<1>6. CreatedIn(l, c, Len(l)) = Created(c) /\ BurnedIn(l, c, Len(l)) = Burned(c)
  BY <1>2, <1>5 DEF CreatedIn, BurnedIn, Created, Burned
<1> QED BY <1>3, <1>4, <1>6 DEF Live

\* Every starter created and neither burned nor revoked has a slot, and no other
\* has: SlotLayout::from_ledger never drops one for want of room.
THEOREM AccountsForStarters == Spec => []StartersAccounted
BY IInvAccounted, Traced, PTL

-----------------------------------------------------------------------------
(* What the two sides show of an invitation *)

About(e, i) == IsOfferOf(e, i) \/ IsTerminalOf(e, i)
TerminalsOf(l, i) == {k \in DOMAIN l : IsTerminalOf(l[k], i)}

\* Sound(L) names one sender of what was received.
LEMMA SentBefore ==
  ASSUME NEW L, Sound(L), NEW d \in Capsules, NEW j \in DOMAIN L[d],
         NEW i, IsReceived(L[d][j], i)
  PROVE  /\ L[d][j].signer \in Capsules
         /\ \E k \in DOMAIN L[L[d][j].signer] : IsSent(L[L[d][j].signer][k], i)
<1>. DEFINE r == L[d][j]
<1>1. r.signer \in Capsules /\ Has(L[r.signer], AsSent(r))
  BY JournalRow DEF Sound, AllTraced, RowTraced, OfferTraced, IsReceived
<1>2. IsSent(AsSent(r), i)
  BY DEF AsSent, Offer, IsSent, IsReceived
<1> QED BY <1>1, <1>2 DEF Has

LEMMA SentSide ==
  ASSUME NEW L, Sound(L), NEW c \in Capsules, NEW k \in DOMAIN L[c],
         NEW i, IsSent(L[c][k], i)
  PROVE  SideStatus(L, i, "InvitationSent") = Status(L[c], c, i)
<1>. DEFINE side == {d \in Capsules : \E j \in DOMAIN L[d] :
                       L[d][j].type = "InvitationSent" /\ L[d][j].inv = i}
<1>1. \A d \in Capsules : \A j \in DOMAIN L[d] : IsSent(L[d][j], i) => d = c
  BY SoundSenderSide
<1>2. side = {c}
  BY <1>1 DEF IsSent
<1>3. (CHOOSE d \in side : TRUE) = c
  BY <1>2
<1> QED BY <1>2, <1>3 DEF SideStatus

LEMMA ReceivedSide ==
  ASSUME NEW L, Sound(L), NEW d \in Capsules, NEW j \in DOMAIN L[d],
         NEW i, IsReceived(L[d][j], i)
  PROVE  SideStatus(L, i, "InvitationReceived") = Status(L[d], d, i)
<1>. DEFINE side == {x \in Capsules : \E y \in DOMAIN L[x] :
                       L[x][y].type = "InvitationReceived" /\ L[x][y].inv = i}
<1>. DEFINE c == L[d][j].signer
<1>1. PICK k \in DOMAIN L[c] : IsSent(L[c][k], i)
  BY SentBefore
<1>2. \A x \in Capsules : \A y \in DOMAIN L[x] : IsReceived(L[x][y], i) =>
        L[x][y].to = x /\ AsSent(L[x][y]) = L[c][k]
  <2>1. c \in Capsules
    BY SentBefore
  <2> HIDE DEF c
  <2> QED BY <1>1, <2>1, SoundSenderSide
<1>3. \A x \in Capsules : \A y \in DOMAIN L[x] : IsReceived(L[x][y], i) => x = L[c][k].to
  <2>1. \A r : AsSent(r).to = r.to
    BY DEF AsSent, Offer
  <2> QED BY <1>2, <2>1
<1>4. side = {d}
  BY <1>3 DEF IsReceived
<1>5. (CHOOSE x \in side : TRUE) = d
  BY <1>4
<1> QED BY <1>4, <1>5 DEF SideStatus

LEMMA NoSide ==
  ASSUME NEW L, NEW i, NEW type,
         \A c \in Capsules : \A k \in DOMAIN L[c] : ~(L[c][k].type = type /\ L[c][k].inv = i)
  PROVE  SideStatus(L, i, type) = "Unknown"
<1>1. {c \in Capsules : \E k \in DOMAIN L[c] : L[c][k].type = type /\ L[c][k].inv = i} = {}
  OBVIOUS
<1> QED BY <1>1 DEF SideStatus

\* No new offer of the type, and no new status where there was one.
LEMMA SideUnmoved ==
  ASSUME NEW L, NEW M, AllExtend(M, L), NEW i, NEW type,
         \A c \in Capsules : \A k \in DOMAIN M[c] \ DOMAIN L[c] :
           ~(M[c][k].type = type /\ M[c][k].inv = i),
         \A c \in Capsules :
           (\E k \in DOMAIN L[c] : L[c][k].type = type /\ L[c][k].inv = i)
             => Status(M[c], c, i) = Status(L[c], c, i)
  PROVE  SideStatus(M, i, type) = SideStatus(L, i, type)
<1>. DEFINE side == {c \in Capsules : \E k \in DOMAIN L[c] :
                       L[c][k].type = type /\ L[c][k].inv = i}
            later == {c \in Capsules : \E k \in DOMAIN M[c] :
                        M[c][k].type = type /\ M[c][k].inv = i}
<1>1. later = side
  BY DEF AllExtend, Extends
<1>2. side # {} => (CHOOSE c \in side : TRUE) \in side
  OBVIOUS
<1>3. \A c \in side : Status(M[c], c, i) = Status(L[c], c, i)
  OBVIOUS
<1>4. /\ SideStatus(L, i, type) = IF side = {} THEN "Unknown"
           ELSE Status(L[CHOOSE c \in side : TRUE], CHOOSE c \in side : TRUE, i)
      /\ SideStatus(M, i, type) = IF later = {} THEN "Unknown"
           ELSE Status(M[CHOOSE c \in later : TRUE], CHOOSE c \in later : TRUE, i)
  BY DEF SideStatus
<1>. HIDE DEF side, later
<1> QED BY <1>1, <1>2, <1>3, <1>4

\* A journal says the same of an invitation if nothing new is about it.
LEMMA StatusUnmoved ==
  ASSUME NEW l \in Seq(Events), NEW m \in Seq(Events), Extends(m, l), NEW c, NEW i,
         \A k \in DOMAIN m \ DOMAIN l : ~About(m[k], i)
  PROVE  Status(m, c, i) = Status(l, c, i)
<1>1. OffersOf(m, i) = OffersOf(l, i)
  BY DEF OffersOf, About, Extends
<1>2. CASE OffersOf(l, i) = {}
  BY <1>1, <1>2 DEF Status
<1>3. CASE OffersOf(l, i) # {}
  <2>1. Min(OffersOf(l, i)) \in DOMAIN l /\ m[Min(OffersOf(l, i))] = l[Min(OffersOf(l, i))]
    BY <1>3, FirstOfferIs DEF Extends
  <2>2. ValidTerminals(m, c, i) = ValidTerminals(l, c, i)
    BY <1>1, <2>1 DEF ValidTerminals, About, Extends
  <2>3. PICK valid : valid = ValidTerminals(l, c, i)
    OBVIOUS
  <2>4. \A k \in valid : k \in DOMAIN l /\ m[k] = l[k]
    BY <2>3 DEF ValidTerminals, Extends
  <2>5. valid # {} => Min(valid) \in valid
    BY <1>3, <2>3, StatusIs
  <2>6. FirstOffer(m, i) = FirstOffer(l, i)
    BY <1>1, <1>3, <2>1 DEF FirstOffer, FirstRow
  <2> QED BY <1>1, <1>3, <2>2, <2>3, <2>4, <2>5, <2>6 DEF Status
<1> QED BY <1>2, <1>3

\* What one more terminal changes, if all terminals count.
LEMMA StatusMoves ==
  ASSUME NEW l \in Seq(Events), NEW m \in Seq(Events), Extends(m, l), NEW c, NEW i,
         OffersOf(l, i) # {}, NEW n \in DOMAIN m \ DOMAIN l, IsTerminalOf(m[n], i),
         \A k \in DOMAIN m \ DOMAIN l : About(m[k], i) => k = n,
         ValidTerminals(l, c, i) = TerminalsOf(l, i),
         ValidTerminals(m, c, i) = TerminalsOf(m, i)
  PROVE  /\ Status(l, c, i) = "Pending" => Status(m, c, i) = m[n].type
         /\ Status(l, c, i) # "Pending" => Status(m, c, i) =
              IF /\ Status(l, c, i) = "InvitationAccepted"
                 /\ m[n].type = "InvitationExpired"
                 /\ FirstOffer(l, i).type = "InvitationReceived"
              THEN "InvitationExpired" ELSE Status(l, c, i)
<1>1. OffersOf(m, i) = OffersOf(l, i)
  <2>1. ~IsOfferOf(m[n], i)
    BY DEF IsOfferOf, IsTerminalOf, OfferTypes, TerminalTypes
  <2> QED BY <2>1 DEF OffersOf, About, Extends
<1>2. FirstOffer(m, i) = FirstOffer(l, i)
  <2>1. Min(OffersOf(l, i)) \in DOMAIN l /\ m[Min(OffersOf(l, i))] = l[Min(OffersOf(l, i))]
    BY FirstOfferIs DEF Extends
  <2> QED BY <1>1, <2>1 DEF FirstOffer, FirstRow
<1>3. PICK old, new : old = TerminalsOf(l, i) /\ new = TerminalsOf(m, i)
  OBVIOUS
<1>4. new = old \cup {n}
  BY <1>3 DEF TerminalsOf, About, Extends
<1>5. /\ \A k \in old : k \in DOMAIN l /\ m[k] = l[k] /\ k < n
      /\ old \in SUBSET Nat /\ new \in SUBSET Nat /\ n \in Nat
  <2>1. /\ DOMAIN l = 1..Len(l) /\ Len(l) \in Nat /\ DOMAIN m = 1..Len(m) /\ Len(m) \in Nat
    BY LenProperties
  <2>2. \A k \in old : k \in DOMAIN l /\ m[k] = l[k]
    BY <1>3 DEF TerminalsOf, Extends
  <2>3. n \in Nat /\ \A k \in DOMAIN l : k < n
    BY <2>1
  <2> QED BY <1>4, <2>1, <2>2, <2>3
<1>6. Min(new) \in new /\ (\A k \in new : Min(new) <= k)
      /\ (old # {} => Min(old) \in old /\ \A k \in old : Min(old) <= k)
  BY <1>4, <1>5, MinIsLeast
<1>7. Min(new) = IF old = {} THEN n ELSE Min(old)
  <2>1. CASE old = {}
    BY <1>4, <1>6, <2>1
  <2>2. CASE old # {}
    <3>1. PICK x, y : x = Min(new) /\ y = Min(old)
      OBVIOUS
    <3>2. x \in Nat /\ y \in Nat /\ x <= y /\ y \in old /\ x \in new /\ y < n
      BY <1>4, <1>5, <1>6, <2>2, <3>1
    <3>3. x # n
      BY <1>5, <3>2
    <3>4. y <= x
      BY <1>4, <1>6, <2>2, <3>1, <3>2, <3>3
    <3> QED BY <2>2, <3>1, <3>2, <3>4
  <2> QED BY <2>1, <2>2
<1>8. /\ Status(l, c, i) =
           IF old = {} THEN "Pending"
           ELSE IF /\ l[Min(old)].type = "InvitationAccepted"
                   /\ FirstOffer(l, i).type = "InvitationReceived"
                   /\ \E k \in old : l[k].type = "InvitationExpired"
           THEN "InvitationExpired" ELSE l[Min(old)].type
      /\ Status(m, c, i) =
           IF /\ m[Min(new)].type = "InvitationAccepted"
              /\ FirstOffer(l, i).type = "InvitationReceived"
              /\ \E k \in new : m[k].type = "InvitationExpired"
           THEN "InvitationExpired" ELSE m[Min(new)].type
  <2>1. new # {}
    BY <1>4
  <2> QED BY <1>1, <1>2, <1>3, <2>1 DEF Status
<1>9. CASE old = {}
  BY <1>4, <1>7, <1>8, <1>9
<1>10. CASE old # {}
  <2>1. /\ m[Min(new)] = l[Min(old)] /\ l[Min(old)].type \in TerminalTypes
    BY <1>3, <1>5, <1>6, <1>7, <1>10 DEF TerminalsOf, IsTerminalOf
  <2>2. (\E k \in new : m[k].type = "InvitationExpired") <=>
          \/ \E k \in old : l[k].type = "InvitationExpired"
          \/ m[n].type = "InvitationExpired"
    BY <1>4, <1>5
  <2> QED BY <1>8, <1>10, <2>1, <2>2 DEF TerminalTypes
<1> QED BY <1>9, <1>10
\* Every terminal of an offer that a sound journal holds counts.
LEMMA SentTerminals ==
  ASSUME NEW L, Sound(L), NEW c \in Capsules, NEW k \in DOMAIN L[c],
         NEW i, IsSent(L[c][k], i)
  PROVE  /\ OffersOf(L[c], i) # {} /\ FirstOffer(L[c], i).type = "InvitationSent"
         /\ ValidTerminals(L[c], c, i) = TerminalsOf(L[c], i)
<1>1. /\ OffersOf(L[c], i) # {} /\ FirstOffer(L[c], i) = L[c][k]
      /\ \A t \in DOMAIN L[c] : IsTerminalOf(L[c][t], i) => t \in ValidTerminals(L[c], c, i)
  BY SoundSenderSide
<1>2. ValidTerminals(L[c], c, i) \subseteq TerminalsOf(L[c], i)
  BY DEF ValidTerminals, TerminalsOf
<1>3. TerminalsOf(L[c], i) \subseteq ValidTerminals(L[c], c, i)
  BY <1>1 DEF TerminalsOf
<1> QED BY <1>1, <1>2, <1>3 DEF IsSent

LEMMA ReceivedTerminals ==
  ASSUME NEW L, Sound(L), NEW d \in Capsules, NEW j \in DOMAIN L[d],
         NEW i, IsReceived(L[d][j], i)
  PROVE  /\ OffersOf(L[d], i) # {} /\ FirstOffer(L[d], i).type = "InvitationReceived"
         /\ \A x \in DOMAIN L[d] : ~IsSent(L[d][x], i)
         /\ \A x \in DOMAIN L[d] : IsReceived(L[d][x], i) => L[d][x].signer = L[d][j].signer
         /\ ValidTerminals(L[d], d, i) = TerminalsOf(L[d], i)
<1>. DEFINE c == L[d][j].signer
            at == Min(OffersOf(L[d], i))
<1>1. /\ L \in Journals /\ L[d] \in Seq(Events) /\ DOMAIN L[d] = 1..Len(L[d]) /\ Len(L[d]) \in Nat
  BY JournalRow, LenProperties DEF Sound
<1>2. /\ \A x \in DOMAIN L[d] : ~IsSent(L[d][x], i)
      /\ \A x \in DOMAIN L[d] : IsReceived(L[d][x], i) => L[d][x].signer = c
  <2>1. c \in Capsules /\ \E k \in DOMAIN L[c] : IsSent(L[c][k], i)
    BY SentBefore
  <2>2. PICK k \in DOMAIN L[c] : IsSent(L[c][k], i)
    BY <2>1
  <2>. HIDE DEF c
  <2>3. d # c /\ \A x \in DOMAIN L[d] : IsSent(L[d][x], i) => d = c
    BY <2>1, <2>2, SoundSenderSide
  <2>4. \A x \in DOMAIN L[d] : IsReceived(L[d][x], i) => L[d][x].signer = c
    BY <2>1, <2>2, SoundSenderSide
  <2> QED BY <2>3, <2>4
<1>3. /\ OffersOf(L[d], i) # {} /\ at \in DOMAIN L[d] /\ FirstOffer(L[d], i) = L[d][at]
      /\ IsReceived(L[d][at], i) /\ L[d][at].signer = c
      /\ \A x \in DOMAIN L[d] : IsReceived(L[d][x], i) => at <= x
  <2>1. OffersOf(L[d], i) # {}
    BY DEF OffersOf, IsOfferOf, IsReceived, OfferTypes
  <2>2. /\ at \in DOMAIN L[d] /\ FirstOffer(L[d], i) = L[d][at]
        /\ IsSent(L[d][at], i) \/ IsReceived(L[d][at], i)
        /\ \A x \in DOMAIN L[d] : IsReceived(L[d][x], i) => at <= x
    BY <1>1, <2>1, FirstOfferIs
  <2> QED BY <1>2, <2>1, <2>2
<1>. HIDE DEF at, c
<1>4. ASSUME NEW t \in DOMAIN L[d], IsTerminalOf(L[d][t], i)
      PROVE  at < t /\ (L[d][t].type = "InvitationExpired" => L[d][t].signer = c)
  <2>1. RowTraced(L, d, t)
    BY DEF Sound, AllTraced
  <2>2. 1..(t - 1) \subseteq DOMAIN L[d] /\ t \in Nat /\ at \in Nat
    BY <1>1, <1>3
  <2>3. CASE L[d][t].type = "InvitationExpired"
    <3>1. PICK x \in 1..(t - 1) : IsReceived(L[d][x], i) /\ L[d][x].signer = L[d][t].signer
      BY <1>2, <1>4, <2>1, <2>2, <2>3 DEF RowTraced, ExpiryTraced, IsTerminalOf
    <3> QED BY <1>2, <1>3, <2>2, <3>1
  <2>4. CASE L[d][t].type # "InvitationExpired"
    <3>1. IsAnswer(L[d][t]) /\ L[d][t].inv = i
      BY <1>4, <2>4 DEF IsTerminalOf, TerminalTypes, IsAnswer
    <3>2. PICK x \in 1..(t - 1) : IsReceived(L[d][x], i)
      BY <1>2, <2>1, <2>2, <3>1 DEF RowTraced, AnswerTraced
    <3> QED BY <1>3, <2>2, <2>4, <3>2
  <2> QED BY <2>3, <2>4
<1>5. ValidTerminals(L[d], d, i) = TerminalsOf(L[d], i)
  BY <1>3, <1>4 DEF ValidTerminals, TerminalsOf, at, IsReceived
<1> QED BY <1>2, <1>3, <1>5 DEF c, IsReceived
-----------------------------------------------------------------------------
(* One row about an invitation *)

SentStatus(L, i) == SideStatus(L, i, "InvitationSent")
ReceivedStatus(L, i) == SideStatus(L, i, "InvitationReceived")

\* The journals M are L but for c's, whose only new row about any invitation is
\* row n, about i.
OneNews(L, M, c, n, i) ==
  /\ AllExtend(M, L) /\ \A d \in Capsules \ {c} : M[d] = L[d]
  /\ n \in DOMAIN M[c] \ DOMAIN L[c] /\ About(M[c][n], i)
  /\ \A k \in DOMAIN M[c] \ DOMAIN L[c] : \A j \in Invitations : About(M[c][k], j) => k = n
  /\ IsReceived(M[c][n], i) => \A k \in DOMAIN L[c] : ~IsReceived(L[c][k], i)

NoNews(L, M) ==
  /\ AllExtend(M, L)
  /\ \A c \in Capsules : \A k \in DOMAIN M[c] \ DOMAIN L[c] :
       \A j \in Invitations : ~About(M[c][k], j)

\* How the two sides of i may change.
SidesMove(L, M, i) ==
  \/ /\ ReceivedStatus(M, i) = ReceivedStatus(L, i)
     /\ \/ SentStatus(M, i) = SentStatus(L, i)
        \/ SentStatus(L, i) = "Unknown" /\ SentStatus(M, i) = "Pending"
        \/ /\ SentStatus(L, i) = "Pending"
           /\ \/ SentStatus(M, i) = "InvitationExpired"
              \/ /\ SentStatus(M, i) = "InvitationAccepted"
                 /\ ReceivedStatus(L, i) = "InvitationAccepted"
              \/ /\ SentStatus(M, i) = "InvitationRejected"
                 /\ ReceivedStatus(L, i) \in Protocol!Answers
  \/ /\ SentStatus(M, i) = SentStatus(L, i)
     /\ \/ /\ SentStatus(L, i) # "Unknown"
           /\ ReceivedStatus(L, i) = "Unknown" /\ ReceivedStatus(M, i) = "Pending"
        \/ ReceivedStatus(L, i) = "Pending" /\ ReceivedStatus(M, i) \in Protocol!Answers
        \/ /\ SentStatus(L, i) = "InvitationExpired"
           /\ ReceivedStatus(L, i) \in {"Pending", "InvitationAccepted"}
           /\ ReceivedStatus(M, i) = "InvitationExpired"

LEMMA AboutOne ==
  ASSUME NEW e, NEW i, NEW j, About(e, i), About(e, j) PROVE i = j
BY DEF About, IsOfferOf, IsTerminalOf

\* A row that is an offer or a terminal is about an invitation.
LEMMA AboutInvitation ==
  ASSUME NEW e \in Events, NEW i, About(e, i) PROVE i \in Invitations
<1>1. e.type \in OfferTypes \cup TerminalTypes /\ e.inv = i
  BY DEF About, IsOfferOf, IsTerminalOf
<1> QED BY <1>1, EventFields

LEMMA OtherSideUnmoved ==
  ASSUME NEW L, NEW M, AllExtend(M, L), NEW c \in Capsules,
         \A d \in Capsules \ {c} : M[d] = L[d], NEW i, NEW type,
         \A k \in DOMAIN M[c] : ~(M[c][k].type = type /\ M[c][k].inv = i)
  PROVE  SideStatus(M, i, type) = SideStatus(L, i, type)
<1>1. \A d \in Capsules : \A k \in DOMAIN M[d] \ DOMAIN L[d] :
        ~(M[d][k].type = type /\ M[d][k].inv = i)
  OBVIOUS
<1>2. \A d \in Capsules : (\E k \in DOMAIN L[d] : L[d][k].type = type /\ L[d][k].inv = i)
        => Status(M[d], d, i) = Status(L[d], d, i)
  BY DEF AllExtend, Extends
<1> QED BY <1>1, <1>2, SideUnmoved

LEMMA NothingMoves ==
  ASSUME NEW L \in Journals, NEW M \in Journals, AllExtend(M, L), NEW i, NEW type \in OfferTypes,
         \A c \in Capsules : \A k \in DOMAIN M[c] \ DOMAIN L[c] : ~About(M[c][k], i)
  PROVE  SideStatus(M, i, type) = SideStatus(L, i, type)
<1>1. \A c \in Capsules : \A k \in DOMAIN M[c] \ DOMAIN L[c] :
        ~(M[c][k].type = type /\ M[c][k].inv = i)
  BY DEF About, IsOfferOf
<1>2. \A c \in Capsules : Status(M[c], c, i) = Status(L[c], c, i)
  BY StatusUnmoved DEF AllExtend, Journals
<1> QED BY <1>1, <1>2, SideUnmoved

\* The row says nothing of other invitations.
LEMMA OthersUnmoved ==
  ASSUME NEW L \in Journals, NEW M \in Journals, NEW c \in Capsules, NEW n,
         NEW i \in Invitations, OneNews(L, M, c, n, i), NEW j \in Invitations \ {i}
  PROVE  SentStatus(M, j) = SentStatus(L, j) /\ ReceivedStatus(M, j) = ReceivedStatus(L, j)
<1>1. ASSUME NEW d \in Capsules, NEW k \in DOMAIN M[d] \ DOMAIN L[d], About(M[d][k], j)
      PROVE  FALSE
  <2>1. d = c
    BY <1>1 DEF OneNews
  <2>2. k = n
    BY <1>1, <2>1 DEF OneNews
  <2> QED BY <1>1, <2>1, <2>2, AboutOne DEF OneNews
<1>2. AllExtend(M, L) /\ {"InvitationSent", "InvitationReceived"} = OfferTypes
  BY DEF OneNews, OfferTypes
<1> QED BY <1>1, <1>2, NothingMoves DEF SentStatus, ReceivedStatus

LEMMA NewRowIsLater ==
  ASSUME NEW L \in Journals, NEW M \in Journals, AllExtend(M, L), NEW c \in Capsules,
         NEW n \in DOMAIN M[c] \ DOMAIN L[c]
  PROVE  n \in Nat /\ \A k \in DOMAIN L[c] : k \in Nat /\ k < n
<1>1. /\ DOMAIN L[c] = 1..Len(L[c]) /\ Len(L[c]) \in Nat
      /\ DOMAIN M[c] = 1..Len(M[c]) /\ Len(M[c]) \in Nat
  BY LenProperties DEF Journals
<1> QED BY <1>1

\* An offer just made is pending for its sender.
LEMMA SentMoves ==
  ASSUME NEW L, Sound(L), NEW M, Sound(M), NEW c \in Capsules, NEW n, NEW i \in Invitations,
         OneNews(L, M, c, n, i), IsSent(M[c][n], i)
  PROVE  SidesMove(L, M, i)
<1>1. /\ L \in Journals /\ M \in Journals /\ AllExtend(M, L)
      /\ n \in DOMAIN M[c] /\ n \notin DOMAIN L[c]
      /\ \A d \in Capsules \ {c} : M[d] = L[d]
  BY DEF Sound, OneNews
<1>2. /\ \A k \in DOMAIN M[c] : ~IsReceived(M[c][k], i)
      /\ \A t \in DOMAIN M[c] : IsTerminalOf(M[c][t], i) => t > n
      /\ \A d \in Capsules : \A k \in DOMAIN M[d] : IsSent(M[d][k], i) => d = c /\ k = n
  BY <1>1, SoundSenderSide
<1>3. ReceivedStatus(M, i) = ReceivedStatus(L, i)
  BY <1>1, <1>2, OtherSideUnmoved DEF ReceivedStatus, IsReceived
<1>4. SentStatus(L, i) = "Unknown"
  <2>1. ASSUME NEW d \in Capsules, NEW k \in DOMAIN L[d], IsSent(L[d][k], i) PROVE FALSE
    <3>1. k \in DOMAIN M[d] /\ M[d][k] = L[d][k]
      BY <1>1 DEF AllExtend, Extends
    <3> QED BY <1>1, <1>2, <2>1, <3>1
  <2> QED BY <2>1, NoSide DEF SentStatus, IsSent
<1>5. SentStatus(M, i) = "Pending"
  <2>1. ASSUME NEW t \in DOMAIN M[c], IsTerminalOf(M[c][t], i) PROVE FALSE
    <3>1. t > n
      BY <1>2, <2>1
    <3>2. t \in DOMAIN L[c] \/ t = n
      BY <2>1 DEF OneNews, About
    <3>3. n \in Nat /\ \A k \in DOMAIN L[c] : k \in Nat /\ k < n
      BY <1>1, NewRowIsLater
    <3> QED BY <3>1, <3>2, <3>3
  <2>2. OffersOf(M[c], i) # {} /\ ValidTerminals(M[c], c, i) = TerminalsOf(M[c], i)
    BY <1>1, SentTerminals
  <2>3. TerminalsOf(M[c], i) = {}
    BY <2>1 DEF TerminalsOf
  <2>4. M[c] \in Seq(Events)
    BY <1>1 DEF Journals
  <2>5. Status(M[c], c, i) = "Pending"
    BY <2>2, <2>3, <2>4, StatusIs
  <2> QED BY <1>1, <2>5, SentSide DEF SentStatus
<1> QED BY <1>3, <1>4, <1>5 DEF SidesMove

\* An offer just received is pending for its recipient, and its sender has it.
LEMMA ReceivedMoves ==
  ASSUME NEW L, Sound(L), NEW M, Sound(M), NEW c \in Capsules, NEW n, NEW i \in Invitations,
         OneNews(L, M, c, n, i), IsReceived(M[c][n], i)
  PROVE  SidesMove(L, M, i)
<1>1. /\ L \in Journals /\ M \in Journals /\ AllExtend(M, L)
      /\ n \in DOMAIN M[c] /\ n \notin DOMAIN L[c]
      /\ \A d \in Capsules \ {c} : M[d] = L[d]
      /\ M[c] \in Seq(Events)
  BY DEF Sound, OneNews, Journals
<1>2. PICK s : s = M[c][n].signer
  OBVIOUS
<1>3. s \in Capsules /\ \E k \in DOMAIN M[s] : IsSent(M[s][k], i)
  BY <1>1, <1>2, SentBefore
<1>4. PICK k \in DOMAIN M[s] : IsSent(M[s][k], i)
  BY <1>3
<1>5. \A d \in Capsules : \A j \in DOMAIN M[d] : IsReceived(M[d][j], i) =>
        d # s /\ M[d][j].to = d /\ AsSent(M[d][j]) = M[s][k]
  BY <1>3, <1>4, SoundSenderSide
<1>6. \A d \in Capsules : \A j \in DOMAIN M[d] : IsReceived(M[d][j], i) => d = c
  <2>1. \A r : AsSent(r).to = r.to
    BY DEF AsSent, Offer
  <2> QED BY <1>1, <1>5, <2>1
<1>7. \A j \in DOMAIN M[c] : ~IsSent(M[c][j], i)
  BY <1>1, ReceivedTerminals
<1>8. SentStatus(M, i) = SentStatus(L, i)
  BY <1>1, <1>7, OtherSideUnmoved DEF SentStatus, IsSent
<1>9. SentStatus(L, i) # "Unknown"
  <2>1. s # c /\ M[s] = L[s]
    BY <1>1, <1>3, <1>5
  <2>2. k \in DOMAIN L[s] /\ IsSent(L[s][k], i) /\ L[s] \in Seq(Events)
    BY <1>1, <1>3, <1>4, <2>1 DEF Journals
  <2>3. SentStatus(L, i) = Status(L[s], s, i)
    BY <1>3, <2>2, SentSide DEF SentStatus
  <2>4. OffersOf(L[s], i) # {}
    BY <1>3, <2>2, SentTerminals
  <2> QED BY <2>2, <2>3, <2>4, StatusIs DEF TerminalTypes
<1>10. ReceivedStatus(L, i) = "Unknown"
  <2>1. ASSUME NEW d \in Capsules, NEW j \in DOMAIN L[d], IsReceived(L[d][j], i) PROVE FALSE
    <3>1. j \in DOMAIN M[d] /\ M[d][j] = L[d][j]
      BY <1>1 DEF AllExtend, Extends
    <3>2. d = c
      BY <1>6, <2>1, <3>1
    <3> QED BY <2>1, <3>2 DEF OneNews
  <2> QED BY <2>1, NoSide DEF ReceivedStatus, IsReceived
<1>11. ReceivedStatus(M, i) = "Pending"
  <2>1. \A k1 \in DOMAIN M[c] : About(M[c][k1], i) => k1 \in DOMAIN L[c] \/ k1 = n
    BY DEF OneNews
  <2>2. OffersOf(M[c], i) = {n}
    <3>1. ASSUME NEW j \in DOMAIN M[c], IsOfferOf(M[c][j], i) PROVE j = n
      <4>1. IsReceived(M[c][j], i)
        BY <1>7, <3>1 DEF IsOfferOf, OfferTypes, IsSent, IsReceived
      <4>2. CASE j \in DOMAIN L[c]
        <5>1. M[c][j] = L[c][j]
          BY <1>1, <4>2 DEF AllExtend, Extends
        <5> QED BY <4>1, <4>2, <5>1 DEF OneNews
      <4> QED BY <2>1, <3>1, <4>2 DEF About
    <3>2. IsOfferOf(M[c][n], i)
      BY DEF IsOfferOf, OfferTypes, IsReceived
    <3> QED BY <1>1, <3>1, <3>2 DEF OffersOf
  <2>3. n \in Nat /\ \A j \in DOMAIN L[c] : j \in Nat /\ j < n
    BY <1>1, NewRowIsLater
  <2>4. Min(OffersOf(M[c], i)) = n
    BY <2>2, <2>3, MinIsLeast
  <2>5. ~IsTerminalOf(M[c][n], i)
    BY DEF IsTerminalOf, TerminalTypes, IsReceived
  <2>6. ValidTerminals(M[c], c, i) = {}
    <3>1. ASSUME NEW t \in ValidTerminals(M[c], c, i) PROVE FALSE
      <4>1. t \in DOMAIN M[c] /\ IsTerminalOf(M[c][t], i) /\ n < t
        BY <2>4, <3>1 DEF ValidTerminals
      <4>2. t \in DOMAIN L[c]
        BY <2>1, <2>5, <4>1 DEF About
      <4> QED BY <2>3, <4>1, <4>2
    <3> QED BY <3>1
  <2>7. Status(M[c], c, i) = "Pending"
    BY <1>1, <2>2, <2>6, StatusIs
  <2> QED BY <1>1, <2>7, ReceivedSide DEF ReceivedStatus
<1> QED BY <1>8, <1>9, <1>10, <1>11 DEF SidesMove

\* What a terminal does to a side that holds an offer and counts all terminals.
LEMMA TerminalEffect ==
  ASSUME NEW L, Sound(L), NEW M, Sound(M), NEW c \in Capsules, NEW n, NEW i \in Invitations,
         OneNews(L, M, c, n, i), IsTerminalOf(M[c][n], i),
         NEW k \in DOMAIN M[c], NEW type \in OfferTypes, M[c][k].type = type, M[c][k].inv = i
  PROVE  /\ k \in DOMAIN L[c] /\ M[c][k] = L[c][k]
         /\ SideStatus(L, i, type) = Status(L[c], c, i)
         /\ SideStatus(M, i, type) = Status(M[c], c, i)
         /\ SideStatus(L, i, type) \in {"Pending"} \cup TerminalTypes
         /\ SideStatus(L, i, type) = "Pending" => SideStatus(M, i, type) = M[c][n].type
         /\ SideStatus(L, i, type) # "Pending" => SideStatus(M, i, type) =
              IF /\ SideStatus(L, i, type) = "InvitationAccepted"
                 /\ M[c][n].type = "InvitationExpired" /\ type = "InvitationReceived"
              THEN "InvitationExpired" ELSE SideStatus(L, i, type)
<1>1. /\ L \in Journals /\ M \in Journals /\ Extends(M[c], L[c])
      /\ n \in DOMAIN M[c] \ DOMAIN L[c] /\ L[c] \in Seq(Events) /\ M[c] \in Seq(Events)
  BY DEF Sound, OneNews, Journals, AllExtend
<1>2. \A x \in DOMAIN M[c] \ DOMAIN L[c] : About(M[c][x], i) => x = n
  BY DEF OneNews
<1>3. k \in DOMAIN L[c] /\ M[c][k] = L[c][k]
  <2>1. About(M[c][k], i) /\ k # n
    BY DEF About, IsOfferOf, IsTerminalOf, TerminalTypes, OfferTypes
  <2> QED BY <1>1, <1>2, <2>1 DEF Extends
<1>4. /\ OffersOf(L[c], i) # {} /\ FirstOffer(L[c], i).type = type
      /\ ValidTerminals(L[c], c, i) = TerminalsOf(L[c], i)
      /\ ValidTerminals(M[c], c, i) = TerminalsOf(M[c], i)
      /\ SideStatus(L, i, type) = Status(L[c], c, i)
      /\ SideStatus(M, i, type) = Status(M[c], c, i)
  <2>1. CASE type = "InvitationSent"
    <3>1. IsSent(L[c][k], i) /\ IsSent(M[c][k], i)
      BY <1>3, <2>1 DEF IsSent
    <3>2. /\ OffersOf(L[c], i) # {} /\ FirstOffer(L[c], i).type = type
          /\ ValidTerminals(L[c], c, i) = TerminalsOf(L[c], i)
      BY <1>3, <2>1, <3>1, SentTerminals
    <3>3. ValidTerminals(M[c], c, i) = TerminalsOf(M[c], i)
      BY <3>1, SentTerminals
    <3> QED BY <1>3, <2>1, <3>1, <3>2, <3>3, SentSide
  <2>2. CASE type = "InvitationReceived"
    <3>1. IsReceived(L[c][k], i) /\ IsReceived(M[c][k], i)
      BY <1>3, <2>2 DEF IsReceived
    <3>2. /\ OffersOf(L[c], i) # {} /\ FirstOffer(L[c], i).type = type
          /\ ValidTerminals(L[c], c, i) = TerminalsOf(L[c], i)
      BY <1>3, <2>2, <3>1, ReceivedTerminals
    <3>3. ValidTerminals(M[c], c, i) = TerminalsOf(M[c], i)
      BY <3>1, ReceivedTerminals
    <3> QED BY <1>3, <2>2, <3>1, <3>2, <3>3, ReceivedSide
  <2> QED BY <2>1, <2>2 DEF OfferTypes
<1>5. Status(L[c], c, i) \in {"Pending"} \cup TerminalTypes
  BY <1>1, <1>4, StatusIs
<1>6. /\ Status(L[c], c, i) = "Pending" => Status(M[c], c, i) = M[c][n].type
      /\ Status(L[c], c, i) # "Pending" => Status(M[c], c, i) =
           IF /\ Status(L[c], c, i) = "InvitationAccepted"
              /\ M[c][n].type = "InvitationExpired"
              /\ FirstOffer(L[c], i).type = "InvitationReceived"
           THEN "InvitationExpired" ELSE Status(L[c], c, i)
  BY <1>1, <1>2, <1>4, StatusMoves
<1> QED BY <1>3, <1>4, <1>5, <1>6

\* The sender's side moves off pending only, on what the recipient's shows.
LEMMA SenderTerminalMoves ==
  ASSUME NEW L, Sound(L), NEW M, Sound(M), NEW c \in Capsules, NEW n, NEW i \in Invitations,
         OneNews(L, M, c, n, i), IsTerminalOf(M[c][n], i),
         NEW k \in DOMAIN M[c], IsSent(M[c][k], i)
  PROVE  SidesMove(L, M, i)
<1>1. /\ L \in Journals /\ M \in Journals /\ AllExtend(M, L)
      /\ n \in DOMAIN M[c] /\ n \notin DOMAIN L[c]
      /\ \A d \in Capsules \ {c} : M[d] = L[d]
  BY DEF Sound, OneNews
<1>2. /\ k \in DOMAIN L[c] /\ IsSent(L[c][k], i)
      /\ SentStatus(L, i) = Status(L[c], c, i)
      /\ SentStatus(L, i) = "Pending" => SentStatus(M, i) = M[c][n].type
      /\ SentStatus(L, i) # "Pending" => SentStatus(M, i) = SentStatus(L, i)
  BY TerminalEffect DEF SentStatus, IsSent, OfferTypes
<1>3. \A d \in Capsules : \A j \in DOMAIN L[d] : IsReceived(L[d][j], i) =>
        d # c /\ L[d][j].signer = c /\ L[d][j].to = d /\ AsSent(L[d][j]) = L[c][k]
  <2>1. k \in DOMAIN L[c] /\ IsSent(L[c][k], i) /\ M[c][k] = L[c][k]
    BY <1>1, <1>2 DEF AllExtend, Extends
  <2>2. PICK row \in DOMAIN L[c] : row = k
    BY <2>1
  <2>3. IsSent(L[c][row], i)
    BY <2>1, <2>2
  <2>4. ASSUME NEW d \in Capsules, NEW j \in DOMAIN L[d], IsReceived(L[d][j], i)
        PROVE  d # c /\ L[d][j].signer = c /\ L[d][j].to = d /\ AsSent(L[d][j]) = L[c][row]
    BY <2>3, <2>4, RecipientOf
  <2> QED BY <2>2, <2>4
<1>4. \A j \in DOMAIN M[c] : ~IsReceived(M[c][j], i)
  BY SoundSenderSide
<1>5. ReceivedStatus(M, i) = ReceivedStatus(L, i)
  BY <1>1, <1>4, OtherSideUnmoved DEF ReceivedStatus, IsReceived
<1>6. CASE SentStatus(L, i) # "Pending"
  BY <1>2, <1>5, <1>6 DEF SidesMove
<1>7. CASE SentStatus(L, i) = "Pending"
  <2>1. \A t \in DOMAIN L[c] : ~IsTerminalOf(L[c][t], i)
    <3>1. OffersOf(L[c], i) # {} /\ ValidTerminals(L[c], c, i) = TerminalsOf(L[c], i)
      BY <1>2, SentTerminals
    <3>2. L[c] \in Seq(Events)
      BY <1>1 DEF Journals
    <3>3. TerminalsOf(L[c], i) = {}
      BY <1>2, <1>7, <3>1, <3>2, StatusIs DEF TerminalTypes
    <3> QED BY <3>3 DEF TerminalsOf
  <2>2. CASE M[c][n].type = "InvitationExpired"
    BY <1>2, <1>5, <1>7, <2>2 DEF SidesMove
  <2>3. ASSUME IsAnswer(M[c][n]) PROVE ReceivedStatus(L, i) \in Protocol!Answers
    <3>1. PICK d : d = M[c][n].signer
      OBVIOUS
    <3>2. RowTraced(M, c, n) /\ M[c][n].inv = i /\ d \in Capsules
      BY <1>1, <3>1, JournalRow DEF Sound, AllTraced, IsTerminalOf
    <3>3. d # c /\ Has(M[d], M[c][n])
      BY <1>1, <1>4, <2>3, <3>1, <3>2, LenProperties DEF RowTraced, AnswerTraced, Journals
    <3>4. PICK x \in DOMAIN M[d] : M[d][x] = M[c][n]
      BY <3>3 DEF Has
    <3>5. M[d] = L[d] /\ L[d] \in Seq(Events) /\ DOMAIN M[d] = 1..Len(M[d]) /\ Len(M[d]) \in Nat
      BY <1>1, <3>2, <3>3, LenProperties DEF Journals
    <3>6. RowTraced(L, d, x) /\ IsAnswer(L[d][x]) /\ L[d][x].signer = d /\ L[d][x].inv = i
      BY <2>3, <3>1, <3>2, <3>4, <3>5 DEF Sound, AllTraced
    <3>7. PICK j \in DOMAIN L[d] : IsReceived(L[d][j], i)
      BY <3>4, <3>5, <3>6 DEF RowTraced, AnswerTraced
    <3>8. /\ OffersOf(L[d], i) # {} /\ ValidTerminals(L[d], d, i) = TerminalsOf(L[d], i)
          /\ ReceivedStatus(L, i) = Status(L[d], d, i)
      <4>1. OffersOf(L[d], i) # {} /\ ValidTerminals(L[d], d, i) = TerminalsOf(L[d], i)
        BY <3>2, <3>7, ReceivedTerminals
      <4>2. ReceivedStatus(L, i) = Status(L[d], d, i)
        BY <3>2, <3>7, ReceivedSide DEF ReceivedStatus
      <4> QED BY <4>1, <4>2
    <3>9. x \in TerminalsOf(L[d], i)
      BY <3>4, <3>5 DEF TerminalsOf
    <3>10. Status(L[d], d, i) \in TerminalTypes
      BY <3>5, <3>8, <3>9, StatusIs
    <3>11. ASSUME NEW t \in TerminalsOf(L[d], i), L[d][t].type = "InvitationExpired" PROVE FALSE
      <4>1. t \in DOMAIN L[d] /\ L[d][t].inv = i /\ RowTraced(L, d, t)
        BY <3>2, <3>11 DEF Sound, AllTraced, TerminalsOf, IsTerminalOf
      <4>2. \A y \in DOMAIN L[d] : ~IsSent(L[d][y], i)
        BY <3>2, <3>7, ReceivedTerminals
      <4>3. /\ \E y \in DOMAIN L[d] : IsReceived(L[d][y], i) /\ L[d][y].signer = L[d][t].signer
            /\ Has(L[L[d][t].signer], L[d][t])
        BY <3>5, <3>11, <4>1, <4>2 DEF RowTraced, ExpiryTraced
      <4>4. L[d][t].signer = c
        BY <1>3, <3>2, <4>3
      <4>5. PICK y \in DOMAIN L[c] : L[c][y] = L[d][t]
        BY <4>3, <4>4 DEF Has
      <4> QED BY <2>1, <3>11, <4>5 DEF TerminalsOf
    <3>12. Status(L[d], d, i) # "InvitationExpired"
      <4>1. PICK valid : valid = ValidTerminals(L[d], d, i)
        OBVIOUS
      <4>2. valid # {} /\ \A t \in valid : L[d][t].type # "InvitationExpired"
        BY <3>8, <3>9, <3>11, <4>1
      <4> QED BY <3>5, <3>8, <4>1, <4>2, StatusIs
    <3> QED BY <3>8, <3>10, <3>12 DEF TerminalTypes, Protocol!Answers
  <2>4. CASE M[c][n].type = "InvitationRejected"
    BY <1>2, <1>5, <1>7, <2>3, <2>4 DEF SidesMove, IsAnswer
  <2>5. CASE M[c][n].type = "InvitationAccepted"
    <3>1. PICK d : d = M[c][k].to
      OBVIOUS
    <3>2. Status(M[d], d, i) = "InvitationAccepted"
      BY <1>1, <2>5, <3>1, SoundAcceptance
    <3>3. ReceivedStatus(L, i) \in Protocol!Answers
      BY <2>3, <2>5 DEF IsAnswer
    <3>4. ReceivedStatus(L, i) = "InvitationAccepted"
      <4>1. PICK e \in Capsules : \E j \in DOMAIN L[e] : IsReceived(L[e][j], i)
        BY <3>3, NoSide DEF ReceivedStatus, IsReceived, Protocol!Answers
      <4>2. PICK j \in DOMAIN L[e] : IsReceived(L[e][j], i)
        BY <4>1
      <4>3. e # c /\ L[e][j].to = e /\ AsSent(L[e][j]) = L[c][k]
        BY <1>3, <4>2
      <4>4. e = d
        <5>1. \A r : AsSent(r).to = r.to
          BY DEF AsSent, Offer
        <5>2. M[c][k] = L[c][k]
          BY <1>1, <1>2 DEF AllExtend, Extends
        <5> QED BY <3>1, <4>3, <5>1, <5>2
      <4>5. M[d] = L[d]
        BY <1>1, <4>3, <4>4
      <4>6. ReceivedStatus(L, i) = Status(L[d], d, i)
        BY <4>2, <4>4, ReceivedSide DEF ReceivedStatus
      <4> QED BY <3>2, <4>5, <4>6
    <3> QED BY <1>2, <1>5, <1>7, <2>5, <3>4 DEF SidesMove
  <2> QED BY <2>2, <2>4, <2>5 DEF IsTerminalOf, TerminalTypes
<1> QED BY <1>6, <1>7

\* The recipient's side moves by an answer, or on a revoke its sender holds to.
LEMMA RecipientTerminalMoves ==
  ASSUME NEW L, Sound(L), NEW M, Sound(M), NEW c \in Capsules, NEW n, NEW i \in Invitations,
         OneNews(L, M, c, n, i), IsTerminalOf(M[c][n], i),
         NEW k \in DOMAIN M[c], IsReceived(M[c][k], i)
  PROVE  SidesMove(L, M, i)
<1>1. /\ L \in Journals /\ M \in Journals /\ AllExtend(M, L)
      /\ n \in DOMAIN M[c] /\ n \notin DOMAIN L[c]
      /\ \A d \in Capsules \ {c} : M[d] = L[d]
  BY DEF Sound, OneNews
<1>2. /\ ReceivedStatus(L, i) \in {"Pending"} \cup TerminalTypes
      /\ ReceivedStatus(L, i) = "Pending" => ReceivedStatus(M, i) = M[c][n].type
      /\ ReceivedStatus(L, i) # "Pending" => ReceivedStatus(M, i) =
           IF /\ ReceivedStatus(L, i) = "InvitationAccepted"
              /\ M[c][n].type = "InvitationExpired"
           THEN "InvitationExpired" ELSE ReceivedStatus(L, i)
  BY TerminalEffect DEF ReceivedStatus, IsReceived, OfferTypes
<1>3. \A j \in DOMAIN M[c] : ~IsSent(M[c][j], i)
  BY ReceivedTerminals
<1>4. SentStatus(M, i) = SentStatus(L, i)
  BY <1>1, <1>3, OtherSideUnmoved DEF SentStatus, IsSent
<1>5. CASE M[c][n].type # "InvitationExpired"
  <2>1. M[c][n].type \in Protocol!Answers
    BY <1>5 DEF IsTerminalOf, TerminalTypes, Protocol!Answers
  <2> QED BY <1>2, <1>4, <1>5, <2>1 DEF SidesMove
<1>6. CASE M[c][n].type = "InvitationExpired"
  <2>1. PICK d : d = M[c][n].signer
    OBVIOUS
  <2>2. RowTraced(M, c, n) /\ M[c][n].inv = i /\ d \in Capsules
    BY <1>1, <2>1, JournalRow DEF Sound, AllTraced, IsTerminalOf
  <2>3. d # c /\ Has(M[d], M[c][n])
    BY <1>1, <1>3, <1>6, <2>1, <2>2, LenProperties DEF RowTraced, ExpiryTraced, Journals
  <2>4. PICK t \in DOMAIN M[d] : M[d][t] = M[c][n]
    BY <2>3 DEF Has
  <2>5. /\ M[d] = L[d] /\ L[d] \in Seq(Events) /\ DOMAIN L[d] = 1..Len(L[d]) /\ Len(L[d]) \in Nat
        /\ t \in DOMAIN L[d]
    BY <1>1, <2>2, <2>3, <2>4, LenProperties DEF Journals
  <2>6. RowTraced(L, d, t) /\ L[d][t].type = "InvitationExpired" /\ L[d][t].signer = d
        /\ L[d][t].inv = i
    BY <1>6, <2>1, <2>2, <2>4, <2>5 DEF Sound, AllTraced
  <2>7. PICK j \in DOMAIN L[d] : IsSent(L[d][j], i)
    BY <2>5, <2>6 DEF RowTraced, ExpiryTraced
  <2>8. \A x \in 1..(t - 1) : ~IsTerminalOf(L[d][x], i)
    BY <2>6 DEF RowTraced, ResolvesFirst, IsOwnExpiry
  <2>9. /\ SentStatus(L, i) = Status(L[d], d, i)
        /\ OffersOf(L[d], i) # {} /\ FirstOffer(L[d], i).type = "InvitationSent"
        /\ ValidTerminals(L[d], d, i) = TerminalsOf(L[d], i)
    BY <2>2, <2>7, SentSide, SentTerminals DEF SentStatus
  <2>10. SentStatus(L, i) = "InvitationExpired"
    <3>1. PICK valid : valid = ValidTerminals(L[d], d, i)
      OBVIOUS
    <3>2. t \in valid
      BY <2>5, <2>6, <2>9, <3>1 DEF TerminalsOf, IsTerminalOf, TerminalTypes
    <3>3. \A x \in valid : IsTerminalOf(L[d][x], i) /\ x \in 1..Len(L[d])
      BY <2>5, <2>9, <3>1 DEF TerminalsOf
    <3>4. PICK min : min = Min(valid)
      OBVIOUS
    <3>5. /\ min \in valid /\ min <= t
          /\ Status(L[d], d, i) = L[d][min].type \/ Status(L[d], d, i) = "InvitationExpired"
      BY <2>5, <2>9, <3>1, <3>2, <3>4, StatusIs
    <3>6. min \in 1..Len(L[d]) /\ min \notin 1..(t - 1)
      BY <2>8, <3>3, <3>5
    <3>7. min = t
      BY <2>5, <3>5, <3>6
    <3> QED BY <2>6, <2>9, <3>5, <3>7
  <2> QED BY <1>2, <1>4, <1>6, <2>10 DEF SidesMove
<1> QED BY <1>5, <1>6

\* One row more about an invitation moves its two sides as promised.
LEMMA OneNewsMoves ==
  ASSUME NEW L, Sound(L), NEW M, Sound(M), NEW c \in Capsules, NEW n, NEW i \in Invitations,
         OneNews(L, M, c, n, i)
  PROVE  SidesMove(L, M, i)
<1>1. M \in Journals /\ n \in DOMAIN M[c] /\ About(M[c][n], i)
  BY DEF Sound, OneNews
<1>2. CASE IsOfferOf(M[c][n], i)
  <2>1. IsSent(M[c][n], i) \/ IsReceived(M[c][n], i)
    BY <1>2 DEF IsOfferOf, OfferTypes, IsSent, IsReceived
  <2> QED BY <2>1, SentMoves, ReceivedMoves
<1>3. CASE IsTerminalOf(M[c][n], i)
  <2>1. RowTraced(M, c, n) /\ M[c][n].inv = i /\ DOMAIN M[c] = 1..Len(M[c]) /\ Len(M[c]) \in Nat
    BY <1>1, <1>3, LenProperties DEF Sound, AllTraced, IsTerminalOf, Journals
  <2>2. \E k \in DOMAIN M[c] : IsSent(M[c][k], i) \/ IsReceived(M[c][k], i)
    <3>1. CASE M[c][n].type = "InvitationExpired"
      BY <1>1, <2>1, <3>1 DEF RowTraced, ExpiryTraced
    <3>2. CASE IsAnswer(M[c][n])
      BY <1>1, <2>1, <3>2 DEF RowTraced, AnswerTraced
    <3> QED BY <1>3, <3>1, <3>2 DEF IsTerminalOf, TerminalTypes, IsAnswer
  <2> QED BY <1>3, <2>2, SenderTerminalMoves, RecipientTerminalMoves
<1> QED BY <1>1, <1>2, <1>3 DEF About

-----------------------------------------------------------------------------
(* The exchange implements the protocol *)

News(L, M) ==
  \/ NoNews(L, M)
  \/ \E c \in Capsules, i \in Invitations : \E n : OneNews(L, M, c, n, i)

LEMMA NewsIsStep ==
  ASSUME Sound(ledger), Sound(ledger'), News(ledger, ledger')
  PROVE  [Protocol!Next]_<<[i \in Invitations |-> SideStatus(ledger, i, "InvitationSent")],
                           [i \in Invitations |-> SideStatus(ledger, i, "InvitationReceived")]>>
<1>. DEFINE s == [i \in Invitations |-> SideStatus(ledger, i, "InvitationSent")]
            r == [i \in Invitations |-> SideStatus(ledger, i, "InvitationReceived")]
            s2 == [i \in Invitations |-> SideStatus(ledger', i, "InvitationSent")]
            r2 == [i \in Invitations |-> SideStatus(ledger', i, "InvitationReceived")]
<1>1. ledger \in Journals /\ ledger' \in Journals
  BY DEF Sound
<1>2. CASE NoNews(ledger, ledger')
  <2>1. \A i \in Invitations : \A c \in Capsules :
          \A k \in DOMAIN ledger'[c] \ DOMAIN ledger[c] : ~About(ledger'[c][k], i)
    BY <1>2 DEF NoNews
  <2>2. AllExtend(ledger', ledger) /\ {"InvitationSent", "InvitationReceived"} = OfferTypes
    BY <1>2 DEF NoNews, OfferTypes
  <2>3. \A i \in Invitations : \A type \in OfferTypes :
          SideStatus(ledger', i, type) = SideStatus(ledger, i, type)
    BY <1>1, <2>1, <2>2, NothingMoves
  <2>4. s2 = s /\ r2 = r
    BY <2>2, <2>3
  <2> QED BY <2>4
<1>3. ASSUME NEW c \in Capsules, NEW i \in Invitations, NEW n, OneNews(ledger, ledger', c, n, i)
      PROVE  Protocol!Next \/ (s2 = s /\ r2 = r)
  <2>1. \A j \in Invitations \ {i} : s2[j] = s[j] /\ r2[j] = r[j]
    BY <1>1, <1>3, OthersUnmoved DEF SentStatus, ReceivedStatus
  <2>2. s2 = [s EXCEPT ![i] = s2[i]] /\ r2 = [r EXCEPT ![i] = r2[i]]
    BY <2>1
  <2>3. SidesMove(ledger, ledger', i)
    BY <1>3, OneNewsMoves
  <2>4. /\ SentStatus(ledger, i) = s[i] /\ ReceivedStatus(ledger, i) = r[i]
        /\ SentStatus(ledger', i) = s2[i] /\ ReceivedStatus(ledger', i) = r2[i]
    BY DEF SentStatus, ReceivedStatus
  <2>5. \A from, to : Protocol!SenderMoves(i, from, to) <=>
          s[i] = from /\ s2 = [s EXCEPT ![i] = to] /\ r2 = r
    BY DEF Protocol!SenderMoves
  <2>6. \A from, to : Protocol!RecipientMoves(i, from, to) <=>
          r[i] = from /\ r2 = [r EXCEPT ![i] = to] /\ s2 = s
    BY DEF Protocol!RecipientMoves
  <2>7. /\ Protocol!Make(i) <=> Protocol!SenderMoves(i, "Unknown", "Pending")
        /\ Protocol!Receive(i) <=>
             s[i] # "Unknown" /\ Protocol!RecipientMoves(i, "Unknown", "Pending")
        /\ Protocol!Answer(i) <=> \E answer \in Protocol!Answers :
             Protocol!RecipientMoves(i, "Pending", answer)
        /\ Protocol!LearnAcceptance(i) <=> r[i] = "InvitationAccepted"
             /\ Protocol!SenderMoves(i, "Pending", "InvitationAccepted")
        /\ Protocol!LearnRejection(i) <=> r[i] \in Protocol!Answers
             /\ Protocol!SenderMoves(i, "Pending", "InvitationRejected")
        /\ Protocol!Revoke(i) <=> Protocol!SenderMoves(i, "Pending", "InvitationExpired")
        /\ Protocol!LearnRevoke(i) <=> s[i] = "InvitationExpired"
             /\ \E from \in {"Pending", "InvitationAccepted"} :
                  Protocol!RecipientMoves(i, from, "InvitationExpired")
    BY DEF Protocol!Make, Protocol!Receive, Protocol!Answer, Protocol!LearnAcceptance,
           Protocol!LearnRejection, Protocol!Revoke, Protocol!LearnRevoke
  <2>8. Protocol!Make(i) \/ Protocol!Receive(i) \/ Protocol!Answer(i)
          \/ Protocol!LearnAcceptance(i) \/ Protocol!LearnRejection(i)
          \/ Protocol!Revoke(i) \/ Protocol!LearnRevoke(i) => Protocol!Next
    BY DEF Protocol!Next
  <2>. HIDE DEF s, r, s2, r2
  <2>9. s2[i] = s[i] => s2 = s
    BY <2>2 DEF s
  <2>10. r2[i] = r[i] => r2 = r
    BY <2>2 DEF r
  <2> QED BY <2>2, <2>3, <2>4, <2>5, <2>6, <2>7, <2>8, <2>9, <2>10 DEF SidesMove
<1> QED BY <1>2, <1>3 DEF News

LEMMA AppendShape ==
  ASSUME NEW S, NEW l \in Seq(S), NEW e
  PROVE  /\ Append(l, e) \in Seq(S \cup {e}) /\ Extends(Append(l, e), l)
         /\ DOMAIN Append(l, e) = DOMAIN l \cup {Len(l) + 1}
         /\ Len(l) + 1 \notin DOMAIN l /\ Append(l, e)[Len(l) + 1] = e
<1>1. DOMAIN l = 1..Len(l) /\ Len(l) \in Nat /\ \A k \in DOMAIN l : l[k] \in S
  BY LenProperties, ElementOfSeq
<1>2. l \in [1..Len(l) -> S \cup {e}]
  BY <1>1, LenProperties
<1>3. l \in Seq(S \cup {e})
  BY <1>1, <1>2, SeqDef
<1>4. /\ Append(l, e) \in Seq(S \cup {e}) /\ Len(Append(l, e)) = Len(l) + 1
      /\ \A k \in 1..Len(l) : Append(l, e)[k] = l[k]
      /\ Append(l, e)[Len(l) + 1] = e
  BY <1>3, AppendProperties
<1>5. DOMAIN Append(l, e) = 1..(Len(l) + 1)
  BY <1>4, LenProperties
<1> QED BY <1>1, <1>4, <1>5 DEF Extends

LEMMA AboutNothing ==
  ASSUME NEW e, e.type \in {"StarterCreated", "StarterBurned", "RelationshipEstablished"}, NEW i
  PROVE  ~About(e, i)
BY DEF About, IsOfferOf, IsTerminalOf, OfferTypes, TerminalTypes

LEMMA SameJournalsNoNews ==
  ASSUME ledger \in Journals, ledger' = ledger PROVE News(ledger, ledger')
BY DEF News, NoNews, AllExtend, Extends

\* Of the rows a journal gained, at most row n is about an invitation: about i.
RowNews(l, a, n, i) ==
  /\ Extends(a, l)
  /\ \A k \in DOMAIN a \ DOMAIN l : \A j \in Invitations : About(a[k], j) => k = n
  /\ n \in DOMAIN a \ DOMAIN l =>
       About(a[n], i) /\ (IsReceived(a[n], i) => \A k \in DOMAIN l : ~IsReceived(l[k], i))

LEMMA JournalNews ==
  ASSUME NEW L \in Journals, NEW c \in Capsules, NEW a, NEW n, NEW i \in Invitations,
         RowNews(L[c], a, n, i), NEW M, M = [L EXCEPT ![c] = a]
  PROVE  News(L, M)
<1>1. M[c] = a /\ \A d \in Capsules \ {c} : M[d] = L[d]
  BY DEF Journals
<1>2. AllExtend(M, L)
  BY <1>1 DEF AllExtend, Extends, RowNews
<1>3. CASE n \in DOMAIN a \ DOMAIN L[c]
  <2>1. OneNews(L, M, c, n, i)
    BY <1>1, <1>2, <1>3 DEF OneNews, RowNews
  <2> QED BY <2>1 DEF News
<1>4. CASE n \notin DOMAIN a \ DOMAIN L[c]
  <2>1. NoNews(L, M)
    <3>1. ASSUME NEW d \in Capsules, NEW k \in DOMAIN M[d] \ DOMAIN L[d], NEW j \in Invitations,
                 About(M[d][k], j)
          PROVE  FALSE
      <4>1. d = c
        BY <1>1, <3>1
      <4> QED BY <1>1, <1>4, <3>1, <4>1 DEF RowNews
    <3> QED BY <1>2, <3>1 DEF NoNews
  <2> QED BY <2>1 DEF News
<1> QED BY <1>3, <1>4

OwnRejection(e, c) == e.type = "InvitationRejected" /\ e.signer = c

\* Of the rows gained, none is a capsule's own rejection.
RejectsNothing(L, M) ==
  \A d \in Capsules : \A k \in DOMAIN M[d] \ DOMAIN L[d] : ~OwnRejection(M[d][k], d)

LEMMA JournalRejectsNothing ==
  ASSUME NEW L \in Journals, NEW c \in Capsules, NEW a, NEW M, M = [L EXCEPT ![c] = a],
         \A k \in DOMAIN a \ DOMAIN L[c] : ~OwnRejection(a[k], c)
  PROVE  RejectsNothing(L, M)
<1>1. M[c] = a /\ \A d \in Capsules \ {c} : M[d] = L[d]
  BY DEF Journals
<1>2. ASSUME NEW d \in Capsules, NEW k \in DOMAIN M[d] \ DOMAIN L[d]
      PROVE  ~OwnRejection(M[d][k], d)
  <2>1. d = c
    BY <1>1, <1>2
  <2> QED BY <1>1, <1>2, <2>1
<1> QED BY <1>2 DEF RejectsNothing

LEMMA SameRejectsNothing == ledger' = ledger => RejectsNothing(ledger, ledger')
BY DEF RejectsNothing

\* The append of one row.
LEMMA AppendNews ==
  ASSUME NEW L \in Journals, NEW c \in Capsules, NEW e, NEW i \in Invitations, About(e, i),
         ~IsReceived(e, i),
         NEW M, M = [L EXCEPT ![c] = Append(L[c], e)]
  PROVE  News(L, M) /\ (~OwnRejection(e, c) => RejectsNothing(L, M))
<1>1. L[c] \in Seq(Events)
  BY DEF Journals
<1>2. PICK a : a = Append(L[c], e)
  OBVIOUS
<1>3. PICK n : n = Len(L[c]) + 1
  OBVIOUS
<1>4. Extends(a, L[c]) /\ DOMAIN a = DOMAIN L[c] \cup {n} /\ n \notin DOMAIN L[c] /\ a[n] = e
  BY <1>1, <1>2, <1>3, AppendShape
<1>5. \A k \in DOMAIN a \ DOMAIN L[c] : k = n
  BY <1>4
<1>6. RowNews(L[c], a, n, i)
  BY <1>4, <1>5 DEF RowNews
<1>7. M = [L EXCEPT ![c] = a]
  BY <1>2
<1>8. ASSUME ~OwnRejection(e, c) PROVE RejectsNothing(L, M)
  <2>1. \A k \in DOMAIN a \ DOMAIN L[c] : ~OwnRejection(a[k], c)
    BY <1>4, <1>5, <1>8
  <2> QED BY <1>7, <2>1, JournalRejectsNothing
<1> QED BY <1>6, <1>7, <1>8, JournalNews

LEMMA SendNews ==
  ASSUME IInv, NEW c \in Capsules, NEW i \in Invitations, Send(c, i)
  PROVE  News(ledger, ledger') /\ RejectsNothing(ledger, ledger')
<1>1. ledger \in Journals
  BY DEF IInv, TypeOK, Journals
<1>2. CASE ledger' = ledger
  BY <1>1, <1>2, SameJournalsNoNews, SameRejectsNothing
<1>3. ASSUME NEW s, NEW kind, NEW to,
             ledger' = [ledger EXCEPT ![c] =
               Append(ledger[c], Offer("InvitationSent", c, i, s, kind, to))]
      PROVE  News(ledger, ledger') /\ RejectsNothing(ledger, ledger')
  <2>1. PICK e : e = Offer("InvitationSent", c, i, s, kind, to)
    OBVIOUS
  <2>2. About(e, i) /\ ~IsReceived(e, i) /\ ~OwnRejection(e, c)
    BY <2>1 DEF OwnRejection, Offer, About, IsOfferOf, OfferTypes, IsReceived
  <2> QED BY <1>1, <1>3, <2>1, <2>2, AppendNews
<1> QED BY <1>2, <1>3 DEF Send, Refused, Outcome, Commit

LEMMA RejectNews ==
  ASSUME IInv, NEW c \in Capsules, Reject(c)
  PROVE  News(ledger, ledger')
<1>. DEFINE job == Head(queue[c])
            e == InvitationRejected(c, job.inv, job.reason)
<1>1. ledger \in Journals /\ \A d \in Capsules : [ledger EXCEPT ![d] = ledger[d]] = ledger
  BY DEF IInv, TypeOK, Journals
<1>2. job.inv \in Invitations
  BY HeadJob DEF Reject, Jobs
<1>3. CASE ledger' = ledger
  BY <1>1, <1>3, SameJournalsNoNews
<1>4. CASE ledger' = [ledger EXCEPT ![c] = Append(ledger[c], e)]
  <2>1. About(e, job.inv) /\ ~IsReceived(e, job.inv)
    BY DEF InvitationRejected, About, IsTerminalOf, TerminalTypes, IsReceived
  <2>. HIDE DEF e, job
  <2> QED BY <1>1, <1>2, <1>4, <2>1, AppendNews
<1> QED BY <1>1, <1>3, <1>4 DEF Reject, Refused, Outcome, Commit, AppendIfMissing

LEMMA ExpireNews ==
  ASSUME IInv, NEW c \in Capsules, Expire(c)
  PROVE  News(ledger, ledger') /\ RejectsNothing(ledger, ledger')
<1>. DEFINE i == Head(queue[c]).inv
            e == InvitationExpired(c, i)
<1>1. ledger \in Journals /\ \A d \in Capsules : [ledger EXCEPT ![d] = ledger[d]] = ledger
  BY DEF IInv, TypeOK, Journals
<1>2. i \in Invitations
  BY HeadJob DEF Expire, Jobs
<1>3. CASE ledger' = ledger
  BY <1>1, <1>3, SameJournalsNoNews, SameRejectsNothing
<1>4. CASE ledger' = [ledger EXCEPT ![c] = Append(ledger[c], e)]
  <2>1. About(e, i) /\ ~IsReceived(e, i) /\ ~OwnRejection(e, c)
    BY DEF OwnRejection, InvitationExpired, About, IsTerminalOf, TerminalTypes, IsReceived
  <2>. HIDE DEF e, i
  <2> QED BY <1>1, <1>2, <1>4, <2>1, AppendNews
<1> QED BY <1>1, <1>3, <1>4 DEF Expire, Refused, Outcome, Commit

\* Accepting appends the acceptance, and then rows about no invitation.
LEMMA AcceptNews ==
  ASSUME IInv, NEW c \in Capsules, Accept(c)
  PROVE  News(ledger, ledger') /\ RejectsNothing(ledger, ledger')
<1>. DEFINE l == ledger[c]
<1>1. ledger \in Journals /\ l \in Seq(Events)
  BY DEF IInv, TypeOK, Journals
<1>2. PICK i, offer, plan :
        /\ i = Head(queue[c]).inv
        /\ \/ ledger' = ledger
           \/ ledger' = [ledger EXCEPT ![c] =
                Finalized(Append(l, InvitationAccepted(c, i, plan.starter)), c, i, offer, plan)]
  <2>1. Refused(c) => ledger' = ledger
    BY DEF Refused
  <2>2. \A new, item : Outcome(c, new, item) => ledger' = [ledger EXCEPT ![c] = new]
    BY DEF Outcome, Commit
  <2>3. PICK i, offer, plan :
          /\ i = Head(queue[c]).inv
          /\ \/ Refused(c)
             \/ Outcome(c, Finalized(Append(l, InvitationAccepted(c, i, plan.starter)),
                                     c, i, offer, plan), <<"terminal", i>>)
    BY DEF Accept
  <2> QED BY <2>1, <2>2, <2>3
<1>3. i \in Invitations
  BY <1>2, HeadJob DEF Accept, Jobs
<1>4. CASE ledger' = ledger
  BY <1>1, <1>4, SameJournalsNoNews, SameRejectsNothing
<1>5. CASE ledger' = [ledger EXCEPT ![c] =
             Finalized(Append(l, InvitationAccepted(c, i, plan.starter)), c, i, offer, plan)]
  <2>. DEFINE acc == InvitationAccepted(c, i, plan.starter)
              accepted == Append(l, acc)
              cre == StarterCreated(c, plan.created, plan.createdKind)
              filled == IF plan.created = None \/ IsActive(accepted, c, plan.created)
                        THEN accepted ELSE Append(accepted, cre)
              re == RelationshipEstablished(c, offer.signer, plan.starter, offer.starter,
                                            offer.kind, i)
              a == AppendIfMissing(filled, re)
              n == Len(l) + 1
              S == Events \cup {acc}
  <2>1. ledger' = [ledger EXCEPT ![c] = a]
    BY <1>5 DEF Finalized
  <2>2. About(acc, i) /\ ~IsReceived(acc, i)
    BY DEF InvitationAccepted, About, IsTerminalOf, TerminalTypes, IsReceived
  <2>3. \A j \in Invitations : ~About(cre, j) /\ ~About(re, j)
    BY AboutNothing DEF StarterCreated, RelationshipEstablished
  <2>0. ~OwnRejection(acc, c) /\ ~OwnRejection(cre, c) /\ ~OwnRejection(re, c)
    BY DEF OwnRejection, InvitationAccepted, StarterCreated, RelationshipEstablished
  <2>. HIDE DEF acc, cre, re
  <2>4. /\ accepted \in Seq(S) /\ Extends(accepted, l)
        /\ DOMAIN accepted = DOMAIN l \cup {n} /\ n \notin DOMAIN l /\ accepted[n] = acc
    BY <1>1, AppendShape
  <2>. HIDE DEF accepted, S, n
  <2>5. /\ filled \in Seq(S \cup {cre}) /\ Extends(filled, accepted)
        /\ \A k \in DOMAIN filled \ DOMAIN accepted : filled[k] = cre
    <3>1. CASE filled = accepted
      <4>1. accepted \in Seq(S \cup {cre})
        BY <2>4, SeqMonotonic
      <4>. HIDE DEF filled
      <4> QED BY <3>1, <4>1 DEF Extends
    <3>2. CASE filled = Append(accepted, cre)
      <4>. HIDE DEF filled
      <4>1. /\ filled \in Seq(S \cup {cre}) /\ Extends(filled, accepted)
            /\ DOMAIN filled = DOMAIN accepted \cup {Len(accepted) + 1}
            /\ filled[Len(accepted) + 1] = cre
        BY <2>4, <3>2, AppendShape
      <4> QED BY <4>1
    <3> QED BY <3>1, <3>2
  <2>. HIDE DEF filled
  <2>6. Extends(a, filled) /\ \A k \in DOMAIN a \ DOMAIN filled : a[k] = re
    <3>1. CASE a = filled
      <4>. HIDE DEF a
      <4> QED BY <3>1 DEF Extends
    <3>2. CASE a = Append(filled, re)
      <4>. HIDE DEF a
      <4>1. /\ Extends(a, filled) /\ DOMAIN a = DOMAIN filled \cup {Len(filled) + 1}
            /\ a[Len(filled) + 1] = re
        BY <2>5, <3>2, AppendShape
      <4> QED BY <4>1
    <3> QED BY <3>1, <3>2 DEF AppendIfMissing
  <2>. HIDE DEF a
  <2>7. Extends(a, l) /\ n \in DOMAIN a \ DOMAIN l /\ a[n] = acc
    BY <2>4, <2>5, <2>6 DEF Extends
  <2>8. \A k \in DOMAIN a \ DOMAIN l : k = n \/ a[k] = cre \/ a[k] = re
    BY <2>4, <2>5, <2>6 DEF Extends
  <2>9. \A k \in DOMAIN a \ DOMAIN l : \A j \in Invitations : About(a[k], j) => k = n
    BY <2>3, <2>8
  <2>10. RowNews(l, a, n, i)
    BY <2>2, <2>7, <2>9 DEF RowNews
  <2>11. \A k \in DOMAIN a \ DOMAIN l : ~OwnRejection(a[k], c)
    BY <2>0, <2>7, <2>8
  <2> QED BY <1>1, <1>3, <2>1, <2>10, <2>11, JournalNews, JournalRejectsNothing
<1> QED BY <1>2, <1>4, <1>5

\* Whoever received an offer received it from whoever sent it.
LEMMA OneReceiver ==
  ASSUME NEW L, Sound(L), NEW s \in Capsules, NEW e, Has(L[s], AsSent(e)),
         NEW c \in Capsules
  PROVE  \A k \in DOMAIN L[c] : IsReceived(L[c][k], e.inv) => L[c][k].signer = s
<1>1. PICK i : i = e.inv
  OBVIOUS
<1>2. PICK row \in DOMAIN L[s] : L[s][row] = AsSent(e)
  BY DEF Has
<1>3. IsSent(L[s][row], i)
  BY <1>1, <1>2 DEF AsSent, Offer, IsSent
<1>4. ASSUME NEW d \in Capsules, NEW j \in DOMAIN L[d], IsReceived(L[d][j], i)
      PROVE  d # s /\ L[d][j].signer = s /\ L[d][j].to = d /\ AsSent(L[d][j]) = L[s][row]
  BY <1>2, <1>3, <1>4, RecipientOf
<1> QED BY <1>1, <1>4

\* A delivery appends the message at most, and then rows about no invitation.
LEMMA DeliverNews ==
  ASSUME IInv, NEW c \in Capsules, NEW m \in net, Deliver(c, m)
  PROVE  News(ledger, ledger') /\ RejectsNothing(ledger, ledger')
<1>. DEFINE l == ledger[c]
            e == m.event
            i == e.inv
            n == Len(l) + 1
            received == IF ShouldSkip(l, e) THEN l ELSE Append(l, e)
            a == IF IsAnswer(e) THEN Effects(received, c, e) ELSE received
            offer == FindOutgoing(received, i)
            re == RelationshipEstablished(c, e.signer, offer.starter, e.starter, offer.kind, i)
            burn == StarterBurned(c, offer.starter)
<1>1. ledger \in Journals /\ l \in Seq(Events) /\ Sound(ledger)
  BY DEF IInv, TypeOK, Journals, Sound
<1>2. m.to = c /\ ledger' = [ledger EXCEPT ![c] = a]
  BY DEF Deliver, IsAnswer
<1>3. /\ e \in Events /\ e.type \in OfferTypes \cup TerminalTypes
      /\ m.from \in Capsules /\ e.signer = m.from
      /\ e.type \in OfferTypes => e.type = "InvitationReceived" /\ Has(ledger[m.from], AsSent(e))
  BY MessageFacts
<1>4. i \in Invitations /\ About(e, i)
  <2>1. About(e, i)
    BY <1>3 DEF About, IsOfferOf, IsTerminalOf
  <2> QED BY <1>3, <2>1, AboutInvitation
<1>5. ASSUME IsReceived(e, i), ~ShouldSkip(l, e)
      PROVE  \A k \in DOMAIN l : ~IsReceived(l[k], i)
  <2>1. Has(ledger[m.from], AsSent(e))
    BY <1>3, <1>5 DEF IsReceived, OfferTypes
  <2>2. \A k \in DOMAIN l : IsReceived(l[k], e.inv) => l[k].signer = e.signer
    BY <1>1, <1>3, <2>1, OneReceiver
  <2> QED BY <1>5, <2>2 DEF ShouldSkip, IsReceived
<1>6. \A j \in Invitations : ~About(re, j) /\ ~About(burn, j)
  BY AboutNothing DEF RelationshipEstablished, StarterBurned
<1>7. a = received \/ a = Append(received, re) \/ a = Append(received, burn)
  BY DEF Effects, AppendIfMissing
<1>0. ~OwnRejection(re, c) /\ ~OwnRejection(burn, c)
  BY DEF OwnRejection, RelationshipEstablished, StarterBurned
<1>. DEFINE S == Events \cup {e}
<1>8. /\ received \in Seq(S) /\ Extends(received, l)
      /\ \A k \in DOMAIN received \ DOMAIN l : k = n /\ received[k] = e /\ ~ShouldSkip(l, e)
  <2>1. CASE ShouldSkip(l, e)
    <3>1. received = l
      BY <2>1
    <3>2. l \in Seq(S)
      BY <1>1, SeqMonotonic
    <3>. HIDE DEF l, received
    <3> QED BY <3>1, <3>2 DEF Extends
  <2>2. CASE ~ShouldSkip(l, e)
    <3>1. received = Append(l, e)
      BY <2>2
    <3>. HIDE DEF received, e, l
    <3>2. /\ received \in Seq(S) /\ Extends(received, l)
          /\ DOMAIN received = DOMAIN l \cup {n} /\ received[n] = e
      BY <1>1, <3>1, AppendShape
    <3> QED BY <2>2, <3>2
  <2> QED BY <2>1, <2>2
<1>. HIDE DEF re, burn, offer, received, a, S
<1>9. Extends(a, received) /\ \A k \in DOMAIN a \ DOMAIN received : a[k] = re \/ a[k] = burn
  <2>1. CASE a = received
    BY <2>1 DEF Extends
  <2>2. ASSUME NEW x, a = Append(received, x)
        PROVE  Extends(a, received) /\ \A k \in DOMAIN a \ DOMAIN received : a[k] = x
    <3>1. received \in Seq(S)
      BY <1>8
    <3>2. /\ Extends(Append(received, x), received)
          /\ DOMAIN Append(received, x) = DOMAIN received \cup {Len(received) + 1}
          /\ Append(received, x)[Len(received) + 1] = x
      BY <3>1, AppendShape
    <3> QED BY <2>2, <3>2
  <2> QED BY <1>7, <2>1, <2>2
<1>10. /\ Extends(a, l)
       /\ \A k \in DOMAIN a \ DOMAIN l :
            \/ k = n /\ a[k] = e /\ ~ShouldSkip(l, e)
            \/ a[k] = re \/ a[k] = burn
  BY <1>8, <1>9 DEF Extends
<1>. DEFINE first == IF n \in DOMAIN a \ DOMAIN l /\ a[n] = e /\ ~ShouldSkip(l, e) THEN n ELSE 0
<1>11. /\ \A k \in DOMAIN a \ DOMAIN l : \A j \in Invitations : About(a[k], j) => k = first
       /\ first \in DOMAIN a \ DOMAIN l => a[first] = e /\ ~ShouldSkip(l, e)
  <2>1. 0 \notin DOMAIN a
    <3>1. \A x : Append(received, x) \in Seq(S \cup {x})
      BY <1>8, AppendShape
    <3>2. \E X : a \in Seq(X)
      BY <1>7, <1>8, <3>1
    <3> QED BY <3>2, LenProperties
  <2> QED BY <1>6, <1>10, <2>1
<1>12. RowNews(l, a, first, i)
  <2>. HIDE DEF first, l, i, e, n
  <2> QED BY <1>4, <1>5, <1>10, <1>11 DEF RowNews
<1>13. \A k \in DOMAIN a \ DOMAIN l : ~OwnRejection(a[k], c)
  <2>1. ~OwnRejection(e, c)
    BY <1>2, <1>3, MessageFacts DEF OwnRejection
  <2> QED BY <1>0, <1>10, <2>1
<1>. HIDE DEF first, i
<1> QED BY <1>1, <1>2, <1>4, <1>12, <1>13, JournalNews, JournalRejectsNothing

LEMMA NextNews ==
  ASSUME IInv, [Next]_vars
  PROVE  News(ledger, ledger')
<1>1. CASE ledger' = ledger
  BY <1>1, SameJournalsNoNews DEF IInv, TypeOK, Journals
<1>2. CASE Next
  <2>1. PICK c \in Capsules :
          \/ \E slot \in Slots, to \in Capsules : DecideSend(c, slot, to)
          \/ \E i \in Invitations : \/ DecideAccept(c, i) \/ DecideReject(c, i)
                                    \/ DecideCancel(c, i) \/ Send(c, i)
          \/ Accept(c) \/ Reject(c) \/ Expire(c)
          \/ \E item \in Items : Publish(c, item)
          \/ Reconcile(c)
          \/ \E m \in net : Deliver(c, m)
          \/ Restart(c)
    BY <1>2 DEF Next
  <2>2. CASE \E i \in Invitations : Send(c, i)
    BY <2>2, SendNews
  <2>3. CASE Accept(c)
    BY <2>3, AcceptNews
  <2>4. CASE Reject(c)
    BY <2>4, RejectNews
  <2>5. CASE Expire(c)
    BY <2>5, ExpireNews
  <2>6. CASE \E m \in net : Deliver(c, m)
    BY <2>6, DeliverNews
  <2>7. CASE \/ \E slot \in Slots, to \in Capsules : DecideSend(c, slot, to)
             \/ \E i \in Invitations : \/ DecideAccept(c, i) \/ DecideReject(c, i)
                                       \/ DecideCancel(c, i)
             \/ \E item \in Items : Publish(c, item)
             \/ Reconcile(c) \/ Restart(c)
    <3>1. ledger' = ledger
      BY <2>7 DEF DecideSend, DecideAccept, DecideReject, DecideCancel, Decide, Publish,
         Reconcile, Restart
    <3> QED BY <1>1, <3>1
  <2> QED BY <2>1, <2>2, <2>3, <2>4, <2>5, <2>6, <2>7
<1> QED BY <1>1, <1>2 DEF vars

LEMMA InitFollows == Init => Protocol!Init
<1>1. SUFFICES ASSUME Init PROVE Protocol!Init
  OBVIOUS
<1>2. ASSUME NEW i \in Invitations, NEW type \in OfferTypes
      PROVE  SideStatus(ledger, i, type) = "Unknown"
  <2>1. \A c \in Capsules : \A k \in DOMAIN ledger[c] : ledger[c][k].type = "StarterCreated"
    <3>1. \A c \in Capsules : ledger[c] = Genesis(c)
      BY <1>1 DEF Init
    <3> QED BY <3>1, GenesisIs
  <2> QED BY <2>1, NoSide DEF OfferTypes
<1>3. {"InvitationSent", "InvitationReceived"} = OfferTypes
  BY DEF OfferTypes
<1> QED BY <1>2, <1>3 DEF Protocol!Init

\* Through decisions that are stale when their worker runs, crashes, restarts and
\* messages late, repeated and out of order, what the two capsules of an invitation
\* show of it (Status over each stored journal, after every entry point and every
\* routed envelope) moves only as InvitationProtocol allows, a move of one side
\* resting on what the other shows at that moment.
THEOREM FollowsProtocol == Spec => ImplementsProtocol
<1>1. ASSUME IInv, IInv', [Next]_vars
      PROVE  [Protocol!Next]_<<[i \in Invitations |-> SideStatus(ledger, i, "InvitationSent")],
                               [i \in Invitations |-> SideStatus(ledger, i, "InvitationReceived")]>>
  <2>1. Sound(ledger) /\ Sound(ledger')
    BY <1>1 DEF IInv, TypeOK, Journals, Sound
  <2>2. News(ledger, ledger')
    BY <1>1, NextNews
  <2> QED BY <2>1, <2>2, NewsIsStep
<1> QED BY <1>1, InitFollows, Traced, PTL DEF Spec, ImplementsProtocol, Protocol!Spec

\* Whatever happens on the way, a recipient (route_inbound_envelope) knows of nothing
\* that was not sent and counts as revoked only what its sender revoked, and a sender
\* counts as accepted only what its recipient has accepted and not lost since, as
\* rejected only what its recipient answered.
THEOREM AgreeOnInvitations == Spec => []Protocol!SidesAgree
<1>1. Protocol!Init => Protocol!SidesAgree
  BY DEF Protocol!Init, Protocol!SidesAgree
<1>2. ASSUME Protocol!SidesAgree,
             [Protocol!Next]_<<[i \in Invitations |-> SideStatus(ledger, i, "InvitationSent")],
                               [i \in Invitations |-> SideStatus(ledger, i, "InvitationReceived")]>>
      PROVE  Protocol!SidesAgree'
  <2>. DEFINE s == [i \in Invitations |-> SideStatus(ledger, i, "InvitationSent")]
              r == [i \in Invitations |-> SideStatus(ledger, i, "InvitationReceived")]
              s2 == [i \in Invitations |-> SideStatus(ledger', i, "InvitationSent")]
              r2 == [i \in Invitations |-> SideStatus(ledger', i, "InvitationReceived")]
  <2>1. CASE s2 = s /\ r2 = r
    <3>1. \A i \in Invitations : s2[i] = s[i] /\ r2[i] = r[i]
      BY <2>1
    <3> QED BY <1>2, <3>1 DEF Protocol!SidesAgree
  <2>2. ASSUME NEW i \in Invitations, NEW from, NEW to, Protocol!SenderMoves(i, from, to)
        PROVE  s[i] = from /\ s2 = [s EXCEPT ![i] = to] /\ r2 = r
    BY <2>2 DEF Protocol!SenderMoves
  <2>3. ASSUME NEW i \in Invitations, NEW from, NEW to, Protocol!RecipientMoves(i, from, to)
        PROVE  r[i] = from /\ r2 = [r EXCEPT ![i] = to] /\ s2 = s
    BY <2>3 DEF Protocol!RecipientMoves
  <2>4. Protocol!SidesAgree <=> \A i \in Invitations :
          /\ s[i] = "Unknown" => r[i] = "Unknown"
          /\ s[i] = "InvitationAccepted" => r[i] = "InvitationAccepted"
          /\ s[i] = "InvitationRejected" => r[i] \in Protocol!Answers
          /\ r[i] = "InvitationExpired" => s[i] = "InvitationExpired"
    BY DEF Protocol!SidesAgree
  <2>5. Protocol!SidesAgree' <=> \A i \in Invitations :
          /\ s2[i] = "Unknown" => r2[i] = "Unknown"
          /\ s2[i] = "InvitationAccepted" => r2[i] = "InvitationAccepted"
          /\ s2[i] = "InvitationRejected" => r2[i] \in Protocol!Answers
          /\ r2[i] = "InvitationExpired" => s2[i] = "InvitationExpired"
    BY DEF Protocol!SidesAgree
  <2>6. DOMAIN s = Invitations /\ DOMAIN r = Invitations
    OBVIOUS
  <2>7. Protocol!Next => \E i \in Invitations :
          \/ s[i] = "Unknown" /\ s2 = [s EXCEPT ![i] = "Pending"] /\ r2 = r
          \/ s[i] # "Unknown" /\ r[i] = "Unknown" /\ r2 = [r EXCEPT ![i] = "Pending"] /\ s2 = s
          \/ r[i] = "Pending" /\ s2 = s
             /\ \E answer \in Protocol!Answers : r2 = [r EXCEPT ![i] = answer]
          \/ r[i] = "InvitationAccepted" /\ s[i] = "Pending" /\ r2 = r
             /\ s2 = [s EXCEPT ![i] = "InvitationAccepted"]
          \/ r[i] \in Protocol!Answers /\ s[i] = "Pending" /\ r2 = r
             /\ s2 = [s EXCEPT ![i] = "InvitationRejected"]
          \/ s[i] = "Pending" /\ s2 = [s EXCEPT ![i] = "InvitationExpired"] /\ r2 = r
          \/ s[i] = "InvitationExpired" /\ s2 = s
             /\ r[i] \in {"Pending", "InvitationAccepted"}
             /\ r2 = [r EXCEPT ![i] = "InvitationExpired"]
    <3>. HIDE DEF s, r, s2, r2
    <3>1. ASSUME NEW i \in Invitations, Protocol!Receive(i) PROVE s[i] # "Unknown"
      BY <3>1 DEF Protocol!Receive, s
    <3>2. ASSUME NEW i \in Invitations, Protocol!LearnAcceptance(i)
          PROVE  r[i] = "InvitationAccepted"
      BY <3>2 DEF Protocol!LearnAcceptance, r
    <3>3. ASSUME NEW i \in Invitations, Protocol!LearnRejection(i)
          PROVE  r[i] \in Protocol!Answers
      BY <3>3 DEF Protocol!LearnRejection, r
    <3>4. ASSUME NEW i \in Invitations, Protocol!LearnRevoke(i)
          PROVE  s[i] = "InvitationExpired"
      BY <3>4 DEF Protocol!LearnRevoke, s
    <3> QED BY <2>2, <2>3, <3>1, <3>2, <3>3, <3>4 DEF Protocol!Next, Protocol!Make,
            Protocol!Receive, Protocol!Answer, Protocol!LearnAcceptance,
            Protocol!LearnRejection, Protocol!Revoke, Protocol!LearnRevoke
  <2>8. Protocol!Next \/ (s2 = s /\ r2 = r)
    BY <1>2
  <2>9. CASE Protocol!Next
    <3>. HIDE DEF s, r, s2, r2
    <3> QED BY <1>2, <2>4, <2>5, <2>6, <2>7, <2>9 DEF Protocol!Answers
  <2> QED BY <2>1, <2>8, <2>9
<1> QED BY <1>1, <1>2, FollowsProtocol, PTL DEF ImplementsProtocol, Protocol!Spec
-----------------------------------------------------------------------------
(* Why starters burn *)

\* Before row k of its journal l, capsule d had the offer of i and a free slot.
Asked(l, d, i, k) == \E n \in 0..(k - 1) : AskedWithRoom(l, d, i, n)

\* Every rejection for want of a starter was asked for, and so is every one that
\* still waits in a queue, Q being all queues.
Grounded(L, Q) ==
  \A c \in Capsules :
    /\ \A i \in Invitations : \A k \in EmptySlotRejections(L[c], c, i) : Asked(L[c], c, i, k)
    /\ \A j \in DOMAIN Q[c] :
         Q[c][j].op = "reject" /\ Q[c][j].reason = "EmptySlot"
           => Asked(L[c], c, Q[c][j].inv, Len(L[c]) + 1)

LEMMA SamePrefix ==
  ASSUME NEW l \in Seq(Events), NEW m \in Seq(Events), Extends(m, l), NEW n \in 0..Len(l)
  PROVE  SubSeq(m, 1, n) = SubSeq(l, 1, n)
<1>1. /\ Len(l) \in Nat /\ DOMAIN l = 1..Len(l) /\ Len(m) \in Nat /\ DOMAIN m = 1..Len(m)
  BY LenProperties
<1>2. Len(l) <= Len(m)
  BY <1>1 DEF Extends
<1>3. /\ SubSeq(l, 1, n) \in Seq(Events) /\ Len(SubSeq(l, 1, n)) = n
      /\ \A k \in 1..n : SubSeq(l, 1, n)[k] = l[k]
  BY <1>1, SubSeqProperties
<1>4. /\ SubSeq(m, 1, n) \in Seq(Events) /\ Len(SubSeq(m, 1, n)) = n
      /\ \A k \in 1..n : SubSeq(m, 1, n)[k] = m[k]
  BY <1>1, <1>2, SubSeqProperties
<1>5. \A k \in 1..n : m[k] = l[k]
  BY <1>1 DEF Extends
<1> QED BY <1>3, <1>4, <1>5, SeqEqual

\* What was asked for stays so, in a longer journal and before a later row.
LEMMA StillAsked ==
  ASSUME NEW l \in Seq(Events), NEW m \in Seq(Events), Extends(m, l), NEW d, NEW i,
         NEW k \in 1..(Len(l) + 1), Asked(l, d, i, k), NEW j \in Nat, k <= j
  PROVE  Asked(m, d, i, j)
<1>1. Len(l) \in Nat
  BY LenProperties
<1>2. PICK n \in 0..(k - 1) : AskedWithRoom(l, d, i, n)
  BY DEF Asked
<1>3. n \in 0..Len(l) /\ n \in 0..(j - 1)
  BY <1>1, <1>2
<1>4. AskedWithRoom(m, d, i, n)
  BY <1>2, <1>3, SamePrefix DEF AskedWithRoom
<1> QED BY <1>3, <1>4 DEF Asked

\* From L to M, only what was asked for is newly rejected.
RejectionsAsked(L, M) ==
  \A c \in Capsules : \A i \in Invitations : \A k \in DOMAIN M[c] \ DOMAIN L[c] :
    k \in EmptySlotRejections(M[c], c, i) => Asked(L[c], c, i, Len(L[c]) + 1)

\* From Q to R, only what was asked for in L is newly queued.
JobsAsked(L, Q, R) ==
  \A c \in Capsules : \A k \in DOMAIN R[c] :
    \/ \E j \in DOMAIN Q[c] : R[c][k] = Q[c][j]
    \/ R[c][k].op = "reject" /\ R[c][k].reason = "EmptySlot"
         => Asked(L[c], c, R[c][k].inv, Len(L[c]) + 1)

\* A step keeps Grounded when its new rejections and new jobs are grounded.
LEMMA GroundedKept ==
  ASSUME NEW L \in Journals, NEW M \in Journals, AllExtend(M, L), NEW Q, NEW R, Grounded(L, Q),
         RejectionsAsked(L, M), JobsAsked(L, Q, R)
  PROVE  Grounded(M, R)
<1>1. SUFFICES ASSUME NEW c \in Capsules
               PROVE  /\ \A i \in Invitations : \A k \in EmptySlotRejections(M[c], c, i) :
                           Asked(M[c], c, i, k)
                      /\ \A k \in DOMAIN R[c] :
                           R[c][k].op = "reject" /\ R[c][k].reason = "EmptySlot"
                             => Asked(M[c], c, R[c][k].inv, Len(M[c]) + 1)
  BY DEF Grounded
<1>2. /\ L[c] \in Seq(Events) /\ M[c] \in Seq(Events) /\ Extends(M[c], L[c])
      /\ Len(L[c]) \in Nat /\ DOMAIN L[c] = 1..Len(L[c])
      /\ Len(M[c]) \in Nat /\ DOMAIN M[c] = 1..Len(M[c])
  BY LenProperties DEF Journals, AllExtend
<1>3. Len(L[c]) <= Len(M[c])
  BY <1>2 DEF Extends
<1>4. ASSUME NEW i \in Invitations, NEW k \in EmptySlotRejections(M[c], c, i)
      PROVE  Asked(M[c], c, i, k)
  <2>1. k \in DOMAIN M[c]
    BY <1>4 DEF EmptySlotRejections
  <2>2. CASE k \in DOMAIN L[c]
    <3>1. k \in EmptySlotRejections(L[c], c, i)
      BY <1>2, <1>4, <2>2 DEF EmptySlotRejections, Extends
    <3>2. Asked(L[c], c, i, k)
      BY <3>1 DEF Grounded
    <3>3. k \in Nat /\ k \in 1..(Len(L[c]) + 1) /\ k <= k
      BY <1>2, <2>2
    <3> QED BY <1>2, <3>2, <3>3, StillAsked
  <2>3. CASE k \notin DOMAIN L[c]
    <3>1. Asked(L[c], c, i, Len(L[c]) + 1)
      BY <1>4, <2>1, <2>3 DEF RejectionsAsked
    <3>2. k \in Nat /\ Len(L[c]) + 1 \in 1..(Len(L[c]) + 1) /\ Len(L[c]) + 1 <= k
      BY <1>2, <2>1, <2>3
    <3> QED BY <1>2, <3>1, <3>2, StillAsked
  <2> QED BY <2>2, <2>3
<1>5. ASSUME NEW k \in DOMAIN R[c], R[c][k].op = "reject", R[c][k].reason = "EmptySlot"
      PROVE  Asked(M[c], c, R[c][k].inv, Len(M[c]) + 1)
  <2>1. Asked(L[c], c, R[c][k].inv, Len(L[c]) + 1)
    BY <1>5 DEF Grounded, JobsAsked
  <2>2. /\ Len(L[c]) + 1 \in 1..(Len(L[c]) + 1) /\ Len(M[c]) + 1 \in Nat
        /\ Len(L[c]) + 1 <= Len(M[c]) + 1
    BY <1>2, <1>3
  <2> QED BY <1>2, <2>1, <2>2, StillAsked
<1> QED BY <1>4, <1>5

\* Nothing is rejected and nothing decided.
LEMMA NothingAsked ==
  ASSUME IInv, IInv', News(ledger, ledger'), RejectsNothing(ledger, ledger'),
         NoNewJob, Grounded(ledger, queue)
  PROVE  Grounded(ledger', queue')
<1>1. ledger \in Journals /\ ledger' \in Journals /\ AllExtend(ledger', ledger)
  BY DEF IInv, TypeOK, Journals, News, NoNews, OneNews
<1>2. RejectionsAsked(ledger, ledger')
  BY DEF RejectionsAsked, RejectsNothing, OwnRejection, EmptySlotRejections, InvitationRejected
<1>3. JobsAsked(ledger, queue, queue')
  BY DEF NoNewJob, JobsAsked
<1> QED BY <1>1, <1>2, <1>3, GroundedKept

\* The head of a queue is gone, or the whole queue.
LEMMA WorkersDecideNothing ==
  ASSUME IInv, NEW c \in Capsules,
         (\E i \in Invitations : Send(c, i)) \/ Accept(c) \/ Reject(c) \/ Expire(c) \/ Restart(c)
  PROVE  NoNewJob
<1>1. Pop(c) \/ Dies(c)
  BY DEF Send, Accept, Reject, Expire, Restart, Refused, Outcome
<1>2. TypeOK
  BY DEF IInv
<1> QED BY <1>1, <1>2, PopIs, DiesIs

LEMMA RejectGrounded ==
  ASSUME IInv, IInv', NEW c \in Capsules, Reject(c), Grounded(ledger, queue)
  PROVE  Grounded(ledger', queue')
<1>1. NoNewJob /\ News(ledger, ledger')
  BY WorkersDecideNothing, RejectNews
<1>2. ledger \in Journals /\ ledger' \in Journals /\ AllExtend(ledger', ledger)
  BY <1>1 DEF IInv, TypeOK, Journals, News, NoNews, OneNews
<1>3. PICK job : job = Head(queue[c])
  OBVIOUS
<1>4. PICK e : e = InvitationRejected(c, job.inv, job.reason)
  OBVIOUS
<1>5. \E j \in DOMAIN queue[c] : job = queue[c][j]
  <2>1. queue[c] \in Seq(Jobs) /\ queue[c] # <<>>
    BY DEF IInv, TypeOK, Reject
  <2>2. 1 \in DOMAIN queue[c] /\ Head(queue[c]) = queue[c][1]
    BY <2>1
  <2> QED BY <1>3, <2>2
<1>6. job.op = "reject"
  BY <1>3 DEF Reject
<1>7. ledger' = ledger \/ ledger' = [ledger EXCEPT ![c] = Append(ledger[c], e)]
  <2>1. [ledger EXCEPT ![c] = ledger[c]] = ledger
    BY <1>2 DEF Journals
  <2> QED BY <1>3, <1>4, <2>1 DEF Reject, Refused, Outcome, Commit, AppendIfMissing
<1>8. ASSUME NEW d \in Capsules, NEW i \in Invitations,
             NEW k \in DOMAIN ledger'[d] \ DOMAIN ledger[d],
             k \in EmptySlotRejections(ledger'[d], d, i)
      PROVE  Asked(ledger[d], d, i, Len(ledger[d]) + 1)
  <2>1. ledger' = [ledger EXCEPT ![c] = Append(ledger[c], e)]
    BY <1>7, <1>8
  <2>2. d = c /\ ledger'[c] = Append(ledger[c], e)
    BY <1>2, <1>8, <2>1 DEF Journals
  <2>3. ledger[c] \in Seq(Events)
    BY <1>2 DEF Journals
  <2>4. /\ DOMAIN ledger'[c] = DOMAIN ledger[c] \cup {Len(ledger[c]) + 1}
        /\ ledger'[c][Len(ledger[c]) + 1] = e
    BY <2>2, <2>3, AppendShape
  <2>5. e = InvitationRejected(c, i, "EmptySlot")
    BY <1>8, <2>2, <2>4 DEF EmptySlotRejections
  <2>6. job.inv = i /\ job.reason = "EmptySlot"
    BY <1>4, <2>5 DEF InvitationRejected
  <2> QED BY <1>5, <1>6, <2>2, <2>6 DEF Grounded
<1>9. RejectionsAsked(ledger, ledger') /\ JobsAsked(ledger, queue, queue')
  BY <1>1, <1>8 DEF NoNewJob, RejectionsAsked, JobsAsked
<1> QED BY <1>2, <1>9, GroundedKept

\* A rejection is decided on a screen that shows the offer as pending.
LEMMA DecideGrounded ==
  ASSUME IInv, IInv', NEW c \in Capsules, NEW job, Decide(c, job), Grounded(ledger, queue),
         job.op = "reject" /\ job.reason = "EmptySlot" =>
           FindIncoming(ledger[c], job.inv) # None /\ FirstFree(Layout(ledger[c], c)) # 0
  PROVE  Grounded(ledger', queue')
<1>1. ledger \in Journals /\ ledger' = ledger /\ queue' = [queue EXCEPT ![c] = Append(queue[c], job)]
      /\ queue \in [Capsules -> Seq(Jobs)]
  BY DEF IInv, TypeOK, Journals, Decide
<1>2. AllExtend(ledger', ledger)
  BY <1>1 DEF AllExtend, Extends
<1>3. ASSUME job.op = "reject", job.reason = "EmptySlot"
      PROVE  Asked(ledger[c], c, job.inv, Len(ledger[c]) + 1)
  <2>1. ledger[c] \in Seq(Events) /\ Len(ledger[c]) \in Nat
    BY <1>1, LenProperties DEF Journals
  <2>2. SubSeq(ledger[c], 1, Len(ledger[c])) = ledger[c]
    BY <2>1, SubSeqFull
  <2>3. AskedWithRoom(ledger[c], c, job.inv, Len(ledger[c]))
    BY <1>3, <2>2 DEF AskedWithRoom
  <2>4. Len(ledger[c]) \in 0..(Len(ledger[c]) + 1 - 1)
    BY <2>1
  <2> QED BY <2>3, <2>4 DEF Asked
<1>4. ASSUME NEW d \in Capsules, NEW k \in DOMAIN queue'[d]
      PROVE  (\E j \in DOMAIN queue[d] : queue'[d][k] = queue[d][j]) \/ (d = c /\ queue'[d][k] = job)
  <2>1. CASE d # c
    BY <1>1, <1>4, <2>1
  <2>2. CASE d = c
    <3>1. PICK q, r : q = queue[c] /\ r = queue'[c]
      OBVIOUS
    <3>2. r = Append(q, job) /\ q \in Seq(Jobs)
      BY <1>1, <3>1
    <3>3. /\ DOMAIN r = DOMAIN q \cup {Len(q) + 1} /\ r[Len(q) + 1] = job
          /\ \A j \in DOMAIN q : r[j] = q[j]
      BY <3>2, AppendShape DEF Extends
    <3>4. k \in DOMAIN q \/ k = Len(q) + 1
      BY <1>4, <2>2, <3>1, <3>3
    <3> QED BY <2>2, <3>1, <3>3, <3>4
  <2> QED BY <2>1, <2>2
<1>5. JobsAsked(ledger, queue, queue')
  BY <1>3, <1>4 DEF JobsAsked
<1>6. RejectionsAsked(ledger, ledger') /\ ledger' \in Journals
  BY <1>1 DEF RejectionsAsked
<1> QED BY <1>1, <1>2, <1>5, <1>6, GroundedKept

LEMMA NextGrounded ==
  ASSUME IInv, IInv', [Next]_vars, Grounded(ledger, queue)
  PROVE  Grounded(ledger', queue')
<1>1. ASSUME ledger' = ledger, NoNewJob PROVE Grounded(ledger', queue')
  <2>1. News(ledger, ledger') /\ RejectsNothing(ledger, ledger')
    BY <1>1, SameJournalsNoNews, SameRejectsNothing DEF IInv, TypeOK, Journals
  <2> QED BY <1>1, <2>1, NothingAsked
<1>2. ASSUME queue' = queue PROVE NoNewJob
  BY <1>2 DEF NoNewJob
<1>3. CASE UNCHANGED vars
  BY <1>1, <1>2, <1>3 DEF vars
<1>4. ASSUME NEW c \in Capsules, NEW slot \in Slots, NEW to \in Capsules, DecideSend(c, slot, to)
      PROVE  Grounded(ledger', queue')
  <2>1. PICK job : Decide(c, job) /\ job.op = "send"
    BY <1>4 DEF DecideSend
  <2> QED BY <2>1, DecideGrounded
<1>5. ASSUME NEW c \in Capsules, NEW i \in Invitations, DecideAccept(c, i) \/ DecideCancel(c, i)
      PROVE  Grounded(ledger', queue')
  <2>1. PICK job : Decide(c, job) /\ job.op \in {"accept", "cancel"}
    BY <1>5 DEF DecideAccept, DecideCancel
  <2> QED BY <2>1, DecideGrounded
<1>6. ASSUME NEW c \in Capsules, NEW i \in Invitations, DecideReject(c, i)
      PROVE  Grounded(ledger', queue')
  <2>1. PICK job : /\ Decide(c, job) /\ job.inv = i
                   /\ job.reason = (IF FirstFree(Layout(ledger[c], c)) # 0
                                    THEN "EmptySlot" ELSE "Other")
    BY <1>6 DEF DecideReject
  <2>2. job.reason = "EmptySlot" => FirstFree(Layout(ledger[c], c)) # 0
    BY <2>1
  <2>3. FindIncoming(ledger[c], job.inv) # None
    BY <1>6, <2>1 DEF DecideReject, IncomingPending
  <2> QED BY <2>1, <2>2, <2>3, DecideGrounded
<1>7. ASSUME NEW c \in Capsules, NEW i \in Invitations, Send(c, i)
      PROVE  Grounded(ledger', queue')
  BY <1>7, SendNews, WorkersDecideNothing, NothingAsked
<1>8. ASSUME NEW c \in Capsules, Accept(c) PROVE Grounded(ledger', queue')
  BY <1>8, AcceptNews, WorkersDecideNothing, NothingAsked
<1>9. ASSUME NEW c \in Capsules, Reject(c) PROVE Grounded(ledger', queue')
  BY <1>9, RejectGrounded
<1>10. ASSUME NEW c \in Capsules, Expire(c) PROVE Grounded(ledger', queue')
  BY <1>10, ExpireNews, WorkersDecideNothing, NothingAsked
<1>11. ASSUME NEW c \in Capsules, NEW m \in net, Deliver(c, m) PROVE Grounded(ledger', queue')
  <2>1. NoNewJob
    BY <1>2, <1>11 DEF Deliver
  <2> QED BY <1>11, <2>1, DeliverNews, NothingAsked
<1>12. ASSUME NEW c \in Capsules, NEW item \in Items, Publish(c, item)
       PROVE  Grounded(ledger', queue')
  BY <1>1, <1>2, <1>12 DEF Publish
<1>13. ASSUME NEW c \in Capsules, Reconcile(c) PROVE Grounded(ledger', queue')
  BY <1>1, <1>2, <1>13 DEF Reconcile
<1>14. ASSUME NEW c \in Capsules, Restart(c) PROVE Grounded(ledger', queue')
  BY <1>1, <1>14, WorkersDecideNothing DEF Restart
<1> QED BY <1>3, <1>4, <1>5, <1>6, <1>7, <1>8, <1>9, <1>10, <1>11, <1>12, <1>13, <1>14 DEF Next

LEMMA InitGrounded == Init => Grounded(ledger, queue)
<1>1. SUFFICES ASSUME Init, NEW c \in Capsules
               PROVE  /\ \A i : EmptySlotRejections(ledger[c], c, i) = {}
                      /\ DOMAIN queue[c] = {}
  BY DEF Grounded
<1>2. ledger[c] = Genesis(c) /\ queue[c] = <<>>
  BY <1>1 DEF Init
<1>3. \A k \in DOMAIN ledger[c] : ledger[c][k].type = "StarterCreated"
  BY <1>2, GenesisIs
<1> QED BY <1>2, <1>3 DEF EmptySlotRejections, InvitationRejected

LEMMA IInvEarned ==
  ASSUME IInv, Grounded(ledger, queue)
  PROVE  BurnIsEarned
<1>1. SUFFICES ASSUME NEW c \in Capsules, NEW s \in Burned(c)
               PROVE  \E i \in Outgoing(c) : \E to :
                        /\ FindOutgoing(ledger[c], i).starter = s
                        /\ FindOutgoing(ledger[c], i).to = to
                        /\ \E k \in EmptySlotRejections(ledger[to], to, i) :
                             \E n \in 0..(k - 1) : AskedWithRoom(ledger[to], to, i, n)
  BY DEF BurnIsEarned
<1>2. ledger \in Journals /\ AllTraced(ledger) /\ OneSender(ledger)
  BY DEF IInv, TypeOK, Journals
<1>3. PICK k \in DOMAIN ledger[c] : ledger[c][k].type = "StarterBurned" /\ ledger[c][k].starter = s
  BY <1>1 DEF Burned
<1>4. PICK j \in DOMAIN ledger[c] :
        /\ ledger[c][j].type = "InvitationSent" /\ ledger[c][j].starter = s
        /\ Has(ledger[ledger[c][j].to],
               InvitationRejected(ledger[c][j].to, ledger[c][j].inv, "EmptySlot"))
  BY <1>1, <1>2, <1>3 DEF AllTraced, RowTraced, BurnTraced
<1>5. PICK i, to : i = ledger[c][j].inv /\ to = ledger[c][j].to
  OBVIOUS
<1>6. IsSent(ledger[c][j], i) /\ i \in Invitations /\ to \in Capsules /\ ledger[c][j] # None
  BY <1>1, <1>2, <1>4, <1>5, JournalRow, EventFields, NoneIsNoEvent DEF IsSent, OfferTypes
<1>7. FindOutgoing(ledger[c], i) = ledger[c][j]
  BY <1>1, <1>2, <1>6, OneOffer
<1>8. i \in Outgoing(c)
  BY <1>6, <1>7 DEF Outgoing
<1>9. PICK r \in DOMAIN ledger[to] : ledger[to][r] = InvitationRejected(to, i, "EmptySlot")
  BY <1>4, <1>5 DEF Has
<1>10. r \in EmptySlotRejections(ledger[to], to, i)
  BY <1>9 DEF EmptySlotRejections
<1>11. \E n \in 0..(r - 1) : AskedWithRoom(ledger[to], to, i, n)
  BY <1>6, <1>10 DEF Grounded, Asked
<1> QED BY <1>4, <1>5, <1>7, <1>8, <1>10, <1>11

\* A starter burns only for a rejection, for want of a slot, of an offer of that very
\* starter, and only by a capsule that had the offer and room to take it at some time
\* before it rejected (_rejectReasonForInvitation, hivra_reject_invitation,
\* project_effects_from_invitation_rejected).
THEOREM BurnsAreEarned == Spec => []BurnIsEarned
<1>1. Init => Grounded(ledger, queue)
  BY InitGrounded
<1>2. IInv /\ IInv' /\ Grounded(ledger, queue) /\ [Next]_vars => Grounded(ledger, queue)'
  BY NextGrounded
<1>3. IInv /\ Grounded(ledger, queue) => BurnIsEarned
  BY IInvEarned
<1> QED BY <1>1, <1>2, <1>3, Traced, PTL DEF Spec
=============================================================================
