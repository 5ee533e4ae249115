----------------------- MODULE RelationshipBreakProofs -----------------------
(***************************************************************************)
(* The three readers of a relationship's rows agree but where an invitation*)
(* ended or the owner's clock was set back, for any clocks, episodes,      *)
(* breaks, losses and crashes.                                             *)
(***************************************************************************)
EXTENDS RelationshipBreak, FiniteSetTheorems, WellFoundedInduction, TLAPS

Types ==
  /\ now \in Nat /\ ahead \in [Capsules -> Nat] /\ floor \in [Capsules -> Nat]
  /\ ledger \in [Capsules -> Seq(Rows)]
  /\ ended \in [Capsules -> SUBSET Episodes]
  /\ net \subseteq Envelopes
  /\ breaks \in Nat /\ ends \in Nat /\ faults \in Nat /\ crashes \in Nat

\* What TypeOK says of one obligation.
Deliverable(c, l, item) ==
  \/ item.kind = "accepted" /\ item.ref \in EpisodesOf(l)
  \/ /\ item.kind = "broken" /\ item.ref \in RowsOf(l, "broken")
     /\ l[item.ref].signer = c

Obligations ==
  /\ outbox \in [Capsules -> SUBSET [kind : {"accepted", "broken"}, ref : Nat]]
  /\ \A c \in Capsules : \A item \in outbox[c] : Deliverable(c, ledger[c], item)

\* The replay policy lets no peer's break into the journal of its owner c with a
\* stamp earlier than an establishment it follows.
PeerDated(c, l) ==
  \A e \in RowsOf(l, "established"), i \in RowsOf(l, "broken") :
    e < i /\ l[i].signer # c => l[e].ts <= l[i].ts

\* Nor has the owner's clock broken that order.
Dated(l) ==
  \A e \in RowsOf(l, "established"), i \in RowsOf(l, "broken") :
    e < i => l[e].ts <= l[i].ts

IInv ==
  /\ Types /\ Obligations
  /\ \A c \in Capsules : PeerDated(c, ledger[c])

-----------------------------------------------------------------------------
(* Reading one journal *)

LEMMA RowKinds ==
  ASSUME NEW l \in Seq(Rows), NEW i \in DOMAIN l
  PROVE  l[i] \in Rows /\ l[i].kind \in {"established", "broken"} /\ l[i].ts \in Nat
<1>1. l[i] \in Rows
  OBVIOUS
<1> QED BY <1>1 DEF Rows

\* Some row of any is the latest.
LEMMA LatestExists ==
  ASSUME NEW n \in Nat, NEW S \in SUBSET (1..n), S # {}
  PROVE  Latest(S) # {}
<1>. DEFINE from(e) == S \cap (e..n)
            T == {from(e) : e \in S}
<1>1. T \subseteq FiniteSubsetsOf(Nat) /\ T # {}
  <2>1. ASSUME NEW e \in S PROVE IsFiniteSet(from(e)) /\ from(e) \subseteq Nat
    <3>1. e \in Int /\ n \in Int /\ S \subseteq Nat
      OBVIOUS
    <3>2. IsFiniteSet(e..n)
      BY <3>1, FS_Interval
    <3>3. IsFiniteSet((e..n) \cap S)
      BY <3>2, FS_Intersection
    <3>4. from(e) = (e..n) \cap S
      OBVIOUS
    <3> QED BY <3>1, <3>3, <3>4
  <2> QED BY <2>1 DEF FiniteSubsetsOf
<1>2. PICK X \in T : \A Y \in T : ~(<<Y, X>> \in StrictSubsetOrdering(Nat))
  BY <1>1, WFMin, FS_StrictSubsetOrderingWellFounded
<1>3. PICK e \in S : X = from(e)
  BY <1>2
<1>4. ASSUME NEW d \in S, e < d PROVE FALSE
  <2>1. from(d) \in T /\ from(d) \subseteq X /\ e \in X /\ e \notin from(d)
    BY <1>3, <1>4
  <2>2. <<from(d), X>> \in StrictSubsetOrdering(Nat)
    BY <2>1, <1>1, <1>2 DEF StrictSubsetOrdering, FiniteSubsetsOf
  <2> QED BY <1>2, <2>1, <2>2
<1>5. e \in Latest(S)
  BY <1>4 DEF Latest
<1> QED BY <1>5

\* What decides the view.
LEMMA ViewOf ==
  ASSUME NEW c, NEW l, NEW gone
  PROVE  /\ View(c, l, gone) = "active" <=> Standing(l, gone) # {} /\ Counted(l, gone) = {}
         /\ (\E i \in Counted(l, gone) : l[i].signer = c) =>
              View(c, l, gone) \in {"broken", "none"}
<1>. DEFINE signers == {l[i].signer : i \in Counted(l, gone)}
<1>1. View(c, l, gone) = IF Standing(l, gone) = {} THEN "none"
                         ELSE IF c \in signers THEN "broken"
                         ELSE IF signers # {} THEN "pending_remote_break"
                         ELSE "active"
  BY DEF View
<1>2. signers = {} <=> Counted(l, gone) = {}
  OBVIOUS
<1>3. (\E i \in Counted(l, gone) : l[i].signer = c) => c \in signers
  OBVIOUS
<1>. HIDE DEF signers
<1> QED BY <1>1, <1>2, <1>3

\* A break at the end of a journal counts when it is dated after what it follows.
LEMMA LastBreakCounts ==
  ASSUME NEW l \in Seq(Rows), NEW gone, l # <<>>, l[Len(l)].kind # "established",
         \A e \in RowsOf(l, "established") : e < Len(l) => l[e].ts <= l[Len(l)].ts
  PROVE  Len(l) \in Counted(l, gone)
<1>1. Len(l) \in DOMAIN l /\ \A i \in DOMAIN l : i <= Len(l) /\ i \in Nat
  OBVIOUS
<1>2. Len(l) \in RowsOf(l, "broken")
  BY <1>1, RowKinds DEF RowsOf
<1>3. \A e \in Latest(Standing(l, gone)) : e \in RowsOf(l, "established") /\ e < Len(l)
  BY <1>1 DEF Latest, Standing, RowsOf
<1> QED BY <1>2, <1>3 DEF Counted

\* An establishment at the end, of an invitation not revoked, is what the screen shows.
LEMMA LastEstablishmentStands ==
  ASSUME NEW c, NEW l \in Seq(Rows), NEW gone, l # <<>>,
         l[Len(l)].kind = "established", l[Len(l)].ep \notin gone
  PROVE  View(c, l, gone) = "active"
<1>1. Len(l) \in DOMAIN l /\ \A i \in DOMAIN l : i <= Len(l) /\ i \in Nat
  OBVIOUS
<1>2. Len(l) \in Latest(Standing(l, gone))
  BY <1>1 DEF Latest, Standing, RowsOf
<1>3. Counted(l, gone) = {}
  BY <1>1, <1>2 DEF Counted, RowsOf
<1>4. Standing(l, gone) # {}
  BY <1>2 DEF Latest
<1> QED BY <1>3, <1>4, ViewOf

\* With every break dated after what it follows, revoking more can only end a view.
LEMMA RevokingEndsOnly ==
  ASSUME NEW c, NEW l \in Seq(Rows), NEW gone, NEW more, gone \subseteq more,
         Dated(l), View(c, l, more) = "active"
  PROVE  View(c, l, gone) = "active"
<1>1. Standing(l, more) # {} /\ Counted(l, more) = {} /\ Standing(l, more) \subseteq Standing(l, gone)
  BY ViewOf DEF Standing
<1>2. /\ Standing(l, gone) \in SUBSET (1..Len(l)) /\ Standing(l, gone) # {} /\ Len(l) \in Nat
      /\ Standing(l, gone) \subseteq RowsOf(l, "established")
  BY <1>1 DEF Standing, RowsOf
<1>3. PICK e : e \in Latest(Standing(l, gone))
  BY <1>2, LatestExists
<1>4. ASSUME NEW i \in Counted(l, gone) PROVE i \in Counted(l, more)
  <2>1. i \in RowsOf(l, "broken") /\ e < i
    BY <1>3 DEF Counted
  <2> SUFFICES ASSUME NEW d \in Latest(Standing(l, more)) PROVE d < i /\ l[d].ts <= l[i].ts
    BY <2>1 DEF Counted
  <2>2. d \in Standing(l, gone) /\ d <= e
    BY <1>1, <1>3 DEF Latest
  <2>3. d \in RowsOf(l, "established") /\ d \in Int /\ e \in Int /\ i \in Int
    BY <1>2, <1>3, <2>1, <2>2 DEF Latest, RowsOf
  <2>4. d < i
    BY <2>1, <2>2, <2>3
  <2> QED BY <2>1, <2>3, <2>4 DEF Dated
<1>5. Counted(l, gone) = {}
  BY <1>1, <1>4
<1> QED BY <1>2, <1>5, ViewOf

LEMMA BreakNeverReopens ==
  ASSUME NEW c, NEW l \in Seq(Rows), NEW gone, NEW r, r.kind = "broken",
         NEW next, next = Append(l, r), View(c, next, gone) = "active"
  PROVE  View(c, l, gone) = "active"
<1>1. /\ next[Len(l) + 1] = r /\ \A i \in DOMAIN l : next[i] = l[i]
      /\ DOMAIN next = DOMAIN l \cup {Len(l) + 1}
  OBVIOUS
<1>2. Standing(next, gone) = Standing(l, gone)
  BY <1>1 DEF Standing, RowsOf
<1>3. Counted(l, gone) \subseteq Counted(next, gone)
  BY <1>1, <1>2 DEF Counted, Latest, Standing, RowsOf
<1> QED BY <1>2, <1>3, ViewOf

\* Breaks of peers are dated by the policy, so only the owner's can be otherwise.
LEMMA NotDatedBack ==
  ASSUME IInv, NEW c \in Capsules, ~DatedBack(c)
  PROVE  Dated(ledger[c])
<1> SUFFICES ASSUME NEW e \in RowsOf(ledger[c], "established"),
                    NEW i \in RowsOf(ledger[c], "broken"), e < i
             PROVE  ledger[c][e].ts <= ledger[c][i].ts
  BY DEF Dated
<1>1. ledger[c] \in Seq(Rows) /\ PeerDated(c, ledger[c])
  BY DEF IInv, Types
<1>2. ledger[c][e].ts \in Nat /\ ledger[c][i].ts \in Nat
  BY <1>1, RowKinds DEF RowsOf
<1>3. CASE ledger[c][i].signer = c
  BY <1>2, <1>3 DEF DatedBack
<1>4. CASE ledger[c][i].signer # c
  BY <1>1, <1>4 DEF PeerDated
<1> QED BY <1>3, <1>4

LEMMA ReadersOf ==
  ASSUME IInv, NEW c \in Capsules
  PROVE  /\ Screen(c) = "active" => KeyIsActive(ledger[c]) \/ DatedBack(c)
         /\ KeyIsActive(ledger[c]) => Screen(c) = "active" \/ LatestEnded(c)
         /\ PendingBreaks(c, ledger[c]) # {} => Screen(c) \in {"broken", "none"} \/ DatedBack(c)
<1>. DEFINE l == ledger[c]
<1>1. l \in Seq(Rows) /\ (l # <<>> => Len(l) \in DOMAIN l)
  BY DEF IInv, Types
<1>2. ASSUME l # <<>>, l[Len(l)].kind # "established", ~DatedBack(c)
      PROVE  Len(l) \in Counted(l, ended[c])
  <2>1. Len(l) \in RowsOf(l, "broken")
    BY <1>1, <1>2, RowKinds DEF RowsOf
  <2>2. Dated(l)
    BY <1>2, NotDatedBack
  <2> QED BY <1>1, <1>2, <2>1, <2>2, LastBreakCounts DEF Dated
<1>3. Screen(c) = "active" => KeyIsActive(l) \/ DatedBack(c)
  <2> SUFFICES ASSUME Screen(c) = "active", ~KeyIsActive(l), ~DatedBack(c) PROVE FALSE
    OBVIOUS
  <2>1. Standing(l, ended[c]) # {} /\ Counted(l, ended[c]) = {}
    BY ViewOf DEF Screen
  <2>2. l # <<>>
    BY <2>1 DEF Standing, RowsOf
  <2> QED BY <1>2, <2>1, <2>2 DEF KeyIsActive
<1>4. KeyIsActive(l) => Screen(c) = "active" \/ LatestEnded(c)
  <2> SUFFICES ASSUME KeyIsActive(l), ~LatestEnded(c) PROVE Screen(c) = "active"
    OBVIOUS
  <2>1. l # <<>> /\ l[Len(l)].kind = "established"
    BY DEF KeyIsActive
  <2>2. Len(l) \in Latest(RowsOf(l, "established"))
    BY <1>1, <2>1 DEF Latest, RowsOf
  <2>3. l[Len(l)].ep \notin ended[c]
    BY <2>2 DEF LatestEnded
  <2> QED BY <1>1, <2>1, <2>3, LastEstablishmentStands DEF Screen
<1>5. PendingBreaks(c, l) # {} => Screen(c) \in {"broken", "none"} \/ DatedBack(c)
  <2> SUFFICES ASSUME PendingBreaks(c, l) # {}, ~DatedBack(c)
               PROVE  Screen(c) \in {"broken", "none"}
    OBVIOUS
  <2>1. Len(l) \in RowsOf(l, "broken") /\ l[Len(l)].signer = c
    BY DEF PendingBreaks
  <2>2. l # <<>> /\ l[Len(l)].kind # "established"
    BY <1>1, <2>1 DEF RowsOf
  <2>3. Len(l) \in Counted(l, ended[c])
    BY <1>2, <2>2
  <2> QED BY <2>1, <2>3, ViewOf DEF Screen
<1> QED BY <1>3, <1>4, <1>5

-----------------------------------------------------------------------------
(* Appending *)

\* An append keeps the rows there are and the obligations that name them.
LEMMA AppendKeepsRows ==
  ASSUME NEW l \in Seq(Rows), NEW r \in Rows, NEW next, next = Append(l, r)
  PROVE  /\ next \in Seq(Rows) /\ Len(next) = Len(l) + 1
         /\ next[Len(l) + 1] = r
         /\ DOMAIN l \subseteq DOMAIN next /\ \A i \in DOMAIN l : next[i] = l[i]
         /\ DOMAIN next = DOMAIN l \cup {Len(l) + 1} /\ Len(l) + 1 \notin DOMAIN l
         /\ \A i \in DOMAIN l : i < Len(l) + 1
OBVIOUS

LEMMA AppendKeepsDeliverable ==
  ASSUME NEW l \in Seq(Rows), NEW r \in Rows, NEW next, next = Append(l, r),
         NEW c, NEW item, Deliverable(c, l, item)
  PROVE  Deliverable(c, next, item)
<1>1. DOMAIN l \subseteq DOMAIN next /\ \A i \in DOMAIN l : next[i] = l[i]
  BY AppendKeepsRows
<1> QED BY <1>1 DEF Deliverable, EpisodesOf, RowsOf

\* A row of a peer is appended dated, any other keeps the order of the peers' rows.
LEMMA AppendDated ==
  ASSUME NEW c, NEW l \in Seq(Rows), NEW r \in Rows, NEW next, next = Append(l, r),
         PeerDated(c, l),
         r.kind = "broken" /\ r.signer # c =>
           \A e \in RowsOf(l, "established") : l[e].ts <= r.ts
  PROVE  PeerDated(c, next)
<1>1. /\ next[Len(l) + 1] = r /\ \A i \in DOMAIN l : next[i] = l[i] /\ i < Len(l) + 1
      /\ DOMAIN next = DOMAIN l \cup {Len(l) + 1} /\ Len(l) + 1 \notin DOMAIN l
      /\ \A i \in DOMAIN next : i \in Nat /\ i <= Len(l) + 1
  BY AppendKeepsRows
<1> SUFFICES ASSUME NEW e \in RowsOf(next, "established"), NEW i \in RowsOf(next, "broken"),
                    e < i, next[i].signer # c
             PROVE  next[e].ts <= next[i].ts
  BY DEF PeerDated
<1>2. e \in DOMAIN next /\ i \in DOMAIN next /\ next[e].kind = "established" /\ next[i].kind = "broken"
  BY DEF RowsOf
<1>3. e \in DOMAIN l
  BY <1>1, <1>2
<1>4. e \in RowsOf(l, "established") /\ next[e] = l[e]
  BY <1>1, <1>2, <1>3 DEF RowsOf
<1>5. CASE i \in DOMAIN l
  <2>1. i \in RowsOf(l, "broken") /\ next[i] = l[i]
    BY <1>1, <1>2, <1>5 DEF RowsOf
  <2> QED BY <1>4, <2>1 DEF PeerDated
<1>6. CASE i = Len(l) + 1
  BY <1>1, <1>2, <1>4, <1>6
<1> QED BY <1>1, <1>2, <1>5, <1>6

-----------------------------------------------------------------------------
(* Steps *)

Clocks ==
  /\ now \in Nat /\ ahead \in [Capsules -> Nat] /\ floor \in [Capsules -> Nat]

Journals ==
  /\ ledger \in [Capsules -> Seq(Rows)]
  /\ \A c \in Capsules : PeerDated(c, ledger[c])

\* Obligations recorded earlier can still be delivered.
StillDeliverable ==
  \A c \in Capsules : \A item \in outbox[c] : Deliverable(c, ledger'[c], item)

LEMMA Signing ==
  ASSUME IInv, NEW c \in Capsules
  PROVE  Stamp(c) \in Nat /\ (Signs(c) => Clocks')
<1>1. now \in Nat /\ ahead \in [Capsules -> Nat] /\ floor \in [Capsules -> Nat]
  BY DEF IInv, Types
<1>2. Stamp(c) \in Nat
  BY <1>1 DEF Stamp
<1> QED BY <1>1, <1>2 DEF Signs, Clocks

\* Appending a row to c's journal.
LEMMA Appending ==
  ASSUME IInv, NEW c \in Capsules, NEW r \in Rows,
         ledger' = [ledger EXCEPT ![c] = Append(@, r)],
         r.kind = "broken" /\ r.signer # c =>
           \A e \in RowsOf(ledger[c], "established") : ledger[c][e].ts <= r.ts
  PROVE  Journals' /\ StillDeliverable
<1>1. ledger \in [Capsules -> Seq(Rows)] /\ ledger[c] \in Seq(Rows) /\ PeerDated(c, ledger[c])
  BY DEF IInv, Types
<1>2. PICK next : next = Append(ledger[c], r)
  OBVIOUS
<1>3. /\ ledger'[c] = next /\ next \in Seq(Rows)
      /\ \A d \in Capsules : d # c => ledger'[d] = ledger[d]
  BY <1>1, <1>2
<1>4. PeerDated(c, next)
  BY <1>1, <1>2, AppendDated
<1>5. ledger' \in [Capsules -> Seq(Rows)]
  BY <1>1, <1>2, <1>3
<1>6. ASSUME NEW d \in Capsules PROVE PeerDated(d, ledger'[d])
  BY <1>3, <1>4 DEF IInv
<1>7. ASSUME NEW d \in Capsules, NEW item \in outbox[d] PROVE Deliverable(d, ledger'[d], item)
  <2>1. Deliverable(d, ledger[d], item)
    BY DEF IInv, Obligations
  <2> QED BY <1>1, <1>2, <1>3, <2>1, AppendKeepsDeliverable
<1> QED BY <1>5, <1>6, <1>7 DEF Journals, StillDeliverable

LEMMA Establishing ==
  ASSUME IInv, NEW c \in Capsules, NEW ep \in Episodes, Establish(c, ep)
  PROVE  /\ Journals' /\ StillDeliverable /\ Clocks'
         /\ ep \in EpisodesOf(ledger'[c])
<1>1. PICK r : r = Established(c, ep, Stamp(c))
  OBVIOUS
<1>2. r \in Rows /\ r.kind = "established" /\ r.ep = ep
  <2>1. Stamp(c) \in Nat
    BY Signing
  <2> QED BY <1>1, <2>1 DEF Established, Rows
<1>3. ledger' = [ledger EXCEPT ![c] = Append(@, r)] /\ Signs(c)
  BY <1>1 DEF Establish
<1>4. Journals' /\ StillDeliverable
  BY <1>2, <1>3, Appending
<1>5. ep \in EpisodesOf(ledger'[c])
  <2>1. ledger \in [Capsules -> Seq(Rows)] /\ ledger[c] \in Seq(Rows)
    BY DEF IInv, Types
  <2>2. PICK next : next = Append(ledger[c], r)
    OBVIOUS
  <2>3. next[Len(ledger[c]) + 1] = r /\ Len(ledger[c]) + 1 \in DOMAIN next
    BY <1>2, <2>1, <2>2, AppendKeepsRows
  <2>4. ledger'[c] = next
    BY <1>3, <2>1, <2>2
  <2> QED BY <1>2, <2>3, <2>4 DEF EpisodesOf, RowsOf
<1> QED BY <1>3, <1>4, <1>5, Signing

\* A step that appends nothing.
LEMMA NoRow ==
  ASSUME IInv, ledger' = ledger
  PROVE  Journals' /\ StillDeliverable
BY DEF Journals, StillDeliverable, IInv, Types, Obligations

\* What the obligations owed from here on name, once the journals are in order.
LEMMA Owing ==
  ASSUME IInv, StillDeliverable, NEW c \in Capsules, NEW item,
         item \in [kind : {"accepted", "broken"}, ref : Nat], Deliverable(c, ledger'[c], item),
         outbox' = [outbox EXCEPT ![c] = @ \cup {item}]
  PROVE  Obligations'
<1>1. outbox \in [Capsules -> SUBSET [kind : {"accepted", "broken"}, ref : Nat]]
  BY DEF IInv, Obligations
<1>2. \A d \in Capsules : outbox'[d] = IF d = c THEN outbox[d] \cup {item} ELSE outbox[d]
  BY <1>1
<1>3. \A d \in Capsules : \A i \in outbox'[d] : Deliverable(d, ledger'[d], i)
  BY <1>2 DEF StillDeliverable
<1>4. outbox' \in [Capsules -> SUBSET [kind : {"accepted", "broken"}, ref : Nat]]
  BY <1>1
<1> QED BY <1>3, <1>4 DEF Obligations

LEMMA Settling ==
  ASSUME IInv, StillDeliverable, NEW c \in Capsules, NEW item,
         \/ outbox' = [outbox EXCEPT ![c] = @ \ {item}]
         \/ outbox' = outbox
  PROVE  Obligations'
<1>1. outbox \in [Capsules -> SUBSET [kind : {"accepted", "broken"}, ref : Nat]]
  BY DEF IInv, Obligations
<1>2. \A d \in Capsules : outbox'[d] \subseteq outbox[d]
  BY <1>1
<1>3. \A d \in Capsules : \A i \in outbox'[d] : Deliverable(d, ledger'[d], i)
  BY <1>2 DEF StillDeliverable
<1>4. outbox' \in [Capsules -> SUBSET [kind : {"accepted", "broken"}, ref : Nat]]
  BY <1>1
<1> QED BY <1>3, <1>4 DEF Obligations

\* The parts of IInv put together again.
LEMMA Together ==
  ASSUME Clocks', Journals', Obligations', net' \subseteq Envelopes,
         ended' \in [Capsules -> SUBSET Episodes],
         breaks' \in Nat, ends' \in Nat, faults' \in Nat, crashes' \in Nat
  PROVE  IInv'
BY DEF IInv, Clocks, Journals, Types

LEMMA Steady ==
  ASSUME IInv
  PROVE  /\ UNCHANGED clocks => Clocks'
         /\ UNCHANGED counters =>
              breaks' \in Nat /\ ends' \in Nat /\ faults' \in Nat /\ crashes' \in Nat
BY DEF IInv, Types, Clocks, clocks, counters

LEMMA OfferKeeps ==
  ASSUME IInv, NEW c \in Capsules, NEW ep \in Episodes, Offer(c, ep)
  PROVE  IInv'
<1>1. Journals' /\ StillDeliverable
  BY NoRow DEF Offer
<1>2. Obligations'
  BY <1>1, Settling DEF Offer
<1>3. OfferOf(c, ep) \in Envelopes
  BY DEF OfferOf, Envelopes
<1> QED BY <1>1, <1>2, <1>3, Together, Steady DEF Offer, IInv, Types

LEMMA AcceptKeeps ==
  ASSUME IInv, NEW c \in Capsules, NEW ep \in Episodes, Accept(c, ep)
  PROVE  IInv'
<1>1. Journals' /\ StillDeliverable /\ Clocks' /\ ep \in EpisodesOf(ledger'[c])
  BY Establishing DEF Accept
<1>2. Obligations'
  <2>1. PICK item : item = Owed("accepted", ep)
    OBVIOUS
  <2>2. ep \in Nat
    BY BreakAssumption DEF Episodes
  <2>3. item \in [kind : {"accepted", "broken"}, ref : Nat] /\ Deliverable(c, ledger'[c], item)
    BY <1>1, <2>1, <2>2 DEF Owed, Deliverable
  <2> QED BY <1>1, <2>1, <2>3, Owing DEF Accept
<1> QED BY <1>1, <1>2, Together, Steady DEF Accept, IInv, Types

LEMMA ReceiveAcceptanceKeeps ==
  ASSUME IInv, NEW c \in Capsules, NEW ep \in Episodes, ReceiveAcceptance(c, ep)
  PROVE  IInv'
<1>1. Journals' /\ StillDeliverable /\ Clocks'
  BY Establishing DEF ReceiveAcceptance
<1>2. Obligations'
  BY <1>1, Settling DEF ReceiveAcceptance
<1> QED BY <1>1, <1>2, Together, Steady DEF ReceiveAcceptance, IInv, Types

LEMMA RevokeKeeps ==
  ASSUME IInv, NEW c \in Capsules, NEW ep \in Episodes, Revoke(c, ep)
  PROVE  IInv'
<1>1. Journals' /\ StillDeliverable
  BY NoRow DEF Revoke
<1>2. Obligations'
  BY <1>1, Settling DEF Revoke
<1>3. RevokedBy(c, ep) \in Envelopes
  BY DEF RevokedBy, Envelopes
<1>4. ended' \in [Capsules -> SUBSET Episodes]
  BY DEF Revoke, IInv, Types
<1>5. net' \subseteq Envelopes
  BY <1>3 DEF Revoke, IInv, Types
<1> QED BY <1>1, <1>2, <1>4, <1>5, Together, Steady DEF Revoke, IInv, Types

LEMMA RejectLateKeeps ==
  ASSUME IInv, NEW c \in Capsules, NEW ep \in Episodes, RejectLate(c, ep)
  PROVE  IInv'
<1>1. Journals' /\ StillDeliverable
  BY NoRow DEF RejectLate
<1>2. Obligations'
  BY <1>1, Settling DEF RejectLate
<1>3. ended' \in [Capsules -> SUBSET Episodes]
  BY DEF RejectLate, IInv, Types
<1> QED BY <1>1, <1>2, <1>3, Together, Steady DEF RejectLate, IInv, Types

LEMMA ReceiveRevokeKeeps ==
  ASSUME IInv, NEW c \in Capsules, NEW ep \in Episodes, ReceiveRevoke(c, ep)
  PROVE  IInv'
<1>1. Journals' /\ StillDeliverable
  BY NoRow DEF ReceiveRevoke
<1>2. Obligations'
  BY <1>1, Settling DEF ReceiveRevoke
<1>3. ended' \in [Capsules -> SUBSET Episodes]
  BY DEF ReceiveRevoke, IInv, Types
<1> QED BY <1>1, <1>2, <1>3, Together, Steady DEF ReceiveRevoke, IInv, Types

\* The owner's break is stamped as its clock happens to be.
LEMMA BreakKeeps ==
  ASSUME IInv, NEW c \in Capsules, NEW noted \in BOOLEAN, Break(c, noted)
  PROVE  IInv'
<1>1. PICK e \in Latest(RowsOf(ledger[c], "established")) :
        ledger' = [ledger EXCEPT ![c] = Append(@, Broken(c, ledger[c][e].ep, Stamp(c)))]
  BY DEF Break
<1>2. ledger \in [Capsules -> Seq(Rows)] /\ ledger[c] \in Seq(Rows)
  BY DEF IInv, Types
<1>3. PICK r : r = Broken(c, ledger[c][e].ep, Stamp(c))
  OBVIOUS
<1>4. r \in Rows /\ r.kind = "broken" /\ r.signer = c
  <2>1. ledger[c][e] \in Rows
    BY <1>1, <1>2 DEF Latest, RowsOf
  <2>2. ledger[c][e].ep \in Episodes
    BY <2>1 DEF Rows
  <2>3. Stamp(c) \in Nat
    BY Signing
  <2> QED BY <1>3, <2>2, <2>3 DEF Broken, Rows
<1>5. ledger' = [ledger EXCEPT ![c] = Append(@, r)]
  BY <1>1, <1>3
<1>6. Journals' /\ StillDeliverable
  BY <1>4, <1>5, Appending
<1>7. Obligations'
  <2>1. PICK item : item = Owed("broken", DeliveryReference(ledger[c]))
    OBVIOUS
  <2>2. item.kind = "broken" /\ item.ref = Len(ledger[c]) + 1
    BY <2>1 DEF Owed, DeliveryReference
  <2>3. item \in [kind : {"accepted", "broken"}, ref : Nat]
    BY <1>2, <2>1 DEF Owed, DeliveryReference
  <2>4. PICK next : next = Append(ledger[c], r)
    OBVIOUS
  <2>5. ledger'[c] = next
    BY <1>2, <1>5, <2>4
  <2>6. next[Len(ledger[c]) + 1] = r /\ Len(ledger[c]) + 1 \in DOMAIN next
    BY <1>2, <1>4, <2>4, AppendKeepsRows
  <2>7. Deliverable(c, ledger'[c], item)
    BY <1>4, <2>2, <2>5, <2>6 DEF Deliverable, RowsOf
  <2>8. CASE noted
    BY <1>6, <2>1, <2>3, <2>7, <2>8, Owing DEF Break
  <2>9. CASE ~noted
    <3>1. outbox' = outbox
      BY <2>9 DEF Break
    <3> QED BY <1>6, <3>1 DEF Obligations, StillDeliverable, IInv
  <2> QED BY <2>8, <2>9
<1>8. breaks' \in Nat /\ ends' \in Nat /\ crashes' \in Nat /\ faults' \in Nat
  BY DEF Break, Dies, IInv, Types
<1>9. Clocks'
  BY Signing DEF Break
<1> QED BY <1>6, <1>7, <1>8, <1>9, Together DEF Break, IInv, Types

LEMMA PublishAcceptanceKeeps ==
  ASSUME IInv, NEW c \in Capsules, NEW ep \in Episodes, PublishAcceptance(c, ep)
  PROVE  IInv'
<1>1. Journals' /\ StillDeliverable
  BY NoRow DEF PublishAcceptance
<1>2. Obligations'
  BY <1>1, Settling DEF PublishAcceptance, Settles
<1>3. AcceptedBy(c, ep) \in Envelopes
  BY DEF AcceptedBy, Envelopes
<1>4. faults' \in Nat
  BY DEF PublishAcceptance, Settles, IInv, Types
<1> QED BY <1>1, <1>2, <1>3, <1>4, Together, Steady DEF PublishAcceptance, IInv, Types

LEMMA PublishBreakKeeps ==
  ASSUME IInv, NEW c \in Capsules, NEW i \in DOMAIN ledger[c], PublishBreak(c, i)
  PROVE  IInv'
<1>1. Journals' /\ StillDeliverable
  BY NoRow DEF PublishBreak
<1>2. Obligations'
  BY <1>1, Settling DEF PublishBreak, Settles
<1>3. BrokenBy(c, ledger[c][i].ep, Stamp(c)) \in Envelopes
  <2>1. ledger[c][i] \in Rows
    BY DEF IInv, Types
  <2>2. ledger[c][i].ep \in Episodes /\ Stamp(c) \in Nat
    BY <2>1, Signing DEF Rows
  <2> QED BY <2>2 DEF BrokenBy, Envelopes
<1>4. faults' \in Nat
  BY DEF PublishBreak, Settles, IInv, Types
<1>5. Clocks'
  BY Signing DEF PublishBreak
<1> QED BY <1>1, <1>2, <1>3, <1>4, <1>5, Together DEF PublishBreak, IInv, Types

LEMMA DropBreakKeeps ==
  ASSUME IInv, NEW c \in Capsules, NEW i \in DOMAIN ledger[c], DropBreak(c, i)
  PROVE  IInv'
<1>1. Journals' /\ StillDeliverable
  BY NoRow DEF DropBreak
<1>2. Obligations'
  BY <1>1, Settling DEF DropBreak
<1> QED BY <1>1, <1>2, Together, Steady DEF DropBreak, IInv, Types

\* The policy lets through only a break stamped no earlier than any establishment.
LEMMA ReceiveBreakKeeps ==
  ASSUME IInv, NEW c \in Capsules, NEW m \in net, ReceiveBreak(c, m)
  PROVE  IInv'
<1>1. ledger \in [Capsules -> Seq(Rows)] /\ ledger[c] \in Seq(Rows)
  BY DEF IInv, Types
<1>2. m \in Envelopes /\ m.from \in Capsules /\ m.ep \in Episodes /\ m.ts \in Nat
  BY DEF IInv, Types, Envelopes
<1>3. PICK r : r = Broken(m.from, m.ep, m.ts)
  OBVIOUS
<1>4. r \in Rows /\ r.kind = "broken" /\ r.ts = m.ts
  BY <1>2, <1>3 DEF Broken, Rows
<1>5. \A i \in RowsOf(ledger[c], "established") : ledger[c][i].ts <= r.ts
  <2> SUFFICES ASSUME NEW i \in RowsOf(ledger[c], "established")
               PROVE  ledger[c][i].ts <= r.ts
    OBVIOUS
  <2>1. ledger[c][i].ts \in Nat
    BY <1>1, RowKinds DEF RowsOf
  <2>2. ~(m.ts < ledger[c][i].ts)
    BY DEF ReceiveBreak, SkipsBreak
  <2> QED BY <1>2, <1>4, <2>1, <2>2
<1>6. ledger' = [ledger EXCEPT ![c] = Append(@, r)]
  BY <1>3 DEF ReceiveBreak
<1>7. Journals' /\ StillDeliverable
  BY <1>4, <1>5, <1>6, Appending
<1>8. Obligations'
  BY <1>7 DEF ReceiveBreak, Obligations, StillDeliverable, IInv
<1>9. Clocks'
  BY <1>2 DEF ReceiveBreak, Imports, Clocks, IInv, Types
<1> QED BY <1>7, <1>8, <1>9, Together, Steady DEF ReceiveBreak, IInv, Types

LEMMA RestartKeeps ==
  ASSUME IInv, NEW c \in Capsules, Restart(c)
  PROVE  IInv'
<1>1. Journals' /\ StillDeliverable
  BY NoRow DEF Restart
<1>2. Obligations'
  BY <1>1, Settling DEF Restart
<1>3. TailStamps(ledger[c]) \subseteq Nat
  <2>1. ledger[c] \in Seq(Rows) /\ (ledger[c] # <<>> => Len(ledger[c]) \in DOMAIN ledger[c])
    BY DEF IInv, Types
  <2>2. ledger[c] # <<>> => ledger[c][Len(ledger[c])].ts \in Nat
    BY <2>1, RowKinds
  <2> QED BY <2>2, BreakAssumption DEF TailStamps
<1>4. Clocks'
  BY <1>3, BreakAssumption DEF Restart, Clocks, IInv, Types
<1>5. crashes' \in Nat
  BY DEF Restart, Dies, IInv, Types
<1> QED BY <1>1, <1>2, <1>4, <1>5, Together DEF Restart, IInv, Types

-----------------------------------------------------------------------------
(* Theorems *)

LEMMA Initial == Init => IInv
<1> SUFFICES ASSUME Init PROVE IInv
  OBVIOUS
<1>1. Types /\ Obligations
  BY BreakAssumption DEF Init, Types, Obligations
<1>2. ASSUME NEW c \in Capsules PROVE PeerDated(c, ledger[c])
  BY DEF Init, PeerDated, RowsOf
<1> QED BY <1>1, <1>2 DEF IInv

LEMMA Inductive == IInv /\ [Next]_vars => IInv'
<1> SUFFICES ASSUME IInv, [Next]_vars PROVE IInv'
  OBVIOUS
<1>1. CASE UNCHANGED vars
  <2>1. Journals' /\ StillDeliverable
    BY <1>1, NoRow DEF vars
  <2>2. Obligations'
    BY <1>1, <2>1 DEF vars, Obligations, StillDeliverable, IInv
  <2> QED BY <1>1, <2>1, <2>2, Together, Steady DEF vars, IInv, Types
<1>2. ASSUME NEW c \in Capsules, User(c) PROVE IInv'
  BY <1>2, OfferKeeps, AcceptKeeps, RevokeKeeps, RejectLateKeeps, BreakKeeps DEF User
<1>3. ASSUME NEW c \in Capsules, Pump(c) PROVE IInv'
  BY <1>3, PublishAcceptanceKeeps, PublishBreakKeeps, DropBreakKeeps DEF Pump
<1>4. ASSUME NEW c \in Capsules, Receive(c) PROVE IInv'
  BY <1>4, ReceiveAcceptanceKeeps, ReceiveRevokeKeeps, ReceiveBreakKeeps DEF Receive
<1> QED BY <1>1, <1>2, <1>3, <1>4, RestartKeeps DEF Next

LEMMA Invariance == Spec => []IInv
BY Initial, Inductive, PTL DEF Spec

\* Rows, envelopes and obligations stay well formed, and what is owed can be
\* delivered: the episode accepted is in the journal, the row that broke is the
\* owner's break.
THEOREM TypeCorrect == Spec => []TypeOK
<1>1. IInv => TypeOK
  BY DEF IInv, Types, Obligations, Deliverable, TypeOK
<1> QED BY <1>1, Invariance, PTL

\* should_skip_incoming_delivery_append_with_timestamp lets a peer break whatever
\* the screen shows as active, unless the owner's clock was set back before its
\* own break; and holds active only what the screen shows or an ended invitation explains.
THEOREM AgreeingReaders == Spec => []ReadersAgree
<1>1. IInv => ReadersAgree
  BY ReadersOf DEF ReadersAgree
<1> QED BY <1>1, Invariance, PTL

\* The pump's reader never finds a break to retry in a journal its owner reads as
\* active, or as broken by the peer alone, unless the owner's clock was set back.
THEOREM RetriesOnlyOwnBreak == Spec => []RetriesOnlyBroken
<1>1. IInv => RetriesOnlyBroken
  BY ReadersOf DEF RetriesOnlyBroken
<1> QED BY <1>1, Invariance, PTL

\* What replays and revokes cannot do: only a step that adds an episode reopens.
LEMMA StepReopens ==
  ASSUME IInv, IInv', [Next]_vars, NEW c \in Capsules,
         Screen(c) # "active", Screen(c)' = "active", ~DatedBack(c)
  PROVE  EpisodesOf(ledger'[c]) # EpisodesOf(ledger[c])
<1>1. /\ ledger \in [Capsules -> Seq(Rows)] /\ ledger[c] \in Seq(Rows)
      /\ ended \in [Capsules -> SUBSET Episodes]
      /\ Dated(ledger[c])
  BY NotDatedBack DEF IInv, Types
<1>2. Screen(c)' = View(c, ledger'[c], ended'[c]) /\ Screen(c) = View(c, ledger[c], ended[c])
  BY DEF Screen
<1>3. ASSUME ledger'[c] = ledger[c], ended[c] \subseteq ended'[c] PROVE FALSE
  <2>1. View(c, ledger[c], ended'[c]) = "active"
    BY <1>2, <1>3
  <2> QED BY <1>1, <1>2, <1>3, <2>1, RevokingEndsOnly
<1>4. ASSUME NEW d \in Capsules, NEW ep \in Episodes, Establish(d, ep), ended' = ended
      PROVE  EpisodesOf(ledger'[c]) # EpisodesOf(ledger[c])
  <2>1. d = c
    BY <1>1, <1>3, <1>4 DEF Establish
  <2>2. ep \in EpisodesOf(ledger'[c]) /\ ep \notin EpisodesOf(ledger[c])
    BY <1>4, <2>1, Establishing DEF Establish
  <2> QED BY <2>2
<1>5. ASSUME NEW d \in Capsules, NEW r, r.kind = "broken", ended' = ended,
             ledger' = [ledger EXCEPT ![d] = Append(@, r)]
      PROVE  FALSE
  <2>1. d = c
    BY <1>1, <1>3, <1>5
  <2> QED BY <1>1, <1>2, <1>5, <2>1, BreakNeverReopens
<1>6. ASSUME NEW d \in Capsules, User(d) PROVE EpisodesOf(ledger'[c]) # EpisodesOf(ledger[c])
  <2>1. ASSUME NEW noted \in BOOLEAN, Break(d, noted) PROVE FALSE
    <3>1. PICK e \in Latest(RowsOf(ledger[d], "established")) :
            ledger' = [ledger EXCEPT ![d] = Append(@, Broken(d, ledger[d][e].ep, Stamp(d)))]
      BY <2>1 DEF Break
    <3>2. PICK r : r = Broken(d, ledger[d][e].ep, Stamp(d))
      OBVIOUS
    <3>3. r.kind = "broken" /\ ledger' = [ledger EXCEPT ![d] = Append(@, r)] /\ ended' = ended
      BY <2>1, <3>1, <3>2 DEF Broken, Break
    <3> QED BY <3>3, <1>5
  <2>2. ASSUME NEW ep \in Episodes, Revoke(d, ep) PROVE FALSE
    BY <1>1, <1>3, <2>2 DEF Revoke
  <2>3. ASSUME NEW ep \in Episodes, RejectLate(d, ep) PROVE FALSE
    <3>1. Peer[d] \in Capsules
      BY BreakAssumption
    <3> QED BY <1>1, <1>3, <2>3, <3>1 DEF RejectLate
  <2> QED BY <1>3, <1>4, <1>6, <2>1, <2>2, <2>3 DEF User, Offer, Accept
<1>7. ASSUME NEW d \in Capsules, Pump(d) PROVE FALSE
  BY <1>3, <1>7 DEF Pump, PublishAcceptance, PublishBreak, DropBreak
<1>8. ASSUME NEW d \in Capsules, Receive(d) PROVE EpisodesOf(ledger'[c]) # EpisodesOf(ledger[c])
  <2>1. ASSUME NEW m \in net, ReceiveBreak(d, m) PROVE FALSE
    <3>1. PICK r : r = Broken(m.from, m.ep, m.ts)
      OBVIOUS
    <3>2. r.kind = "broken" /\ ledger' = [ledger EXCEPT ![d] = Append(@, r)] /\ ended' = ended
      BY <2>1, <3>1 DEF ReceiveBreak, Broken
    <3> QED BY <3>2, <1>5
  <2>2. ASSUME NEW ep \in Episodes, ReceiveRevoke(d, ep) PROVE FALSE
    BY <1>1, <1>3, <2>2 DEF ReceiveRevoke
  <2> QED BY <1>4, <1>8, <2>1, <2>2 DEF Receive, ReceiveAcceptance
<1>9. ASSUME NEW d \in Capsules, Restart(d) PROVE FALSE
  BY <1>3, <1>9 DEF Restart
<1> QED BY <1>3, <1>6, <1>7, <1>8, <1>9 DEF Next, vars

\* append_relationship_established_if_missing is what keeps a replayed acceptance
\* from reopening a relationship that was broken; revoking a later invitation
\* does not bring back an earlier one that was broken after it either.
THEOREM NewEpisodeOnly == Spec => ReopensWithNewEpisode
<1>1. IInv /\ IInv' /\ [Next]_vars =>
        [\A c \in Capsules :
           Screen(c) # "active" /\ Screen(c)' = "active"
             => EpisodesOf(ledger'[c]) # EpisodesOf(ledger[c]) \/ DatedBack(c)]_vars
  BY StepReopens
<1> QED BY <1>1, Invariance, PTL DEF Spec, ReopensWithNewEpisode
=============================================================================
