------------------------------ MODULE Exchange ------------------------------
(***************************************************************************)
(* Invitations between capsules: the entry points of platform/hivra-ffi    *)
(* (invitation_api.rs, invitation_support.rs) as the host runs them        *)
(* (flutter/lib services: the intent handler decides on what the user saw, *)
(* the shared worker queue executes later, the outbox publishes later      *)
(* still), over a transport that may delay, reorder and repeat messages.   *)
(*                                                                         *)
(* A worker starts from the stored journal and stores its result, so one   *)
(* worker run is one atomic step on the journal.  A message is re-offered  *)
(* to its recipient after a restart (the seen set is process memory) and   *)
(* when it is published again (each publication is a new envelope).        *)
(***************************************************************************)
EXTENDS Capsule

CONSTANTS
  Relays,        \* capsules created as Relay: born with a full set of starters
  Senders,       \* bound: capsules whose users invite
  MaxQueue,      \* bound: jobs decided and not yet run, per capsule
  MaxCrashes     \* bound: crashes and restarts, over all capsules

ASSUME ExchangeAssumption ==
  /\ Relays \subseteq Capsules /\ Senders \subseteq Capsules
  /\ MaxQueue \in Nat \ {0} /\ MaxCrashes \in Nat
  /\ NumSlots <= Len(Kinds)

VARIABLES
  ledger,        \* ledger[c]: the stored journal of capsule c
  queue,         \* queue[c]: jobs in c's worker queue, in order
  outbox,        \* outbox[c][item]: delivery obligation for an offer or terminal
  net,           \* messages relays hold
  seen,          \* seen[c]: messages c's process has consumed
  crashes        \* how many processes have died so far

vars == <<ledger, queue, outbox, net, seen, crashes>>

Items == {"offer", "terminal"} \X Invitations
OutboxStatus == {"absent", "pending", "settled"}

Jobs ==
  [op : {"send"}, slot : Slots, to : Capsules]
    \cup [op : {"accept", "cancel"}, inv : Invitations]
    \cup [op : {"reject"}, inv : Invitations, reason : Reasons]

Genesis(c) ==
  IF c \in Relays
  THEN [k \in Slots |-> StarterCreated(c, LineageId(c, k, None), Kinds[k])]
  ELSE <<>>

Init ==
  /\ ledger = [c \in Capsules |-> Genesis(c)]
  /\ queue = [c \in Capsules |-> <<>>]
  /\ outbox = [c \in Capsules |-> [item \in Items |-> "absent"]]
  /\ net = {}
  /\ seen = [c \in Capsules |-> {}]
  /\ crashes = 0

-----------------------------------------------------------------------------
(* Decisions: what the screens and the intent handler check before queueing *)

MayDecide(c) == Len(queue[c]) < MaxQueue

Decide(c, job) ==
  /\ queue' = [queue EXCEPT ![c] = Append(@, job)]
  /\ UNCHANGED <<ledger, outbox, net, seen, crashes>>

\* The send dialog offers slots that are occupied and not locked.  An identical
\* send in flight is joined, but one that timed out is no longer in flight while
\* its job still waits, and one to another recipient never was.
DecideSend(c, slot, to) ==
  LET s == Layout(ledger[c], c)[slot] IN
  /\ MayDecide(c)
  /\ c \in Senders /\ to # c
  /\ s # None
  /\ s \notin LockedStarters(ledger[c], c)
  /\ Decide(c, [op |-> "send", slot |-> slot, to |-> to])

DecideAccept(c, i) ==
  /\ MayDecide(c)
  /\ IncomingPending(ledger[c], c, i)
  /\ Decide(c, [op |-> "accept", inv |-> i])

\* _rejectReasonForInvitation looks for any unoccupied slot.
DecideReject(c, i) ==
  /\ MayDecide(c)
  /\ IncomingPending(ledger[c], c, i)
  /\ Decide(c, [op |-> "reject", inv |-> i,
                reason |-> IF FirstFree(Layout(ledger[c], c)) # 0
                           THEN "EmptySlot" ELSE "Other"])

\* The screen offers to cancel what it shows as pending and outgoing.
DecideCancel(c, i) ==
  /\ MayDecide(c)
  /\ FindOutgoing(ledger[c], i) # None /\ Status(ledger[c], c, i) = "Pending"
  /\ Decide(c, [op |-> "cancel", inv |-> i])

-----------------------------------------------------------------------------
(* Workers: the FFI entry points, run on the journal as it is by then *)

Used == {i \in Invitations : \E c \in Capsules : FindOutgoing(ledger[c], i) # None}

\* The journal is stored first and the obligation recorded after: if the
\* process dies in between (noted = FALSE) the outbox does not know.
Commit(c, l, item, noted) ==
  /\ ledger' = [ledger EXCEPT ![c] = l]
  /\ outbox' = IF noted THEN [outbox EXCEPT ![c][item] = "pending"] ELSE outbox
  /\ UNCHANGED net

Pop(c) == queue' = [queue EXCEPT ![c] = IF @ = <<>> THEN @ ELSE Tail(@)]

Refused(c) == Pop(c) /\ UNCHANGED <<ledger, outbox, net, seen, crashes>>

\* The process dies: jobs and the seen set are gone.
Dies(c) ==
  /\ crashes < MaxCrashes
  /\ crashes' = crashes + 1
  /\ queue' = [queue EXCEPT ![c] = <<>>]
  /\ seen' = [seen EXCEPT ![c] = {}]

Outcome(c, l, item) ==
  \/ Commit(c, l, item, TRUE) /\ Pop(c) /\ UNCHANGED <<seen, crashes>>
  \/ Commit(c, l, item, FALSE) /\ Dies(c)

\* send_invitation_with_card_signature: whatever starter is in the slot now.
Send(c, i) ==
  /\ queue[c] # <<>> /\ Head(queue[c]).op = "send"
  /\ i \notin Used
  /\ LET job == Head(queue[c])
         s == Layout(ledger[c], c)[job.slot]
     IN  IF s = None THEN Refused(c)
         ELSE Outcome(c, Append(ledger[c], Offer("InvitationSent", c, i, s,
                                                 KindOf(ledger[c], c, s), job.to)),
                      <<"offer", i>>)

\* finalize_local_acceptance, after the InvitationAccepted row.
Finalized(accepted, c, i, offer, plan) ==
  AppendIfMissing(IF plan.created = None \/ IsActive(accepted, c, plan.created)
                  THEN accepted
                  ELSE Append(accepted, StarterCreated(c, plan.created, plan.createdKind)),
                  RelationshipEstablished(c, offer.signer, plan.starter, offer.starter,
                                          offer.kind, i))

\* hivra_accept_invitation.
Accept(c) ==
  /\ queue[c] # <<>> /\ Head(queue[c]).op = "accept"
  /\ \E i \in {Head(queue[c]).inv} :
     \E offer \in {FindIncoming(ledger[c], i)}, slots \in {Layout(ledger[c], c)} :
     \E kinds \in {ActiveKinds(ledger[c], c, slots)} :
     \E plan \in {AcceptPlan(ledger[c], c, i, offer, slots, kinds)} :
         IF IsResolved(ledger[c], i) \/ ~plan.ok THEN Refused(c)
         ELSE Outcome(c, Finalized(Append(ledger[c], InvitationAccepted(c, i, plan.starter)),
                                   c, i, offer, plan),
                      <<"terminal", i>>)

\* hivra_reject_invitation does not ask whether the invitation is resolved; a
\* repeated rejection is no append but still (re)enqueues the delivery.
Reject(c) ==
  /\ queue[c] # <<>> /\ Head(queue[c]).op = "reject"
  /\ LET job == Head(queue[c])
     IN  IF FirstOffer(ledger[c], job.inv) = None THEN Refused(c)
         ELSE Outcome(c, AppendIfMissing(ledger[c],
                           InvitationRejected(c, job.inv, job.reason)),
                      <<"terminal", job.inv>>)

\* hivra_expire_invitation.  Cancelling what is resolved by then succeeds, appends
\* nothing, and still (re)enqueues the delivery.
Expire(c) ==
  /\ queue[c] # <<>> /\ Head(queue[c]).op = "cancel"
  /\ LET i == Head(queue[c]).inv
         l == ledger[c]
         offer == FirstOffer(l, i)
     IN  IF ~IsResolved(l, i) /\ (offer = None \/ offer.type # "InvitationSent")
         THEN Refused(c)
         ELSE Outcome(c, IF IsResolved(l, i) THEN l ELSE Append(l, InvitationExpired(c, i)),
                      <<"terminal", i>>)

-----------------------------------------------------------------------------
(* Delivery *)

Message(from, to, e) == [from |-> from, to |-> to, event |-> e]
Messages == [from : Capsules, to : Capsules, event : Events]

\* pending_outgoing_invitation_deliveries_in_runtime, signed as InvitationReceived.
OfferMessages(c, i) ==
  LET offer == FindOutgoing(ledger[c], i) IN
  IF offer = None \/ IsResolved(ledger[c], i) THEN {}
  ELSE {Message(c, offer.to, [offer EXCEPT !.type = "InvitationReceived"])}

\* pending_outgoing_invitation_terminal_deliveries_in_runtime: the last local row
\* of each terminal kind, to the other side of the offer that precedes it.
TerminalMessages(c, i) ==
  LET l == ledger[c]
      lastOf(type) == SelectLastInSeq(l, LAMBDA e : e.type = type /\ e.signer = c /\ e.inv = i)
      peerIn == FindIncoming(l, i)
      peerOut == FindOutgoing(l, i)
  IN  {Message(c, peerIn.signer, l[lastOf(t)]) :
         t \in {t \in {"InvitationAccepted", "InvitationRejected"} :
                  lastOf(t) # 0 /\ peerIn # None}}
      \cup
      {Message(c, peerOut.to, l[lastOf(t)]) :
         t \in {t \in {"InvitationExpired"} : lastOf(t) # 0 /\ peerOut # None}}

\* One pump of one due item: a receipt for any of its messages settles it, as
\* does finding nothing left to deliver.
Publish(c, item) ==
  LET all == IF item[1] = "offer" THEN OfferMessages(c, item[2])
             ELSE TerminalMessages(c, item[2])
  IN
  /\ outbox[c][item] = "pending"
  /\ \E sent \in SUBSET all :
       /\ sent = {} => all = {}
       /\ net' = net \cup sent
       /\ seen' = [d \in Capsules |-> seen[d] \ sent]
  /\ outbox' = [outbox EXCEPT ![c][item] = "settled"]
  /\ UNCHANGED <<ledger, queue, crashes>>

\* _reconcileTerminalOutbox, before every fetch: terminals only.
Reconcile(c) ==
  LET missing == {i \in Invitations : /\ outbox[c][<<"terminal", i>>] = "absent"
                                      /\ HasLocalTerminal(ledger[c], c, i)}
  IN
  /\ missing # {}
  /\ outbox' = [outbox EXCEPT ![c] =
                  [item \in Items |-> IF item[1] = "terminal" /\ item[2] \in missing
                                      THEN "pending" ELSE @[item]]]
  /\ UNCHANGED <<ledger, queue, net, seen, crashes>>

\* Mutant: a revoke is skipped once the invitation is resolved.
BugRevokeSkippedWhenResolved(l, e) ==
  IF e.type = "InvitationReceived"
  THEN IsResolved(l, e.inv) \/ FindIncoming(l, e.inv) # None
  ELSE IsResolved(l, e.inv) \/ FirstOffer(l, e.inv) = None

\* should_skip_incoming_delivery_append_with_timestamp.
ShouldSkip(l, e) ==
  CASE e.type = "InvitationReceived" ->
         \/ IsResolved(l, e.inv)
         \/ \E k \in DOMAIN l : l[k].type = e.type /\ l[k].inv = e.inv /\ l[k].signer = e.signer
         \/ ReusesRejectedStarter(l, e.inv, e.starter, e.signer)
    [] e.type \in {"InvitationAccepted", "InvitationRejected"} ->
         IsResolved(l, e.inv) \/ FindOutgoing(l, e.inv) = None
    [] e.type = "InvitationExpired" ->
         \/ FindIncoming(l, e.inv) = None
         \/ FindIncoming(l, e.inv).signer # e.signer
         \/ e \in ToSet(l)

\* Mutant: own and peer starter swapped in the projected relationship.
BugStartersSwapped(l, c, e) ==
  LET offer == FindOutgoing(l, e.inv) IN
  IF e.type = "InvitationAccepted"
  THEN AppendIfMissing(l, RelationshipEstablished(c, e.signer, e.starter, offer.starter,
                                                  offer.kind, e.inv))
  ELSE l

\* Mutant: the burn goes by slot, not by the offered starter.
BugBurnsFirstSlot(l, c, e) ==
  LET s == Layout(l, c)[1] IN
  IF e.type = "InvitationRejected" /\ s # None THEN Append(l, StarterBurned(c, s)) ELSE l

\* project_relationship_from_invitation_accepted and
\* project_effects_from_invitation_rejected, of a known outgoing offer.
Effects(l, c, e) ==
  LET offer == FindOutgoing(l, e.inv) IN
  IF e.type = "InvitationAccepted"
  THEN AppendIfMissing(l, RelationshipEstablished(c, e.signer, offer.starter, e.starter,
                                                  offer.kind, e.inv))
  ELSE IF /\ e.type = "InvitationRejected" /\ e.reason = "EmptySlot"
          /\ IsActive(l, c, offer.starter)
  THEN Append(l, StarterBurned(c, offer.starter))
  ELSE l

\* route_inbound_envelope.  A skipped acceptance or rejection still has its
\* effects re-projected; without an outgoing offer that fails, and the message
\* is kept for a retry.
Deliver(c, m) ==
  LET l == ledger[c]
      e == m.event
      received == IF ShouldSkip(l, e) THEN l ELSE Append(l, e)
      projects == e.type \in {"InvitationAccepted", "InvitationRejected"}
      retry == projects /\ FindOutgoing(l, e.inv) = None
  IN
  /\ m \in net /\ m.to = c /\ m \notin seen[c]
  /\ ~retry
  /\ ledger' = [ledger EXCEPT ![c] = IF projects THEN Effects(received, c, e) ELSE received]
  /\ seen' = [seen EXCEPT ![c] = @ \cup {m}]
  /\ UNCHANGED <<queue, outbox, net, crashes>>

Restart(c) ==
  /\ Dies(c)
  /\ UNCHANGED <<ledger, outbox, net>>

Next ==
  \E c \in Capsules :
    \/ \E slot \in Slots, to \in Capsules : DecideSend(c, slot, to)
    \/ \E i \in Invitations : \/ DecideAccept(c, i)
                              \/ DecideReject(c, i)
                              \/ DecideCancel(c, i)
                              \/ Send(c, i)
    \/ Accept(c)
    \/ Reject(c)
    \/ Expire(c)
    \/ \E item \in Items : Publish(c, item)
    \/ Reconcile(c)
    \/ \E m \in net : Deliver(c, m)
    \/ Restart(c)

\* The work the host does unasked: it reconciles before a fetch, pumps the
\* outbox until a relay answers, and fetches what relays hold.
Background(c) ==
  \/ Reconcile(c)
  \/ \E item \in Items : Publish(c, item)
  \/ \E m \in net : Deliver(c, m)

\* Users need not do anything, and no order among background work is assumed.
Fairness == \A c \in Capsules : WF_vars(Background(c))

Spec == Init /\ [][Next]_vars
FairSpec == Spec /\ Fairness

-----------------------------------------------------------------------------
(* The two sides of an invitation *)

\* What the side that holds an offer of this type shows of i, L being all journals.
SideStatus(L, i, type) ==
  LET side == {c \in Capsules : \E k \in DOMAIN L[c] :
                 L[c][k].type = type /\ L[c][k].inv = i}
      c == CHOOSE c \in side : TRUE
  IN  IF side = {} THEN "Unknown" ELSE Status(L[c], c, i)

Protocol ==
  INSTANCE InvitationProtocol WITH
    sender    <- [i \in Invitations |-> SideStatus(ledger, i, "InvitationSent")],
    recipient <- [i \in Invitations |-> SideStatus(ledger, i, "InvitationReceived")]

-----------------------------------------------------------------------------
(* Properties *)

\* Through queued decisions that are stale when they run, crashes, restarts and
\* messages late, repeated and out of order, each side's status of an invitation
\* only ever moves as the protocol allows, on what the other side shows by then.
ImplementsProtocol == Protocol!Spec

\* Journals, queues, obligations and messages are well formed: no journal holds
\* and no message carries an event that names no starter, kind or capsule.
TypeOK ==
  /\ ledger \in [Capsules -> Seq(Events)]
  /\ queue \in [Capsules -> Seq(Jobs)]
  /\ outbox \in [Capsules -> [Items -> OutboxStatus]]
  /\ net \subseteq Messages
  /\ seen \in [Capsules -> SUBSET net]
  /\ crashes \in 0..MaxCrashes

Outgoing(c) == {i \in Invitations : FindOutgoing(ledger[c], i) # None}

\* A sender believes an invitation accepted only if its recipient does, for
\* good: no late revoke, rejection or replay splits the two journals that way
\* (route_inbound_envelope against hivra_expire_invitation).
AcceptanceAgreed ==
  \A c \in Capsules : \A i \in Outgoing(c) :
    LET d == FindOutgoing(ledger[c], i).to IN
    Status(ledger[c], c, i) = "InvitationAccepted"
      => Status(ledger[d], d, i) = "InvitationAccepted"

\* A relationship that counts on the inviting side counts on the other side too,
\* with the two starters swapped and the same kind, whatever was redelivered.
RelationshipMirrored ==
  \A c \in Capsules : \A r \in EstablishedRows(ledger[c], c) :
    r.inv \in Outgoing(c) =>
      RelationshipEstablished(r.peer, c, r.peerStarter, r.starter, r.kind, r.inv)
        \in EstablishedRows(ledger[r.peer], r.peer)

PendingStarters(c) ==
  {FindOutgoing(ledger[c], i).starter :
     i \in {i \in Outgoing(c) : Status(ledger[c], c, i) = "Pending"}}

\* Two projections that read the journal differently agree: the locks of slot.rs
\* (any terminal row releases) are the starters of the invitations that
\* invitation.rs reports as pending (only valid terminals resolve), as long as
\* these are no more than the lock array has room for.
LocksMatchPending ==
  \A c \in Capsules :
    /\ LockedStarters(ledger[c], c) \subseteq PendingStarters(c)
    /\ Cardinality(PendingStarters(c)) <= NumSlots
         => LockedStarters(ledger[c], c) = PendingStarters(c)

\* docs/specification.md 8.1: a starter in a pending invitation "cannot be used in
\* other invitations", so every one is locked.
PendingIsLocked ==
  \A c \in Capsules : PendingStarters(c) \subseteq LockedStarters(ledger[c], c)

Burned(c) == {ledger[c][k].starter : k \in {k \in DOMAIN ledger[c] :
                                             ledger[c][k].type = "StarterBurned"}}
Created(c) == {ledger[c][k].starter : k \in {k \in DOMAIN ledger[c] :
                                              ledger[c][k].type = "StarterCreated"}}

\* Every starter a capsule created and neither burned nor lost to a revoke has a
\* slot (slots shift when a revoke is projected, yet none overflows), and the
\* others have none: a burned starter never comes back.
StartersAccounted ==
  \A c \in Capsules :
    ToSet(Layout(ledger[c], c)) \ {None}
      = Created(c) \ (Burned(c) \cup RevokedStarters(ledger[c]))

\* d's journal had the offer of i and a free slot when it was n rows long.
AskedWithRoom(l, d, i, n) ==
  LET before == SubSeq(l, 1, n) IN
  FindIncoming(before, i) # None /\ FirstFree(Layout(before, d)) # 0

\* The rows of l with which its owner d rejected i for want of a starter.
EmptySlotRejections(l, d, i) ==
  {k \in DOMAIN l : l[k] = InvitationRejected(d, i, "EmptySlot")}

\* A starter burns only because a recipient it was offered to rejected that very
\* offer, having had a free slot between receiving and rejecting it: the reason
\* is decided before the job is queued, and slots fill in between.
BurnIsEarned ==
  \A c \in Capsules : \A s \in Burned(c) : \E i \in Outgoing(c) :
    LET offer == FindOutgoing(ledger[c], i)
        l == ledger[offer.to]
    IN  /\ offer.starter = s
        /\ \E k \in EmptySlotRejections(l, offer.to, i) :
             \E n \in 0..(k - 1) : AskedWithRoom(l, offer.to, i, n)

\* docs/specification.md: "Recipient has no starter of the invited type and has an
\* empty slot."  Both held at some time between the recipient's receiving and
\* rejecting the offer.
BurnKeepsToRule ==
  \A c \in Capsules : \A s \in Burned(c) : \E i \in Outgoing(c) :
    LET offer == FindOutgoing(ledger[c], i)
        l == ledger[offer.to]
        held(n) == LET before == SubSeq(l, 1, n)
                   IN  ToSet(ActiveKinds(before, offer.to, Layout(before, offer.to)))
    IN  /\ offer.starter = s
        /\ \E k \in EmptySlotRejections(l, offer.to, i) :
             \E n \in 0..(k - 1) :
               AskedWithRoom(l, offer.to, i, n) /\ offer.kind \notin held(n)

\* A recipient's answer reaches the sender: through a crash before the outbox
\* knew of it, restarts on both sides and repeated delivery, the sender's
\* invitation does not stay pending (and its starter locked) for ever.
AnswerReachesSender ==
  \A d \in Capsules, i \in Invitations :
    (\E k \in DOMAIN ledger[d] :
       /\ ledger[d][k].type \in {"InvitationAccepted", "InvitationRejected"}
       /\ ledger[d][k].inv = i /\ ledger[d][k].signer = d)
      ~> \E c \in Capsules : i \in Outgoing(c) /\ Status(ledger[c], c, i) # "Pending"

\* A revoke that is on its way to a recipient who already holds the offer ends
\* with the invitation not accepted there, acceptance first or not.
RevokeReachesRecipient ==
  \A c \in Senders, i \in Invitations : \A d \in Capsules \ {c} :
    LET m == Message(c, d, InvitationExpired(c, i)) IN
    (m \in net /\ m \notin seen[d] /\ FindIncoming(ledger[d], i) # None)
      ~> Status(ledger[d], d, i) \in {"InvitationExpired", "InvitationRejected"}

\* docs/specification.md 8.1.3: later terminal events "are ignored for state and
\* effects": a starter is burned only for an invitation that ended rejected.
LateTerminalHasNoEffect ==
  \A c \in Capsules : \A s \in Burned(c) : \E i \in Outgoing(c) :
    /\ FindOutgoing(ledger[c], i).starter = s
    /\ Status(ledger[c], c, i) = "InvitationRejected"

\* docs/specification.md 8.1.3: after a revoke the lineage-created starter "MUST
\* NOT occupy an active starter slot".
RevokeRetiresCreatedStarter ==
  \A c \in Capsules, i \in Invitations :
    Status(ledger[c], c, i) = "InvitationExpired"
      => \A s \in ToSet(Layout(ledger[c], c)) \ {None} : s.inv # i

\* docs/specification.md 8.1: a starter in a pending invitation "cannot be used in
\* other invitations".
LockedStarterNotReused ==
  \A c \in Capsules : \A i, j \in Outgoing(c) :
    /\ Status(ledger[c], c, i) = "Pending"
    /\ Status(ledger[c], c, j) = "Pending"
    /\ FindOutgoing(ledger[c], i).starter = FindOutgoing(ledger[c], j).starter
    => i = j
=============================================================================
