------------------------------ MODULE Capsule ------------------------------
(***************************************************************************)
(* What one capsule's journal means: the projections of core/hivra-core    *)
(* (invitation.rs, slot.rs, relationship.rs) and the lookups by which      *)
(* platform/hivra-ffi (invitation_support.rs) guards appends.  A journal   *)
(* is a sequence of events; these operators are pure functions of it.      *)
(*                                                                         *)
(* A capsule stands for its root key and its transport key.  A starter id  *)
(* is what it is derived from: owner, slot and, for a starter created by   *)
(* accepting an invitation, that invitation (derive_starter_id_lineage).   *)
(***************************************************************************)
EXTENDS Integers, Sequences, FiniteSets, SequencesExt

CONSTANTS
  Capsules,
  Invitations,   \* invitation ids; each is drawn at random once
  Kinds,         \* the starter kinds, in the order first_missing_kind tries them
  NumSlots,      \* slots of a capsule (5 in the code)
  None

ASSUME CapsuleAssumption ==
  /\ IsFiniteSet(Capsules) /\ IsFiniteSet(Invitations)
  /\ NumSlots \in Nat \ {0}
  /\ Kinds \in Seq(ToSet(Kinds)) /\ Len(Kinds) > 0
  /\ None \notin Capsules \cup Invitations \cup ToSet(Kinds)

Slots == 1..NumSlots
StarterIds == [owner : Capsules, slot : Slots, inv : Invitations \cup {None}]

ASSUME NoneIsNoStarter == None \notin StarterIds

-----------------------------------------------------------------------------
(* Events *)

StarterCreated(c, s, k) ==
  [type |-> "StarterCreated", signer |-> c, starter |-> s, kind |-> k]
StarterBurned(c, s) == [type |-> "StarterBurned", signer |-> c, starter |-> s]
Offer(type, c, i, s, k, to) ==
  [type |-> type, signer |-> c, inv |-> i, starter |-> s, kind |-> k, to |-> to]
InvitationAccepted(c, i, s) ==
  [type |-> "InvitationAccepted", signer |-> c, inv |-> i, starter |-> s]
InvitationRejected(c, i, reason) ==
  [type |-> "InvitationRejected", signer |-> c, inv |-> i, reason |-> reason]
\* Mutant: the arguments swapped.
BugExpiredSwapped(c, i) == [type |-> "InvitationExpired", signer |-> i, inv |-> c]

InvitationExpired(c, i) == [type |-> "InvitationExpired", signer |-> c, inv |-> i]
RelationshipEstablished(c, peer, own, theirs, k, i) ==
  [type |-> "RelationshipEstablished", signer |-> c, peer |-> peer, starter |-> own,
   peerStarter |-> theirs, kind |-> k, inv |-> i]

OfferTypes == {"InvitationSent", "InvitationReceived"}
TerminalTypes == {"InvitationAccepted", "InvitationRejected", "InvitationExpired"}
Reasons == {"EmptySlot", "Other"}

Events ==
  [type : {"StarterCreated"}, signer : Capsules, starter : StarterIds, kind : ToSet(Kinds)]
  \cup [type : {"StarterBurned"}, signer : Capsules, starter : StarterIds]
  \cup [type : OfferTypes, signer : Capsules, inv : Invitations, starter : StarterIds,
         kind : ToSet(Kinds), to : Capsules]
  \cup [type : {"InvitationAccepted"}, signer : Capsules, inv : Invitations,
         starter : StarterIds]
  \cup [type : {"InvitationRejected"}, signer : Capsules, inv : Invitations, reason : Reasons]
  \cup [type : {"InvitationExpired"}, signer : Capsules, inv : Invitations]
  \cup [type : {"RelationshipEstablished"}, signer : Capsules, peer : Capsules,
         starter : StarterIds, peerStarter : StarterIds, kind : ToSet(Kinds), inv : Invitations]

ASSUME NoneIsNoEvent == None \notin Events

IsTerminalOf(e, i) == e.type \in TerminalTypes /\ e.inv = i
IsOfferOf(e, i) == e.type \in OfferTypes /\ e.inv = i

\* The first of the rows at some positions of a journal.
FirstRow(l, at) == IF at = {} THEN None ELSE l[Min(at)]

-----------------------------------------------------------------------------
(* Invitations *)

\* invitations_with_status takes the first offer of an id; Sent is outgoing.
OffersOf(l, i) == {k \in DOMAIN l : IsOfferOf(l[k], i)}
FirstOffer(l, i) == FirstRow(l, OffersOf(l, i))

\* find_invitation_sent_in_runtime_with_direction.
FindOutgoing(l, i) ==
  FirstRow(l, {k \in DOMAIN l : l[k].type = "InvitationSent" /\ l[k].inv = i})
FindIncoming(l, i) ==
  FirstRow(l, {k \in DOMAIN l : l[k].type = "InvitationReceived" /\ l[k].inv = i})

\* Where the terminals are that count.  An expiry counts only when signed by
\* whoever made the offer (valid_expiry_signer: the owner if outgoing, the offer's
\* signer if incoming).  Terminals before the offer are orphans for ever.
ValidTerminals(l, c, i) ==
  LET at == Min(OffersOf(l, i))
      signer == IF l[at].type = "InvitationSent" THEN c ELSE l[at].signer
  IN  {k \in DOMAIN l :
         /\ IsTerminalOf(l[k], i)
         /\ OffersOf(l, i) # {} /\ at < k
         /\ l[k].type = "InvitationExpired" => l[k].signer = signer}

\* Mutant: the last valid terminal wins.
BugLastTerminalWins(l, c, i) ==
  LET valid == ValidTerminals(l, c, i) IN
  IF OffersOf(l, i) = {} THEN "Unknown"
  ELSE IF valid = {} THEN "Pending"
  ELSE l[Max(valid)].type

\* The first valid terminal wins, except that a sender's revoke supersedes the
\* recipient's acceptance.
Status(l, c, i) ==
  LET valid == ValidTerminals(l, c, i)
      revoked == \E k \in valid : l[k].type = "InvitationExpired"
      first == l[Min(valid)].type
  IN  IF OffersOf(l, i) = {} THEN "Unknown"
      ELSE IF valid = {} THEN "Pending"
      ELSE IF /\ first = "InvitationAccepted"
              /\ FirstOffer(l, i).type = "InvitationReceived"
              /\ revoked
      THEN "InvitationExpired"
      ELSE first

IncomingPending(l, c, i) == FindIncoming(l, i) # None /\ Status(l, c, i) = "Pending"

\* Mutant: only a sender's revoke counts as a local terminal.
BugOnlyRevokeIsLocal(l, c, i) ==
  \E k \in ValidTerminals(l, c, i) : l[k].signer = c /\ l[k].type = "InvitationExpired"

\* has_local_terminal: a terminal of this owner that its peer must learn of.
HasLocalTerminal(l, c, i) ==
  LET mine == IF FirstOffer(l, i).type = "InvitationReceived"
              THEN {"InvitationAccepted", "InvitationRejected"}
              ELSE {"InvitationExpired"}
  IN  \E k \in ValidTerminals(l, c, i) : l[k].signer = c /\ l[k].type \in mine

\* Mutant: an acceptance does not resolve.
BugAcceptedIsOpen(l, i) ==
  \E k \in DOMAIN l : IsTerminalOf(l[k], i) /\ l[k].type # "InvitationAccepted"

\* invitation_is_resolved_in_runtime: any terminal row, valid or not.
IsResolved(l, i) == \E k \in DOMAIN l : IsTerminalOf(l[k], i)

-----------------------------------------------------------------------------
(* Slots *)

\* revoked_created_starter_ids: the starters named by acceptances of
\* invitations whose sender revoked them.
RevokedStarters(l) ==
  LET revoked(i) == \E x, o \in DOMAIN l :
                      /\ l[x].type = "InvitationExpired" /\ l[x].inv = i
                      /\ l[o].type = "InvitationReceived" /\ l[o].inv = i
                      /\ l[o].signer = l[x].signer
  IN  {l[k].starter : k \in {k \in DOMAIN l : l[k].type = "InvitationAccepted"
                                              /\ revoked(l[k].inv)}}

FirstFree(slots) == SelectInSeq(slots, LAMBDA s : s = None)

PutStarter(slots, s) ==
  IF s \in ToSet(slots) \/ FirstFree(slots) = 0 THEN slots
  ELSE [slots EXCEPT ![FirstFree(slots)] = s]

\* Mutant: a burn leaves the slot as it was.
BugSlotNotFreed(slots, s) == slots

FreeStarter(slots, s) == [k \in DOMAIN slots |-> IF slots[k] = s THEN None ELSE slots[k]]

\* SlotLayout::from_ledger, one event: the slots, and the starters gone, which are
\* those revoked and those burned so far.
Projected(acc, e, c) ==
  IF e.type = "StarterBurned" /\ e.signer = c
  THEN [slots |-> FreeStarter(acc.slots, e.starter), gone |-> acc.gone \cup {e.starter}]
  ELSE IF e.type = "StarterCreated" /\ e.signer = c /\ e.starter \notin acc.gone
  THEN [slots |-> PutStarter(acc.slots, e.starter), gone |-> acc.gone]
  ELSE acc

NoSlots(gone) == [slots |-> [k \in Slots |-> None], gone |-> gone]

Replay(l, c, gone) ==
  LET after[n \in 0..Len(l)] ==
        IF n = 0 THEN NoSlots(gone) ELSE Projected(after[n - 1], l[n], c)
  IN  after

\* SlotLayout::from_ledger without the locks.
Layout(l, c) == Replay(l, c, RevokedStarters(l))[Len(l)].slots

IsActive(l, c, s) == s \in ToSet(Layout(l, c))

\* starter_kind_for_id: the owner's last creation of that id.
KindOf(l, c, s) ==
  LET k == SelectLastInSeq(l, LAMBDA e : /\ e.type = "StarterCreated"
                                         /\ e.signer = c /\ e.starter = s)
  IN  IF k = 0 THEN None ELSE l[k].kind

\* Mutant: a revoke does not release the starter.
BugRevokeKeepsLock(l, c) ==
  {l[k].starter : k \in {k \in DOMAIN l :
     /\ l[k].type = "InvitationSent" /\ l[k].signer = c
     /\ \A j \in (k + 1)..Len(l) :
          IsTerminalOf(l[j], l[k].inv) => l[j].type = "InvitationExpired"}}

\* locked_starter_ids: the starters of the owner's offers that no terminal row
\* of the same invitation follows, the first NumSlots of them.
LockedStarters(l, c) ==
  LET pending == {k \in DOMAIN l :
                    /\ l[k].type = "InvitationSent" /\ l[k].signer = c
                    /\ \A j \in (k + 1)..Len(l) : ~IsTerminalOf(l[j], l[k].inv)}
      before(k) == {l[j].starter : j \in {j \in pending : j < k}} \ {l[k].starter}
  IN  {l[k].starter : k \in {k \in pending : Cardinality(before(k)) < NumSlots}}

-----------------------------------------------------------------------------
(* Accepting *)

\* incoming_invitation_reuses_empty_slot_rejected_sender_starter.
ReusesRejectedStarter(l, i, s, sender) ==
  \E r, o \in DOMAIN l :
    /\ l[r].type = "InvitationRejected" /\ l[r].reason = "EmptySlot" /\ l[r].inv # i
    /\ l[o].type = "InvitationReceived" /\ l[o].inv = l[r].inv
    /\ l[o].starter = s /\ l[o].signer = sender

LineageId(c, slot, i) == [owner |-> c, slot |-> slot, inv |-> i]

NoPlan == [ok |-> FALSE, starter |-> None, created |-> None, createdKind |-> None]

ActiveKinds(l, c, slots) ==
  [k \in Slots |-> IF slots[k] = None THEN None ELSE KindOf(l, c, slots[k])]

FirstMissingKind(kinds) == SelectInSeq(Kinds, LAMBDA k : k \notin ToSet(kinds))

\* plan_accept_for_kind: use a starter of the invited kind if there is one (and
\* fill a free slot with a missing kind), else create one, else refuse.
PlanAcceptForKind(slots, kinds, kind) ==
  LET match == SelectInSeq(kinds, LAMBDA k : k = kind)
      free == FirstFree(slots)
      missing == FirstMissingKind(kinds)
  IN  IF match # 0 /\ (free = 0 \/ missing = 0)
      THEN [use |-> match, fill |-> 0, fillKind |-> None]
      ELSE [use |-> match, fill |-> free,
            fillKind |-> IF match # 0 THEN Kinds[missing] ELSE kind]

\* resolve_local_acceptance_plan, for the planned slots.
Acceptance(c, i, slots, plan) ==
  LET new == LineageId(c, plan.fill, i) IN
  IF plan.use = 0 /\ plan.fill = 0 THEN NoPlan
  ELSE [ok |-> TRUE,
        starter     |-> IF plan.use # 0 THEN slots[plan.use] ELSE new,
        created     |-> IF plan.fill # 0 THEN new ELSE None,
        createdKind |-> plan.fillKind]

AcceptPlan(l, c, i, offer, slots, kinds) ==
  IF offer = None \/ ReusesRejectedStarter(l, i, offer.starter, offer.signer)
  THEN NoPlan
  ELSE Acceptance(c, i, slots, PlanAcceptForKind(slots, kinds, offer.kind))

\* append unless an event with the same kind and payload exists.
AppendIfMissing(l, e) ==
  IF \E k \in DOMAIN l : [l[k] EXCEPT !.signer = e.signer] = e THEN l ELSE Append(l, e)

-----------------------------------------------------------------------------
(* Relationships *)

\* The rows relationship_current_view_v1 projects, before any break: all but those
\* of an invitation that ended rejected or expired.  (Of several rows with one peer
\* and own starter the view then shows the last.)
EstablishedRows(l, c) ==
  {l[k] : k \in {k \in DOMAIN l :
     /\ l[k].type = "RelationshipEstablished"
     /\ Status(l, c, l[k].inv) \notin {"InvitationRejected", "InvitationExpired"}}}
=============================================================================
