------------------------- MODULE RelationshipBreak -------------------------
(***************************************************************************)
(* Establishing, breaking and re-establishing one relationship between two *)
(* capsules: relationship_api.rs, the retry by event id and the routing of *)
(* an incoming RelationshipBroken in invitation_api.rs, the replay policy  *)
(* of invitation_support.rs and the current view of relationship.rs.       *)
(*                                                                         *)
(* Three readers of the same journal decide: the screen shows the current  *)
(* view, which compares timestamps and passes over an establishment whose  *)
(* invitation ended expired or rejected; the replay policy asks whether    *)
(* the key is active, which looks at positions only; the outbox pump asks  *)
(* which own break is still unconfirmed.                                   *)
(*                                                                         *)
(* A journal is reduced to the rows of the one relationship key: the two   *)
(* starters and transports are the same in every episode, each episode is  *)
(* an invitation accepted by its recipient.  Rows and envelopes carry the  *)
(* episode their signer broke, which the payloads do not.  What the reader *)
(* of relationships takes from the other rows is which invitations ended   *)
(* so, and what the clock takes from them is the stamp of the tail.        *)
(***************************************************************************)
EXTENDS Integers, Sequences

CONSTANTS
  Capsules,
  Peer,         \* the other one
  Offers,       \* bound: who makes the invitation of each episode
  Skew,         \* how far a capsule's clock is ahead when it starts
  Offsets,      \* and after a restart
  Elsewhere,    \* stamps of tails that are not rows of this relationship
  MaxBreaks,    \* bound: breaks and confirmations by users
  MaxEnds,      \* bound: invitations revoked or rejected late
  MaxFaults     \* bound: publications not acknowledged in time and processes
                \* that die, together

Episodes == DOMAIN Offers

ASSUME BreakAssumption ==
  /\ Peer \in [Capsules -> Capsules]
  /\ \A c \in Capsules : Peer[c] # c /\ Peer[Peer[c]] = c
  /\ Offers \in Seq(Capsules)
  /\ Skew \in [Capsules -> Nat] /\ Offsets \subseteq Nat /\ Elsewhere \subseteq Nat
  /\ \A n \in {MaxBreaks, MaxEnds, MaxFaults} : n \in Nat

VARIABLES
  now,       \* one more at each event signed
  ahead,     \* ahead[c]: how far c's clock is ahead of it
  floor,     \* LAST_ENGINE_TS_MS of c's process: its last stamp, or its tail's
  ledger,    \* ledger[c]: the rows of the relationship key
  ended,     \* ended[c]: the episodes whose invitation c's journal has as expired
             \* or rejected
  outbox,    \* outbox[c]: deliveries the host still owes
  net,       \* envelopes relays hold, offered again and again
  breaks, ends, faults, crashes

clocks == <<now, ahead, floor>>
counters == <<breaks, ends, faults, crashes>>
vars == <<clocks, ledger, ended, outbox, net, counters>>

Established(c, ep, ts) == [kind |-> "established", signer |-> c, ep |-> ep, ts |-> ts]
Broken(c, ep, ts) == [kind |-> "broken", signer |-> c, ep |-> ep, ts |-> ts]

OfferOf(c, ep) == [kind |-> "offer", from |-> c, ep |-> ep, ts |-> 0]
AcceptedBy(c, ep) == [kind |-> "accepted", from |-> c, ep |-> ep, ts |-> 0]
RevokedBy(c, ep) == [kind |-> "revoked", from |-> c, ep |-> ep, ts |-> 0]
BrokenBy(c, ep, ts) == [kind |-> "broken", from |-> c, ep |-> ep, ts |-> ts]

\* An obligation names the invitation accepted, or the row that broke.
Owed(kind, ref) == [kind |-> kind, ref |-> ref]

Init ==
  /\ now = 1 /\ ahead = Skew
  /\ floor = [c \in Capsules |-> 0]
  /\ ledger = [c \in Capsules |-> <<>>]
  /\ ended = [c \in Capsules |-> {}]
  /\ outbox = [c \in Capsules |-> {}]
  /\ net = {}
  /\ breaks = 0 /\ ends = 0 /\ faults = 0 /\ crashes = 0

-----------------------------------------------------------------------------
(* The clock *)

\* FfiTimeSource::now: the wall clock, or one more than the floor.
Stamp(c) ==
  IF now + ahead[c] > floor[c] THEN now + ahead[c] ELSE floor[c] + 1

Signs(c) ==
  /\ floor' = [floor EXCEPT ![c] = Stamp(c)]
  /\ now' = now + 1
  /\ UNCHANGED ahead

Dies == faults + crashes < MaxFaults /\ crashes' = crashes + 1

TailStamps(l) == IF l = <<>> THEN Elsewhere ELSE Elsewhere \cup {l[Len(l)].ts}

\* The floor does not outlive the process; the next one starts from the tail of
\* the journal it imports, whoever signed it, with the clock as set meanwhile.
Restart(c) ==
  /\ Dies
  /\ \E t \in TailStamps(ledger[c]) : floor' = [floor EXCEPT ![c] = t]
  /\ \E n \in Offsets : ahead' = [ahead EXCEPT ![c] = n]
  /\ UNCHANGED <<now, ledger, ended, outbox, net, breaks, ends, faults>>

\* The journal is imported again with a peer's row at the tail.
Imports(c, ts) ==
  \/ UNCHANGED floor
  \/ ts > floor[c] /\ floor' = [floor EXCEPT ![c] = ts]

-----------------------------------------------------------------------------
(* Reading the journal *)

RowsOf(l, kind) == {i \in DOMAIN l : l[i].kind = kind}
EpisodesOf(l) == {l[i].ep : i \in RowsOf(l, "established")}

Latest(rows) == {e \in rows : \A d \in rows : d <= e}

\* relationship_current_view_v1: an establishment of an ended invitation is
\* passed over, a break stamped before the one that stands does not count, and
\* the owner's own break is final.
Standing(l, gone) == {e \in RowsOf(l, "established") : l[e].ep \notin gone}
Counted(l, gone) ==
  {i \in RowsOf(l, "broken") :
     \A e \in Latest(Standing(l, gone)) : e < i /\ l[e].ts <= l[i].ts}
View(c, l, gone) ==
  LET signers == {l[i].signer : i \in Counted(l, gone)}
  IN  IF Standing(l, gone) = {} THEN "none"
      ELSE IF c \in signers THEN "broken"
      ELSE IF signers # {} THEN "pending_remote_break"
      ELSE "active"

Screen(c) == View(c, ledger[c], ended[c])

\* relationship_key_is_active_in_runtime
KeyIsActive(l) == l # <<>> /\ l[Len(l)].kind = "established"

\* pending_outgoing_relationship_break_deliveries_in_runtime: the owner's
\* latest break, unless an establishment or a break of the peer follows it.
BugPendingBreaks(c, l) ==
  {i \in RowsOf(l, "broken") :
     /\ l[i].signer = c
     /\ \E e \in RowsOf(l, "established") : e < i
     /\ \A j \in RowsOf(l, "broken") : j <= i}
PendingBreaks(c, l) ==
  {i \in RowsOf(l, "broken") :
     /\ l[i].signer = c
     /\ \E e \in RowsOf(l, "established") : e < i
     /\ i = Len(l)}

\* should_skip_incoming_delivery_append_with_timestamp
BugSkipsBreak(l, ts) == (\E i \in RowsOf(l, "broken") : ts <= l[i].ts) \/ ~KeyIsActive(l)
BugDedupesBreak(l, ts) == RowsOf(l, "broken") # {} \/ ~KeyIsActive(l)
SkipsBreak(l, ts) ==
  \/ \E i \in RowsOf(l, "broken") : ts <= l[i].ts
  \/ \E i \in RowsOf(l, "established") : ts < l[i].ts
  \/ ~KeyIsActive(l)

-----------------------------------------------------------------------------
(* Episodes *)

\* A capsule offers its starter again once its last offer is answered or revoked.
Offer(c, ep) ==
  /\ Offers[ep] = c
  /\ \A m \in net : m.kind = "offer" =>
       /\ m.ep < ep
       /\ m.from = c => m.ep \in EpisodesOf(ledger[c]) \cup ended[c]
  /\ net' = net \cup {OfferOf(c, ep)}
  /\ UNCHANGED <<clocks, ledger, ended, outbox, counters>>

\* append_relationship_established_if_missing
BugEstablish(c, ep) ==
  /\ ledger' = [ledger EXCEPT ![c] = Append(@, Established(c, ep, Stamp(c)))]
  /\ Signs(c)
Establish(c, ep) ==
  /\ ep \notin EpisodesOf(ledger[c])
  /\ ledger' = [ledger EXCEPT ![c] = Append(@, Established(c, ep, Stamp(c)))]
  /\ Signs(c)

\* The recipient's journal has the relationship at once (finalize_local_acceptance),
\* the acceptance is owed.
Accept(c, ep) ==
  /\ OfferOf(Peer[c], ep) \in net
  /\ ep \notin EpisodesOf(ledger[c]) \cup ended[c]
  /\ Establish(c, ep)
  /\ outbox' = [outbox EXCEPT ![c] = @ \cup {Owed("accepted", ep)}]
  /\ UNCHANGED <<ended, net, counters>>

\* project_relationship_from_invitation_accepted, also for an acceptance that is
\* skipped because the sender has revoked.
ReceiveAcceptance(c, ep) ==
  /\ AcceptedBy(Peer[c], ep) \in net
  /\ Establish(c, ep)
  /\ UNCHANGED <<ended, outbox, net, counters>>

\* hivra_expire_invitation: the sender's journal has the end at once.  The peer
\* gets it after the offer, or before and makes nothing of it.
Revoke(c, ep) ==
  /\ OfferOf(c, ep) \in net
  /\ ep \notin EpisodesOf(ledger[c]) \cup ended[c]
  /\ ends < MaxEnds /\ ends' = ends + 1
  /\ ended' = [ended EXCEPT ![c] = @ \cup {ep}]
  /\ \/ net' = net \cup {RevokedBy(c, ep)}
     \/ ep \notin EpisodesOf(ledger[Peer[c]]) /\ UNCHANGED net
  /\ UNCHANGED <<clocks, ledger, outbox, breaks, faults, crashes>>

\* The sender's revoke passes the replay policy even if the recipient has accepted.
ReceiveRevoke(c, ep) ==
  /\ RevokedBy(Peer[c], ep) \in net
  /\ ep \notin ended[c]
  /\ ended' = [ended EXCEPT ![c] = @ \cup {ep}]
  /\ UNCHANGED <<clocks, ledger, outbox, net, counters>>

\* A rejection decided before c accepted, executed after, and delivered before the
\* acceptance, which is projected all the same: c's own journal ignores it, the
\* sender's has the invitation as rejected.
RejectLate(c, ep) ==
  /\ Offers[ep] = Peer[c] /\ ep \in EpisodesOf(ledger[c])
  /\ ep \notin EpisodesOf(ledger[Peer[c]]) \cup ended[Peer[c]]
  /\ ends < MaxEnds /\ ends' = ends + 1
  /\ ended' = [ended EXCEPT ![Peer[c]] = @ \cup {ep}]
  /\ UNCHANGED <<clocks, ledger, outbox, net, breaks, faults, crashes>>

-----------------------------------------------------------------------------
(* Breaking *)

\* hivra_break_relationship_with_delivery_reference returns the row appended.
DeliveryReference(l) == Len(l) + 1

\* The user breaks, or confirms the peer's break, on a screen that may show an
\* earlier state; the entry point checks nothing.  The row is stored first and
\* the obligation recorded after, unless the process dies in between; its
\* successor finds the row at the tail.
Break(c, noted) ==
  /\ breaks < MaxBreaks /\ breaks' = breaks + 1
  /\ \E e \in Latest(RowsOf(ledger[c], "established")) :
       ledger' = [ledger EXCEPT ![c] = Append(@, Broken(c, @[e].ep, Stamp(c)))]
  /\ Signs(c)
  /\ \/ /\ noted
        /\ outbox' = [outbox EXCEPT ![c] =
                        @ \cup {Owed("broken", DeliveryReference(ledger[c]))}]
        /\ UNCHANGED crashes
     \/ /\ ~noted
        /\ Dies
        /\ UNCHANGED outbox
  /\ UNCHANGED <<ended, net, ends, faults>>

\* The obligation is settled, unless no relay acknowledged in time.
Settles(c, item) ==
  \/ outbox' = [outbox EXCEPT ![c] = @ \ {item}] /\ UNCHANGED faults
  \/ faults + crashes < MaxFaults /\ faults' = faults + 1 /\ UNCHANGED outbox

PublishAcceptance(c, ep) ==
  /\ Owed("accepted", ep) \in outbox[c]
  /\ net' = net \cup {AcceptedBy(c, ep)}
  /\ Settles(c, Owed("accepted", ep))
  /\ UNCHANGED <<clocks, ledger, ended, breaks, ends, crashes>>

\* retry_outgoing_relationship_break_by_event_id_over_transport signs the
\* peer's copy anew: its timestamp is that of the publication.
PublishBreak(c, i) ==
  /\ Owed("broken", i) \in outbox[c]
  /\ i \in PendingBreaks(c, ledger[c])
  /\ net' = net \cup {BrokenBy(c, ledger[c][i].ep, Stamp(c))}
  /\ Signs(c)
  /\ Settles(c, Owed("broken", i))
  /\ UNCHANGED <<ledger, ended, breaks, ends, crashes>>

\* A break superseded meanwhile is a successful no-op.
DropBreak(c, i) ==
  /\ Owed("broken", i) \in outbox[c]
  /\ i \notin PendingBreaks(c, ledger[c])
  /\ outbox' = [outbox EXCEPT ![c] = @ \ {Owed("broken", i)}]
  /\ UNCHANGED <<clocks, ledger, ended, net, counters>>

\* route_inbound_envelope: the row keeps the peer's signature and timestamp.
ReceiveBreak(c, m) ==
  /\ m.kind = "broken" /\ m.from = Peer[c]
  /\ ~SkipsBreak(ledger[c], m.ts)
  /\ ledger' = [ledger EXCEPT ![c] = Append(@, Broken(m.from, m.ep, m.ts))]
  /\ Imports(c, m.ts)
  /\ UNCHANGED <<now, ahead, ended, outbox, net, counters>>

Pump(c) ==
  \/ \E ep \in Episodes : PublishAcceptance(c, ep)
  \/ \E i \in DOMAIN ledger[c] : PublishBreak(c, i) \/ DropBreak(c, i)

Receive(c) ==
  \/ \E ep \in Episodes : ReceiveAcceptance(c, ep) \/ ReceiveRevoke(c, ep)
  \/ \E m \in net : ReceiveBreak(c, m)

User(c) ==
  \/ \E ep \in Episodes : Offer(c, ep) \/ Accept(c, ep) \/ Revoke(c, ep) \/ RejectLate(c, ep)
  \/ \E noted \in BOOLEAN : Break(c, noted)

Next == \E c \in Capsules : User(c) \/ Pump(c) \/ Receive(c) \/ Restart(c)

Spec == Init /\ [][Next]_vars

\* The pump retries while something is owed, and the passive receive polls.
LiveSpec == Spec /\ \A c \in Capsules : WF_vars(Pump(c)) /\ WF_vars(Receive(c))

-----------------------------------------------------------------------------
(* Properties *)

Rows ==
  [kind : {"established", "broken"}, signer : Capsules, ep : Episodes, ts : Nat]

Envelopes ==
  [kind : {"offer", "accepted", "revoked", "broken"}, from : Capsules, ep : Episodes, ts : Nat]

\* Rows, envelopes and obligations are well formed; an obligation names what it
\* delivers: an episode the journal has, or a break its owner signed.
TypeOK ==
  /\ now \in Nat /\ ahead \in [Capsules -> Nat] /\ floor \in [Capsules -> Nat]
  /\ ledger \in [Capsules -> Seq(Rows)]
  /\ ended \in [Capsules -> SUBSET Episodes]
  /\ net \subseteq Envelopes
  /\ \A c \in Capsules : \A item \in outbox[c] :
       \/ item.kind = "accepted" /\ item.ref \in EpisodesOf(ledger[c])
       \/ /\ item.kind = "broken" /\ item.ref \in RowsOf(ledger[c], "broken")
          /\ ledger[c][item.ref].signer = c
  /\ \A n \in {breaks, ends, faults, crashes} : n \in Nat

\* c's journal has an own break stamped before an establishment it follows: its
\* clock was set back, and its process died since.
DatedBack(c) ==
  LET l == ledger[c] IN
  \E e \in RowsOf(l, "established"), i \in RowsOf(l, "broken") :
    e < i /\ l[i].signer = c /\ l[i].ts < l[e].ts

LatestEnded(c) ==
  \E e \in Latest(RowsOf(ledger[c], "established")) : ledger[c][e].ep \in ended[c]

\* The replay policy, which reads positions, and the screen, which reads
\* timestamps and invitations: what the screen shows as active, the policy lets
\* a peer break, unless the owner's own clock was set back; what the policy
\* holds active, the screen shows so, unless its invitation ended.
ReadersAgree ==
  \A c \in Capsules :
    /\ Screen(c) = "active" => KeyIsActive(ledger[c]) \/ DatedBack(c)
    /\ KeyIsActive(ledger[c]) => Screen(c) = "active" \/ LatestEnded(c)

\* The pump retries a break only while its own capsule shows the relationship
\* as broken, or shows none because every invitation ended: one it has
\* re-established, or one a peer's break is pending on, is never broken by a
\* leftover obligation, unless the owner's clock was set back.
RetriesOnlyBroken ==
  \A c \in Capsules :
    PendingBreaks(c, ledger[c]) # {} => Screen(c) \in {"broken", "none"} \/ DatedBack(c)

\* A broken relationship comes back only with an invitation the journal has not
\* used before: a replayed acceptance does not reopen it, nor does the revoke of
\* a later one, unless the owner's clock was set back.
ReopensWithNewEpisode ==
  [][\A c \in Capsules :
       Screen(c) # "active" /\ Screen(c)' = "active"
         => EpisodesOf(ledger'[c]) # EpisodesOf(ledger[c]) \/ DatedBack(c)]_vars

\* c has broken the episodes its peer has too, with a row dated after all the
\* peer has, and owes the delivery.
BrokeShared(c) ==
  LET mine == ledger[c]
      theirs == ledger[Peer[c]]
  IN  /\ Screen(c) = "broken"
      /\ EpisodesOf(mine) = EpisodesOf(theirs)
      /\ \E i \in PendingBreaks(c, mine) :
           /\ Owed("broken", i) \in outbox[c]
           /\ \A j \in DOMAIN theirs : mine[i].ts > theirs[j].ts

\* The owner's break of a relationship it had broken already, which supersedes
\* the obligation of the first.
BrokeAgain(c) ==
  \E i \in PendingBreaks(c, ledger[c]) :
    ledger[c][i - 1].kind = "broken" /\ ledger[c][i - 1].signer = c

\* A break made when both journals had the same episodes is noticed by the peer,
\* or superseded at the breaker, unless the breaker's clock falls behind a row of
\* the peer, the peer's own clock was set back, or the process dies over a second
\* break before that is in the outbox.
BreakConverges ==
  \A c \in Capsules :
    BrokeShared(c) ~> \/ Screen(Peer[c]) # "active"
                      \/ PendingBreaks(c, ledger[c]) = {}
                      \/ \E j \in DOMAIN ledger[Peer[c]] : Stamp(c) <= ledger[Peer[c]][j].ts
                      \/ DatedBack(Peer[c])
                      \/ crashes > 0 /\ BrokeAgain(c)

\* docs/specification.md: "... MUST NOT project an active relationship": a revoked
\* invitation leaves nothing the replay policy takes for active.
RevokedIsNoRelationship ==
  \A c \in Capsules : KeyIsActive(ledger[c]) => ~LatestEnded(c)

\* docs/specification.md: "locally_broken": once the owner's break is the last
\* row, its own screen does not show the relationship as active.
LocallyBroken ==
  \A c \in Capsules : PendingBreaks(c, ledger[c]) # {} => Screen(c) # "active"

\* docs/specification.md: "A replay from an older episode MUST NOT break the
\* new episode."  A break delivered counts only for the episode its signer
\* broke, or for one the recipient has not had.
OldBreakHarmless ==
  \A c \in Capsules :
    Screen(c) = "pending_remote_break" =>
      LET l == ledger[c] IN
      \A i \in Counted(l, ended[c]), e \in Latest(Standing(l, ended[c])) :
        l[i].ep = l[e].ep \/ l[i].ep \notin EpisodesOf(l)

\* docs/checklists/manual-smoke.md: after a break from one side, "Verify peer
\* receives `RelationshipBroken`".
PeerReceivesBreak ==
  \A c \in Capsules :
    Screen(c) = "broken" ~> Screen(Peer[c]) # "active" \/ Screen(c) # "broken"

\* platform/hivra-ffi/src/invitation_support.rs: "Remote acknowledgement
\* converged the pair; no more retry is needed for the local break episode."
\* A break the peer has confirmed to its initiator is no longer pending there.
AcknowledgementCounts ==
  \A c \in Capsules :
    (\E i \in PendingBreaks(c, ledger[c]), m \in net :
       m.kind = "broken" /\ m.from = Peer[c] /\ m.ep = ledger[c][i].ep)
    ~> PendingBreaks(c, ledger[c]) = {}
=============================================================================
