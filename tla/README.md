# Hivra: specification and proofs

TLA+ models of the parts of Hivra that keep and exchange durable facts: the
journal of a capsule, the invitation exchange and the relationship between
capsules, the way in (relay cursors, quarantine, chat handoff, the coordinator of
receives), the way out (delivery outbox) and the attestation of a pair. Line
references are in `PROJECT.json` ("map").

## The system

A *capsule* is an identity with an append-only, signed journal. Everything shown
to the user is projected from that journal; capsules exchange signed events over
Nostr relays.

| component | code | state | operations | hard behaviour |
|---|---|---|---|---|
| journal | `core/hivra-core` `ledger.rs`, `ledger_v5.rs`, `event.rs`; `platform/hivra-ffi/src/runtime_support.rs` | events, v4 checksum, v5 anchor and receipts; native runtime (process-global), file of the host, clock floor | create, append local / remote, migrate v4→v5, export, import, restart | crashes between append and export; clocks set back; migration; verification that sees only part of a migrated journal |
| projections | `invitation.rs`, `slot.rs`, `relationship.rs` | none (functions of a journal) | status, slot layout, locks, accept plan, relationships | several readings of one journal must agree; effects of a later revoke on earlier rows |
| invitation entry points, ingress | `invitation_api.rs`, `invitation_support.rs`, `engine/hivra-engine` | the journal | send, accept, reject, expire, retry, route a received message | both sides commit before learning of the other; repeated, late and reordered delivery |
| host services | `flutter/lib/services/invitation_*`, `capsule_ffi_worker_queue.dart`, screens | job queue, timeouts | decide (on what the screen shows), run in a worker, store the journal, record the obligation | decisions executed on a later state; crash between two stores; timeouts that cancel nothing |
| delivery outbox, pump | `delivery_outbox_store.dart`, `capsule_delivery_lifecycle_service.dart` | one file of items; at most one pump | enqueue, reconcile, retry, record | unlocked load–write cycles; lost wake-up; crash; late publication |
| transport adapter | `adapters/hivra-transport`, `transport_cache.rs` | cursors and pending batch (transport object), seen set (process) | read, present again, resolve, replace | four memories of different durability; late and future-dated events |
| inbound quarantine | `inbound_quarantine.rs` | one snapshot file: records, tombstones, sender buckets, charges; its copy in memory | charge, retain, recover, end, expire, delete | failed writes, capacity, clocks set back, deletion during a receive |
| relationship | `relationship_api.rs`, `relationship_service.dart` | journal rows, the owed break | establish, break, confirm, retry, route | two clocks; three readers of one journal; replays of old episodes |
| chat | `chat_api.rs`, `capsule_chat_*` | handoff file, deferred inbox, timeline | route, drain, defer, acknowledge | several stores written one after the other; eviction; capsule switches |
| attestation, pair view | `consensus_attestation_*`, `pair.rs` | evidence store, response checkpoints, inbox (process) | sign, send, drain, verify, answer | evidence against a changing view; answers to answers; lost worker results |
| receive coordinator | `capsule_passive_receive_coordinator.dart`, `transport_health_policy_service.dart` | timers, the running receive, waiting requests | trigger, join, follow up, pause | coalescing of manual and automatic requests, cooldowns, switches |
| capsule persistence, keystore, plugins, AI, screens | `flutter/lib`, `platform/*` | files, OS stores | – | see "Not modelled" |

They interact so: a screen decides, the intent handler queues a job in the shared
FFI worker queue, a worker isolate bootstraps the native runtime from the stored
journal, calls one entry point, and returns the exported journal; the host stores it
and then writes an outbox item; the pump publishes the item; the peer's fetch routes
the message into its journal. What makes each component correct: a stored journal is
always acceptable to the next start and loses nothing; projections agree with each
other; the two journals of an invitation end agreeing; a committed answer is
delivered in the end and the outbox never claims what did not happen; what a receive
acknowledges is where a crash cannot lose it; every request to receive is answered; a
pair effect is let through only for a pair state both sides have had.

A receive goes through several of the modules: `ReceiveCoordinator` decides when it
runs, `Ingress` reads and resolves the batch, `Quarantine` admits, keeps and recovers
what cannot be routed, `Exchange` and `RelationshipBreak` say what routing does to the
journal, and `ChatHandoff` and `PairAttestation` what becomes of the envelopes that do
not belong there. Each of them abstracts the others to a choice, which is named in
its opening comment.

The hazards, each at its line with the properties that would catch it, are in
`PROJECT.json`.

## Modules

| module | what it is |
|---|---|
| `Ledger` | state machine of one capsule's journal: `runtime`, `disk`, `engineTs` |
| `MCLedger` | its instance for TLC |
| `LedgerProofs` | TLAPS proofs about `Ledger` |
| `Capsule` | operators: events of the invitation protocol and every projection of a journal |
| `Exchange` | EXTENDS `Capsule`; several capsules, their worker queues, outboxes, and relays |
| `MCExchange` | its instance for TLC |
| `InvitationProtocol` | abstract: what the two sides of an invitation show of it, without journals and messages |
| `ExchangeProofs` | that what two capsules' journals say of an invitation agrees, and that `Exchange` implements `InvitationProtocol` |
| `DeliveryOutbox` | the outbox file with worker, fetch and pump at the grain of single awaits |
| `MCDeliveryOutbox` | its instance for TLC |
| `DeliveryOutboxProofs` | TLAPS proofs about `DeliveryOutbox` |
| `QuarantineLifecycle` | abstract: what the quarantine promises of an envelope |
| `Quarantine` | the snapshot file and its copy in memory, sender policy, retries, bounds, clock |
| `QuarantineProofs` | that `Quarantine` implements `QuarantineLifecycle` and keeps its limits, rate and charges |
| `Ingress` | relays, adapter, quarantine, worker and host in one receive |
| `IngressProofs` | that what a receive will not read again is safe |
| `RelationshipBreak` | two capsules, two clocks, the episodes of one relationship |
| `RelationshipBreakProofs` | where the three readers of its journal agree, and where they may not |
| `ChatHandoff` | handoff, deferred inbox and timeline with the drain from await to await |
| `PairAttestation` | pair views, evidence, inboxes, stores and automatic answers of two capsules |
| `PairAttestationProofs` | that readiness is mutual, and answers are held back |
| `ReceiveRequests` | what the coordinator owes to a user who asks for a receive |
| `ReceiveCoordinator` | EXTENDS `ReceiveRequests`; timers, the coalescer, cooldowns and requests |
| `HostReceiveProofs` | that no drain of `ChatHandoff` loses a message, and that manual requests of `ReceiveCoordinator` poll |
| `MC...` | the instance of each for TLC |

Operators named `Bug...` are mutations of the definition that follows them. They are
used by no specification; each shows that a property notices such a mistake.

### Ledger

`runtime` is the ledger of `RuntimeState`, `disk` what the host stored last,
`engineTs` the static `LAST_ENGINE_TS_MS`. Actions: `CapsuleCreate`
(`hivra_capsule_create`, the whole `init_runtime_state`), `AppendLocal`
(`append_runtime_event`, `append_prepared_event`; a refused append has still used its
timestamp), `AppendRemote` / `AppendRemoteV4` (`append_verified_runtime_event` on a v5
and on a v4 journal, where it restamps), `Export`, `Bootstrap` (the worker's create
followed by `import_runtime_ledger`, with migration: two FFI calls made back to back, with
no export in between, so a crash between them is a `Restart` before the step), `Restart`. `LegacyCreate` stands
for the older release that wrote v4 journals.

Abstractions: a digest is the sequence of what was hashed (no collisions); a signature
is the signer field; the five starters a Relay capsule is born with are one append
of the same shape. The wall clock is any value at every reading, so clocks set back,
within and across processes, are included. `VerifyV5` keeps the code's duplicate scan
as it is: behind a legacy prefix `events[..index]` ends before the v5 part.

### Capsule and Exchange

A journal is a sequence of events without timestamps (status and slots depend on
order only). A capsule stands for both its root and its transport key; a starter id is
what it is derived from (owner, slot, invitation). `Status` is "first valid terminal
wins", with the revoke that supersedes an acceptance; `IsResolved` is the FFI's other
reading, "any terminal row". `Layout` replays the journal row by row as
`SlotLayout::from_ledger` does: `Replay` is the function from the number of rows read to
the slots and the starters gone, those of revoked acceptances being gone from the start.
`EstablishedRows` are the relationships that count; breaks are left out.

`Exchange` has per capsule a stored `ledger`, a `queue` of decided jobs, an `outbox`,
and a `seen` set; `net` is what relays hold. Actions: `DecideSend/Accept/Reject/Cancel`
(what the screen and the intent handler check), `Send`, `Accept`, `Reject`, `Expire`
(the entry points, on the journal as it is when the job runs), each followed by storing
the journal and then the outbox item, or by a crash in between; `Publish` (one pump of
one item; any non-empty part of its messages may go through), `Reconcile`
(`_reconcileTerminalOutbox`), `Deliver` (`route_inbound_envelope` with
`should_skip_incoming_delivery_append` and the projected effects), `Restart`. One
worker run is one step because the worker queue is global and a worker starts from the
stored journal. Relays keep messages; a message is delivered again after a restart and
after each publication.

`AppendIfMissing` compares kind and payload, not the signer (`event_exists_in_runtime`).

`InvitationProtocol` forgets all of this but the status each side shows, and says on
which status of the other side a change rests: an offer is received only when it was
made, an acceptance learned only while the recipient holds to it, a revoke only when
the sender shows the invitation expired. In `Exchange` a side's status is `Status` in
the journal that holds the InvitationSent or the InvitationReceived row
(`SideStatus`), and `ImplementsProtocol` is the refinement. Its two loose ends are the
code's: a sender may show rejected while the recipient shows accepted, because
`hivra_reject_invitation` does not ask whether the invitation is resolved and a
rejection appended late is sent to a sender who may hear it first; and a revoke
overrides an acceptance on the recipient's side only.

### DeliveryOutbox

`Exchange` treats an outbox change as atomic; `DeliveryOutbox` shows what happens when
it is not. Every load and every write of the file is a step, worker, fetch and pump
interleave between them, and the process may die anywhere (file writes are atomic
renames). `facts` and `resolved` are what the journal says, `relay` what a relay
accepted. Attempt counters and times are left out: which pending items are due is a
choice. A retry whose call timed out may still publish.

### QuarantineLifecycle and Quarantine

`disk` is the snapshot file, `call` the receive in progress with its copy of the
snapshot. The steps follow `hivra_transport_receive`: `Open`, `ExpireDue` or
`ExpireFails`, recovery of at most one due record (`RecoverConsumed`, `RecoverRetry`,
`RecoverFails`, `NothingEligible`), then per fetched envelope the sender policy
(`ApplySenderPolicy`, `PolicyUnwritten`) and its end (`ItemConsumed`, `ItemRetained`),
and `Return`. Every change is made in memory first and then written; a write that
fails leaves memory ahead of the file for the rest of the call. `Persist` does not ask
`Valid`, although `persist` begins with `validate_snapshot`: a snapshot that the code
would refuse is to be seen by `NeverCorrupt` and not to be hidden by the refusal.
The clock can be set back between receives; `ran`, `granted`, `charged` and `ended` are
history that only properties read. `QuarantineLifecycle` forgets time, capacity, memory
and senders: an envelope that is held leaves only by being done, and one that is done
is not held again while its evidence is kept.

### Ingress

`stored` and `stamp` are what relays hold and how it is dated; `seen` lives as long as
the process, `cursor` and `pending` as long as the transport object, `call.mem` as long
as the call; `journal`, `held`, `done` and the chat part of `handed` survive a crash.
Actions: `Read` (cursor, lookback, overlap, query end, fetch limit; any relays may
fail), `Represent`, one item of the batch (`SkipItem`, `ConsumeItem`, `QuarantineItem`,
`RetryItem`), `Resolve`, `ResolveFails`, `HostStores` or `ReceiveFails`, `Recover`,
`Expire`, `ReplaceTransport`, `Drain`, `Crash`.
Which envelopes a quarantine admits, delays or expires is a choice.

`SkippedIsDurable` has two halves. What is in the seen set is safe, whatever the clocks.
What lies before a relay's cursor is safe under three conditions, each a constant of
the code: it is not older than the lookback (`Lookback`), the relay does not store more
than one query returns (`FetchLimit`), and its sender's clock is behind by no more than
the overlap (`Behind <= 1`). `PassedIsDurable` is the second half without the last
condition.

### RelationshipBreak

`ledger[c]` has the rows of one relationship key, `ended[c]` the episodes whose
invitation c's journal has as expired or rejected, `outbox[c]` what is owed, `net` what
relays offer again and again.

The clock is that of the code. `now` grows with each event signed and `ahead[c]` is added
to it; `floor[c]` is `LAST_ENGINE_TS_MS`, which a stamp exceeds (`Stamp`, `Signs`). It
lives as long as the process: after `Restart` it is the stamp of the tail of the journal
imported, which may be a peer's row or one of another relationship (`Elsewhere`), and the
wall clock may have been set meanwhile (`Offsets`). Routing a peer's row may import it
too (`Imports`). So an owner's row can be stamped before an earlier one.

Actions: `Offer`, `Accept`, `ReceiveAcceptance`, `Revoke` and `ReceiveRevoke` (the
sender's revoke, which passes the recipient's replay policy after an acceptance too),
`RejectLate` (a rejection decided before the acceptance and appended after it, which the
sender hears first), `Break` (also the confirmation; the process may die before the
obligation is noted), `PublishAcceptance`, `PublishBreak` (signed anew, `DropBreak` if
superseded), `ReceiveBreak`, `Restart`. `View` is the screen's reading: timestamps, and
establishments of ended invitations passed over (`Standing`). `KeyIsActive` is the replay
policy's and `PendingBreaks` the pump's: positions only, and no look at invitations.
`ReadersAgree` and `RetriesOnlyBroken` say where these readings agree and where they do
not: `LatestEnded` is the case in which the policy and the pump still hold a relationship
the screen does not show, `DatedBack` the case in which an own break is stamped before the
establishment it follows and the screen alone disregards it. Rows carry the episode their
signer broke, which the code's payloads do not; only properties read it of a break.

### ChatHandoff

Messages are numbers in the order of their senders' stamps. `Receive` is
`persist_chat_handoff`; a drain is one step per await: `Trigger`, `Begin` (the local
root), `List` (the bootstrap and the worker), `LoadDeferred`, `Judge`, `Merge`,
`ReplaceDeferred`, `Ack` (refused as a whole when the list of ids is longer than the
handoff may be); it may fail, and the process may die, between any two. The
user may switch the active capsule, which `Begin`, `List` and `Judge` each read.
`consumed` and `rejected` are history: a message leaves the stores only by policy or by
a bound.

### PairAttestation

Evidence is its signer and a snapshot (the set of facts of the pair view). `store`
and `checkpoint` are the files, `sent` and `wire` what relays hold and what a process
has not seen of it, `inbox` the native queue, `batch` what a worker has drained and the
host not yet stored, `ensure` the phase of `ensureForPeer`, `accepted` and `responding`
the automatic answers on their way. A change of a view (`Kinds`) is an establishment, a
break, a peer's break, which may be an old one dated anew, or an invitation made or
ended. A fault is one of a crash, a restored backup, a refused send, a lost worker result,
a switch on a device with several capsules (`Several`) and a user who gives up. `held` and
`answered` are history.

### ReceiveCoordinator

`op[c]` is the running receive of a capsule with those who wait for it, `pending[c]` the
manual requests that wait for the next. Delays are choices: a timer may fire and a
cooldown (`recent`, `cooling`) may be over at any time. A manual request that joins a
manual receive past its poll is answered by that poll, as in the code.

## Runs

| run | checks | instance |
|---|---|---|
| `ledger` | `TypeOK`, `AlwaysImportable`, `NoFactTwice`, `HeadIdentifiesHistory`, `StoredHistoryOnlyGrows` | 2 facts, 1 peer, 4 events, timestamps 0..3 |
| `exchange` | `TypeOK`, `AcceptanceAgreed`, `RelationshipMirrored`, `LocksMatchPending`, `StartersAccounted`, `BurnIsEarned` | 2 capsules, 2 invitations (symmetric), 2 slots, 1 queued job, no crash |
| `exchange_live` | `ImplementsProtocol`, `AnswerReachesSender`, `RevokeReachesRecipient` | 1 invitation, 1 slot, both capsules full, 2 queued jobs, 2 crashes |
| `outbox` | `EvidenceIsReal`, `TerminalReachesRelay` | 1 terminal, 1 other item, 1 crash |
| `quarantine` | `TypeOK`, `NeverCorrupt`, `RateBound`, `ChargedOnce`, `NoReadmission`, `ImplementsLifecycle` | 3 envelopes of 2 senders, 2 records, 1 per sender, burst 1, refill 2, clock 0..4 |
| `ingress` | `TypeOK`, `SkippedIsDurable`, `RecoveredIsStored`, `EventuallyHandled` | 2 relays, a ledger event and an attestation, clocks 1 off either way, clock 0..2, 1 fault (a crash is one) |
| `relationship_break` | `ReadersAgree`, `RetriesOnlyBroken`, `ReopensWithNewEpisode`, `BreakConverges` | 2 episodes offered by one capsule, its clock 3 ahead and set right at a restart, 2 breaks, 1 invitation that ends, 1 lost acknowledgement or crash |
| `chat` | `TypeOK`, `NothingLost`, `StaysConsumed`, `EventuallyProjected` | 2 capsules, 2 messages for one of them, capacities 1, 1, 1, 2, one each of replay, switch under a drain, change and fault |
| `coordinator` | `ManualIsPolled`, `EveryRequestAnswered`, `PollsInForeground` | 2 capsules, 2 requests |
| `pair_attestation` | `OneAnswerPerWindow`, `ReadyIsMutual` | 2 facts (symmetric), one of them known to one journal or both, 1 asker, who may switch, 1 change of relationships, 1 fault of any kind |
| `pair_attestation_live` | `AskerBecomesReady` | 1 fact, 1 asker, 1 change (establishment, break, invitation), 1 fault |
| `late_terminal` | violates `LateTerminalHasNoEffect` | 1 invitation |

Why the bounds are enough to be interesting:

* `ledger`: birth plus three events leave room for a v4 prefix of two and v5 events
  behind it; four timestamps allow a clock set back behind a remote timestamp. The
  properties are proved for all values.
* `exchange`: two invitations of one sender are what slot reuse, two locks, the extra
  starter of an acceptance and a burn followed by another offer need. The recipient is
  born empty, so it creates starters. Crashes are left to `exchange_live`, where
  redelivery and two racing jobs (accept and reject, or two cancels) are explored with
  one invitation. Only `a` sends; `Senders` can be widened where time allows.
* `outbox`: a write replaces the whole file, so any overwriting shows with two items.
* `quarantine`: three envelopes fill the two records and one sender's share; a clock of
  five values passes payload retention, retry delay and charge retention, each set to
  1 or 2. The limits on bytes are refusals like those on counts.
* `ingress`: two relays and two envelopes are what a batch needs that is complete for
  one of the relays only, and three clock values a cursor that moves while a stamp lies
  before or behind it. The seen set holds both envelopes: that it is cleared when it is
  full only brings envelopes again, which `exchange` explores for every message.
* `relationship_break`: a second episode is what a replay of the first needs, a second
  break the confirmation of the first; a clock three ahead orders any two events the
  other way round, and set right at a restart over an older tail it stamps rows before
  those already in the journal. One invitation that ends is what tells the readers apart,
  while the other may stand. The safety properties are proved for all values.
* `chat`: with two messages every store but the timeline overflows: one is evicted from
  the handoff, a tombstone window of one forgets, a deferred inbox of one drops. The
  policy that drops a stranger's message is one more way to be rejected; the instance
  has no stranger.
* `coordinator`: the second request is what joins or follows the first.
* `pair_attestation`: with two facts one journal may know more than the other; the
  liveness of the asker needs one fact only, and the faults that do not end its asking.
  A pending invitation and a peer's break block a view alike, and with one change for
  good, so each run has one of the two.
  Safety is proved for all values.

`exchange`, `exchange_live` and `late_terminal` may stop: invitation ids are bounded,
and a system without users' actions rests. Nor is deadlock checked for
`relationship_break` and `pair_attestation`, whose users may have nothing left to do
within the bounds. It is for the others.

The passing runs check the code's behaviour under all interleavings the model has. Their
safety properties are proved for all values of the constants (see "Proofs"), so the
bounds matter most for the liveness properties, which are left to TLC.

## Known disagreements

The models also show places where the code does other than what the repository's
documents or comments say. The first is the run `late_terminal` (quotation in
`PROJECT.json`, "findings"). Each of the others has its property in the module, with
the quotation above it, and, where one is named, a configuration kept beside the runs
with which TLC finds the counterexample in seconds
(`tlc -config OldBreak.cfg MCRelationshipBreak`). The two named `Contradicted...` hold two
statements each and are run with `-continue`
(`tlc -continue -config ContradictedScreen.cfg MCRelationshipBreak`, and
`ContradictedStarters.cfg` with `MCExchange`, about a minute).

1. `LateTerminalHasNoEffect` (`LateTerminal.cfg`): a rejection with reason EmptySlot
   that reaches a sender who has already revoked is not appended, but its effects are
   projected again and burn the starter (specification.md, 8.1.3: later terminals are
   ignored "for state and effects").
2. `RevokeRetiresCreatedStarter` (`ContradictedStarters.cfg`): the projection retires the
   starter the acceptance *names*. When an existing starter was used and a second one
   created to fill a free slot, the revoke takes the old one away and leaves the created
   one.
3. `LockedStarterNotReused` (`LockedStarter.cfg`): the lock is checked by the dialog
   only, not by the entry point.
4. `ObligationKept` (`OutboxLostUpdate.cfg`): an item just enqueued is erased by the
   pump's write of a file it had loaded before.
5. `DeletedStaysDeleted` (`DeletedQuarantine.cfg`): the deletion of a capsule does not
   wait for its receive, which writes the quarantine file back.
6. `RecoveredIsStored` without its condition on faults: an envelope recovered from
   quarantine is "consumed" when it is in the worker's journal; the host stores that
   journal later, or not at all when the receive fails after that.
7. `PassedIsDurable` (`LateStamp.cfg`): an envelope stamped more than the overlap of a
   second before those already handled is behind the cursor, which the documents call
   "only a fetch optimization". The cursor is in memory, so a new transport object finds
   it again, within the lookback.
8. `OldBreakHarmless` (`OldBreak.cfg`): a retried break is dated anew and names no
   episode, so it breaks an episode that its signer had not seen.
9. `PeerReceivesBreak` (`OvertakenBreak.cfg`): a break that arrives before the
   acceptance it follows is dropped. If the pair has an older episode still active, it
   breaks that one instead; the acceptance then reopens the relationship, and once its
   establishment is dated before the break (the breaker's clock being three or more
   ahead) the break that the relay still offers is skipped as already seen.
10. `AcknowledgementCounts` (`UnheardConfirmation.cfg`): the initiator's own break makes
    its key inactive, so the peer's confirmation is dropped and never ends the retries.
11. `Kept` (`OverlappingDrains.cfg`): after a switch under a drain two receives drain the
    same capsule, and the whole-file write of the deferred inbox loses a message already
    acknowledged.
12. `OwnMessagesOnly` (`SwitchedDrain.cfg`): one drain reads the active capsule several
    times.
13. `NewRecordIsHandedOver` (`SelfEviction.cfg`): in a full handoff the message with the
    oldest stamp is the one just received.
14. `AnswersEnd` (`EndlessAnswers.cfg`): a delivered answer may be repeated after its
    cooldown, and an answer may be answered. One section of the specification forbids a
    second answer, another allows it after a cooldown; neither intends two devices that
    never stop.
15. `OldEvidenceInapplicable` (`RevivedEvidence.cfg`): the snapshot has no episode, so a
    pair that returns to an earlier state is ready on old signatures.
16. `DrainedIsKept` (`DroppedEvidence.cfg`): evidence drained for one capsule is verified
    with the root of the one active by then, and rejected.
17. `PendingIsLocked` (`UnlockedPending.cfg`): the lock array of `slot.rs` has as many
    places as there are slots. Starters created for a slot that a burn freed can be
    offered while older ones are pending, and the offer beyond the array's size locks
    nothing (specification.md, 8.1: a starter in a pending invitation "cannot be used in
    other invitations"). `LocksMatchPending` therefore says equality up to that size,
    and that no more is locked than is pending beyond it.
18. `BurnKeepsToRule` (`ContradictedStarters.cfg`): a rejection carries EmptySlot, and
    burns the sender's starter, when the screen shows *any* free slot
    (`invitation_intent_handler.dart:637-644`), also when the recipient owns a starter of
    the invited type. The Burn Rule (specification.md, 8.2) asks for both: "Recipient has
    no starter of the invited type and has an empty slot." TLC: the recipient accepts one
    offer, is offered the same type again and rejects it with a slot free. `BurnIsEarned`
    is what the code keeps of the rule: the offer, the free slot and the explicit
    rejection.
19. `RevokedIsNoRelationship` (`ContradictedScreen.cfg`): after a revoke of an invitation
    that the recipient has accepted, its screen passes over the establishment
    (`relationship.rs:75-87`), as the specification wants (8.1.3: "MUST NOT project an
    active relationship"), but `relationship_key_is_active_in_runtime` still takes it for
    active. `pending_outgoing_relationship_break_deliveries` does not ask for the
    invitation either, so the pump may owe a break that the screen does not show.
20. `LocallyBroken` (`ContradictedScreen.cfg`): a break stamped before the establishment it
    follows is ignored by the screen, which shows the relationship active, while the pump
    delivers the break (specification.md, 8.3: "local relationship truth changes
    immediately"). TLC: a capsule whose clock is ahead establishes, restarts with the
    clock set right over a tail that is older, and breaks.

What the checked properties say is what remains: `BreakConverges` is about breaks that
do not overtake their acceptance (9), are dated after all rows the peer has, do not meet
a peer whose own clock was set back (20), and are not followed by a second break of the
same capsule whose process dies before noting it: the second supersedes the obligation of
the first, and nothing restores it. Nor does it go on once the breaker has a later
establishment, of an ended invitation too, because that ends the obligation without the
peer having learned of the break. `NothingLost` ends with a switch under a drain (11).

`RelationshipMirrored` compares rows that count, not what the view finally lists: of
several rows with the same peer and own starter the view shows the last, and two peers
may hold such rows in different order.

## Fairness

`Exchange`: weak fairness of `Background(c)`, the disjunction of `Reconcile`,
`Publish` and `Deliver`. The host reconciles before every fetch, the pump retries with
backoff as long as an item is pending, and the passive receive coordinator fetches on
a periodic timer. Users' decisions and jobs are not assumed to happen. A restarted app
is assumed to run again, and a relay to keep what it accepted.

`DeliveryOutbox`: weak fairness of the worker's and the fetch's steps (started work
goes on; fetches recur). Strong fairness of the pump's steps that need the FFI queue,
because that queue is first in, first out, so a stream of other workers does not keep
the pump out; of an item being due, because its backoff runs out; and of a successful
retry, because retries are repeated until one goes through: `TerminalReachesRelay` says
nothing if no relay ever accepts.

`Ingress`: weak fairness of a receive's normal steps with all relays answering, and of
the host's drain: the coordinator repeats receives, and faults are finite.
`RelationshipBreak`: weak fairness of each capsule's pump and receive. `ChatHandoff`: of
each capsule's drain, which recurs with the receives. `ReceiveCoordinator`: of a running
receive (its workers have timeouts), of time passing and of the two timers; requests,
switches and pauses are not assumed. `PairAttestation`: of an asker's `ensureForPeer`,
of receives and the storing of a batch, of routing and answering each evidence, of a
reserved answer being sent and its retry time being reached; an asker keeps asking.

## Proofs

Eight modules of proofs are checked by `tlapm`; nothing is assumed beyond the named
assumptions of the modules (`LedgerAssumption`, `CapsuleAssumption` with
`NoneIsNoStarter` and `NoneIsNoEvent`, `ExchangeAssumption`, `OutboxAssumption`,
`QuarantineAssumption`, `IngressAssumption`, `HandoffAssumption`, `BreakAssumption`,
`PairAssumption`; the proof about `ReceiveCoordinator` needs none), which TLC evaluates
on its instances. Every invariant that a run checks is proved, and so are the action
properties and the two refinements.

*Ledger.* Proved for any facts, peers, clocks and bounds: `TypeCorrect`, `Importable`,
`FactsOnce`, `HeadIsHistory` and `StoredGrows`. None of the invariants is inductive
alone. The inductive invariant `IInv` has for the runtime and the stored journal each:
the shape of a ledger record; a verified v4 prefix equal to the checksum and, if
migrated, to the anchor's snapshot; receipts that number and commit to the entries
before them; no v5 event equal to any other (the part that the import gate does not
check behind a prefix, and without which an import could not be shown to preserve it);
one birth, first, by the owner; and between the two journals: while a runtime exists,
the stored journal is a prefix of it. The chain fact behind `HeadIsHistory` is that the
last commitment lists the position and identity of every v5 entry, and the v5 identity
is the whole event, while the anchor carries the whole v4 prefix.

*Exchange.* The five invariants relate two journals, or two projections of one, and none
of them is inductive. `IInv` (`Traced`) says of every row, queued job and relayed message
from which rows it was made: an offer received has the offer sent in its signer's
journal, a terminal of the peer is in the peer's journal and answers an offer there, an
own acceptance has its relationship row, a relationship row of the inviting side has the
acceptance behind it, a burn the peer's rejection, and no invitation is offered twice.
Rows are never removed, so what a row was traced to stays; a message may wait, be
repeated or be reordered, since it is traced to its sender's journal and not to the
moment. `AgreesOnAcceptance` and `MirrorsRelationships` then follow from the projections'
definitions: the first valid terminal of a traced journal is one that the other side
made. `BurnsAreEarned` needs besides why a rejection carries its reason: `Grounded` says
of every such rejection in a journal, and of every such job still queued, that at some
length the journal had the offer and a free slot. A journal only grows, so this stays true
while the job waits, although the slot may fill. In the instance of the run a recipient
that rejects has always had a free slot by then; the theorem covers the other cases. `LocksAgree` needs besides that for a sender every terminal
row is a valid one. `AccountsForStarters` is about the replay, in which slots shift when
a revoke is read: `IInv` has that at no point of a journal more starters live than there
are slots (`SlotsSuffice`), revocations read ahead included, and the replay holds
exactly the live ones, each in one slot, after every row.

`FollowsProtocol` is the refinement of `InvitationProtocol`. Two facts carry it. A step
adds to one journal at most one row that is about an invitation (`NextNews`; the rows
for starters, relationships and burns are about none), and in a traced journal every
terminal counts, because it follows the offer it ends and an expiry has the right
signer (`SentTerminals`, `ReceivedTerminals`). So the one row moves one status, from
pending or, by a revoke, from accepted (`StatusMoves`). What the other side shows by
then is read off the trace of the new row: an acceptance heard is in force at its
recipient, a rejection heard belongs to a journal that has answered and holds no expiry
the sender does not, a revoke heard was the first terminal of its sender.
`AgreeOnInvitations` states the pairs of statuses that result (`SidesAgree`, proved of
the protocol and carried over).

*DeliveryOutbox.* `EvidenceReal` needs every file in flight to be honest too: `IInv`
says of each loaded copy what `EvidenceIsReal` says of the stored file, and that the
item the pump is about to settle has the receipt, or the resolution, it claims. Since
`relay`, `resolved` and `facts` only grow, a stale copy stays honest, which is why lost
updates never produce false evidence.

*Quarantine.* `Refinement`: `Quarantine` implements `QuarantineLifecycle` with
`held` and `done` the records and tombstones of the file. A write stores the copy in
memory, so the invariant relates the two: during a call memory has every tombstone the
file has, and a record only of an envelope that is in the file or on its way; no
snapshot has both a record and a tombstone of an envelope; and an item routed has no
tombstone (`MemoryAndFile`). A failed write changes memory only, which is why it has to
say more than the file.

Limits, rate and charges need numbers and dates (`QInv`, proved beside it in
`WithinLimits`). `StaysValid`: both copies fit every limit that `validate_snapshot` asks
of. `KeepsTheRate`: of each copy and each sender, what was granted, what the bucket
still holds and what the time since its last refill will add never exceed the burst and
the time that really passed; a bucket is given up only when it is full, so a sender
without one is owed no more than the burst. A clock set back can only take time from a
bucket. `ChargesOnce` and `NeverReadmits`: whatever was charged or ended, and not longer
ago than its retention, is remembered in the file, and during a call in memory, with a
date from which no more time seems to have passed than has: a full list refuses the new
entry and gives up none.

*Ingress.* An id enters the seen set and a cursor moves when a batch is resolved, long
after the batch was read. `IInv` (`HandledIsKept`) therefore speaks of the batch: every
item routed and not to be retried has an owner, or is in the worker's journal that the
host is about to store; a relay's share of the batch with what is kept already is all
that the relay has before the date its cursor may get; and that date has been *reached*,
which means that no envelope still to be published is stamped before it, by senders at
most the overlap behind. The last is what a cursor needs after it has moved, and why
`Behind <= 1` is a hypothesis of `SkippedIsDurable` and not of the theorem.

*ChatHandoff.* `KeepsMessages`: for the drain of the capsule in the foreground `IInv`
says what each phase knows of the files: the deferred inbox is still what was loaded
until it is replaced; everything terminal is to be committed, deferred or dropped as a
stranger's; what was to be committed is in the timeline after the merge, and at the
acknowledgement all that is terminal has a place or was rejected. The drains of other
capsules are idle as long as no switch met one. `TakenOnce`: as long as the window of
tombstones is not full, a message consumed is a record or a tombstone of its file.
`ChatTypeCorrect` rests on lemmas about sets of messages in order: the newest n of a set
are at most n, and a window of tombstones extended by a set remembers each id once.

*RelationshipBreak.* `AgreeingReaders`, `RetriesOnlyOwnBreak`, `NewEpisodeOnly`. The
screen compares timestamps and passes over ended invitations, the policy and the pump
compare positions. They agree where every break is stamped after the establishments it
follows. For the peer's breaks the replay policy sees to that, whatever their stamp and
whatever the owner's clock does, and this is the invariant (`PeerDated` in `IInv`): a new
establishment comes last and so follows no break it could disorder. For the owner's own
breaks nothing sees to it, since a restart may lose the floor; the theorems name that case
(`DatedBack`) and hold in every other. What an ended invitation changes is one-sided:
passing over more establishments can only end a view, never make it active
(`RevokingEndsOnly`), so it can part the policy from the screen (`LatestEnded`) but not
reopen a relationship.

*PairAttestation.* `ReadyNeedsBothViews`: evidence, in whatever file, queue, relay or
batch, names a snapshot its signer has held. `AnswersAreHeldBack`: an answer on its way
has a checkpoint, written before and cleared only by time.

*ReceiveCoordinator.* `ManualRequestsPoll`: a manual request never waits in an automatic
receive, none waits in two places, and a manual receive past its poll has polled.

`DeliveryOutbox`, `RelationshipBreak`, `PairAttestation` and `ReceiveCoordinator` have
their type invariant as a theorem and not in a run. The theorems about `ChatHandoff` and
`ReceiveCoordinator` are in one module (`HostReceiveProofs`), in which the coordinator is
an instance with the same capsules; what it owes to a request is stated of the requests
alone (`ReceiveRequests`), so that run and theorem name the same definition.

What the replay of a journal computes and which element of a set is the least or the
newest are proved without induction over data: by well-founded or finite-set arguments
on sets of positions, and by counting with `Cardinality`.

Only model-checked: the liveness properties (`TerminalReachesRelay`,
`AnswerReachesSender`, `RevokeReachesRecipient`, `EventuallyHandled`, `BreakConverges`,
`EventuallyProjected`, `EveryRequestAnswered`, `PollsInForeground`, `AskerBecomesReady`),
which need fairness and ENABLED. `BreakConverges`, in which two journals end agreeing,
is the one whose safety part is not proved apart from it.

## Not modelled

* capsule persistence: index, selection, backup and recovery as files; a switch is
  modelled where a service reads the active capsule late;
* publishing to relays beyond acknowledged or not; connections and NIP-44 encryption;
* sending of chat messages, trading receipts, the time to live of deferred messages;
* a host whose own writes fail after a successful receive;
* key stores, cryptographic adapters: system and library calls, idealised;
* plugin and WASM host, AI services: no part in the journal protocol;
* history projection: read-only (the pair view is in `PairAttestation`);
* screens: presentation, apart from the checks `Decide...` makes.

## Plan

1. `Ledger`, `Exchange`, `DeliveryOutbox` with their runs, and the proofs of `Ledger`
   and `DeliveryOutbox` (done).
2. The way in: `Quarantine` and the lifecycle it implements, `Ingress`, `ChatHandoff`,
   `ReceiveCoordinator` (done); refinement and `ManualIsPolled` proved.
3. `RelationshipBreak` and `PairAttestation` (done), their safety proved.
4. Proofs: every safety property of the runs (done), with the agreement invariants of
   `Exchange`, `SkippedIsDurable` of `Ingress`, `NothingLost` of `ChatHandoff` and the
   limits of `Quarantine`.
5. An abstract invitation protocol that `Exchange` implements (done and proved).
6. `RelationshipBreak` composed with `Exchange`, where an episode is a whole invitation;
   capsule selection and recovery.
