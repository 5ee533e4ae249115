------------------------------ MODULE Ingress ------------------------------
(***************************************************************************)
(* How one capsule receives: hivra_transport_receive (invitation_api.rs)   *)
(* over the Nostr adapter's batches (nostr/mod.rs), the cached transport   *)
(* (transport_cache.rs), the inbound quarantine and the host that stores   *)
(* the worker's journal (invitation_actions_service.dart).                 *)
(*                                                                         *)
(* Four memories of different durability must agree on what was handled:   *)
(* the set of seen ids lives as long as the process, cursors and the       *)
(* pending batch as long as the transport object, the worker's journal as  *)
(* long as the call, and the stored journal, the quarantine file and the   *)
(* chat handoff survive a crash.                                           *)
(*                                                                         *)
(* An envelope is its event id; what consuming it does to the journal is   *)
(* the subject of Capsule and Exchange, when the quarantine admits, delays *)
(* and expires it that of Quarantine: here both are choices.               *)
(***************************************************************************)
EXTENDS Integers, FiniteSets, FiniteSetsExt

CONSTANTS
  Relays,
  Core,            \* envelopes of ledger events
  Chat,            \* chat envelopes, handed to a file
  Attestation,     \* attestations, handed to a queue in the process
  Invalid,         \* events the adapter cannot decode
  SeenCapacity,    \* RECEIVE_SEEN_CAPACITY
  FetchLimit,      \* RECEIVE_LIMIT
  Lookback,        \* RECEIVE_LOOKBACK_SECS
  FutureSkew,      \* RECEIVE_FUTURE_SKEW_SECS
  InboxCapacity,   \* ATTESTATION_INBOX_CAPACITY
  Behind, Ahead,   \* how far a sender's clock is off at most
  MaxNow,          \* bound: the clock
  MaxFaults        \* bound: failures, retries, postponed recoveries, crashes

Events == Core \cup Chat \cup Attestation \cup Invalid

ASSUME IngressAssumption ==
  /\ IsFiniteSet(Relays) /\ IsFiniteSet(Events)
  /\ \A n \in {SeenCapacity, FetchLimit, InboxCapacity} : n \in Nat \ {0}
  /\ \A n \in {Lookback, FutureSkew, Behind, Ahead, MaxNow, MaxFaults} : n \in Nat

VARIABLES
  now,
  stored,      \* the events each relay stores
  stamp,       \* created_at of each published event
  seen,        \* SEEN_EVENT_IDS
  cursor,      \* receive_since_by_relay, for the relays it has
  pending,     \* pending_receive_batch
  call,        \* the receive in progress
  journal,     \* the journal in the capsule's storage
  held,        \* retained envelopes of the quarantine file
  done,        \* its tombstones
  expired,     \* those of envelopes that expired unconsumed
  inbox,       \* CONSENSUS_ATTESTATION_INBOX
  handed,      \* envelopes in the chat handoff, or drained by the host
  faults

vars == <<now, stored, stamp, seen, cursor, pending, call, journal, held, done,
          expired, inbox, handed, faults>>
relayVars == <<now, stored, stamp>>
transportVars == <<cursor, pending>>
quarantineVars == <<held, done, expired>>
ownerVars == <<inbox, handed>>

NoBatch == [open |-> FALSE, items |-> {}, relays |-> <<>>]
Batch(items, relays) == [open |-> TRUE, items |-> items, relays |-> relays]

\* mem is the worker's journal; todo are the items still to be routed, retry
\* those routed in vain.
Call(at, mem, todo, retry) == [at |-> at, mem |-> mem, todo |-> todo, retry |-> retry]
Idle == Call("idle", {}, {}, {})

Init ==
  /\ now = 0
  /\ stored = [r \in Relays |-> {}]
  /\ stamp = <<>>
  /\ seen = {}
  /\ cursor = <<>>
  /\ pending = NoBatch
  /\ call = Idle
  /\ journal = {} /\ held = {} /\ done = {} /\ expired = {}
  /\ inbox = {} /\ handed = {}
  /\ faults = 0

Fault == faults < MaxFaults /\ faults' = faults + 1

\* The transport object is built anew: its cursors and its batch are gone, the
\* seen ids are not.
NewTransport ==
  /\ cursor' = <<>>
  /\ pending' = NoBatch

-----------------------------------------------------------------------------
(* Senders, relays, time *)

\* A sender publishes an envelope, stamped by its clock, to some relays.
Publish(e, R) ==
  /\ e \notin DOMAIN stamp
  /\ \E t \in (now - Behind)..(now + Ahead) :
       /\ t >= 0
       /\ stamp' = [f \in DOMAIN stamp \cup {e} |-> IF f = e THEN t ELSE stamp[f]]
  /\ stored' = [r \in Relays |-> IF r \in R THEN stored[r] \cup {e} ELSE stored[r]]
  /\ UNCHANGED <<now, seen, call, journal, faults>>
  /\ UNCHANGED <<transportVars, quarantineVars, ownerVars>>

Tick ==
  /\ now < MaxNow
  /\ now' = now + 1
  /\ UNCHANGED <<stored, stamp, seen, call, journal, faults>>
  /\ UNCHANGED <<transportVars, quarantineVars, ownerVars>>

-----------------------------------------------------------------------------
(* Routing one envelope: route_inbound_envelope *)

\* The owner of the envelope's kind takes it: the worker's journal, the chat
\* handoff file, or the attestation queue unless it is full.
Consume(e, at, todo, retry) ==
  /\ call' = Call(at, IF e \in Core THEN call.mem \cup {e} ELSE call.mem, todo, retry)
  /\ handed' = IF e \in Chat THEN handed \cup {e} ELSE handed
  /\ inbox' = IF e \in Attestation THEN inbox \cup {e} ELSE inbox
  /\ e \in Attestation \ inbox => Cardinality(inbox) < InboxCapacity

-----------------------------------------------------------------------------
(* The receive *)

\* The worker starts from the stored journal, and opens the quarantine.
Start ==
  /\ call.at = "idle"
  /\ call' = Call("recover", journal, {}, {})
  /\ UNCHANGED <<seen, journal, faults>>
  /\ UNCHANGED <<relayVars, transportVars, quarantineVars, ownerVars>>

\* expire_due
Expire ==
  /\ call.at = "recover"
  /\ \E e \in held :
       /\ held' = held \ {e}
       /\ done' = done \cup {e}
       /\ expired' = expired \cup {e}
  /\ UNCHANGED <<seen, call, journal, faults>>
  /\ UNCHANGED <<relayVars, transportVars, ownerVars>>

\* recover_one_quarantined_envelope: nothing is retained, or nothing is due.
NothingDue ==
  /\ call.at = "recover"
  /\ call' = [call EXCEPT !.at = "fetch"]
  /\ IF held = {} THEN UNCHANGED faults ELSE Fault
  /\ UNCHANGED <<seen, journal>>
  /\ UNCHANGED <<relayVars, transportVars, quarantineVars, ownerVars>>

\* The envelope is routed and its tombstone written, before anything is stored
\* by the host.
Recover(e) ==
  /\ call.at = "recover"
  /\ e \in held
  /\ Consume(e, "fetch", {}, {})
  /\ held' = held \ {e}
  /\ done' = done \cup {e}
  /\ UNCHANGED <<seen, journal, expired, faults>>
  /\ UNCHANGED <<relayVars, transportVars>>

\* The quarantine cannot be read or written (-7), or the relays cannot be read
\* (-4, -5): the host discards the worker's journal.  The default profile has
\* rebuilt the transport by then.
ReceiveFails ==
  /\ call.at \in {"recover", "fetch"}
  /\ Fault
  /\ call' = Idle
  /\ \/ UNCHANGED transportVars
     \/ call.at = "fetch" /\ NewTransport
  /\ UNCHANGED <<seen, journal>>
  /\ UNCHANGED <<relayVars, quarantineVars, ownerVars>>

\* receive_since_for_relay
Since(r) == IF r \in DOMAIN cursor THEN cursor[r] ELSE Max({0, now - Lookback})

\* What a relay returns for [since, now + skew] with a limit: the newest.
Visible(r) == {e \in stored[r] : Since(r) <= stamp[e] /\ stamp[e] <= now + FutureSkew}
Limited(S) ==
  {F \in SUBSET S :
     /\ Cardinality(F) = Min({FetchLimit, Cardinality(S)})
     /\ \A e \in F, f \in S \ F : stamp[e] >= stamp[f]}

\* Mutant: a future-dated event moves the cursor past the clock.
BugNextReceiveCursor(current, newest) == Max({current, newest - 1, 0})
\* Mutant: no second of overlap.
BugNoOverlap(current, newest) == Max({current, Min({newest, now})})
\* next_receive_cursor
NextReceiveCursor(current, newest) == Max({current, Min({newest, now}) - 1, 0})

\* receive_batch_with_timeout with no batch pending; the relays in S answer.
Read(S) ==
  /\ call.at = "fetch"
  /\ ~pending.open
  /\ IF S = Relays THEN UNCHANGED faults ELSE Fault
  /\ cursor' = IF S = {} THEN cursor ELSE [r \in Relays |-> Since(r)]
  /\ \E got \in [S -> SUBSET DOMAIN stamp] :
       /\ \A r \in S : got[r] \in Limited(Visible(r))
       /\ pending' =
            Batch((UNION {got[r] : r \in S}) \ seen,
                  [r \in {s \in S : got[s] # {}} |->
                     [candidate |-> NextReceiveCursor(Since(r), Max({stamp[e] : e \in got[r]})),
                      ids |-> got[r] \ seen]])
       /\ call' = Call("route", call.mem, pending'.items, {})
  /\ UNCHANGED <<seen, journal>>
  /\ UNCHANGED <<relayVars, quarantineVars, ownerVars>>

\* The pending batch is presented again.
Represent ==
  /\ call.at = "fetch"
  /\ pending.open
  /\ call' = Call("route", call.mem, pending.items, {})
  /\ UNCHANGED <<seen, journal, faults>>
  /\ UNCHANGED <<relayVars, transportVars, quarantineVars, ownerVars>>

Routing(e) == call.at = "route" /\ e \in call.todo
Unheard(e) == e \notin held \cup done \cup Invalid

\* An undecodable event, one with a tombstone and one with a record are
\* terminal as they are.
SkipItem(e) ==
  /\ Routing(e)
  /\ ~Unheard(e)
  /\ call' = [call EXCEPT !.todo = @ \ {e}]
  /\ UNCHANGED <<seen, journal, faults>>
  /\ UNCHANGED <<relayVars, transportVars, quarantineVars, ownerVars>>

ConsumeItem(e) ==
  /\ Routing(e)
  /\ Unheard(e)
  /\ Consume(e, "route", call.todo \ {e}, call.retry)
  /\ UNCHANGED <<seen, journal, faults>>
  /\ UNCHANGED <<relayVars, transportVars, quarantineVars>>

\* The sender policy or a failed routing puts the envelope into the quarantine.
QuarantineItem(e) ==
  /\ Routing(e)
  /\ Unheard(e)
  /\ held' = held \cup {e}
  /\ call' = [call EXCEPT !.todo = @ \ {e}]
  /\ UNCHANGED <<seen, journal, done, expired, faults>>
  /\ UNCHANGED <<relayVars, transportVars, ownerVars>>

\* The quarantine refuses it as well.
RetryItem(e) ==
  /\ Routing(e)
  /\ Unheard(e)
  /\ Fault
  /\ call' = [call EXCEPT !.todo = @ \ {e}, !.retry = @ \cup {e}]
  /\ UNCHANGED <<seen, journal>>
  /\ UNCHANGED <<relayVars, transportVars, quarantineVars, ownerVars>>

\* Insertion into the seen ids clears them when they are full.
Remember(ids) ==
  IF ids = {} \/ Cardinality(seen) + Cardinality(ids) <= SeenCapacity
  THEN {seen \cup ids}
  ELSE {K \in SUBSET ids : K # {} /\ Cardinality(K) <= SeenCapacity}

\* Mutant: the cursor of a relay advances when some of its events are terminal.
BugComplete(ids, terminal) == ids = {} \/ ids \cap terminal # {}
Complete(ids, terminal) == ids \subseteq terminal

TerminalItems == pending.items \ call.retry

\* resolve_receive_batch: terminal ids are seen, a relay whose events are all
\* terminal gets its cursor, the rest of the batch stays pending.
Resolve ==
  LET complete == {r \in DOMAIN pending.relays :
                     Complete(pending.relays[r].ids, TerminalItems)}
  IN /\ call.at = "route"
     /\ call.todo = {}
     /\ seen' \in Remember(TerminalItems)
     /\ cursor' = [r \in DOMAIN cursor |->
                     IF r \in complete
                     THEN Max({cursor[r], pending.relays[r].candidate}) ELSE cursor[r]]
     /\ pending' =
          IF call.retry = {} THEN NoBatch
          ELSE Batch(call.retry,
                     [r \in DOMAIN pending.relays \ complete |->
                        [candidate |-> pending.relays[r].candidate,
                         ids |-> pending.relays[r].ids \cap call.retry]])
     /\ call' = Call("returned", call.mem, {}, {})
     /\ UNCHANGED <<journal, faults>>
     /\ UNCHANGED <<relayVars, quarantineVars, ownerVars>>

\* Another use of the cached transport replaced it meanwhile (-6).
ResolveFails ==
  /\ call.at = "route"
  /\ call.todo = {}
  /\ Fault
  /\ NewTransport
  /\ call' = Idle
  /\ UNCHANGED <<seen, journal>>
  /\ UNCHANGED <<relayVars, quarantineVars, ownerVars>>

\* Mutant: the host drops the worker's journal.
BugHostStores ==
  /\ call.at = "returned"
  /\ call' = Idle
  /\ UNCHANGED <<seen, journal, faults>>
  /\ UNCHANGED <<relayVars, transportVars, quarantineVars, ownerVars>>

\* The code is not negative: the host stores the worker's journal.
HostStores ==
  /\ call.at = "returned"
  /\ journal' = call.mem
  /\ call' = Idle
  /\ UNCHANGED <<seen, faults>>
  /\ UNCHANGED <<relayVars, transportVars, quarantineVars, ownerVars>>

\* drain_queued_attestations
Drain ==
  /\ inbox # {}
  /\ handed' = handed \cup inbox
  /\ inbox' = {}
  /\ UNCHANGED <<seen, call, journal, faults>>
  /\ UNCHANGED <<relayVars, transportVars, quarantineVars>>

\* A send for another capsule, or one that failed, replaces the cached
\* transport between receives.
ReplaceTransport ==
  /\ call.at = "idle"
  /\ Fault
  /\ NewTransport
  /\ UNCHANGED <<seen, call, journal>>
  /\ UNCHANGED <<relayVars, quarantineVars, ownerVars>>

Crash ==
  /\ Fault
  /\ seen' = {}
  /\ inbox' = {}
  /\ call' = Idle
  /\ NewTransport
  /\ UNCHANGED <<journal, handed>>
  /\ UNCHANGED <<relayVars, quarantineVars>>

Receive ==
  \/ Start \/ NothingDue \/ Represent \/ Resolve \/ HostStores
  \/ Read(Relays)
  \/ \E e \in Events : \/ Recover(e) \/ SkipItem(e) \/ ConsumeItem(e)

Next ==
  \/ Receive \/ Expire \/ ReceiveFails \/ ResolveFails \/ ReplaceTransport
  \/ Crash \/ Drain \/ Tick
  \/ \E S \in SUBSET Relays : Read(S)
  \/ \E e \in Events : \/ QuarantineItem(e) \/ RetryItem(e)
                       \/ \E R \in (SUBSET Relays) \ {{}} : Publish(e, R)

Spec == Init /\ [][Next]_vars

\* The host repeats receives, and drains the queue after them.
LiveSpec == Spec /\ WF_vars(Receive) /\ WF_vars(Drain)

-----------------------------------------------------------------------------
(* Properties *)

\* Every variable has its type; the relays of a batch share its items out
\* among them, and none of the items is already seen.
TypeOK ==
  /\ pending.items \cap seen = {}
  /\ now \in 0..MaxNow
  /\ stored \in [Relays -> SUBSET DOMAIN stamp]
  /\ DOMAIN stamp \subseteq Events
  /\ seen \subseteq DOMAIN stamp
  /\ Cardinality(seen) <= SeenCapacity
  /\ DOMAIN cursor \subseteq Relays
  /\ \A r \in DOMAIN cursor : cursor[r] \in 0..MaxNow
  /\ pending.items = UNION {pending.relays[r].ids : r \in DOMAIN pending.relays}
  /\ call.at \in {"idle", "recover", "fetch", "route", "returned"}
  /\ call.mem \subseteq Core
  /\ call.todo \cup call.retry \subseteq pending.items
  /\ journal \subseteq Core
  /\ held \cap done = {} /\ expired \subseteq done
  /\ inbox \subseteq Attestation /\ Cardinality(inbox) <= InboxCapacity
  /\ handed \subseteq Chat \cup Attestation

\* Where an envelope is safe from a crash between receives: its event is in the
\* stored journal, the quarantine file has it or evidence of it, its capability
\* has it, or the adapter rejected it.  (The attestation queue is lost in a
\* crash together with the seen ids and the cursors.)
Durable == journal \cup held \cup done \cup handed \cup inbox \cup Invalid

\* The envelopes a relay stores before a date, as far as a receive can get at
\* them: not those older than the lookback, and none for sure when the relay
\* stores more than it returns.
Passed(r, date) ==
  {e \in stored[r] : /\ Cardinality(stored[r]) <= FetchLimit
                     /\ now - Lookback <= stamp[e] /\ stamp[e] < date}

\* docs/architecture/transport-delivery-lifecycle.md: "The cursor is only a fetch
\* optimization".  What it has passed is safe from a crash between receives.
PassedIsDurable ==
  call.at = "idle" => \A r \in DOMAIN cursor : Passed(r, cursor[r]) \subseteq Durable

\* Between receives, an envelope the adapter will not present again, because its
\* id is in the seen set or a relay's cursor has passed its stamp (which its
\* sender's clock puts at most the overlap of a second behind), is one that a
\* crash cannot lose: however batches are retried, partly resolved, presented
\* again or lost with their transport.
SkippedIsDurable ==
  /\ call.at = "idle" => seen \subseteq Durable
  /\ Behind <= 1 => PassedIsDurable

\* "consumed: the canonical owner durably accepted the message": while no receive
\* failed and no process died, an envelope whose tombstone says it was consumed
\* is in the stored journal.
RecoveredIsStored ==
  call.at = "idle" /\ faults = 0 => (done \ expired) \cap Core \subseteq journal

\* Every envelope stamped by a clock at most the overlap of a second behind is,
\* after finitely many failures, retries and crashes, in the stored journal, with
\* its capability, or ended in the quarantine.
EventuallyHandled ==
  \A e \in Events \ Invalid :
    (e \in DOMAIN stamp) ~> (e \in journal \cup handed \cup done)
=============================================================================
