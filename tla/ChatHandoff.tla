---------------------------- MODULE ChatHandoff ----------------------------
(***************************************************************************)
(* From a chat envelope to the timeline: the encrypted handoff file of     *)
(* chat_api.rs, which the receiving worker fills, and the drain of         *)
(* capsule_chat_delivery_service.dart, which moves its records to the      *)
(* timeline (capsule_delivery_inbox_store.dart) or, while the pair is not  *)
(* attested, to the deferred inbox (capsule_chat_deferred_inbox_store.dart)*)
(* and then acknowledges them.                                             *)
(*                                                                         *)
(* A drain belongs to the receive of one capsule, of which the coordinator *)
(* runs one at a time; but it works on whatever capsule is active at its   *)
(* first step (local) and after it has loaded the bootstrap (boot).        *)
(*                                                                         *)
(* Messages are numbered in the order of their senders' timestamps, which  *)
(* need not be the order of arrival.                                       *)
(***************************************************************************)
EXTENDS Integers, FiniteSets, SequencesExt

CONSTANTS
  Capsules,
  Messages,          \* a set of numbers
  To,                \* To[m]: the capsule m is for
  Strangers,         \* messages of peers no consensus can cover
  HandoffCapacity,   \* CHAT_INBOX_CAPACITY
  TombstoneCapacity, \* CHAT_TOMBSTONE_CAPACITY
  DeferredCapacity,  \* capsuleChatDeferredInboxMaxItems
  TimelineCapacity,  \* the cache budget, in messages
  MaxReplays,        \* bound: envelopes routed again after their tombstone is gone
  MaxSwitches,       \* bound: capsule switches while a drain is under way
  MaxChanges,        \* bound: changes of the pairs' attestation
  MaxFaults          \* bound: failed writes and processes that die

ASSUME HandoffAssumption ==
  /\ IsFiniteSet(Messages) /\ Messages \subseteq Nat
  /\ To \in [Messages -> Capsules] /\ Strangers \subseteq Messages
  /\ \A n \in {HandoffCapacity, TombstoneCapacity, DeferredCapacity, TimelineCapacity} :
       n \in Nat \ {0}
  /\ \A n \in {MaxReplays, MaxSwitches, MaxChanges, MaxFaults} : n \in Nat

VARIABLES
  active,      \* the capsule the runtime holds
  attested,    \* attested[c]: c's pairs are signable
  records,     \* records[c]: unacknowledged records of c's handoff file
  tombstones,  \* tombstones[c]: its event ids consumed before, oldest first
  deferred,    \* deferred[c]: c's deferred inbox
  timeline,    \* timeline[c]: c's chat timeline
  drain,       \* drain[c]: the drain of c's receive
  replays, switches, changes, faults,
  consumed,    \* messages ever routed
  rejected     \* messages dropped by policy or by a bound

vars == <<active, attested, records, tombstones, deferred, timeline, drain,
          replays, switches, changes, faults, consumed, rejected>>
files == <<records, tombstones, deferred, timeline>>
counters == <<replays, switches, changes, faults>>
ghosts == <<consumed, rejected>>

NoDrain ==
  [at |-> "idle", local |-> CHOOSE c \in Capsules : TRUE, boot |-> CHOOSE c \in Capsules : TRUE,
   got |-> {}, old |-> {}, commit |-> {}, defer |-> {}, terminal |-> {}]

Init ==
  /\ active \in Capsules
  /\ attested = [c \in Capsules |-> FALSE]
  /\ records = [c \in Capsules |-> {}]
  /\ tombstones = [c \in Capsules |-> <<>>]
  /\ deferred = [c \in Capsules |-> {}]
  /\ timeline = [c \in Capsules |-> {}]
  /\ drain = [c \in Capsules |-> NoDrain]
  /\ replays = 0 /\ switches = 0 /\ changes = 0 /\ faults = 0
  /\ consumed = {} /\ rejected = {}

Fault == faults < MaxFaults /\ faults' = faults + 1

Newest(S, n) == {m \in S : Cardinality({k \in S : k > m}) < n}

-----------------------------------------------------------------------------
(* The handoff file *)

\* The records of a file, sorted by timestamp.
InOrder(S) ==
  [i \in 1..Cardinality(S) |-> CHOOSE m \in S : Cardinality({k \in S : k < m}) = i - 1]

\* append_chat_tombstones
BugWithTombstones(t, S) == t \o InOrder(S \ Range(t))
WithTombstones(t, S) ==
  LET all == t \o InOrder(S \ Range(t))
      over == Len(all) - TombstoneCapacity
  IN  IF over > 0 THEN SubSeq(all, over + 1, Len(all)) ELSE all

\* queue_incoming_chat_if_match and persist_chat_handoff: sorted by timestamp,
\* the oldest record makes room.  A failed write answers Retry.
Receive(m) ==
  LET c == To[m]
      kept == Newest(records[c] \cup {m}, HandoffCapacity)
      evicted == (records[c] \cup {m}) \ kept
  IN  /\ m \notin records[c] /\ m \notin Range(tombstones[c])
      /\ m \in consumed => replays < MaxReplays
      /\ replays' = IF m \in consumed THEN replays + 1 ELSE replays
      /\ records' = [records EXCEPT ![c] = kept]
      /\ tombstones' = [tombstones EXCEPT ![c] = WithTombstones(@, evicted)]
      /\ consumed' = consumed \cup {m}
      /\ rejected' = rejected \cup evicted
      /\ UNCHANGED <<active, attested, deferred, timeline, drain, switches, changes, faults>>

\* acknowledge_chat_handoff
BugAcknowledge(c, ids) ==
  /\ records' = [records EXCEPT ![c] = @ \ ids]
  /\ tombstones' = tombstones
BugAcknowledgeAll(c, ids) ==
  /\ records' = [records EXCEPT ![c] = {}]
  /\ tombstones' = [tombstones EXCEPT ![c] = WithTombstones(@, records[c])]
Acknowledge(c, ids) ==
  /\ records' = [records EXCEPT ![c] = @ \ ids]
  /\ tombstones' = [tombstones EXCEPT ![c] = WithTombstones(@, records[c] \cap ids)]

-----------------------------------------------------------------------------
(* The drain: drainAndFilter, from await to await *)

Step(c, from, to) == drain[c].at = from /\ drain' = [drain EXCEPT ![c] = to]

\* It returns early or throws; nothing more is written.
Fails(c) ==
  /\ drain[c].at # "idle"
  /\ Fault
  /\ drain' = [drain EXCEPT ![c] = NoDrain]
  /\ UNCHANGED <<active, attested, files, replays, switches, changes, ghosts>>

\* The coordinator starts a receive for the capsule in the foreground; its poll
\* takes its time.
Trigger(c) ==
  /\ c = active
  /\ Step(c, "idle", [NoDrain EXCEPT !.at = "polling"])
  /\ UNCHANGED <<active, attested, files, counters, ghosts>>

Begin(c) ==
  /\ Step(c, "polling", [NoDrain EXCEPT !.at = "begun", !.local = active])
  /\ UNCHANGED <<active, attested, files, counters, ghosts>>

\* loadWorkerBootstrapArgs and the worker that lists the handoff.
List(c) ==
  /\ Step(c, "begun", [drain[c] EXCEPT !.at = "listed", !.boot = active, !.got = records[active]])
  /\ UNCHANGED <<active, attested, files, counters, ghosts>>

LoadDeferred(c) ==
  /\ Step(c, "listed", [drain[c] EXCEPT !.at = "loaded", !.old = deferred[drain[c].local]])
  /\ UNCHANGED <<active, attested, files, counters, ghosts>>

\* The consensus guard reads the journal of the capsule active now.  What is
\* deferred is terminal for the handoff, and so is what is dropped.
BugKeepsOld(got, old) == IF attested[active] THEN old ELSE (got \cup old) \ Strangers
Deferred(got, old) == IF attested[active] THEN {} ELSE (got \cup old) \ Strangers

Judge(c) ==
  LET d == drain[c]
      all == d.got \cup d.old
  IN  /\ Step(c, "loaded", [d EXCEPT !.at = "judged",
                              !.commit = all \ (Strangers \cup Deferred(d.got, d.old)),
                              !.defer = Deferred(d.got, d.old), !.terminal = all])
      /\ UNCHANGED <<active, attested, files, counters, ghosts>>

\* mergeDurably: the oldest messages beyond the budget go.
Merge(c) ==
  LET d == drain[c]
      all == timeline[d.boot] \cup d.commit
  IN  /\ Step(c, "judged", [d EXCEPT !.at = "merged"])
      /\ timeline' = [timeline EXCEPT ![d.boot] = Newest(all, TimelineCapacity)]
      /\ rejected' = rejected \cup (all \ Newest(all, TimelineCapacity))
      /\ UNCHANGED <<active, attested, records, tombstones, deferred, counters, consumed>>

\* replaceAll: all items were seen just now, so which of them the bound keeps is
\* open.  Their time to live is left out.
ReplaceDeferred(c) ==
  LET d == drain[c] IN
  \E kept \in SUBSET d.defer :
    /\ Cardinality(d.defer) <= DeferredCapacity => kept = d.defer
    /\ Cardinality(d.defer) > DeferredCapacity => Cardinality(kept) = DeferredCapacity
    /\ Step(c, "merged", [d EXCEPT !.at = "replaced"])
    /\ deferred' = [deferred EXCEPT ![d.local] = kept]
    /\ rejected' = rejected \cup (d.defer \ kept)
    /\ UNCHANGED <<active, attested, records, tombstones, timeline, counters, consumed>>

\* Nothing is acknowledged that is not terminal, and nothing at all when records
\* and deferred messages are together more than the handoff has room for: such a
\* list of ids is refused.
Ack(c) ==
  LET d == drain[c] IN
  /\ Step(c, "replaced", NoDrain)
  /\ IF Cardinality(d.terminal) <= HandoffCapacity
     THEN /\ Acknowledge(d.boot, d.terminal)
          /\ rejected' = rejected \cup (d.terminal \cap Strangers)
     ELSE UNCHANGED <<records, tombstones, rejected>>
  /\ UNCHANGED <<active, attested, deferred, timeline, counters, consumed>>

-----------------------------------------------------------------------------
(* The user and the pairs *)

Switch(c) ==
  /\ c # active
  /\ active' = c
  /\ IF \A d \in Capsules : drain[d].at = "idle" THEN UNCHANGED switches
     ELSE switches < MaxSwitches /\ switches' = switches + 1
  /\ UNCHANGED <<attested, files, drain, replays, changes, faults, ghosts>>

Attest(c) ==
  /\ changes < MaxChanges /\ changes' = changes + 1
  /\ attested' = [attested EXCEPT ![c] = ~@]
  /\ UNCHANGED <<active, files, drain, replays, switches, faults, ghosts>>

\* The process dies and starts again: the files remain.
Crash ==
  /\ \E c \in Capsules : drain[c].at # "idle"
  /\ Fault
  /\ drain' = [c \in Capsules |-> NoDrain]
  /\ UNCHANGED <<active, attested, files, replays, switches, changes, ghosts>>

Drain(c) ==
  \/ Trigger(c) \/ Begin(c) \/ List(c) \/ LoadDeferred(c)
  \/ Judge(c) \/ Merge(c) \/ ReplaceDeferred(c) \/ Ack(c)

Next ==
  \/ \E m \in Messages : Receive(m)
  \/ \E c \in Capsules : Drain(c) \/ Fails(c) \/ Switch(c) \/ Attest(c)
  \/ Crash

Spec == Init /\ [][Next]_vars

\* The passive receive runs on a timer and its drain comes to an end.
LiveSpec == Spec /\ \A c \in Capsules : WF_vars(Drain(c))

-----------------------------------------------------------------------------
(* Properties *)

\* The files stay within their bounds and an event id is never both waiting and
\* consumed.
TypeOK ==
  /\ active \in Capsules /\ attested \in [Capsules -> BOOLEAN]
  /\ \A c \in Capsules :
       /\ records[c] \subseteq Messages /\ Cardinality(records[c]) <= HandoffCapacity
       /\ Range(tombstones[c]) \subseteq Messages /\ IsInjective(tombstones[c])
       /\ Len(tombstones[c]) <= TombstoneCapacity
       /\ records[c] \cap Range(tombstones[c]) = {}
       /\ deferred[c] \subseteq Messages /\ Cardinality(deferred[c]) <= DeferredCapacity
       /\ timeline[c] \subseteq Messages /\ Cardinality(timeline[c]) <= TimelineCapacity
       /\ drain[c].at \in {"idle", "polling", "begun", "listed", "loaded", "judged",
                            "merged", "replaced"}

\* Where a message that was taken over and not removed by policy or a bound is.
Kept ==
  consumed \ rejected \subseteq
    UNION {records[c] \cup deferred[c] \cup timeline[c] : c \in Capsules}

\* A message taken over from the transport is in the handoff, the deferred inbox
\* or the timeline, however often a drain fails or the process dies between the
\* writes, as long as no drain has seen the capsule change under its feet.
NothingLost == switches = 0 => Kept

\* An envelope routed again is taken again only when the window of tombstones is
\* full: below that, acknowledged stays acknowledged.
StaysConsumed ==
  [][\A c \in Capsules : \A m \in records'[c] \ records[c] :
       m \in consumed => Len(tombstones[c]) = TombstoneCapacity]_vars

\* Once its capsule stays in the foreground and the pair stays attested, a message
\* consumed and deferred reaches the timeline, unless a bound removes it.
EventuallyProjected ==
  \A m \in Messages \ Strangers :
    (m \in consumed) /\ [](switches = 0 /\ active = To[m] /\ attested[To[m]])
      ~> m \in timeline[To[m]] \cup rejected

\* docs/architecture/transport-delivery-lifecycle.md: "Any already completed
\* worker result remains bound to and persisted for its bootstrap Capsule".
OwnMessagesOnly ==
  \A c \in Capsules : \A m \in deferred[c] \cup timeline[c] : To[m] = c

\* docs/architecture/transport-delivery-lifecycle.md: "A new record may replace
\* the oldest unprojected record" of a FIFO window; "`consumed` requires an
\* atomic encrypted handoff".  A message newly consumed is in the handoff.
NewRecordIsHandedOver ==
  [][\A m \in consumed' \ consumed : m \in records'[To[m]]]_vars
=============================================================================
