-------------------------- MODULE PairAttestation --------------------------
(***************************************************************************)
(* Two capsules agree on the state of their pair: the pair view that Core  *)
(* projects from each journal (pair.rs), the evidence each root signs for  *)
(* its own unblocked view, its way through the relays and the inbox of     *)
(* consensus_attestation_api.rs, and the store, the explicit exchange      *)
(* (ensureForPeer) and the automatic answers of                            *)
(* consensus_attestation_{store,sync_service,exchange_service}.dart.       *)
(*                                                                         *)
(* Evidence is [signer, snap].  A signature cannot be forged, so verified  *)
(* evidence is what its signer signed.  An envelope posted twice is two    *)
(* events with the same evidence; wire holds those a process has not seen. *)
(***************************************************************************)
EXTENDS Integers, FiniteSets

CONSTANTS
  Capsules,
  Facts,            \* a fact: a relationship kind and a sorted starter pair
  InboxCapacity,    \* ATTESTATION_INBOX_CAPACITY
  CheckpointLimit,  \* consensusAttestationResponseCheckpointLimit
  Askers,           \* the capsules whose users want to reach the other
  Several,          \* the capsules on a device that has others
  Kinds,            \* of changes: "establish", "break", "peer's break", "invitation"
  Faults,           \* of "crash", "restore", "send", "timeout", "switch", "give up"
  MaxChanges,       \* bound: changes of the two pair views
  MaxFaults         \* bound: faults

ASSUME PairAssumption ==
  /\ \E c, d \in Capsules : c # d /\ Capsules = {c, d}
  /\ {InboxCapacity, CheckpointLimit, MaxChanges, MaxFaults} \subseteq Nat

Peer(c) == CHOOSE d \in Capsules : d # c

VARIABLES
  rel,         \* rel[c][f]: what c's journal says of a fact
  invited,     \* invited[c]: c has a pending invitation with the other
  selected,    \* selected[c]: c is the active capsule of its device
  wants,       \* wants[c]: c's user tries to reach the other
  store,       \* store[c]: verified evidence in c's file
  checkpoint,  \* checkpoint[c][s]: an answer for s was reserved
  sent,        \* sent[c]: evidence the relays hold for c
  wire,        \* wire[c]: of it, what c's process has not seen
  inbox,       \* inbox[c]: the queue in c's process
  batch,       \* batch[c]: drained, not yet stored, and who drained
  ensure,      \* ensure[c]: the phase of ensureForPeer
  accepted,    \* accepted[c]: evidence c may answer
  responding,  \* responding[c]: snapshots of reserved answers on their way
  changes, faults,
  held,        \* held[c]: snapshots c's unblocked view has had
  answered     \* answered[c]: snapshots answered since their checkpoint was written

view == <<rel, invited>>
files == <<store, checkpoint>>
relays == <<sent, wire>>
process == <<inbox, batch, ensure, accepted, responding>>
counters == <<changes, faults>>
ghosts == <<held, answered>>
vars == <<view, selected, wants, files, relays, process, counters, ghosts>>

Snapshots == (SUBSET Facts) \ {{}}
Evidence == [signer : Capsules, snap : Snapshots]
NoBatch == [by |-> "none", items |-> {}]

-----------------------------------------------------------------------------
(* The pair view and the evidence *)

\* pair_view_v1: a fact is active until its break is confirmed.
Snapshot(c) == {f \in Facts : rel[c][f] # "none"}

Blocked(c) ==
  \/ Snapshot(c) = {}
  \/ invited[c]
  \/ \E f \in Facts : rel[c][f] = "pending_remote_break"

Own(c) == [signer |-> c, snap |-> Snapshot(c)]

\* Mutant: evidence of any snapshot of the pair counts.
BugVerified(c) == IF Blocked(c) THEN {} ELSE store[c]

\* loadVerifiedForPair
Verified(c) == IF Blocked(c) THEN {} ELSE {e \in store[c] : e.snap = Snapshot(c)}

\* _hasTwoRootEvidence, and the guard in front of every pair effect.
Ready(c) == \A d \in Capsules : \E e \in Verified(c) : e.signer = d

FromPeer(c, es) == {e \in es : e.signer = Peer(c)}

\* One journal may have learned of a relationship, or of its end, before the
\* other.
Init ==
  /\ \E g \in Facts : \E C \in (SUBSET Capsules) \ {{}} :
       rel = [c \in Capsules |->
                [f \in Facts |-> IF f = g /\ c \in C THEN "active" ELSE "none"]]
  /\ invited = [c \in Capsules |-> FALSE]
  /\ selected = [c \in Capsules |-> TRUE]
  /\ wants = [c \in Capsules |-> c \in Askers]
  /\ store = [c \in Capsules |-> {}]
  /\ checkpoint = [c \in Capsules |-> [s \in Snapshots |-> "none"]]
  /\ sent = [c \in Capsules |-> {}]
  /\ wire = [c \in Capsules |-> {}]
  /\ inbox = [c \in Capsules |-> {}]
  /\ batch = [c \in Capsules |-> NoBatch]
  /\ ensure = [c \in Capsules |-> "idle"]
  /\ accepted = [c \in Capsules |-> {}]
  /\ responding = [c \in Capsules |-> {}]
  /\ changes = 0 /\ faults = 0
  /\ held = [c \in Capsules |-> {Snapshot(c)} \cap Snapshots]
  /\ answered = [c \in Capsules |-> {}]

-----------------------------------------------------------------------------
(* Changes of the journals: invitations and relationships *)

Project(c) ==
  /\ changes < MaxChanges /\ changes' = changes + 1
  /\ held' = [held EXCEPT ![c] = @ \cup IF Blocked(c)' THEN {} ELSE {Snapshot(c)'}]
  /\ UNCHANGED <<selected, wants, files, relays, process, faults, answered>>

Establish(c, f) ==
  /\ "establish" \in Kinds /\ rel[c][f] = "none"
  /\ rel' = [rel EXCEPT ![c][f] = "active"] /\ invited' = invited
  /\ Project(c)

\* By c, or the confirmation of the peer's break.
Break(c, f) ==
  /\ "break" \in Kinds /\ rel[c][f] # "none"
  /\ rel' = [rel EXCEPT ![c][f] = "none"] /\ invited' = invited
  /\ Project(c)

\* A break of the peer's arrives: it may be an old one, re-dated, and the peer have
\* established the fact again since.
PeerBreak(c, f) ==
  /\ "peer's break" \in Kinds /\ rel[c][f] = "active"
  /\ rel' = [rel EXCEPT ![c][f] = "pending_remote_break"] /\ invited' = invited
  /\ Project(c)

Invite(c) ==
  /\ "invitation" \in Kinds
  /\ invited' = [invited EXCEPT ![c] = ~@] /\ rel' = rel
  /\ Project(c)

-----------------------------------------------------------------------------
(* Transport *)

\* A new event for the peer's process.
Post(c, es) ==
  /\ sent' = [sent EXCEPT ![Peer(c)] = @ \cup es]
  /\ wire' = [wire EXCEPT ![Peer(c)] = @ \cup es]

Fault(kind) == kind \in Faults /\ faults < MaxFaults /\ faults' = faults + 1

\* queue_incoming_attestation_if_match; a full queue leaves the envelope to a
\* later fetch.
Queue(c, e) ==
  /\ e \in wire[c]
  /\ Cardinality(inbox[c]) < InboxCapacity
  /\ wire' = [wire EXCEPT ![c] = @ \ {e}]
  /\ inbox' = [inbox EXCEPT ![c] = @ \cup {e}]
  /\ UNCHANGED <<view, selected, wants, files, sent, batch, ensure, accepted, responding,
                 counters, ghosts>>

-----------------------------------------------------------------------------
(* drainAndStore *)

\* drain_queued_attestations, in the worker; the queue of the workers runs one
\* drain after the other.
Take(c, by) ==
  /\ batch[c] = NoBatch
  /\ batch' = [batch EXCEPT ![c] = [by |-> by, items |-> inbox[c]]]
  /\ inbox' = [inbox EXCEPT ![c] = {}]

AfterDrain(c, by) ==
  IF by # "ensure" THEN ensure[c]
  ELSE IF ensure[c] = "drain" THEN "send" ELSE "idle"

\* A passive receive hands every verified item to the answers.
HandOn(c) == IF batch[c].by = "receive" THEN FromPeer(c, batch[c].items) ELSE {}

ReceiveTakes(c) ==
  /\ selected[c] /\ inbox[c] # {}
  /\ Take(c, "receive")
  /\ UNCHANGED <<view, selected, wants, files, relays, ensure, accepted, responding,
                 counters, ghosts>>

\* The rest of drainAndStore verifies against the capsule active by then.
StoreBatch(c) ==
  /\ batch[c] # NoBatch
  /\ IF selected[c]
     THEN /\ store' = [store EXCEPT ![c] = @ \cup batch[c].items]
          /\ accepted' = [accepted EXCEPT ![c] = @ \cup HandOn(c)]
     ELSE UNCHANGED <<store, accepted>>
  /\ batch' = [batch EXCEPT ![c] = NoBatch]
  /\ ensure' = [ensure EXCEPT ![c] = AfterDrain(c, batch[c].by)]
  /\ UNCHANGED <<view, selected, wants, checkpoint, relays, inbox, responding,
                 counters, ghosts>>

\* The worker answers too late; the queue is empty nevertheless.
DrainTimesOut(c) ==
  /\ Fault("timeout")
  /\ batch[c] # NoBatch
  /\ batch' = [batch EXCEPT ![c] = NoBatch]
  /\ ensure' = [ensure EXCEPT ![c] = AfterDrain(c, batch[c].by)]
  /\ UNCHANGED <<view, selected, wants, files, relays, inbox, accepted, responding,
                 changes, ghosts>>

-----------------------------------------------------------------------------
(* ensureForPeer *)

\* createLocalEvidence signs the view of the moment and stores the evidence.
Sign(c) == store' = [store EXCEPT ![c] = @ \cup {Own(c)}]

\* _answerReadyEvidence, which nobody waits for.
AnswerReady(c) ==
  accepted' = [accepted EXCEPT ![c] = @ \cup FromPeer(c, Verified(c))]

EnsureStarts(c) ==
  /\ wants[c] /\ selected[c] /\ ensure[c] = "idle"
  /\ IF Ready(c)
     THEN AnswerReady(c) /\ ensure' = ensure
     ELSE ensure' = [ensure EXCEPT ![c] = "drain"] /\ accepted' = accepted
  /\ UNCHANGED <<view, selected, wants, files, relays, inbox, batch, responding,
                 counters, ghosts>>

EnsureDrains(c) ==
  /\ ensure[c] \in {"drain", "redrain"} /\ selected[c] /\ batch[c].by # "ensure"
  /\ IF inbox[c] # {} THEN Take(c, "ensure") /\ ensure' = ensure
     ELSE /\ ensure' = [ensure EXCEPT ![c] = AfterDrain(c, "ensure")]
          /\ UNCHANGED <<inbox, batch>>
  /\ UNCHANGED <<view, selected, wants, files, relays, accepted, responding,
                 counters, ghosts>>

EnsureFindsReady(c) ==
  /\ ensure[c] = "send" /\ selected[c] /\ Ready(c)
  /\ AnswerReady(c)
  /\ ensure' = [ensure EXCEPT ![c] = "idle"]
  /\ UNCHANGED <<view, selected, wants, files, relays, inbox, batch, responding,
                 counters, ghosts>>

\* sendLocalEvidence
EnsureSends(c) ==
  /\ ensure[c] = "send" /\ selected[c] /\ ~Ready(c) /\ ~Blocked(c)
  /\ Sign(c)
  /\ \/ /\ Post(c, {Own(c)}) /\ faults' = faults
        /\ ensure' = [ensure EXCEPT ![c] = "redrain"]
     \/ /\ Fault("send")
        /\ \/ Post(c, {Own(c)})      \* delivered after the local timeout
           \/ UNCHANGED relays
        /\ ensure' = [ensure EXCEPT ![c] = "idle"]
  /\ UNCHANGED <<view, selected, wants, checkpoint, inbox, batch, accepted, responding,
                 changes, ghosts>>

\* Not signable, or another capsule is active by now.
EnsureEnds(c) ==
  /\ \/ ensure[c] = "send" /\ Blocked(c)
     \/ ensure[c] # "idle" /\ ~selected[c] /\ batch[c].by # "ensure"
  /\ ensure' = [ensure EXCEPT ![c] = "idle"]
  /\ UNCHANGED <<view, selected, wants, files, relays, inbox, batch, accepted, responding,
                 counters, ghosts>>

-----------------------------------------------------------------------------
(* Automatic answers *)

\* Mutant: an answer delivered once is never given again.
BugMayReserve(c, s) == checkpoint[c][s] = "none"

\* Mutant: a reservation does not hold back the next one.
BugAlwaysReserve(c, s) == TRUE

\* reserveResponse: delivered or not, a checkpoint holds back the next answer
\* only until its retry time.
MayReserve(c, s) ==
  \/ checkpoint[c][s] = "eligible"
  \/ /\ checkpoint[c][s] = "none"
     /\ Cardinality({t \in Snapshots : checkpoint[c][t] # "none"}) < CheckpointLimit

\* _respondToPeerEvidence goes on only when both evidences match.
Answers(c, e) == selected[c] /\ ~Blocked(c) /\ e.snap = Snapshot(c)

Respond(c, e) ==
  /\ e \in accepted[c]
  /\ accepted' = [accepted EXCEPT ![c] = @ \ {e}]
  /\ IF selected[c] /\ ~Blocked(c) THEN Sign(c) ELSE UNCHANGED store
  /\ IF Answers(c, e) /\ e \in store[c] /\ MayReserve(c, e.snap)
     THEN /\ checkpoint' = [checkpoint EXCEPT ![c][e.snap] = "cooling"]
          /\ responding' = [responding EXCEPT ![c] = @ \cup {e.snap}]
     ELSE UNCHANGED <<checkpoint, responding>>
  /\ UNCHANGED <<view, selected, wants, relays, inbox, batch, ensure, counters, ghosts>>

\* sendEvidence; that the checkpoint is marked delivered changes nothing.
SendAnswer(c, s) ==
  /\ s \in responding[c]
  /\ responding' = [responding EXCEPT ![c] = @ \ {s}]
  /\ \/ Post(c, {[signer |-> c, snap |-> s]}) /\ faults' = faults
     \/ UNCHANGED relays /\ Fault("send")
  /\ answered' = [answered EXCEPT ![c] = @ \cup {s}]
  /\ UNCHANGED <<view, selected, wants, files, inbox, batch, ensure, accepted,
                 changes, held>>

\* The retry time is reached, long after the 35 s a send may take.
Elapse(c, s) ==
  /\ checkpoint[c][s] = "cooling" /\ s \notin responding[c]
  /\ checkpoint' = [checkpoint EXCEPT ![c][s] = "eligible"]
  /\ answered' = [answered EXCEPT ![c] = @ \ {s}]
  /\ UNCHANGED <<view, selected, wants, store, relays, process, counters, held>>

-----------------------------------------------------------------------------
(* The user, the device *)

\* The user does not try again; an attempt under way goes on.
GiveUp(c) ==
  /\ Fault("give up")
  /\ wants[c] /\ ensure[c] = "idle"
  /\ wants' = [wants EXCEPT ![c] = FALSE]
  /\ UNCHANGED <<view, selected, files, relays, process, changes, ghosts>>

Switch(c) ==
  /\ Fault("switch") /\ c \in Several
  /\ selected' = [selected EXCEPT ![c] = FALSE]
  /\ UNCHANGED <<view, wants, files, relays, process, changes, ghosts>>

SwitchBack(c) ==
  /\ ~selected[c] /\ selected' = [selected EXCEPT ![c] = TRUE]
  /\ UNCHANGED <<view, wants, files, relays, process, counters, ghosts>>

\* The process ends: what it has seen and queued is gone with it.
Restart(c) ==
  /\ inbox' = [inbox EXCEPT ![c] = {}]
  /\ batch' = [batch EXCEPT ![c] = NoBatch]
  /\ ensure' = [ensure EXCEPT ![c] = "idle"]
  /\ accepted' = [accepted EXCEPT ![c] = {}]
  /\ responding' = [responding EXCEPT ![c] = {}]
  /\ wire' = [wire EXCEPT ![c] = sent[c]] /\ sent' = sent
  /\ UNCHANGED <<view, selected, wants, changes, held>>

Crash(c) ==
  /\ Fault("crash")
  /\ Restart(c)
  /\ UNCHANGED <<files, answered>>

\* Recovery from a backup, which holds the journal but no evidence.
Restore(c) ==
  /\ Fault("restore")
  /\ Restart(c)
  /\ store' = [store EXCEPT ![c] = {}]
  /\ checkpoint' = [checkpoint EXCEPT ![c] = [s \in Snapshots |-> "none"]]
  /\ answered' = [answered EXCEPT ![c] = {}]

-----------------------------------------------------------------------------
Ensure(c) ==
  EnsureStarts(c) \/ EnsureDrains(c) \/ EnsureFindsReady(c) \/ EnsureSends(c) \/ EnsureEnds(c)

Changes(c) == Invite(c) \/ \E f \in Facts : Establish(c, f) \/ Break(c, f) \/ PeerBreak(c, f)

Next ==
  \E c \in Capsules :
    \/ Changes(c) \/ Ensure(c) \/ ReceiveTakes(c) \/ StoreBatch(c) \/ DrainTimesOut(c)
    \/ \E e \in Evidence : Queue(c, e) \/ Respond(c, e)
    \/ \E s \in Snapshots : SendAnswer(c, s) \/ Elapse(c, s)
    \/ GiveUp(c) \/ Switch(c) \/ SwitchBack(c) \/ Crash(c) \/ Restore(c)

Spec == Init /\ [][Next]_vars

\* The passive receives go on, the workers and the store's tasks end, time
\* passes, a user who wants the other tries again.
LiveSpec ==
  /\ Spec
  /\ \A c \in Capsules :
       /\ WF_vars(Ensure(c)) /\ WF_vars(ReceiveTakes(c)) /\ WF_vars(StoreBatch(c))
       /\ \A e \in FromPeer(c, Evidence) : WF_vars(Queue(c, e)) /\ WF_vars(Respond(c, e))
       /\ \A s \in Snapshots : WF_vars(SendAnswer(c, s)) /\ WF_vars(Elapse(c, s))

-----------------------------------------------------------------------------
(* Properties *)

TypeOK ==
  /\ rel \in [Capsules -> [Facts -> {"none", "active", "pending_remote_break"}]]
  /\ {invited, selected, wants} \subseteq [Capsules -> BOOLEAN]
  /\ {store, sent, wire, inbox, accepted} \subseteq [Capsules -> SUBSET Evidence]
  /\ checkpoint \in [Capsules -> [Snapshots -> {"none", "cooling", "eligible"}]]
  /\ batch \in [Capsules -> [by : {"none", "receive", "ensure"}, items : SUBSET Evidence]]
  /\ ensure \in [Capsules -> {"idle", "drain", "send", "redrain"}]
  /\ {responding, held, answered} \subseteq [Capsules -> SUBSET Snapshots]
  /\ changes \in Nat /\ faults \in Nat
  /\ \A c \in Capsules : batch[c].by = "ensure" => ensure[c] \in {"drain", "redrain"}

\* A capsule lets a pair effect through only for a pair state that the journal
\* of the other, too, has projected without a blocker, whatever was delayed,
\* repeated, lost or restored on the way.
ReadyIsMutual == \A c \in Capsules : Ready(c) => Snapshot(c) \in held[Peer(c)]

\* "No process restart, relay overlap, screen refresh, or periodic receive may
\* bypass that boundary": however often evidence arrives, whoever answers it, at
\* most one answer leaves between two retry times.
OneAnswerPerWindow == \A c \in Capsules : responding[c] \cap answered[c] = {}

\* Who keeps asking becomes ready once both views agree.
AgreedAndAsking(c) ==
  /\ wants[c] /\ \A d \in Capsules : selected[d] /\ ~Blocked(d)
  /\ Snapshot(c) = Snapshot(Peer(c))

AskerBecomesReady ==
  \A c \in Capsules : <>[]AgreedAndAsking(c) => <>[]Ready(c)

\* "Evidence is keyed by pair roots and snapshot hash, so any pair-state change
\* makes old evidence inapplicable" (docs/specification.md:1451): right after a
\* change nothing is authorised.
OldEvidenceInapplicable ==
  [][\A c \in Capsules : Snapshot(c)' # Snapshot(c) => ~Ready(c)']_vars

\* "Adapter success makes the identity terminal" (docs/specification.md:832):
\* when nobody asks any more the automatic answers come to an end.
AnswersEnd ==
  <>[](\A c \in Capsules : ~wants[c]) => <>[](\A c \in Capsules : responding[c] = {})

\* "Any already completed worker result remains bound to and persisted for its
\* bootstrap Capsule" (docs/architecture/transport-delivery-lifecycle.md:525):
\* evidence a process has taken from the relays is in its queue, in a batch or
\* in the store.
DrainedIsKept ==
  \A c \in Capsules :
    sent[c] \ wire[c] \subseteq inbox[c] \cup store[c] \cup batch[c].items
=============================================================================
