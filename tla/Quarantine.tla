----------------------------- MODULE Quarantine -----------------------------
(***************************************************************************)
(* The inbound quarantine and sender policy of one capsule:                *)
(* inbound_quarantine.rs and its use by hivra_transport_receive            *)
(* (invitation_api.rs).                                                    *)
(*                                                                         *)
(* One snapshot file holds retained envelopes, tombstones and the sender   *)
(* buckets.  A receive opens the file into memory, expires and recovers,   *)
(* then charges and retains what it fetches; every operation changes the   *)
(* copy in memory first and then writes the whole file, a write that may   *)
(* fail and leave memory ahead of the file for the rest of the call.  The  *)
(* clock is read once per receive, so it moves only between receives; it   *)
(* may be set back.                                                        *)
(*                                                                         *)
(* An envelope is its adapter event id, which determines its sender.       *)
(* Ciphertexts, scope and relay provenance are left out; the limit on      *)
(* their total size is a refusal that may happen at any append.            *)
(***************************************************************************)
EXTENDS Integers, FiniteSets, Functions

CONSTANTS
  Events,                \* adapter event ids
  Senders,               \* authenticated senders
  SenderOf,              \* the sender of each event
  NoEvent,
  MaxRecords,            \* MAX_RECORDS
  MaxRecordsPerSender,   \* MAX_RECORDS_PER_SENDER
  PayloadRetention,      \* PAYLOAD_RETENTION_SECS
  MaxTombstones,         \* MAX_TOMBSTONES
  TombstoneRetention,    \* TOMBSTONE_RETENTION_SECS
  InitialRetryDelay,     \* INITIAL_RETRY_DELAY_SECS
  MaxRetryDelay,         \* MAX_RETRY_DELAY_SECS
  Burst,                 \* SENDER_POLICY_BURST
  RefillSecs,            \* SENDER_POLICY_REFILL_SECS
  MaxPolicySenders,      \* MAX_POLICY_SENDERS
  ChargeRetention,       \* CHARGE_EVIDENCE_RETENTION_SECS
  MaxCharges,            \* MAX_CHARGE_EVIDENCE
  MaxChargesPerSender,   \* MAX_CHARGE_EVIDENCE_PER_SENDER
  MaxNow                 \* bound: the clock, and the time it may run in all

ASSUME QuarantineAssumption ==
  /\ IsFiniteSet(Events)
  /\ IsFiniteSet(Senders)
  /\ SenderOf \in [Events -> Senders]
  /\ NoEvent \notin Events
  /\ MaxRecords \in Nat /\ MaxRecordsPerSender \in Nat /\ MaxTombstones \in Nat
  /\ PayloadRetention \in Nat \ {0} /\ TombstoneRetention \in Nat
  /\ InitialRetryDelay \in Nat /\ MaxRetryDelay \in Nat
  /\ Burst \in Nat \ {0} /\ RefillSecs \in Nat \ {0}
  /\ MaxPolicySenders \in Nat \ {0}
  /\ ChargeRetention \in Nat /\ MaxCharges \in Nat /\ MaxChargesPerSender \in Nat
  /\ MaxNow \in Nat

VARIABLES
  disk,      \* the snapshot file
  call,      \* the receive in progress
  now,       \* the device clock
  ran,       \* how far the clock has run forward in all
  granted,   \* permits given to each sender
  charged,   \* events given a permit, and the value of ran when last
  ended,     \* events durably turned into tombstones, and ran at that time
  deleted    \* the capsule was deleted and no receive was started since

vars == <<disk, call, now, ran, granted, charged, ended, deleted>>

-----------------------------------------------------------------------------
(* Snapshots *)

\* InboundQuarantineSnapshotV1: records, tombstones, buckets and the charges
\* the buckets keep, each by its key.
Snapshot(records, tombstones, policies, charges) ==
  [records |-> records, tombstones |-> tombstones,
   policies |-> policies, charges |-> charges]

Empty == Snapshot(<<>>, <<>>, <<>>, <<>>)

With(f, x, v) == [y \in DOMAIN f \cup {x} |-> IF y = x THEN v ELSE f[y]]
Without(f, S) == Restrict(f, DOMAIN f \ S)

Least(a, b) == IF a < b THEN a ELSE b
\* Mutant: the subtraction is not saturating.
BugElapsed(later, earlier) == later - earlier
\* u64::saturating_sub
Elapsed(later, earlier) == IF earlier < later THEN later - earlier ELSE 0

\* InboundQuarantineRecordV1
Record(at, eligible, expires, attempts) ==
  [at |-> at, eligible |-> eligible, expires |-> expires, attempts |-> attempts]

\* SenderIngressPolicyV1
Policy(permits, refilled, active) ==
  [permits |-> permits, refilled |-> refilled, active |-> active]

RecordsOf(snap, s) == {e \in DOMAIN snap.records : SenderOf[e] = s}
ChargesOf(snap, s) == {e \in DOMAIN snap.charges : SenderOf[e] = s}

-----------------------------------------------------------------------------
(* Changes of a snapshot *)

\* Mutant: the share of a sender is checked one too late.
BugHasRoom(snap, e) ==
  /\ Cardinality(DOMAIN snap.records) < MaxRecords
  /\ Cardinality(RecordsOf(snap, SenderOf[e])) <= MaxRecordsPerSender

\* append_quarantine_record for an event that has no record yet.
HasRoom(snap, e) ==
  /\ Cardinality(DOMAIN snap.records) < MaxRecords
  /\ Cardinality(RecordsOf(snap, SenderOf[e])) < MaxRecordsPerSender

Retained(snap, e, t) ==
  [snap EXCEPT !.records =
     With(snap.records, e, Record(t, t + InitialRetryDelay, t + PayloadRetention, 0))]

\* append_tombstone for each event of a set, with its record removed.
HasTombstoneRoom(snap, ids) ==
  Cardinality(DOMAIN snap.tombstones) + Cardinality(ids) <= MaxTombstones

\* Mutant: the record goes, no tombstone is written.
BugTerminated(snap, ids, t) == [snap EXCEPT !.records = Without(snap.records, ids)]

Terminated(snap, ids, t) ==
  [snap EXCEPT
     !.records = Without(snap.records, ids),
     !.tombstones = [e \in DOMAIN snap.tombstones \cup ids |->
                       IF e \in DOMAIN snap.tombstones THEN snap.tombstones[e] ELSE t]]

\* expire_due: tombstones past their retention go, records past theirs become
\* tombstones.
Pruned(snap, t) ==
  [snap EXCEPT !.tombstones =
     Restrict(snap.tombstones,
              {e \in DOMAIN snap.tombstones :
                 Elapsed(t, snap.tombstones[e]) <= TombstoneRetention})]

Due(snap, t) == {e \in DOMAIN snap.records : snap.records[e].expires <= t}

\* next_eligible: the first by (eligible_after, quarantined_at, event id).
Eligible(snap, t) ==
  {e \in DOMAIN snap.records :
     snap.records[e].eligible <= t /\ snap.records[e].expires > t}

IsNextEligible(snap, e, t) ==
  /\ e \in Eligible(snap, t)
  /\ \A f \in Eligible(snap, t) :
       \/ snap.records[e].eligible < snap.records[f].eligible
       \/ /\ snap.records[e].eligible = snap.records[f].eligible
          /\ snap.records[e].at <= snap.records[f].at

\* mark_retry: capped exponential backoff that never outlives the record.
Pow2 == <<1, 2, 4, 8, 16, 32, 64>>
RetryDelay(attempts) ==
  Least(InitialRetryDelay * Pow2[Least(attempts, 6) + 1], MaxRetryDelay)

Postponed(snap, e, t) ==
  LET r == snap.records[e] IN
  [snap EXCEPT !.records[e] =
     Record(r.at, Least(t + RetryDelay(r.attempts + 1), r.expires), r.expires,
            Least(r.attempts + 1, 6))]

-----------------------------------------------------------------------------
(* The sender policy *)

\* Mutant: the checkpoint does not advance, so an interval refills twice.
BugRefilled(p, t) ==
  LET n == Elapsed(t, p.refilled) \div RefillSecs IN
  Policy(Least(p.permits + n, Burst), p.refilled, p.active)

\* maintain_sender_policy_state
Refilled(p, t) ==
  LET n == Elapsed(t, p.refilled) \div RefillSecs IN
  Policy(Least(p.permits + n, Burst), p.refilled + n * RefillSecs, p.active)

Maintained(snap, t) ==
  Snapshot(snap.records, snap.tombstones,
           [s \in DOMAIN snap.policies |-> Refilled(snap.policies[s], t)],
           Restrict(snap.charges,
                    {e \in DOMAIN snap.charges :
                       Elapsed(t, snap.charges[e]) <= ChargeRetention}))

\* make_sender_policy_capacity: a bucket is given up only when it is full, has
\* no charge left to remember and its sender has nothing retained; the one
\* longest inactive goes.
Removable(snap) ==
  {s \in DOMAIN snap.policies :
     /\ snap.policies[s].permits = Burst
     /\ ChargesOf(snap, s) = {}
     /\ RecordsOf(snap, s) = {}}

LongestInactive(snap) ==
  {s \in Removable(snap) :
     \A r \in Removable(snap) : snap.policies[s].active <= snap.policies[r].active}

\* The snapshots in which s has a bucket; none when there is no capacity.
Admitting(snap, s, t) ==
  IF s \in DOMAIN snap.policies THEN {snap}
  ELSE {[snap EXCEPT !.policies = With(Without(snap.policies, gone), s, Policy(Burst, t, t))] :
          gone \in IF Cardinality(DOMAIN snap.policies) < MaxPolicySenders
                   THEN {{}}
                   ELSE {{r} : r \in LongestInactive(snap)}}

\* ensure_charge_evidence_capacity
CanCharge(snap, s) ==
  /\ Cardinality(DOMAIN snap.charges) < MaxCharges
  /\ Cardinality(ChargesOf(snap, s)) < MaxChargesPerSender

\* Mutant: the charge is not remembered.
BugCharge(snap, e, t) ==
  [snap EXCEPT !.policies[SenderOf[e]] = Policy(@.permits - 1, @.refilled, t)]

Active(snap, s, t) == [snap EXCEPT !.policies[s].active = t]

Charge(snap, e, t) ==
  [snap EXCEPT !.policies[SenderOf[e]] = Policy(@.permits - 1, @.refilled, t),
               !.charges = With(snap.charges, e, t)]

\* apply_sender_policy: the decisions it can make on a snapshot, each with the
\* snapshot to write; none when it refuses (a full repository or too large an
\* envelope), which leaves the snapshot as it was.
Decision(decision, snap) == [decision |-> decision, snap |-> snap]

Decisions(snap, e, t) ==
  LET m == Maintained(snap, t)
      s == SenderOf[e]
  IN IF e \in DOMAIN m.records THEN {Decision("quarantined", m)}
     ELSE UNION {
       IF e \in DOMAIN c.charges
       THEN {Decision("charged", Active(c, s, t))}
       ELSE IF c.policies[s].permits = 0
       THEN {Decision("quarantined", Active(Retained(c, e, t), s, t)) :
               x \in {y \in {e} : HasRoom(c, y)}}
       ELSE {Decision("permit", Charge(c, e, t)) : x \in {y \in {e} : CanCharge(c, s)}}
       : c \in Admitting(m, s, t)}

-----------------------------------------------------------------------------
(* Receives *)

Call(at, mem, item) == [at |-> at, mem |-> mem, item |-> item]
Idle == Call("idle", Empty, NoEvent)

Init ==
  /\ disk = Empty
  /\ call = Idle
  /\ now = 0
  /\ ran = 0
  /\ granted = [s \in Senders |-> 0]
  /\ charged = <<>>
  /\ ended = <<>>
  /\ deleted = FALSE

\* open: the file as it is.
Open ==
  /\ call.at = "idle"
  /\ call' = Call("opened", disk, NoEvent)
  /\ deleted' = FALSE
  /\ UNCHANGED <<disk, now, ran, granted, charged, ended>>

\* persist: the file becomes the snapshot, or the write fails.
Persist(snap) == disk' = snap
Unwritten == disk' = disk

\* Tombstones reached the file.
Ended(ids) == ended' = [e \in DOMAIN ended \cup ids |-> IF e \in ids THEN ran ELSE ended[e]]

\* expire_due, first thing of a recovery.
ExpireDue ==
  LET kept == Pruned(call.mem, now)
      due == Due(call.mem, now)
      next == Terminated(kept, due, now)
  IN /\ call.at = "opened"
     /\ \/ /\ due = {} /\ kept = call.mem
           /\ call' = [call EXCEPT !.at = "recover"]
           /\ UNCHANGED <<disk, ended>>
        \/ /\ due # {} \/ kept # call.mem
           /\ HasTombstoneRoom(kept, due)
           /\ Persist(next)
           /\ Ended(due)
           /\ call' = Call("recover", next, NoEvent)
     /\ UNCHANGED <<now, ran, granted, charged, deleted>>

\* Tombstones are full or the write fails: the receive is blocked (-7).
ExpireFails ==
  /\ call.at = "opened"
  /\ Due(call.mem, now) # {} \/ Pruned(call.mem, now) # call.mem
  /\ call' = Idle
  /\ UNCHANGED <<disk, now, ran, granted, charged, ended, deleted>>

\* recover_one_quarantined_envelope: nothing is eligible.
NothingEligible ==
  /\ call.at = "recover"
  /\ Eligible(call.mem, now) = {}
  /\ call' = [call EXCEPT !.at = "items"]
  /\ UNCHANGED <<disk, now, ran, granted, charged, ended, deleted>>

\* The recovered envelope was consumed: mark_consumed.
RecoverConsumed(e) ==
  LET next == Terminated(call.mem, {e}, now)
  IN /\ call.at = "recover"
     /\ IsNextEligible(call.mem, e, now)
     /\ HasTombstoneRoom(call.mem, {e})
     /\ Persist(next)
     /\ Ended({e})
     /\ call' = Call("items", next, NoEvent)
     /\ UNCHANGED <<now, ran, granted, charged, deleted>>

\* The recovered envelope could not be consumed: mark_retry.
RecoverRetry(e) ==
  LET next == Postponed(call.mem, e, now)
  IN /\ call.at = "recover"
     /\ IsNextEligible(call.mem, e, now)
     /\ Persist(next)
     /\ call' = Call("items", next, NoEvent)
     /\ UNCHANGED <<now, ran, granted, charged, ended, deleted>>

\* Tombstones are full or a write fails: the receive is blocked (-7).
RecoverFails ==
  /\ call.at = "recover"
  /\ Eligible(call.mem, now) # {}
  /\ call' = Idle
  /\ UNCHANGED <<disk, now, ran, granted, charged, ended, deleted>>

\* A fetched envelope without terminal evidence meets the sender policy; a
\* permit is given only once the charge is in the file.
Routed(decision) == decision \in {"permit", "charged"}

\* Mutant: terminal evidence is not consulted.
BugUnresolved(e) == TRUE
Unresolved(e) == e \notin DOMAIN call.mem.tombstones

ApplySenderPolicy(e) ==
  /\ call.at = "items"
  /\ Unresolved(e)
  /\ \E d \in Decisions(call.mem, e, now) :
       /\ Persist(d.snap)
       /\ call' = IF Routed(d.decision) THEN Call("routed", d.snap, e)
                                        ELSE Call("items", d.snap, NoEvent)
       /\ IF d.decision = "permit"
          THEN /\ granted' = [granted EXCEPT ![SenderOf[e]] = @ + 1]
               /\ charged' = With(charged, e, ran)
          ELSE UNCHANGED <<granted, charged>>
  /\ UNCHANGED <<now, ran, ended, deleted>>

\* The write fails: the item stays pending at the adapter, memory keeps the
\* change.
PolicyUnwritten(e) ==
  /\ call.at = "items"
  /\ Unresolved(e)
  /\ \E d \in Decisions(call.mem, e, now) : call' = [call EXCEPT !.mem = d.snap]
  /\ Unwritten
  /\ UNCHANGED <<now, ran, granted, charged, ended, deleted>>

\* The router consumed the item.
ItemConsumed ==
  /\ call.at = "routed"
  /\ call' = Call("items", call.mem, NoEvent)
  /\ UNCHANGED <<disk, now, ran, granted, charged, ended, deleted>>

\* The router could not consume the item: it is retained, or stays pending at
\* the adapter when the repository is full or the write fails.
ItemRetained ==
  LET next == Retained(call.mem, call.item, now)
  IN /\ call.at = "routed"
     /\ \/ /\ HasRoom(call.mem, call.item)
           /\ call' = Call("items", next, NoEvent)
           /\ Persist(next) \/ Unwritten
        \/ /\ call' = Call("items", call.mem, NoEvent)
           /\ Unwritten
     /\ UNCHANGED <<now, ran, granted, charged, ended, deleted>>

\* The receive returns, or the process dies in the middle of it.
Return ==
  /\ call.at # "idle"
  /\ call' = Idle
  /\ UNCHANGED <<disk, now, ran, granted, charged, ended, deleted>>

\* hivra_delete_inbound_quarantine: the directory is removed, also under a
\* receive in progress.
DeleteCapsuleQuarantine ==
  /\ disk' = Empty
  /\ granted' = [s \in Senders |-> 0]
  /\ charged' = <<>>
  /\ ended' = <<>>
  /\ deleted' = TRUE
  /\ UNCHANGED <<call, now, ran>>

Tick ==
  /\ call.at = "idle"
  /\ ran < MaxNow
  /\ now' = now + 1
  /\ ran' = ran + 1
  /\ UNCHANGED <<disk, call, granted, charged, ended, deleted>>

SetClockBack ==
  /\ call.at = "idle"
  /\ now > 0
  /\ now' = now - 1
  /\ UNCHANGED <<disk, call, ran, granted, charged, ended, deleted>>

Next ==
  \/ Open \/ ExpireDue \/ ExpireFails \/ NothingEligible \/ RecoverFails
  \/ ItemConsumed \/ ItemRetained \/ Return \/ DeleteCapsuleQuarantine
  \/ Tick \/ SetClockBack
  \/ \E e \in Events : \/ RecoverConsumed(e) \/ RecoverRetry(e)
                       \/ ApplySenderPolicy(e) \/ PolicyUnwritten(e)

Spec == Init /\ [][Next]_vars

-----------------------------------------------------------------------------
(* Properties *)

\* Every variable has its type: the snapshot in the file and the one in memory
\* are snapshots, the clock and its ghosts are naturals.
IsSnapshot(snap) ==
  /\ DOMAIN snap = {"records", "tombstones", "policies", "charges"}
  /\ DOMAIN snap.records \subseteq Events
  /\ \A e \in DOMAIN snap.records :
       snap.records[e] \in [at : Nat, eligible : Nat, expires : Nat, attempts : 0..6]
  /\ DOMAIN snap.tombstones \subseteq Events
  /\ \A e \in DOMAIN snap.tombstones : snap.tombstones[e] \in Nat
  /\ DOMAIN snap.policies \subseteq Senders
  /\ \A s \in DOMAIN snap.policies :
       snap.policies[s] \in [permits : Nat, refilled : Nat, active : Nat]
  /\ DOMAIN snap.charges \subseteq Events
  /\ \A e \in DOMAIN snap.charges : snap.charges[e] \in Nat

TypeOK ==
  /\ IsSnapshot(disk)
  /\ call.at \in {"idle", "opened", "recover", "items", "routed"}
  /\ IsSnapshot(call.mem)
  /\ call.item \in Events \cup {NoEvent}
  /\ now \in Nat /\ ran \in Nat
  /\ granted \in [Senders -> Nat]
  /\ DOMAIN charged \subseteq Events
  /\ DOMAIN ended \subseteq Events
  /\ deleted \in BOOLEAN

\* validate_snapshot
Valid(snap) ==
  /\ Cardinality(DOMAIN snap.records) <= MaxRecords
  /\ \A s \in Senders : Cardinality(RecordsOf(snap, s)) <= MaxRecordsPerSender
  /\ \A e \in DOMAIN snap.records :
       snap.records[e].expires = snap.records[e].at + PayloadRetention
  /\ Cardinality(DOMAIN snap.tombstones) <= MaxTombstones
  /\ DOMAIN snap.records \cap DOMAIN snap.tombstones = {}
  /\ Cardinality(DOMAIN snap.policies) <= MaxPolicySenders
  /\ \A s \in DOMAIN snap.policies : snap.policies[s].permits <= Burst
  /\ Cardinality(DOMAIN snap.charges) <= MaxCharges
  /\ \A s \in Senders : Cardinality(ChargesOf(snap, s)) <= MaxChargesPerSender
  /\ \A e \in DOMAIN snap.charges : SenderOf[e] \in DOMAIN snap.policies

\* No sequence of receives, failed writes, crashes, deletions and clock
\* changes brings the snapshot, in memory or in the file, into a state
\* validate_snapshot rejects: that would fail every later write and, in the
\* file, every later receive.
NeverCorrupt == Valid(disk) /\ Valid(call.mem)

\* A sender gets at most its burst plus one permit per refill interval of time
\* that really passed, whatever crashes, restarts, failed writes, evictions of
\* its bucket and clock changes happen in between.
RateBound ==
  \A s \in Senders : granted[s] * RefillSecs <= Burst * RefillSecs + ran

\* "The same event id is charged at most once" while charges are remembered:
\* a second permit for an event comes only after the retention of the first
\* charge has really passed.
GivesPermit(e) == granted'[SenderOf[e]] > granted[SenderOf[e]] /\ call'.item = e

ChargedOnce ==
  [][\A e \in DOMAIN charged : GivesPermit(e) => ran - charged[e] > ChargeRetention]_vars

\* An envelope once turned into a tombstone in the file is neither routed nor
\* retained again before the tombstone's retention has really passed.
Readmitted(e) ==
  \/ call'.item = e /\ call.item # e
  \/ e \in DOMAIN disk'.records \ DOMAIN disk.records

NoReadmission ==
  [][\A e \in DOMAIN ended : Readmitted(e) => ran - ended[e] > TombstoneRetention]_vars

\* A retained envelope never disappears without terminal evidence, and is not
\* retained again while there is evidence of it (QuarantineLifecycle).
Lifecycle ==
  INSTANCE QuarantineLifecycle WITH
    held <- DOMAIN disk.records, done <- DOMAIN disk.tombstones

ImplementsLifecycle == Lifecycle!Spec

\* After the capsule is deleted its quarantine stays deleted.
DeletedStaysDeleted == deleted => disk = Empty
=============================================================================
