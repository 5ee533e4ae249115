-------------------------- MODULE QuarantineProofs --------------------------
(***************************************************************************)
(* For any limits, senders, events and clocks: the quarantine implements   *)
(* QuarantineLifecycle (the file never loses a retained envelope without   *)
(* terminal evidence, although the file is written from a memory that      *)
(* failed writes, crashes and a deletion leave out of step with it), its   *)
(* snapshots stay valid, a sender keeps to its rate, and neither a charge  *)
(* nor an end is forgotten before its time.                                *)
(***************************************************************************)
EXTENDS Quarantine, FiniteSetTheorems, TLAPS

\* A snapshot is a record of its four parts.
Shaped(snap) ==
  snap = Snapshot(snap.records, snap.tombstones, snap.policies, snap.charges)

\* The envelopes a snapshot retains and those it has terminal evidence of.
Held(snap) == DOMAIN snap.records
Done(snap) == DOMAIN snap.tombstones

Sound(snap) ==
  /\ Shaped(snap)
  /\ Held(snap) \subseteq Events /\ Done(snap) \subseteq Events
  /\ Held(snap) \cap Done(snap) = {}

\* The refinement needs to know what a write starts from: the memory of a
\* receive has at least what the file has (a failed write leaves more in memory,
\* a deletion less in the file), and a routed item has no terminal evidence.
IInv ==
  /\ Sound(disk) /\ Sound(call.mem)
  /\ call = Call(call.at, call.mem, call.item)
  /\ call.at # "idle" => Held(disk) \subseteq Held(call.mem) /\ Done(disk) \subseteq Done(call.mem)
  /\ call.at = "routed" => call.item \in Events \ Done(call.mem)

\* A snapshot that may be written over another one: nothing retained leaves
\* without evidence, nothing with evidence comes back.
Follows(next, snap) ==
  /\ Sound(next)
  /\ Held(snap) \ Held(next) \subseteq Done(next)
  /\ Done(snap) \cap Held(next) = {}

LEMMA EmptyIsSound == Sound(Empty) /\ Held(Empty) = {} /\ Done(Empty) = {}
BY DEF Empty, Snapshot, Sound, Shaped, Held, Done

\* What a snapshot follows, a file with less in it is followed by, too.
LEMMA FollowsLess ==
  ASSUME NEW next, NEW snap, NEW file, Follows(next, snap),
         Held(file) \subseteq Held(snap), Done(file) \subseteq Done(snap)
  PROVE  Follows(next, file)
BY DEF Follows

-----------------------------------------------------------------------------
(* What each change of a snapshot does to its two sets *)

LEMMA PrunedEffect ==
  ASSUME NEW snap, NEW t, Sound(snap)
  PROVE  /\ Sound(Pruned(snap, t))
         /\ Held(Pruned(snap, t)) = Held(snap) /\ Done(Pruned(snap, t)) \subseteq Done(snap)
<1>1. /\ Pruned(snap, t).records = snap.records
      /\ Pruned(snap, t).tombstones =
           Restrict(snap.tombstones,
              {e \in DOMAIN snap.tombstones :
                 Elapsed(t, snap.tombstones[e]) <= TombstoneRetention})
      /\ Shaped(Pruned(snap, t))
  BY DEF Pruned, Sound, Shaped, Snapshot
<1>2. Done(Pruned(snap, t)) \subseteq Done(snap)
  BY <1>1 DEF Done, Restrict
<1> QED BY <1>1, <1>2 DEF Sound, Held

LEMMA TerminatedEffect ==
  ASSUME NEW snap, NEW ids, NEW t, Sound(snap), ids \subseteq Held(snap)
  PROVE  /\ Sound(Terminated(snap, ids, t)) /\ Follows(Terminated(snap, ids, t), snap)
         /\ Held(Terminated(snap, ids, t)) = Held(snap) \ ids
         /\ Done(Terminated(snap, ids, t)) = Done(snap) \cup ids
<1>. DEFINE marked == [e \in DOMAIN snap.tombstones \cup ids |->
                         IF e \in DOMAIN snap.tombstones THEN snap.tombstones[e] ELSE t]
<1>0. Terminated(snap, ids, t) =
        [snap EXCEPT !.records = Without(snap.records, ids), !.tombstones = marked]
  BY DEF Terminated
<1>4. DOMAIN marked = Done(snap) \cup ids
  BY DEF Done
<1>. HIDE DEF marked
<1>1. /\ Terminated(snap, ids, t).records = Without(snap.records, ids)
      /\ Terminated(snap, ids, t).tombstones = marked
      /\ Shaped(Terminated(snap, ids, t))
  BY <1>0 DEF Sound, Shaped, Snapshot
<1>2. Held(Terminated(snap, ids, t)) = Held(snap) \ ids
  BY <1>1 DEF Held, Without, Restrict
<1>3. Done(Terminated(snap, ids, t)) = Done(snap) \cup ids
  BY <1>1, <1>4 DEF Done
<1> QED BY <1>1, <1>2, <1>3 DEF Sound, Follows

LEMMA RetainedEffect ==
  ASSUME NEW snap, NEW e \in Events, NEW t, Sound(snap), e \notin Done(snap)
  PROVE  /\ Sound(Retained(snap, e, t)) /\ Follows(Retained(snap, e, t), snap)
         /\ Held(Retained(snap, e, t)) = Held(snap) \cup {e}
         /\ Done(Retained(snap, e, t)) = Done(snap)
<1>1. /\ DOMAIN Retained(snap, e, t).records = DOMAIN snap.records \cup {e}
      /\ Retained(snap, e, t).tombstones = snap.tombstones
      /\ Shaped(Retained(snap, e, t))
  BY DEF Retained, With, Sound, Shaped, Snapshot
<1> QED BY <1>1 DEF Sound, Follows, Held, Done

LEMMA PostponedEffect ==
  ASSUME NEW snap, NEW e, NEW t, Sound(snap)
  PROVE  /\ Sound(Postponed(snap, e, t))
         /\ Held(Postponed(snap, e, t)) = Held(snap) /\ Done(Postponed(snap, e, t)) = Done(snap)
<1>1. /\ DOMAIN Postponed(snap, e, t).records = DOMAIN snap.records
      /\ Postponed(snap, e, t).tombstones = snap.tombstones
      /\ Shaped(Postponed(snap, e, t))
  BY DEF Postponed, Sound, Shaped, Snapshot
<1> QED BY <1>1 DEF Sound, Held, Done

\* Whatever the sender policy decides, it retains at most the envelope at hand
\* and touches no evidence.
LEMMA DecisionEffect ==
  ASSUME NEW snap, NEW e \in Events, NEW t, Sound(snap), e \notin Done(snap),
         NEW d \in Decisions(snap, e, t)
  PROVE  Follows(d.snap, snap) /\ Held(snap) \subseteq Held(d.snap) /\ Done(d.snap) = Done(snap)
<1>. DEFINE Fine(s) == Sound(s) /\ Held(s) = Held(snap) /\ Done(s) = Done(snap)
<1>1. Fine(Maintained(snap, t))
  BY DEF Maintained, Snapshot, Sound, Shaped, Held, Done
<1>2. ASSUME NEW m, Fine(m), NEW s, NEW c \in Admitting(m, s, t)
      PROVE  Fine(c)
  <2>1. c = m \/ \E gone : c = [m EXCEPT !.policies = With(Without(m.policies, gone), s, Policy(Burst, t, t))]
    BY <1>2 DEF Admitting
  <2> QED BY <1>2, <2>1 DEF Sound, Shaped, Snapshot, Held, Done
<1>3. ASSUME NEW c, Fine(c), NEW s
      PROVE  Fine(Active(c, s, t)) /\ Fine(Charge(c, e, t))
  <2>1. c = Snapshot(c.records, c.tombstones, c.policies, c.charges)
    BY <1>3 DEF Sound, Shaped
  <2>2. ASSUME NEW p, NEW q PROVE Fine(Snapshot(c.records, c.tombstones, p, q))
    BY <1>3 DEF Sound, Shaped, Snapshot, Held, Done
  <2>. DEFINE bucket == [c.policies EXCEPT ![s].active = t]
              spent == [c.policies EXCEPT ![SenderOf[e]] = Policy(@.permits - 1, @.refilled, t)]
              told == With(c.charges, e, t)
  <2>3. Active(c, s, t) = [c EXCEPT !.policies = bucket]
    BY DEF Active
  <2>4. Charge(c, e, t) = [c EXCEPT !.policies = spent, !.charges = told]
    BY DEF Charge
  <2>. HIDE DEF bucket, spent, told, Fine
  <2>5. Active(c, s, t) = Snapshot(c.records, c.tombstones, bucket, c.charges)
    BY <2>1, <2>3 DEF Snapshot
  <2>6. Charge(c, e, t) = Snapshot(c.records, c.tombstones, spent, told)
    BY <2>1, <2>4 DEF Snapshot
  <2> QED BY <2>2, <2>5, <2>6
<1>4. ASSUME NEW c, Fine(c), NEW s
      PROVE  LET next == Active(Retained(c, e, t), s, t)
             IN  Sound(next) /\ Held(next) = Held(snap) \cup {e} /\ Done(next) = Done(snap)
  <2>1. /\ Sound(Retained(c, e, t)) /\ Held(Retained(c, e, t)) = Held(snap) \cup {e}
        /\ Done(Retained(c, e, t)) = Done(snap)
    BY <1>4, RetainedEffect
  <2> QED BY <2>1 DEF Active, Sound, Shaped, Snapshot, Held, Done
<1>5. \/ Fine(d.snap)
      \/ Sound(d.snap) /\ Held(d.snap) = Held(snap) \cup {e} /\ Done(d.snap) = Done(snap)
  <2>1. CASE e \in DOMAIN Maintained(snap, t).records
    BY <1>1, <2>1 DEF Decisions, Decision
  <2>2. CASE e \notin DOMAIN Maintained(snap, t).records
    <3>1. PICK c \in Admitting(Maintained(snap, t), SenderOf[e], t) :
            \/ d = Decision("charged", Active(c, SenderOf[e], t))
            \/ d = Decision("quarantined", Active(Retained(c, e, t), SenderOf[e], t))
            \/ d = Decision("permit", Charge(c, e, t))
      BY <2>2 DEF Decisions
    <3>2. Fine(c)
      BY <1>1, <1>2
    <3> HIDE DEF Fine
    <3>3. \/ d.snap = Active(c, SenderOf[e], t)
          \/ d.snap = Active(Retained(c, e, t), SenderOf[e], t)
          \/ d.snap = Charge(c, e, t)
      BY <3>1 DEF Decision
    <3> QED BY <1>3, <1>4, <3>2, <3>3
  <2> QED BY <2>1, <2>2
<1> QED BY <1>5 DEF Follows, Sound

-----------------------------------------------------------------------------
(* Steps *)

\* A step leaves the file as it is, writes a snapshot that may follow it, or
\* deletes it; memory and file stay as IInv says.
Keeps == IInv' /\ (Follows(disk', disk) \/ disk' = disk \/ DeleteCapsuleQuarantine)

LEMMA CallShape ==
  ASSUME NEW at, NEW mem, NEW item
  PROVE  /\ Call(at, mem, item).at = at /\ Call(at, mem, item).mem = mem
         /\ Call(at, mem, item).item = item
         /\ Call(at, mem, item) =
              Call(Call(at, mem, item).at, Call(at, mem, item).mem, Call(at, mem, item).item)
BY DEF Call

\* The receive ends, or reads on without a change.
LEMMA NoWrite ==
  ASSUME IInv, disk' = disk,
         \/ call' = Idle
         \/ \E at \in {"opened", "recover", "items"} :
              /\ call.at # "idle" \/ call.mem = disk
              /\ call' = Call(at, call.mem, NoEvent) \/ call' = [call EXCEPT !.at = at]
         \/ call' = Call("opened", disk, NoEvent)
  PROVE  Keeps
<1>1. CASE call' = Idle
  BY <1>1, CallShape, EmptyIsSound DEF IInv, Keeps, Idle
<1>2. CASE call' = Call("opened", disk, NoEvent)
  BY <1>2, CallShape DEF IInv, Keeps
<1>3. ASSUME NEW at \in {"opened", "recover", "items"}, call.at # "idle" \/ call.mem = disk,
             call' = Call(at, call.mem, NoEvent) \/ call' = [call EXCEPT !.at = at]
      PROVE  Keeps
  <2>1. \E item : call' = Call(at, call.mem, item)
    BY <1>3 DEF IInv, Call
  <2>2. call'.at = at /\ call'.mem = call.mem /\ call' = Call(call'.at, call'.mem, call'.item)
    BY <2>1, CallShape
  <2> QED BY <1>3, <2>2 DEF IInv, Keeps
<1> QED BY <1>1, <1>2, <1>3

\* A write that the memory of the receive may be followed by.
LEMMA Written ==
  ASSUME IInv, call.at # "idle", NEW next, Follows(next, call.mem),
         disk' = next, NEW at, NEW item, call' = Call(at, next, item),
         at = "routed" => item \in Events \ Done(next)
  PROVE  Keeps
<1>1. Follows(disk', disk)
  BY FollowsLess DEF IInv
<1>2. call'.at = at /\ call'.mem = next /\ call'.item = item
      /\ call' = Call(call'.at, call'.mem, call'.item)
  BY CallShape
<1> QED BY <1>1, <1>2 DEF IInv, Keeps, Follows

\* A change that reached memory only.
LEMMA Unpersisted ==
  ASSUME IInv, call.at # "idle", disk' = disk, NEW next, Sound(next),
         Held(call.mem) \subseteq Held(next), Done(call.mem) \subseteq Done(next),
         NEW at, at # "routed", NEW item, call' = Call(at, next, item)
  PROVE  Keeps
<1>1. call'.at = at /\ call'.mem = next /\ call' = Call(call'.at, call'.mem, call'.item)
  BY CallShape
<1> QED BY <1>1 DEF IInv, Keeps

LEMMA Expiring == IInv /\ ExpireDue => Keeps
<1> SUFFICES ASSUME IInv, ExpireDue PROVE Keeps
  OBVIOUS
<1>. DEFINE kept == Pruned(call.mem, now)
            due == Due(call.mem, now)
            next == Terminated(kept, due, now)
<1>1. call.at = "opened" /\ Sound(call.mem)
  BY DEF ExpireDue, IInv
<1>2. Sound(kept) /\ Held(kept) = Held(call.mem) /\ Done(kept) \subseteq Done(call.mem)
  BY <1>1, PrunedEffect
<1>3. due \subseteq Held(kept)
  BY <1>2 DEF Due, Held
<1>4. /\ Sound(next) /\ Held(next) = Held(kept) \ due /\ Done(next) = Done(kept) \cup due
  BY <1>2, <1>3, TerminatedEffect
<1>5. Follows(next, call.mem)
  BY <1>1, <1>2, <1>4 DEF Follows, Sound
<1>6. CASE disk' = disk /\ call' = [call EXCEPT !.at = "recover"]
  BY <1>1, <1>6, NoWrite
<1>7. CASE disk' = next /\ call' = Call("recover", next, NoEvent)
  BY <1>1, <1>5, <1>7, Written
<1> QED BY <1>6, <1>7 DEF ExpireDue, Persist

LEMMA Recovering ==
  ASSUME IInv, NEW e \in Events, RecoverConsumed(e) \/ RecoverRetry(e)
  PROVE  Keeps
<1>1. call.at = "recover" /\ Sound(call.mem) /\ {e} \subseteq Held(call.mem)
  BY DEF RecoverConsumed, RecoverRetry, IInv, IsNextEligible, Eligible, Held
<1>2. CASE RecoverConsumed(e)
  <2>1. Follows(Terminated(call.mem, {e}, now), call.mem)
    BY <1>1, TerminatedEffect
  <2> QED BY <1>1, <1>2, <2>1, Written DEF RecoverConsumed, Persist
<1>3. CASE RecoverRetry(e)
  <2>1. Follows(Postponed(call.mem, e, now), call.mem)
    BY <1>1, PostponedEffect DEF Follows, Sound
  <2> QED BY <1>1, <1>3, <2>1, Written DEF RecoverRetry, Persist
<1> QED BY <1>2, <1>3

LEMMA Deciding ==
  ASSUME IInv, NEW e \in Events, ApplySenderPolicy(e) \/ PolicyUnwritten(e)
  PROVE  Keeps
<1>1. call.at = "items" /\ Sound(call.mem) /\ e \notin Done(call.mem)
  BY DEF ApplySenderPolicy, PolicyUnwritten, Unresolved, IInv, Done
<1>2. ASSUME NEW d \in Decisions(call.mem, e, now)
      PROVE  /\ Follows(d.snap, call.mem) /\ Sound(d.snap)
             /\ Held(call.mem) \subseteq Held(d.snap) /\ Done(d.snap) = Done(call.mem)
  BY <1>1, DecisionEffect DEF Follows
<1>3. CASE ApplySenderPolicy(e)
  <2>1. PICK d \in Decisions(call.mem, e, now) :
          /\ disk' = d.snap
          /\ call' = IF Routed(d.decision) THEN Call("routed", d.snap, e)
                                           ELSE Call("items", d.snap, NoEvent)
    BY <1>3 DEF ApplySenderPolicy, Persist
  <2> QED BY <1>1, <1>2, <2>1, Written
<1>4. CASE PolicyUnwritten(e)
  <2>1. PICK d \in Decisions(call.mem, e, now) : disk' = disk /\ call' = [call EXCEPT !.mem = d.snap]
    BY <1>4 DEF PolicyUnwritten, Unwritten
  <2>2. call' = Call("items", d.snap, call.item)
    BY <1>1, <2>1 DEF IInv, Call
  <2> QED BY <1>1, <1>2, <2>1, <2>2, Unpersisted
<1> QED BY <1>3, <1>4

LEMMA Retaining == IInv /\ ItemRetained => Keeps
<1> SUFFICES ASSUME IInv, ItemRetained PROVE Keeps
  OBVIOUS
<1>. DEFINE next == Retained(call.mem, call.item, now)
<1>1. call.at = "routed" /\ Sound(call.mem) /\ call.item \in Events \ Done(call.mem)
  BY DEF ItemRetained, IInv
<1>2. /\ Sound(next) /\ Follows(next, call.mem)
      /\ Held(call.mem) \subseteq Held(next) /\ Done(call.mem) = Done(next)
  BY <1>1, RetainedEffect
<1>3. \/ call' = Call("items", next, NoEvent) /\ disk' = next
      \/ call' = Call("items", next, NoEvent) /\ disk' = disk
      \/ call' = Call("items", call.mem, NoEvent) /\ disk' = disk
  BY DEF ItemRetained, Persist, Unwritten
<1> HIDE DEF next
<1>4. CASE call' = Call("items", next, NoEvent) /\ disk' = next
  BY <1>1, <1>2, <1>4, Written
<1>5. CASE call' = Call("items", next, NoEvent) /\ disk' = disk
  BY <1>1, <1>2, <1>5, Unpersisted
<1>6. CASE call' = Call("items", call.mem, NoEvent) /\ disk' = disk
  BY <1>1, <1>6, Unpersisted
<1> QED BY <1>3, <1>4, <1>5, <1>6

\* Every step of the quarantine keeps memory and file in step and writes nothing
\* that the file may not become.
LEMMA EveryStep == IInv /\ [Next]_vars => Keeps
<1> SUFFICES ASSUME IInv, [Next]_vars PROVE Keeps
  OBVIOUS
<1>1. CASE UNCHANGED vars
  BY <1>1 DEF vars, IInv, Keeps
<1>2. CASE Open
  BY <1>2, NoWrite DEF Open
<1>3. CASE ExpireDue
  BY <1>3, Expiring
<1>4. CASE ExpireFails \/ RecoverFails \/ Return
  BY <1>4, NoWrite DEF ExpireFails, RecoverFails, Return
<1>5. CASE NothingEligible
  BY <1>5, NoWrite DEF NothingEligible
<1>6. CASE ItemConsumed
  BY <1>6, NoWrite DEF ItemConsumed
<1>7. CASE ItemRetained
  BY <1>7, Retaining
<1>8. CASE DeleteCapsuleQuarantine
  BY <1>8, EmptyIsSound DEF DeleteCapsuleQuarantine, IInv, Keeps
<1>9. CASE Tick \/ SetClockBack
  BY <1>9 DEF Tick, SetClockBack, IInv, Keeps
<1>10. ASSUME NEW e \in Events, RecoverConsumed(e) \/ RecoverRetry(e) PROVE Keeps
  BY <1>10, Recovering
<1>11. ASSUME NEW e \in Events, ApplySenderPolicy(e) \/ PolicyUnwritten(e) PROVE Keeps
  BY <1>11, Deciding
<1> QED BY <1>1, <1>2, <1>3, <1>4, <1>5, <1>6, <1>7, <1>8, <1>9, <1>10, <1>11 DEF Next

LEMMA Initially == Init => IInv /\ Lifecycle!Init
BY EmptyIsSound, CallShape DEF Init, IInv, Idle, Lifecycle!Init, Held, Done

\* A kept step is a write, a deletion or a stutter of the lifecycle.
LEMMA Simulates ==
  IInv /\ [Next]_vars =>
    [Lifecycle!Next]_<<DOMAIN disk.records, DOMAIN disk.tombstones, deleted>>
<1> SUFFICES ASSUME IInv, [Next]_vars
             PROVE  Lifecycle!Next \/ UNCHANGED <<DOMAIN disk.records, DOMAIN disk.tombstones, deleted>>
  BY DEF Lifecycle!Next
<1>1. Keeps
  BY EveryStep
<1>2. (deleted' => deleted) \/ DeleteCapsuleQuarantine
  BY DEF Next, vars, Open, ExpireDue, ExpireFails, NothingEligible, RecoverFails, ItemConsumed,
         ItemRetained, Return, Tick, SetClockBack, RecoverConsumed, RecoverRetry,
         ApplySenderPolicy, PolicyUnwritten
<1>3. CASE DeleteCapsuleQuarantine
  BY <1>3, EmptyIsSound DEF DeleteCapsuleQuarantine, Lifecycle!Next, Lifecycle!Delete, Held, Done
<1>4. CASE (deleted' => deleted) /\ Follows(disk', disk)
  BY <1>4 DEF Follows, Sound, Held, Done, Lifecycle!Next, Lifecycle!Write
<1>5. CASE (deleted' => deleted) /\ disk' = disk
  BY <1>5 DEF IInv, Sound, Held, Done, Lifecycle!Next, Lifecycle!Write
<1>6. Follows(disk', disk) \/ disk' = disk \/ DeleteCapsuleQuarantine
  BY <1>1 DEF Keeps
<1> QED BY <1>2, <1>3, <1>4, <1>5, <1>6

\* Memory and file never disagree in a way that loses an envelope: no envelope is
\* both retained and ended in the file.
THEOREM MemoryAndFile == Spec => []IInv
<1>1. IInv /\ [Next]_vars => IInv'
  BY EveryStep DEF Keeps
<1> QED BY <1>1, Initially, PTL DEF Spec

\* The quarantine implements its lifecycle: what was durably retained leaves only
\* with terminal evidence and does not come back while the evidence is kept,
\* through failed writes, crashes, deletions under a running receive, full
\* repositories and a clock that is set back (inbound_quarantine.rs).
THEOREM Refinement == Spec => ImplementsLifecycle
<1>1. IInv /\ [Next]_vars => IInv'
  BY EveryStep DEF Keeps
<1>2. Init => Lifecycle!Init
  BY Initially
<1> QED BY <1>1, <1>2, Initially, Simulates, PTL DEF Spec, ImplementsLifecycle, Lifecycle!Spec


-----------------------------------------------------------------------------
(* The invariant of the limits, the rate and the ghosts: each part of a     *)
(* snapshot fits its limits and tells enough of what happened.              *)

RecordsFit(records) ==
  /\ DOMAIN records \subseteq Events
  /\ \A e \in DOMAIN records :
       /\ records[e] \in [at : Nat, eligible : Nat, expires : Nat, attempts : 0..6]
       /\ records[e].expires = records[e].at + PayloadRetention
  /\ Cardinality(DOMAIN records) <= MaxRecords
  /\ \A s \in Senders : Cardinality({e \in DOMAIN records : SenderOf[e] = s}) <= MaxRecordsPerSender

TombstonesFit(tombstones) ==
  /\ DOMAIN tombstones \subseteq Events
  /\ \A e \in DOMAIN tombstones : tombstones[e] \in Nat
  /\ Cardinality(DOMAIN tombstones) <= MaxTombstones

PoliciesFit(policies) ==
  /\ DOMAIN policies \subseteq Senders
  /\ \A s \in DOMAIN policies :
       /\ policies[s] \in [permits : Nat, refilled : Nat, active : Nat]
       /\ policies[s].permits <= Burst
  /\ Cardinality(DOMAIN policies) <= MaxPolicySenders

ChargesFit(charges, senders) ==
  /\ DOMAIN charges \subseteq Events
  /\ \A e \in DOMAIN charges : charges[e] \in Nat /\ SenderOf[e] \in senders
  /\ Cardinality(DOMAIN charges) <= MaxCharges
  /\ \A s \in Senders : Cardinality({e \in DOMAIN charges : SenderOf[e] = s}) <= MaxChargesPerSender

Fits(snap) ==
  /\ RecordsFit(snap.records) /\ TombstonesFit(snap.tombstones)
  /\ PoliciesFit(snap.policies) /\ ChargesFit(snap.charges, DOMAIN snap.policies)

\* What a sender was given, what its bucket still holds and what the bucket is
\* about to be refilled with never exceed the burst and the time that passed; a
\* sender without a bucket has given its burst back.
Bounded(policies, given) ==
  \A s \in Senders :
    IF s \in DOMAIN policies
    THEN given[s] * RefillSecs + policies[s].permits * RefillSecs + Elapsed(now, policies[s].refilled)
           <= Burst * RefillSecs + ran
    ELSE given[s] * RefillSecs <= ran

\* What was remembered at some time is remembered until its retention has passed,
\* with a date from which no more time seems to have passed than really has.
Recalls(dates, since, retention) ==
  \A e \in DOMAIN since :
    \/ ran - since[e] > retention
    \/ e \in DOMAIN dates /\ Elapsed(now, dates[e]) <= ran - since[e]

Faithful(snap, given, paid, over) ==
  /\ Bounded(snap.policies, given)
  /\ Recalls(snap.charges, paid, ChargeRetention)
  /\ Recalls(snap.tombstones, over, TombstoneRetention)

Good(snap) == Sound(snap) /\ Fits(snap) /\ Faithful(snap, granted, charged, ended)

\* A ghost of past times.
Past(since) == DOMAIN since \subseteq Events /\ \A e \in DOMAIN since : since[e] \in 0..ran

GhostsTyped ==
  /\ call.at \in {"idle", "opened", "recover", "items", "routed"}
  /\ call.item \in Events \cup {NoEvent}
  /\ now \in Nat /\ ran \in Nat
  /\ granted \in [Senders -> Nat]
  /\ Past(charged) /\ Past(ended)
  /\ deleted \in BOOLEAN

QInv ==
  /\ GhostsTyped
  /\ Fits(disk) /\ Fits(call.mem)
  /\ Faithful(disk, granted, charged, ended)
  /\ call.at # "idle" => Faithful(call.mem, granted, charged, ended)


(* Counting *)

LEMMA Counts ==
  ASSUME NEW S, IsFiniteSet(S), NEW T \in SUBSET S, NEW U \in SUBSET T
  PROVE  /\ IsFiniteSet(T) /\ Cardinality(T) \in Nat /\ Cardinality(U) \in Nat
         /\ Cardinality(U) <= Cardinality(T)
<1>1. IsFiniteSet(T) /\ IsFiniteSet(U)
  BY FS_Subset
<1> QED BY <1>1, FS_Subset, FS_CardinalityType

LEMMA ShareShrinks ==
  ASSUME NEW T \in SUBSET Events, NEW U \in SUBSET T
  PROVE  /\ Cardinality(U) \in Nat /\ Cardinality(T) \in Nat /\ Cardinality(U) <= Cardinality(T)
         /\ \A s : /\ Cardinality({e \in U : SenderOf[e] = s}) \in Nat
                   /\ Cardinality({e \in T : SenderOf[e] = s}) \in Nat
                   /\ Cardinality({e \in U : SenderOf[e] = s}) <= Cardinality({e \in T : SenderOf[e] = s})
<1>1. IsFiniteSet(Events)
  BY QuarantineAssumption
<1>2. Cardinality(U) \in Nat /\ Cardinality(T) \in Nat /\ Cardinality(U) <= Cardinality(T)
  BY <1>1, Counts
<1>3. ASSUME NEW s
      PROVE  /\ Cardinality({e \in U : SenderOf[e] = s}) \in Nat
             /\ Cardinality({e \in T : SenderOf[e] = s}) \in Nat
             /\ Cardinality({e \in U : SenderOf[e] = s}) <= Cardinality({e \in T : SenderOf[e] = s})
  <2>. DEFINE mine == {e \in U : SenderOf[e] = s}
              all == {e \in T : SenderOf[e] = s}
  <2>1. all \in SUBSET Events /\ mine \in SUBSET all
    OBVIOUS
  <2>. HIDE DEF mine, all
  <2>2. Cardinality(mine) \in Nat /\ Cardinality(all) \in Nat /\ Cardinality(mine) <= Cardinality(all)
    BY <1>1, <2>1, Counts
  <2> QED BY <2>2 DEF mine, all
<1> QED BY <1>2, <1>3

LEMMA ShareGrows ==
  ASSUME NEW T \in SUBSET Events, NEW e \in Events
  PROVE  /\ Cardinality(T \cup {e}) <= Cardinality(T) + 1
         /\ \A s : /\ s = SenderOf[e] =>
                        Cardinality({f \in T \cup {e} : SenderOf[f] = s})
                          <= Cardinality({f \in T : SenderOf[f] = s}) + 1
                   /\ s # SenderOf[e] =>
                        {f \in T \cup {e} : SenderOf[f] = s} = {f \in T : SenderOf[f] = s}
<1>1. IsFiniteSet(Events)
  BY QuarantineAssumption
<1>2. ASSUME NEW V \in SUBSET Events
      PROVE  Cardinality(V \cup {e}) <= Cardinality(V) + 1
  <2>1. IsFiniteSet(V) /\ Cardinality(V) \in Nat
    BY <1>1, FS_Subset, FS_CardinalityType
  <2>2. Cardinality(V \cup {e}) = IF e \in V THEN Cardinality(V) ELSE Cardinality(V) + 1
    BY <2>1, FS_AddElement
  <2> QED BY <2>1, <2>2
<1>3. ASSUME NEW s, s = SenderOf[e]
      PROVE  Cardinality({f \in T \cup {e} : SenderOf[f] = s})
               <= Cardinality({f \in T : SenderOf[f] = s}) + 1
  <2>. DEFINE mine == {f \in T : SenderOf[f] = s}
  <2>1. mine \in SUBSET Events /\ {f \in T \cup {e} : SenderOf[f] = s} = mine \cup {e}
    BY <1>3
  <2>. HIDE DEF mine
  <2>2. Cardinality(mine \cup {e}) <= Cardinality(mine) + 1
    BY <1>2, <2>1
  <2> QED BY <2>1, <2>2 DEF mine
<1>4. ASSUME NEW s, s # SenderOf[e]
      PROVE  {f \in T \cup {e} : SenderOf[f] = s} = {f \in T : SenderOf[f] = s}
  BY <1>4
<1> QED BY <1>2, <1>3, <1>4

\* The parts are those validate_snapshot and the types speak of.
LEMMA FitsMeans ==
  ASSUME NEW snap, Sound(snap), Fits(snap)
  PROVE  IsSnapshot(snap) /\ Valid(snap)
<1>1. DOMAIN snap = {"records", "tombstones", "policies", "charges"}
  BY DEF Sound, Shaped, Snapshot
<1>2. IsSnapshot(snap)
  BY <1>1 DEF Fits, IsSnapshot, RecordsFit, TombstonesFit, PoliciesFit, ChargesFit
<1>3. Valid(snap)
  BY DEF Fits, Valid, RecordsFit, TombstonesFit, PoliciesFit, ChargesFit, RecordsOf, ChargesOf,
         Sound, Held, Done
<1> QED BY <1>2, <1>3

LEMMA EmptyFits == Fits(Empty)
<1>1. /\ Empty.records = <<>> /\ Empty.tombstones = <<>>
      /\ Empty.policies = <<>> /\ Empty.charges = <<>>
  BY DEF Empty, Snapshot
<1>2. DOMAIN <<>> = {} /\ Cardinality({}) = 0
  BY FS_EmptySet
<1>3. \A s : {e \in {} : SenderOf[e] = s} = {}
  OBVIOUS
<1>4. 0 <= MaxRecords /\ 0 <= MaxRecordsPerSender /\ 0 <= MaxTombstones
      /\ 0 <= MaxPolicySenders /\ 0 <= MaxCharges /\ 0 <= MaxChargesPerSender
  BY QuarantineAssumption
<1>5. RecordsFit(<<>>)
  BY <1>2, <1>3, <1>4 DEF RecordsFit
<1>6. TombstonesFit(<<>>) /\ PoliciesFit(<<>>)
  BY <1>2, <1>4 DEF TombstonesFit, PoliciesFit
<1>7. ChargesFit(<<>>, {})
  BY <1>2, <1>3, <1>4 DEF ChargesFit
<1> QED BY <1>1, <1>2, <1>5, <1>6, <1>7 DEF Fits

-----------------------------------------------------------------------------
(* The changes of a snapshot keep it within its limits *)

LEMMA FewerRecords ==
  ASSUME NEW records, RecordsFit(records), NEW ids
  PROVE  RecordsFit(Without(records, ids))
<1>1. /\ DOMAIN Without(records, ids) = DOMAIN records \ ids
      /\ \A e \in DOMAIN records \ ids : Without(records, ids)[e] = records[e]
  BY DEF Without, Restrict
<1>2. DOMAIN records \in SUBSET Events /\ (DOMAIN records \ ids) \in SUBSET DOMAIN records
  BY DEF RecordsFit
<1>3. /\ Cardinality(DOMAIN records \ ids) <= MaxRecords
      /\ \A s \in Senders :
           Cardinality({e \in DOMAIN records \ ids : SenderOf[e] = s}) <= MaxRecordsPerSender
  <2>. DEFINE all == DOMAIN records
              rest == DOMAIN records \ ids
  <2>1. all \in SUBSET Events /\ rest \in SUBSET all
    BY <1>2
  <2>2. /\ Cardinality(all) <= MaxRecords
        /\ \A s \in Senders : Cardinality({e \in all : SenderOf[e] = s}) <= MaxRecordsPerSender
    BY DEF RecordsFit
  <2>. HIDE DEF all, rest
  <2>3. /\ Cardinality(rest) \in Nat /\ Cardinality(all) \in Nat /\ Cardinality(rest) <= Cardinality(all)
        /\ \A s : /\ Cardinality({e \in rest : SenderOf[e] = s}) \in Nat
                  /\ Cardinality({e \in all : SenderOf[e] = s}) \in Nat
                  /\ Cardinality({e \in rest : SenderOf[e] = s}) <= Cardinality({e \in all : SenderOf[e] = s})
    BY <2>1, ShareShrinks
  <2>4. Cardinality(rest) <= MaxRecords
    BY <2>2, <2>3, QuarantineAssumption
  <2>5. \A s \in Senders : Cardinality({e \in rest : SenderOf[e] = s}) <= MaxRecordsPerSender
    <3> SUFFICES ASSUME NEW s \in Senders
                 PROVE  Cardinality({e \in rest : SenderOf[e] = s}) <= MaxRecordsPerSender
      OBVIOUS
    <3>. DEFINE mine == Cardinality({e \in rest : SenderOf[e] = s})
                whole == Cardinality({e \in all : SenderOf[e] = s})
    <3>1. mine \in Nat /\ whole \in Nat /\ mine <= whole /\ whole <= MaxRecordsPerSender
      BY <2>2, <2>3
    <3>. HIDE DEF mine, whole
    <3>2. mine <= MaxRecordsPerSender
      BY <3>1, QuarantineAssumption
    <3> QED BY <3>2 DEF mine
  <2> QED BY <2>4, <2>5 DEF rest
<1> QED BY <1>1, <1>2, <1>3 DEF RecordsFit

LEMMA OneMoreRecord ==
  ASSUME NEW snap, Sound(snap), RecordsFit(snap.records), NEW e \in Events, HasRoom(snap, e),
         now \in Nat
  PROVE  RecordsFit(Retained(snap, e, now).records)
<1>. DEFINE all == DOMAIN snap.records
            fresh == Record(now, now + InitialRetryDelay, now + PayloadRetention, 0)
            records == With(snap.records, e, fresh)
<1>1. SenderOf[e] \in Senders
  BY QuarantineAssumption
<1>2. all \in SUBSET Events /\ e \in Events
  BY DEF RecordsFit
<1>3. Cardinality(all) \in Nat /\ \A s : Cardinality({f \in all : SenderOf[f] = s}) \in Nat
  BY <1>2, ShareShrinks
<1>4. /\ Cardinality(all \cup {e}) <= Cardinality(all) + 1
      /\ \A s : /\ s = SenderOf[e] =>
                     Cardinality({f \in all \cup {e} : SenderOf[f] = s})
                       <= Cardinality({f \in all : SenderOf[f] = s}) + 1
                /\ s # SenderOf[e] =>
                     {f \in all \cup {e} : SenderOf[f] = s} = {f \in all : SenderOf[f] = s}
  BY <1>2, ShareGrows
<1>5. /\ Cardinality(all) < MaxRecords
      /\ Cardinality({f \in all : SenderOf[f] = SenderOf[e]}) < MaxRecordsPerSender
  BY DEF HasRoom, RecordsOf
<1>6. \A s \in Senders : Cardinality({f \in all : SenderOf[f] = s}) <= MaxRecordsPerSender
  BY DEF RecordsFit
<1>7. fresh \in [at : Nat, eligible : Nat, expires : Nat, attempts : 0..6]
      /\ fresh.expires = fresh.at + PayloadRetention
  BY QuarantineAssumption DEF Record
<1>8. DOMAIN records = all \cup {e} /\ records[e] = fresh
      /\ \A f \in all : f # e => records[f] = snap.records[f]
  BY DEF With
<1>9. /\ Cardinality(all \cup {e}) \in Nat
      /\ \A s : Cardinality({f \in all \cup {e} : SenderOf[f] = s}) \in Nat
  <2>1. (all \cup {e}) \in SUBSET Events
    BY <1>2
  <2> QED BY <2>1, ShareShrinks
<1>10. \A f \in all : /\ snap.records[f] \in [at : Nat, eligible : Nat, expires : Nat, attempts : 0..6]
                      /\ snap.records[f].expires = snap.records[f].at + PayloadRetention
  BY DEF RecordsFit
<1>11. Retained(snap, e, now) = [snap EXCEPT !.records = records]
  BY DEF Retained
<1>. HIDE DEF all, fresh, records
<1>12. Cardinality(all \cup {e}) <= MaxRecords
  BY <1>3, <1>4, <1>5, <1>9, QuarantineAssumption
<1>13. \A s \in Senders : Cardinality({f \in all \cup {e} : SenderOf[f] = s}) <= MaxRecordsPerSender
  <2> SUFFICES ASSUME NEW s \in Senders
               PROVE  Cardinality({f \in all \cup {e} : SenderOf[f] = s}) <= MaxRecordsPerSender
    OBVIOUS
  <2>1. CASE s # SenderOf[e]
    BY <1>4, <1>6, <2>1
  <2>2. CASE s = SenderOf[e]
    <3>. DEFINE grown == Cardinality({f \in all \cup {e} : SenderOf[f] = s})
                before == Cardinality({f \in all : SenderOf[f] = s})
    <3>1. grown \in Nat /\ before \in Nat /\ grown <= before + 1 /\ before < MaxRecordsPerSender
      BY <1>3, <1>4, <1>5, <1>9, <2>2
    <3>. HIDE DEF grown, before
    <3>2. grown <= MaxRecordsPerSender
      BY <3>1, QuarantineAssumption
    <3> QED BY <3>2 DEF grown
  <2> QED BY <2>1, <2>2
<1>14. RecordsFit(records)
  <2>1. \A f \in all \cup {e} :
          /\ records[f] \in [at : Nat, eligible : Nat, expires : Nat, attempts : 0..6]
          /\ records[f].expires = records[f].at + PayloadRetention
    BY <1>7, <1>8, <1>10
  <2> QED BY <1>2, <1>8, <1>12, <1>13, <2>1 DEF RecordsFit
<1>15. RecordsFit([snap EXCEPT !.records = records].records)
  BY <1>14
<1> QED BY <1>11, <1>15

LEMMA Delays ==
  ASSUME NEW n \in Nat
  PROVE  RetryDelay(n) \in Nat
<1>1. \A k \in 1..7 : Pow2[k] \in Nat
  BY DEF Pow2
<1>2. Least(n, 6) + 1 \in 1..7
  BY DEF Least
<1>3. Pow2[Least(n, 6) + 1] \in Nat
  BY <1>1, <1>2
<1>4. \A i \in Nat, j \in Nat : i * j \in Nat
  OBVIOUS
<1>5. InitialRetryDelay * Pow2[Least(n, 6) + 1] \in Nat
  BY <1>3, <1>4, QuarantineAssumption
<1> QED BY <1>5, QuarantineAssumption DEF RetryDelay, Least

LEMMA PostponedRecords ==
  ASSUME NEW snap, Sound(snap), RecordsFit(snap.records), NEW e \in DOMAIN snap.records, now \in Nat
  PROVE  RecordsFit(Postponed(snap, e, now).records)
<1>. DEFINE r == snap.records[e]
            later == Record(r.at, Least(now + RetryDelay(r.attempts + 1), r.expires), r.expires,
                            Least(r.attempts + 1, 6))
            records == [snap.records EXCEPT ![e] = later]
<1>1. r \in [at : Nat, eligible : Nat, expires : Nat, attempts : 0..6]
      /\ r.expires = r.at + PayloadRetention
  BY DEF RecordsFit
<1>2. later \in [at : Nat, eligible : Nat, expires : Nat, attempts : 0..6]
      /\ later.expires = later.at + PayloadRetention
  <2>1. r.attempts + 1 \in Nat
    BY <1>1
  <2>2. RetryDelay(r.attempts + 1) \in Nat
    BY <2>1, Delays
  <2>3. Least(now + RetryDelay(r.attempts + 1), r.expires) \in Nat
    BY <1>1, <2>2 DEF Least
  <2>4. Least(r.attempts + 1, 6) \in 0..6
    BY <1>1 DEF Least
  <2>. HIDE DEF r
  <2> QED BY <1>1, <2>3, <2>4 DEF Record
<1>3. Postponed(snap, e, now).records = records
  BY DEF Postponed, Sound, Shaped, Snapshot
<1>4. DOMAIN records = DOMAIN snap.records
      /\ \A f \in DOMAIN records : records[f] = IF f = e THEN later ELSE snap.records[f]
  OBVIOUS
<1>. HIDE DEF later, r, records
<1>5. RecordsFit(records)
  BY <1>2, <1>4 DEF RecordsFit
<1> QED BY <1>3, <1>5

\* Pruning forgets only tombstones past their retention.
LEMMA PrunedTombstones ==
  ASSUME NEW snap, Sound(snap), TombstonesFit(snap.tombstones), now \in Nat
  PROVE  /\ TombstonesFit(Pruned(snap, now).tombstones)
         /\ \A e \in DOMAIN snap.tombstones :
              \/ Elapsed(now, snap.tombstones[e]) > TombstoneRetention
              \/ /\ e \in DOMAIN Pruned(snap, now).tombstones
                 /\ Pruned(snap, now).tombstones[e] = snap.tombstones[e]
<1>. DEFINE kept == {e \in DOMAIN snap.tombstones :
                       Elapsed(now, snap.tombstones[e]) <= TombstoneRetention}
            tombstones == Pruned(snap, now).tombstones
<1>1. tombstones = Restrict(snap.tombstones, kept)
  BY DEF Pruned, Sound, Shaped, Snapshot
<1>2. DOMAIN tombstones = kept /\ \A e \in kept : tombstones[e] = snap.tombstones[e]
  BY <1>1 DEF Restrict
<1>3. DOMAIN snap.tombstones \in SUBSET Events /\ kept \in SUBSET DOMAIN snap.tombstones
  BY DEF TombstonesFit
<1>4. Cardinality(kept) \in Nat /\ Cardinality(kept) <= Cardinality(DOMAIN snap.tombstones)
      /\ Cardinality(DOMAIN snap.tombstones) \in Nat
  BY <1>3, ShareShrinks
<1>5. Cardinality(kept) <= MaxTombstones
  BY <1>4, QuarantineAssumption DEF TombstonesFit
<1>6. \A e \in DOMAIN snap.tombstones : e \notin kept => Elapsed(now, snap.tombstones[e]) > TombstoneRetention
  BY QuarantineAssumption DEF TombstonesFit, Elapsed
<1>7. \A e \in kept : snap.tombstones[e] \in Nat
  BY DEF TombstonesFit
<1>. HIDE DEF kept, tombstones
<1>8. TombstonesFit(tombstones)
  BY <1>2, <1>3, <1>5, <1>7 DEF TombstonesFit
<1> QED BY <1>2, <1>6, <1>8 DEF tombstones

LEMMA TerminatedParts ==
  ASSUME NEW snap, Sound(snap), NEW ids
  PROVE  /\ Terminated(snap, ids, now).records = Without(snap.records, ids)
         /\ Terminated(snap, ids, now).policies = snap.policies
         /\ Terminated(snap, ids, now).charges = snap.charges
         /\ DOMAIN Terminated(snap, ids, now).tombstones = DOMAIN snap.tombstones \cup ids
         /\ \A e \in DOMAIN snap.tombstones \cup ids :
              Terminated(snap, ids, now).tombstones[e] =
                IF e \in DOMAIN snap.tombstones THEN snap.tombstones[e] ELSE now
<1>. DEFINE marked == [e \in DOMAIN snap.tombstones \cup ids |->
                         IF e \in DOMAIN snap.tombstones THEN snap.tombstones[e] ELSE now]
            rest == Without(snap.records, ids)
<1>1. Terminated(snap, ids, now) = [snap EXCEPT !.records = rest, !.tombstones = marked]
  BY DEF Terminated
<1>2. /\ DOMAIN marked = DOMAIN snap.tombstones \cup ids
      /\ \A e \in DOMAIN snap.tombstones \cup ids :
           marked[e] = IF e \in DOMAIN snap.tombstones THEN snap.tombstones[e] ELSE now
  OBVIOUS
<1>. HIDE DEF marked, rest
<1>3. Terminated(snap, ids, now) = Snapshot(rest, marked, snap.policies, snap.charges)
  BY <1>1 DEF Sound, Shaped, Snapshot
<1>4. /\ Terminated(snap, ids, now).records = rest
      /\ Terminated(snap, ids, now).tombstones = marked
      /\ Terminated(snap, ids, now).policies = snap.policies
      /\ Terminated(snap, ids, now).charges = snap.charges
  BY <1>3 DEF Snapshot
<1> QED BY <1>2, <1>4 DEF rest

\* Ending envelopes stays within the limits when there is room for their
\* tombstones.
LEMMA TerminatedFits ==
  ASSUME NEW snap, Sound(snap), Fits(snap), NEW ids \in SUBSET Events,
         HasTombstoneRoom(snap, ids), now \in Nat
  PROVE  Fits(Terminated(snap, ids, now))
<1>. DEFINE before == DOMAIN snap.tombstones
            after == Terminated(snap, ids, now).tombstones
<1>1. RecordsFit(Terminated(snap, ids, now).records)
  BY TerminatedParts, FewerRecords DEF Fits
<1>2. PoliciesFit(Terminated(snap, ids, now).policies)
      /\ ChargesFit(Terminated(snap, ids, now).charges, DOMAIN Terminated(snap, ids, now).policies)
  BY TerminatedParts DEF Fits
<1>3. /\ DOMAIN after = before \cup ids
      /\ \A e \in before \cup ids :
           after[e] = IF e \in before THEN snap.tombstones[e] ELSE now
  BY TerminatedParts
<1>4. before \in SUBSET Events /\ \A e \in before : snap.tombstones[e] \in Nat
  BY DEF Fits, TombstonesFit
<1>5. Cardinality(before) + Cardinality(ids) <= MaxTombstones
  BY DEF HasTombstoneRoom
<1>6. IsFiniteSet(before) /\ IsFiniteSet(ids)
  BY <1>4, FS_Subset, QuarantineAssumption
<1>7. IsFiniteSet(before \cup ids) /\ IsFiniteSet(before \cap ids)
      /\ Cardinality(before \cup ids) = Cardinality(before) + Cardinality(ids) - Cardinality(before \cap ids)
  <2>1. (before \cap ids) \in SUBSET before
    OBVIOUS
  <2> QED BY <1>6, <2>1, FS_Union, FS_Subset
<1>8. /\ Cardinality(before) \in Nat /\ Cardinality(ids) \in Nat
      /\ Cardinality(before \cup ids) \in Nat /\ Cardinality(before \cap ids) \in Nat
  BY <1>6, <1>7, FS_CardinalityType
<1>. HIDE DEF before, after
<1>9. Cardinality(before \cup ids) <= MaxTombstones
  BY <1>5, <1>7, <1>8, QuarantineAssumption
<1>10. TombstonesFit(after)
  BY <1>3, <1>4, <1>9 DEF TombstonesFit
<1> QED BY <1>1, <1>2, <1>10 DEF Fits, after

-----------------------------------------------------------------------------
(* The changes of the buckets keep the rate *)

LEMMA Division ==
  ASSUME NEW a \in Nat, NEW b \in Nat \ {0}
  PROVE  /\ a \div b \in Nat /\ (a \div b) * b \in Nat
         /\ (a \div b) * b <= a
<1>1. a \div b \in Nat
  OBVIOUS
<1>2. a = b * (a \div b) + (a % b) /\ a % b \in Nat
  OBVIOUS
<1>. DEFINE q == a \div b
<1>3. q \in Nat
  BY <1>1
<1>. HIDE DEF q
<1>4. b * q = q * b /\ q * b \in Nat
  BY <1>3
<1>5. q * b <= a
  BY <1>2, <1>4 DEF q
<1> QED BY <1>1, <1>4, <1>5 DEF q

\* An interval that refills is paid for with time that passed.
LEMMA RefillPays ==
  ASSUME NEW p, p \in [permits : Nat, refilled : Nat, active : Nat], p.permits <= Burst, now \in Nat
  PROVE  LET q == Refilled(p, now)
         IN  /\ q \in [permits : Nat, refilled : Nat, active : Nat] /\ q.permits <= Burst
             /\ q.permits * RefillSecs + Elapsed(now, q.refilled)
                  <= p.permits * RefillSecs + Elapsed(now, p.refilled)
<1>. DEFINE E == Elapsed(now, p.refilled)
            n == E \div RefillSecs
            full == Least(p.permits + n, Burst)
            R == RefillSecs
<1>1. E \in Nat /\ R \in Nat \ {0} /\ Burst \in Nat
  BY QuarantineAssumption DEF Elapsed
<1>2. n \in Nat /\ n * R <= E /\ n * R \in Nat
  <2>. HIDE DEF E, R
  <2> QED BY <1>1, Division DEF R
<1>3. full \in Nat /\ full <= Burst /\ full <= p.permits + n
  <2>. HIDE DEF n
  <2> QED BY <1>1, <1>2 DEF Least
<1>4. Refilled(p, now) = [permits |-> full, refilled |-> p.refilled + n * R, active |-> p.active]
  BY DEF Refilled, Policy
<1>5. Elapsed(now, p.refilled + n * R) <= E - n * R /\ Elapsed(now, p.refilled + n * R) \in Nat
  <2>. DEFINE m == n * R
  <2>1. m \in Nat /\ m <= E
    BY <1>2
  <2>. HIDE DEF m
  <2>2. Elapsed(now, p.refilled + m) <= E - m /\ Elapsed(now, p.refilled + m) \in Nat
    BY <2>1 DEF Elapsed
  <2> QED BY <2>2 DEF m
<1>6. full * R <= p.permits * R + n * R
  <2>. HIDE DEF n, full, R
  <2>1. ASSUME NEW a \in Nat, NEW b \in Nat, NEW c \in Nat, a <= b + c
        PROVE  a * R <= b * R + c * R /\ a * R \in Nat /\ b * R \in Nat /\ c * R \in Nat
    <3>1. PICK d \in Nat : b + c = a + d
      <4>1. b + c - a \in Nat /\ b + c = a + (b + c - a)
        BY <2>1
      <4> QED BY <4>1
    <3>2. b * R + c * R = a * R + d * R /\ d * R \in Nat /\ a * R \in Nat /\ b * R \in Nat /\ c * R \in Nat
      <4>1. (b + c) * R = b * R + c * R /\ (a + d) * R = a * R + d * R
        BY <1>1
      <4>2. (b + c) * R = (a + d) * R
        BY <3>1
      <4>3. d * R \in Nat /\ a * R \in Nat /\ b * R \in Nat /\ c * R \in Nat
        BY <1>1
      <4> QED BY <4>1, <4>2, <4>3
    <3>. DEFINE x == a * R
                y == b * R
                z == c * R
                w == d * R
    <3>3. y + z = x + w /\ x \in Nat /\ y \in Nat /\ z \in Nat /\ w \in Nat
      BY <3>2
    <3>. HIDE DEF x, y, z, w
    <3>4. x <= y + z
      BY <3>3
    <3> QED BY <3>3, <3>4 DEF x, y, z
  <2>2. p.permits \in Nat
    OBVIOUS
  <2> QED BY <1>2, <1>3, <2>1, <2>2
<1>7. full * R + Elapsed(now, p.refilled + n * R) <= p.permits * R + E
  <2>. DEFINE x == full * R
              y == p.permits * R
              z == n * R
              g == Elapsed(now, p.refilled + n * R)
  <2>1. x \in Nat /\ y \in Nat /\ z \in Nat /\ g \in Nat /\ x <= y + z /\ g <= E - z
    BY <1>1, <1>2, <1>3, <1>5, <1>6
  <2>. HIDE DEF x, y, z, g, E
  <2>2. x + g <= y + E
    BY <1>1, <2>1
  <2> QED BY <2>2 DEF x, y, g
<1>8. p.refilled + n * R \in Nat
  BY <1>2
<1>. HIDE DEF full, n, E
<1> QED BY <1>3, <1>4, <1>7, <1>8 DEF E

\* Maintaining forgets only charges past their retention and refills only what
\* time has paid for.
LEMMA MaintainedGood ==
  ASSUME GhostsTyped, NEW snap, Good(snap)
  PROVE  LET m == Maintained(snap, now)
         IN  /\ Good(m)
             /\ m.records = snap.records /\ m.tombstones = snap.tombstones
<1>. DEFINE m == Maintained(snap, now)
            kept == {e \in DOMAIN snap.charges : Elapsed(now, snap.charges[e]) <= ChargeRetention}
<1>1. /\ m.records = snap.records /\ m.tombstones = snap.tombstones
      /\ DOMAIN m.policies = DOMAIN snap.policies
      /\ \A s \in DOMAIN snap.policies : m.policies[s] = Refilled(snap.policies[s], now)
      /\ m.charges = Restrict(snap.charges, kept)
  BY DEF Maintained, Snapshot
<1>0. Sound(m)
  BY DEF Maintained, Snapshot, Good, Sound, Shaped, Held, Done
<1>2. DOMAIN m.charges = kept /\ \A e \in kept : m.charges[e] = snap.charges[e]
  BY <1>1 DEF Restrict
<1>3. now \in Nat /\ ran \in Nat /\ granted \in [Senders -> Nat]
  BY DEF GhostsTyped
<1>4. /\ RecordsFit(snap.records) /\ TombstonesFit(snap.tombstones)
      /\ PoliciesFit(snap.policies) /\ ChargesFit(snap.charges, DOMAIN snap.policies)
      /\ Bounded(snap.policies, granted)
      /\ Recalls(snap.charges, charged, ChargeRetention)
      /\ Recalls(snap.tombstones, ended, TombstoneRetention)
  BY DEF Good, Fits, Faithful
<1>. HIDE DEF m
<1>5. \A s \in DOMAIN snap.policies :
        /\ m.policies[s] \in [permits : Nat, refilled : Nat, active : Nat]
        /\ m.policies[s].permits <= Burst
        /\ m.policies[s].permits * RefillSecs + Elapsed(now, m.policies[s].refilled)
             <= snap.policies[s].permits * RefillSecs + Elapsed(now, snap.policies[s].refilled)
  <2> SUFFICES ASSUME NEW s \in DOMAIN snap.policies
               PROVE  /\ m.policies[s] \in [permits : Nat, refilled : Nat, active : Nat]
                      /\ m.policies[s].permits <= Burst
                      /\ m.policies[s].permits * RefillSecs + Elapsed(now, m.policies[s].refilled)
                           <= snap.policies[s].permits * RefillSecs + Elapsed(now, snap.policies[s].refilled)
    OBVIOUS
  <2>1. snap.policies[s] \in [permits : Nat, refilled : Nat, active : Nat]
        /\ snap.policies[s].permits <= Burst
    BY <1>4 DEF PoliciesFit
  <2>2. LET q == Refilled(snap.policies[s], now)
        IN  /\ q \in [permits : Nat, refilled : Nat, active : Nat] /\ q.permits <= Burst
            /\ q.permits * RefillSecs + Elapsed(now, q.refilled)
                 <= snap.policies[s].permits * RefillSecs + Elapsed(now, snap.policies[s].refilled)
    BY <1>3, <2>1, RefillPays
  <2> QED BY <1>1, <2>2
<1>6. PoliciesFit(m.policies)
  BY <1>1, <1>4, <1>5 DEF PoliciesFit
<1>7. Bounded(m.policies, granted)
  <2> SUFFICES ASSUME NEW s \in Senders
               PROVE  IF s \in DOMAIN m.policies
                      THEN granted[s] * RefillSecs + m.policies[s].permits * RefillSecs
                             + Elapsed(now, m.policies[s].refilled) <= Burst * RefillSecs + ran
                      ELSE granted[s] * RefillSecs <= ran
    BY DEF Bounded
  <2>1. CASE s \in DOMAIN snap.policies
    <3>. DEFINE a == granted[s] * RefillSecs
                b == m.policies[s].permits * RefillSecs
                c == Elapsed(now, m.policies[s].refilled)
                b0 == snap.policies[s].permits * RefillSecs
                c0 == Elapsed(now, snap.policies[s].refilled)
                top == Burst * RefillSecs + ran
    <3>1. a + b0 + c0 <= top /\ b + c <= b0 + c0
      BY <1>4, <1>5, <2>1 DEF Bounded
    <3>2. a \in Nat /\ b \in Nat /\ c \in Nat /\ b0 \in Nat /\ c0 \in Nat /\ top \in Nat
      <4>1. /\ m.policies[s] \in [permits : Nat, refilled : Nat, active : Nat]
            /\ snap.policies[s] \in [permits : Nat, refilled : Nat, active : Nat]
        BY <1>4, <1>5, <2>1 DEF PoliciesFit
      <4>2. \A i \in Nat, j \in Nat : i * j \in Nat
        OBVIOUS
      <4>3. granted[s] \in Nat /\ RefillSecs \in Nat /\ Burst \in Nat
        BY <1>3, QuarantineAssumption
      <4>4. a \in Nat /\ b \in Nat /\ b0 \in Nat /\ Burst * RefillSecs \in Nat
        BY <4>1, <4>2, <4>3
      <4>5. c \in Nat /\ c0 \in Nat
        BY <1>3, <4>1 DEF Elapsed
      <4> QED BY <1>3, <4>4, <4>5
    <3>. HIDE DEF a, b, c, b0, c0, top
    <3>3. a + b + c <= top
      BY <3>1, <3>2
    <3> QED BY <1>1, <2>1, <3>3 DEF a, b, c, top
  <2>2. CASE s \notin DOMAIN snap.policies
    BY <1>1, <1>4, <2>2 DEF Bounded
  <2> QED BY <2>1, <2>2
<1>8. ChargesFit(m.charges, DOMAIN m.policies)
  <2>1. DOMAIN snap.charges \in SUBSET Events /\ kept \in SUBSET DOMAIN snap.charges
    BY <1>4 DEF ChargesFit
  <2>. DEFINE all == DOMAIN snap.charges
  <2>2. /\ Cardinality(all) <= MaxCharges
        /\ \A s \in Senders : Cardinality({e \in all : SenderOf[e] = s}) <= MaxChargesPerSender
        /\ \A e \in all : snap.charges[e] \in Nat /\ SenderOf[e] \in DOMAIN snap.policies
    BY <1>4 DEF ChargesFit
  <2>3. all \in SUBSET Events /\ kept \in SUBSET all
    BY <2>1
  <2>. HIDE DEF all, kept
  <2>4. /\ Cardinality(kept) \in Nat /\ Cardinality(all) \in Nat /\ Cardinality(kept) <= Cardinality(all)
        /\ \A s : /\ Cardinality({e \in kept : SenderOf[e] = s}) \in Nat
                  /\ Cardinality({e \in all : SenderOf[e] = s}) \in Nat
                  /\ Cardinality({e \in kept : SenderOf[e] = s}) <= Cardinality({e \in all : SenderOf[e] = s})
    BY <2>3, ShareShrinks
  <2>5. Cardinality(kept) <= MaxCharges
    BY <2>2, <2>4, QuarantineAssumption
  <2>6. \A s \in Senders : Cardinality({e \in kept : SenderOf[e] = s}) <= MaxChargesPerSender
    <3> SUFFICES ASSUME NEW s \in Senders
                 PROVE  Cardinality({e \in kept : SenderOf[e] = s}) <= MaxChargesPerSender
      OBVIOUS
    <3>. DEFINE mine == Cardinality({e \in kept : SenderOf[e] = s})
                whole == Cardinality({e \in all : SenderOf[e] = s})
    <3>1. mine \in Nat /\ whole \in Nat /\ mine <= whole /\ whole <= MaxChargesPerSender
      BY <2>2, <2>4
    <3>. HIDE DEF mine, whole
    <3>2. mine <= MaxChargesPerSender
      BY <3>1, QuarantineAssumption
    <3> QED BY <3>2 DEF mine
  <2> QED BY <1>1, <1>2, <2>2, <2>3, <2>5, <2>6 DEF ChargesFit
<1>9. Recalls(m.charges, charged, ChargeRetention)
  <2> SUFFICES ASSUME NEW e \in DOMAIN charged
               PROVE  \/ ran - charged[e] > ChargeRetention
                      \/ e \in DOMAIN m.charges /\ Elapsed(now, m.charges[e]) <= ran - charged[e]
    BY DEF Recalls
  <2>1. \/ ran - charged[e] > ChargeRetention
        \/ e \in DOMAIN snap.charges /\ Elapsed(now, snap.charges[e]) <= ran - charged[e]
    BY <1>4 DEF Recalls
  <2>2. charged[e] \in Nat
    BY DEF GhostsTyped, Past
  <2>3. CASE e \in DOMAIN snap.charges /\ Elapsed(now, snap.charges[e]) <= ran - charged[e]
    <3>1. snap.charges[e] \in Nat
      BY <1>4, <2>3 DEF ChargesFit
    <3>2. Elapsed(now, snap.charges[e]) \in Nat
      BY <1>3, <3>1 DEF Elapsed
    <3>3. CASE Elapsed(now, snap.charges[e]) <= ChargeRetention
      BY <1>2, <2>3, <3>3
    <3>4. CASE ~ (Elapsed(now, snap.charges[e]) <= ChargeRetention)
      BY <1>3, <2>2, <2>3, <3>2, <3>4, QuarantineAssumption
    <3> QED BY <3>3, <3>4
  <2> QED BY <2>1, <2>3
<1> QED BY <1>0, <1>1, <1>4, <1>6, <1>7, <1>8, <1>9 DEF Good, Fits, Faithful, m

\* A change of the buckets alone.
LEMMA BucketsChange ==
  ASSUME NEW snap, Good(snap), NEW p, PoliciesFit(p), Bounded(p, granted),
         \A e \in DOMAIN snap.charges : SenderOf[e] \in DOMAIN p
  PROVE  LET c == [snap EXCEPT !.policies = p]
         IN  /\ Good(c)
             /\ c.records = snap.records /\ c.tombstones = snap.tombstones
             /\ c.policies = p /\ c.charges = snap.charges
<1>. DEFINE c == [snap EXCEPT !.policies = p]
<1>1. /\ Sound(c)
      /\ c.records = snap.records /\ c.tombstones = snap.tombstones
      /\ c.policies = p /\ c.charges = snap.charges
  BY DEF Good, Sound, Shaped, Snapshot, Held, Done
<1>2. ChargesFit(snap.charges, DOMAIN p)
  BY DEF Good, Fits, ChargesFit
<1>. HIDE DEF c
<1>3. Fits(c)
  BY <1>1, <1>2 DEF Good, Fits
<1>4. Faithful(c, granted, charged, ended)
  BY <1>1 DEF Good, Faithful
<1> QED BY <1>1, <1>3, <1>4 DEF Good, c

LEMMA AdmittingGood ==
  ASSUME GhostsTyped, NEW snap, Good(snap), NEW s \in Senders, NEW c \in Admitting(snap, s, now)
  PROVE  /\ Good(c) /\ s \in DOMAIN c.policies
         /\ c.records = snap.records /\ c.tombstones = snap.tombstones /\ c.charges = snap.charges
<1>1. CASE s \in DOMAIN snap.policies
  BY <1>1 DEF Admitting
<1>2. CASE s \notin DOMAIN snap.policies
  <2>. DEFINE room == Cardinality(DOMAIN snap.policies) < MaxPolicySenders
              D == DOMAIN snap.policies
              full == Policy(Burst, now, now)
  <2>1. PICK gone : /\ c = [snap EXCEPT !.policies = With(Without(snap.policies, gone), s, full)]
                    /\ \/ room /\ gone = {}
                       \/ ~ room /\ \E r \in LongestInactive(snap) : gone = {r}
    BY <1>2 DEF Admitting
  <2>. DEFINE p == With(Without(snap.policies, gone), s, full)
  <2>2. /\ DOMAIN p = (D \ gone) \cup {s} /\ p[s] = full
        /\ \A r \in D \ gone : p[r] = snap.policies[r]
    BY <1>2 DEF With, Without, Restrict
  <2>3. /\ D \in SUBSET Senders /\ Cardinality(D) <= MaxPolicySenders
        /\ \A r \in D : /\ snap.policies[r] \in [permits : Nat, refilled : Nat, active : Nat]
                        /\ snap.policies[r].permits <= Burst
    BY DEF Good, Fits, PoliciesFit
  <2>4. IsFiniteSet(D) /\ Cardinality(D) \in Nat
    BY <2>3, FS_Subset, FS_CardinalityType, QuarantineAssumption
  <2>5. gone = {} \/ \E r \in D : gone = {r} /\ snap.policies[r].permits = Burst /\ ChargesOf(snap, r) = {}
    BY <2>1 DEF LongestInactive, Removable
  <2>6. Cardinality((D \ gone) \cup {s}) <= MaxPolicySenders
    <3>1. CASE room /\ gone = {}
      <4>1. (D \ gone) \cup {s} = D \cup {s}
        BY <3>1
      <4>2. Cardinality(D \cup {s}) = Cardinality(D) + 1
        BY <1>2, <2>4, FS_AddElement
      <4>3. Cardinality(D) < MaxPolicySenders
        BY <3>1
      <4>. HIDE DEF D
      <4> QED BY <2>4, <4>1, <4>2, <4>3, QuarantineAssumption
    <3>2. CASE ~ room /\ \E r \in LongestInactive(snap) : gone = {r}
      <4>1. PICK r \in D : gone = {r}
        BY <3>2 DEF LongestInactive, Removable
      <4>2. IsFiniteSet(D \ {r}) /\ Cardinality(D \ {r}) = Cardinality(D) - 1
        BY <2>4, <4>1, FS_RemoveElement
      <4>3. Cardinality((D \ {r}) \cup {s}) = Cardinality(D \ {r}) + 1
        BY <1>2, <4>2, FS_AddElement
      <4>. HIDE DEF D
      <4>4. Cardinality((D \ {r}) \cup {s}) = Cardinality(D)
        BY <2>4, <4>2, <4>3
      <4> QED BY <2>3, <4>1, <4>4
    <3> QED BY <2>1, <3>1, <3>2
  <2>7. full \in [permits : Nat, refilled : Nat, active : Nat] /\ full.permits = Burst /\ full.refilled = now
    BY QuarantineAssumption DEF Policy, GhostsTyped
  <2>. HIDE DEF p, D, full, room
  <2>8. PoliciesFit(p)
    <3>1. DOMAIN p \subseteq Senders
      BY <2>2, <2>3
    <3>2. \A r \in DOMAIN p : /\ p[r] \in [permits : Nat, refilled : Nat, active : Nat]
                              /\ p[r].permits <= Burst
      BY <2>2, <2>3, <2>7, QuarantineAssumption
    <3> QED BY <2>2, <2>6, <3>1, <3>2 DEF PoliciesFit
  <2>9. Bounded(p, granted)
    <3> SUFFICES ASSUME NEW r \in Senders
                 PROVE  IF r \in DOMAIN p
                        THEN granted[r] * RefillSecs + p[r].permits * RefillSecs + Elapsed(now, p[r].refilled)
                               <= Burst * RefillSecs + ran
                        ELSE granted[r] * RefillSecs <= ran
      BY DEF Bounded
    <3>1. IF r \in D
          THEN granted[r] * RefillSecs + snap.policies[r].permits * RefillSecs
                 + Elapsed(now, snap.policies[r].refilled) <= Burst * RefillSecs + ran
          ELSE granted[r] * RefillSecs <= ran
      BY DEF Good, Faithful, Bounded, D
    <3>. DEFINE g == granted[r] * RefillSecs
                b == Burst * RefillSecs
    <3>2. g \in Nat /\ b \in Nat /\ ran \in Nat /\ now \in Nat
      <4>1. granted[r] \in Nat /\ RefillSecs \in Nat /\ Burst \in Nat
        BY QuarantineAssumption DEF GhostsTyped
      <4>2. \A i \in Nat, j \in Nat : i * j \in Nat
        OBVIOUS
      <4> QED BY <4>1, <4>2 DEF GhostsTyped
    <3>3. CASE r = s
      <4>1. g <= ran
        BY <1>2, <3>1, <3>3 DEF D
      <4>2. Elapsed(now, now) = 0
        BY <3>2 DEF Elapsed
      <4>3. p[r].permits = Burst /\ p[r].refilled = now /\ r \in DOMAIN p
        BY <2>2, <2>7, <3>3
      <4>. HIDE DEF g
      <4>4. g + b + 0 <= b + ran
        BY <3>2, <4>1
      <4> QED BY <4>2, <4>3, <4>4 DEF g
    <3>4. CASE r # s /\ r \in D \ gone
      BY <2>2, <3>1, <3>4
    <3>5. CASE r # s /\ r \notin D
      BY <2>2, <3>1, <3>5
    <3>6. CASE r # s /\ r \in gone /\ r \in D
      <4>1. snap.policies[r].permits = Burst /\ r \notin DOMAIN p
        BY <2>2, <2>5, <3>6
      <4>2. Elapsed(now, snap.policies[r].refilled) \in Nat
        <5>1. snap.policies[r].refilled \in Nat
          BY <2>3, <3>6
        <5> QED BY <3>2, <5>1 DEF Elapsed
      <4>. DEFINE w == Elapsed(now, snap.policies[r].refilled)
      <4>3. g + b + w <= b + ran /\ w \in Nat
        BY <3>1, <3>6, <4>1, <4>2
      <4>. HIDE DEF g, b, w
      <4>4. g <= ran
        BY <3>2, <4>3
      <4> QED BY <4>1, <4>4 DEF g
    <3> QED BY <3>3, <3>4, <3>5, <3>6
  <2>10. \A e \in DOMAIN snap.charges : SenderOf[e] \in DOMAIN p
    <3> SUFFICES ASSUME NEW e \in DOMAIN snap.charges PROVE SenderOf[e] \in DOMAIN p
      OBVIOUS
    <3>1. SenderOf[e] \in D
      BY DEF Good, Fits, ChargesFit, D
    <3>2. SenderOf[e] \notin gone
      BY <2>5 DEF ChargesOf
    <3> QED BY <2>2, <3>1, <3>2
  <2>11. c = [snap EXCEPT !.policies = p]
    BY <2>1 DEF p, full
  <2> QED BY <2>2, <2>8, <2>9, <2>10, <2>11, BucketsChange
<1> QED BY <1>1, <1>2

LEMMA ActiveGood ==
  ASSUME GhostsTyped, NEW snap, Good(snap), NEW s \in DOMAIN snap.policies
  PROVE  LET c == Active(snap, s, now)
         IN  Good(c) /\ c.records = snap.records /\ c.tombstones = snap.tombstones
<1>. DEFINE q == snap.policies[s]
            p == [snap.policies EXCEPT ![s].active = now]
<1>1. /\ q \in [permits : Nat, refilled : Nat, active : Nat] /\ q.permits <= Burst
  BY DEF Good, Fits, PoliciesFit
<1>2. /\ p[s] \in [permits : Nat, refilled : Nat, active : Nat]
      /\ p[s].permits = q.permits /\ p[s].refilled = q.refilled
  BY <1>1 DEF GhostsTyped
<1>3. DOMAIN p = DOMAIN snap.policies /\ \A r \in DOMAIN p : r # s => p[r] = snap.policies[r]
  OBVIOUS
<1>4. Active(snap, s, now) = [snap EXCEPT !.policies = p]
  BY DEF Active
<1>. HIDE DEF p
<1>5. PoliciesFit(p)
  BY <1>1, <1>2, <1>3 DEF Good, Fits, PoliciesFit
<1>6. \A r \in DOMAIN p : p[r].permits = snap.policies[r].permits /\ p[r].refilled = snap.policies[r].refilled
  BY <1>2, <1>3
<1>7. Bounded(p, granted)
  BY <1>3, <1>6 DEF Good, Faithful, Bounded
<1>8. \A e \in DOMAIN snap.charges : SenderOf[e] \in DOMAIN p
  BY <1>3 DEF Good, Fits, ChargesFit
<1> QED BY <1>4, <1>5, <1>7, <1>8, BucketsChange

LEMMA RetainedGood ==
  ASSUME GhostsTyped, NEW snap, Good(snap), NEW e \in Events, HasRoom(snap, e),
         e \notin Done(snap)
  PROVE  LET c == Retained(snap, e, now)
         IN  Good(c) /\ c.policies = snap.policies
<1>. DEFINE c == Retained(snap, e, now)
<1>1. Sound(c)
  BY RetainedEffect DEF Good
<1>2. /\ c.tombstones = snap.tombstones /\ c.policies = snap.policies /\ c.charges = snap.charges
  BY DEF Retained, Good, Sound, Shaped, Snapshot
<1>3. RecordsFit(c.records)
  BY OneMoreRecord DEF Good, Fits, GhostsTyped
<1>. HIDE DEF c
<1> QED BY <1>1, <1>2, <1>3 DEF Good, Fits, Faithful, c

\* What the charge of a permit does: one permit less in the bucket, the charge
\* remembered.
LEMMA ChargeGood ==
  ASSUME GhostsTyped, NEW snap, Good(snap), NEW e \in Events \ DOMAIN snap.charges,
         SenderOf[e] \in DOMAIN snap.policies, snap.policies[SenderOf[e]].permits # 0,
         CanCharge(snap, SenderOf[e])
  PROVE  LET c == Charge(snap, e, now)
         IN  /\ Good(c)
             /\ Faithful(c, [granted EXCEPT ![SenderOf[e]] = @ + 1], With(charged, e, ran), ended)
<1>. DEFINE c == Charge(snap, e, now)
            s == SenderOf[e]
            q == snap.policies[s]
            spent == Policy(q.permits - 1, q.refilled, now)
            p == [snap.policies EXCEPT ![s] = spent]
            charges == With(snap.charges, e, now)
            given == [granted EXCEPT ![s] = @ + 1]
            paid == With(charged, e, ran)
<1>1. s \in Senders /\ now \in Nat /\ ran \in Nat /\ granted \in [Senders -> Nat] /\ Past(charged)
      /\ RefillSecs \in Nat /\ Burst \in Nat
  BY QuarantineAssumption DEF GhostsTyped
<1>2. q \in [permits : Nat, refilled : Nat, active : Nat] /\ q.permits <= Burst /\ q.permits # 0
      /\ q.permits - 1 \in Nat /\ q.permits - 1 <= Burst
  <2>1. q \in [permits : Nat, refilled : Nat, active : Nat] /\ q.permits <= Burst /\ q.permits # 0
    BY DEF Good, Fits, PoliciesFit
  <2>. HIDE DEF q
  <2> QED BY <1>1, <2>1
<1>3. c = [snap EXCEPT !.policies = p, !.charges = charges]
  BY DEF Charge
<1>4. DOMAIN p = DOMAIN snap.policies /\ p[s] = spent
      /\ \A r \in DOMAIN p : r # s => p[r] = snap.policies[r]
  OBVIOUS
<1>5. DOMAIN charges = DOMAIN snap.charges \cup {e} /\ charges[e] = now
      /\ \A f \in DOMAIN snap.charges : f # e => charges[f] = snap.charges[f]
  BY DEF With
<1>6. spent \in [permits : Nat, refilled : Nat, active : Nat] /\ spent.permits = q.permits - 1
      /\ spent.refilled = q.refilled
  BY <1>1, <1>2 DEF Policy
<1>7. given \in [Senders -> Nat] /\ given[s] = granted[s] + 1
      /\ \A r \in Senders : r # s => given[r] = granted[r]
  BY <1>1
<1>8. DOMAIN paid = DOMAIN charged \cup {e} /\ paid[e] = ran
      /\ \A f \in DOMAIN charged : f # e => paid[f] = charged[f]
  BY DEF With
<1>. HIDE DEF spent, p, charges, given, paid
<1>9. /\ c.records = snap.records /\ c.tombstones = snap.tombstones
      /\ c.policies = p /\ c.charges = charges /\ Sound(c)
  BY <1>3 DEF Good, Sound, Shaped, Snapshot, Held, Done
<1>10. PoliciesFit(p)
  <2>1. \A r \in DOMAIN p : /\ p[r] \in [permits : Nat, refilled : Nat, active : Nat]
                            /\ p[r].permits <= Burst
    <3>1. \A r \in DOMAIN snap.policies :
             /\ snap.policies[r] \in [permits : Nat, refilled : Nat, active : Nat]
             /\ snap.policies[r].permits <= Burst
      BY DEF Good, Fits, PoliciesFit
    <3>. HIDE DEF q, s
    <3> QED BY <1>2, <1>4, <1>6, <3>1
  <2> QED BY <1>4, <2>1 DEF Good, Fits, PoliciesFit
<1>11. ChargesFit(charges, DOMAIN p)
  <2>. DEFINE all == DOMAIN snap.charges
  <2>1. all \in SUBSET Events /\ e \in Events
    BY DEF Good, Fits, ChargesFit
  <2>2. /\ Cardinality(all) < MaxCharges
        /\ Cardinality({f \in all : SenderOf[f] = s}) < MaxChargesPerSender
    BY DEF CanCharge, ChargesOf
  <2>3. \A r \in Senders : Cardinality({f \in all : SenderOf[f] = r}) <= MaxChargesPerSender
    BY DEF Good, Fits, ChargesFit
  <2>4. \A f \in all : snap.charges[f] \in Nat /\ SenderOf[f] \in DOMAIN snap.policies
    BY DEF Good, Fits, ChargesFit
  <2>5. DOMAIN charges = all \cup {e}
    BY <1>5
  <2>. HIDE DEF all
  <2>6. /\ Cardinality(all \cup {e}) <= Cardinality(all) + 1
        /\ \A r : /\ r = SenderOf[e] =>
                       Cardinality({f \in all \cup {e} : SenderOf[f] = r})
                         <= Cardinality({f \in all : SenderOf[f] = r}) + 1
                  /\ r # SenderOf[e] =>
                       {f \in all \cup {e} : SenderOf[f] = r} = {f \in all : SenderOf[f] = r}
    BY <2>1, ShareGrows
  <2>7. /\ Cardinality(all) \in Nat /\ \A r : Cardinality({f \in all : SenderOf[f] = r}) \in Nat
    BY <2>1, ShareShrinks
  <2>8. /\ Cardinality(all \cup {e}) \in Nat
        /\ \A r : Cardinality({f \in all \cup {e} : SenderOf[f] = r}) \in Nat
    <3>1. (all \cup {e}) \in SUBSET Events
      BY <2>1
    <3> QED BY <3>1, ShareShrinks
  <2>9. Cardinality(all \cup {e}) <= MaxCharges
    BY <2>2, <2>6, <2>7, <2>8, QuarantineAssumption
  <2>10. \A r \in Senders : Cardinality({f \in all \cup {e} : SenderOf[f] = r}) <= MaxChargesPerSender
    <3> SUFFICES ASSUME NEW r \in Senders
                 PROVE  Cardinality({f \in all \cup {e} : SenderOf[f] = r}) <= MaxChargesPerSender
      OBVIOUS
    <3>1. CASE r # SenderOf[e]
      BY <2>3, <2>6, <3>1
    <3>2. CASE r = SenderOf[e]
      <4>. DEFINE grown == Cardinality({f \in all \cup {e} : SenderOf[f] = r})
                  before == Cardinality({f \in all : SenderOf[f] = r})
      <4>1. grown \in Nat /\ before \in Nat /\ grown <= before + 1 /\ before < MaxChargesPerSender
        BY <2>2, <2>6, <2>7, <2>8, <3>2
      <4>. HIDE DEF grown, before
      <4>2. grown <= MaxChargesPerSender
        BY <4>1, QuarantineAssumption
      <4> QED BY <4>2 DEF grown
    <3> QED BY <3>1, <3>2
  <2>11. \A f \in all \cup {e} : charges[f] \in Nat /\ SenderOf[f] \in DOMAIN p
    BY <1>1, <1>4, <1>5, <2>4 DEF all
  <2> QED BY <2>1, <2>5, <2>9, <2>10, <2>11 DEF ChargesFit
<1>12. Bounded(p, granted) /\ Bounded(p, given)
  <2> SUFFICES ASSUME NEW r \in Senders
               PROVE  /\ IF r \in DOMAIN p
                         THEN granted[r] * RefillSecs + p[r].permits * RefillSecs + Elapsed(now, p[r].refilled)
                                <= Burst * RefillSecs + ran
                         ELSE granted[r] * RefillSecs <= ran
                      /\ IF r \in DOMAIN p
                         THEN given[r] * RefillSecs + p[r].permits * RefillSecs + Elapsed(now, p[r].refilled)
                                <= Burst * RefillSecs + ran
                         ELSE given[r] * RefillSecs <= ran
    BY DEF Bounded
  <2>1. IF r \in DOMAIN p
        THEN granted[r] * RefillSecs + snap.policies[r].permits * RefillSecs
               + Elapsed(now, snap.policies[r].refilled) <= Burst * RefillSecs + ran
        ELSE granted[r] * RefillSecs <= ran
    BY <1>4 DEF Good, Faithful, Bounded
  <2>2. CASE r # s
    BY <1>4, <1>7, <2>1, <2>2
  <2>3. CASE r = s
    <3>. DEFINE g == granted[s]
                b == q.permits
                w == Elapsed(now, q.refilled)
                top == Burst * RefillSecs + ran
                R == RefillSecs
    <3>1. g * R + b * R + w <= top
      BY <1>4, <2>1, <2>3
    <3>2. g \in Nat /\ b \in Nat \ {0} /\ w \in Nat /\ R \in Nat
      BY <1>1, <1>2 DEF Elapsed
    <3>. HIDE DEF g, b, w, top, R
    <3>3. (g + 1) * R = g * R + R /\ (b - 1) * R = b * R - R
      BY <3>2
    <3>4. g * R \in Nat /\ b * R \in Nat /\ top \in Nat
      <4>1. \A i \in Nat, j \in Nat : i * j \in Nat
        OBVIOUS
      <4>2. Burst * RefillSecs \in Nat
        BY <1>1, <4>1
      <4>3. top \in Nat
        BY <1>1, <4>2 DEF top
      <4> QED BY <3>2, <4>1, <4>3
    <3>. DEFINE x == g * R
                y == b * R
    <3>5. x + (y - R) + w <= top /\ (x + R) + (y - R) + w <= top
      <4>1. x \in Nat /\ y \in Nat /\ top \in Nat /\ R \in Nat /\ w \in Nat /\ x + y + w <= top
        BY <3>1, <3>2, <3>4
      <4>. HIDE DEF x, y
      <4> QED BY <4>1
    <3>6. /\ g * R + (b - 1) * R + w <= top
          /\ (g + 1) * R + (b - 1) * R + w <= top
      BY <3>3, <3>5
    <3>7. p[r].permits = b - 1 /\ p[r].refilled = q.refilled /\ granted[r] = g /\ given[r] = g + 1
          /\ r \in DOMAIN p
      BY <1>4, <1>6, <1>7, <2>3 DEF b, g
    <3> QED BY <3>6, <3>7 DEF w, top, R
  <2> QED BY <2>2, <2>3
<1>13. Elapsed(now, now) = 0
  BY <1>1 DEF Elapsed
<1>14. \A f \in DOMAIN charged : f # e =>
         \/ ran - charged[f] > ChargeRetention
         \/ f \in DOMAIN snap.charges /\ Elapsed(now, snap.charges[f]) <= ran - charged[f]
  BY DEF Good, Faithful, Recalls
<1>15. \A f \in DOMAIN charged : charged[f] \in 0..ran
  BY <1>1 DEF Past
<1>16. Recalls(charges, charged, ChargeRetention)
  <2> SUFFICES ASSUME NEW f \in DOMAIN charged
               PROVE  \/ ran - charged[f] > ChargeRetention
                      \/ f \in DOMAIN charges /\ Elapsed(now, charges[f]) <= ran - charged[f]
    BY DEF Recalls
  <2>1. CASE f = e
    <3>1. 0 <= ran - charged[f]
      BY <1>1, <1>15
    <3> QED BY <1>5, <1>13, <2>1, <3>1
  <2>2. CASE f # e
    BY <1>5, <1>14, <2>2
  <2> QED BY <2>1, <2>2
<1>17. Recalls(charges, paid, ChargeRetention)
  <2> SUFFICES ASSUME NEW f \in DOMAIN paid
               PROVE  \/ ran - paid[f] > ChargeRetention
                      \/ f \in DOMAIN charges /\ Elapsed(now, charges[f]) <= ran - paid[f]
    BY DEF Recalls
  <2>1. CASE f = e
    <3>1. 0 <= ran - paid[f]
      BY <1>1, <1>8, <2>1
    <3> QED BY <1>5, <1>13, <2>1, <3>1
  <2>2. CASE f # e
    BY <1>5, <1>8, <1>14, <2>2
  <2> QED BY <2>1, <2>2
<1>. HIDE DEF c, s
<1>18. Fits(c)
  BY <1>9, <1>10, <1>11 DEF Good, Fits
<1>19. Faithful(c, granted, charged, ended) /\ Faithful(c, given, paid, ended)
  BY <1>9, <1>12, <1>16, <1>17 DEF Good, Faithful
<1> QED BY <1>9, <1>18, <1>19 DEF Good, c, s, given, paid

\* Every decision of the sender policy is good, and a permit is given only to an
\* envelope no remembered charge is left of.
LEMMA DecisionGood ==
  ASSUME GhostsTyped, NEW snap, Good(snap), NEW e \in Events, e \notin Done(snap),
         NEW d \in Decisions(snap, e, now)
  PROVE  /\ Good(d.snap)
         /\ d.decision = "permit" =>
              /\ Faithful(d.snap, [granted EXCEPT ![SenderOf[e]] = @ + 1], With(charged, e, ran), ended)
              /\ e \in DOMAIN charged => ran - charged[e] > ChargeRetention
<1>. DEFINE m == Maintained(snap, now)
            s == SenderOf[e]
<1>1. Good(m) /\ m.records = snap.records /\ m.tombstones = snap.tombstones
  BY MaintainedGood
<1>2. s \in Senders
  BY QuarantineAssumption
<1>3. CASE e \in DOMAIN m.records
  <2>1. d = Decision("quarantined", m)
    BY <1>3 DEF Decisions
  <2>2. d.snap = m /\ d.decision # "permit"
    BY <2>1 DEF Decision
  <2>. HIDE DEF m
  <2> QED BY <1>1, <2>2
<1>4. CASE e \notin DOMAIN m.records
  <2>1. PICK c \in Admitting(m, s, now) :
          \/ d = Decision("charged", Active(c, s, now))
          \/ /\ d = Decision("quarantined", Active(Retained(c, e, now), s, now))
             /\ HasRoom(c, e)
          \/ /\ d = Decision("permit", Charge(c, e, now))
             /\ e \notin DOMAIN c.charges /\ c.policies[s].permits # 0 /\ CanCharge(c, s)
    BY <1>4 DEF Decisions
  <2>. HIDE DEF m
  <2>2. /\ Good(c) /\ s \in DOMAIN c.policies
        /\ c.records = snap.records /\ c.tombstones = snap.tombstones
    BY <1>1, <1>2, <2>1, AdmittingGood
  <2>3. CASE d = Decision("charged", Active(c, s, now))
    <3>1. d.snap = Active(c, s, now) /\ d.decision # "permit"
      BY <2>3 DEF Decision
    <3> QED BY <2>2, <3>1, ActiveGood
  <2>4. CASE d = Decision("quarantined", Active(Retained(c, e, now), s, now)) /\ HasRoom(c, e)
    <3>1. d.snap = Active(Retained(c, e, now), s, now) /\ d.decision # "permit"
      BY <2>4 DEF Decision
    <3>2. e \notin Done(c)
      BY <2>2 DEF Done
    <3>3. Good(Retained(c, e, now)) /\ Retained(c, e, now).policies = c.policies
      BY <2>2, <2>4, <3>2, RetainedGood
    <3> QED BY <2>2, <3>1, <3>3, ActiveGood
  <2>5. CASE /\ d = Decision("permit", Charge(c, e, now))
             /\ e \notin DOMAIN c.charges /\ c.policies[s].permits # 0 /\ CanCharge(c, s)
    <3>1. d.snap = Charge(c, e, now)
      BY <2>5 DEF Decision
    <3>2. /\ Good(Charge(c, e, now))
          /\ Faithful(Charge(c, e, now), [granted EXCEPT ![s] = @ + 1], With(charged, e, ran), ended)
      BY <2>2, <2>5, ChargeGood
    <3>3. e \in DOMAIN charged => ran - charged[e] > ChargeRetention
      BY <2>2, <2>5 DEF Good, Faithful, Recalls
    <3> QED BY <3>1, <3>2, <3>3
  <2> QED BY <2>1, <2>3, <2>4, <2>5
<1> QED BY <1>3, <1>4

\* Pruning forgets only envelopes whose evidence had its time.
LEMMA PrunedGood ==
  ASSUME GhostsTyped, NEW snap, Good(snap)
  PROVE  LET c == Pruned(snap, now)
         IN  Good(c) /\ c.records = snap.records
<1>. DEFINE c == Pruned(snap, now)
<1>1. Sound(c)
  BY PrunedEffect DEF Good
<1>2. /\ c.records = snap.records /\ c.policies = snap.policies /\ c.charges = snap.charges
  BY DEF Pruned, Good, Sound, Shaped, Snapshot
<1>3. now \in Nat /\ ran \in Nat /\ Past(ended)
  BY DEF GhostsTyped
<1>4. /\ TombstonesFit(c.tombstones)
      /\ \A e \in DOMAIN snap.tombstones :
           \/ Elapsed(now, snap.tombstones[e]) > TombstoneRetention
           \/ e \in DOMAIN c.tombstones /\ c.tombstones[e] = snap.tombstones[e]
  BY <1>3, PrunedTombstones DEF Good, Fits
<1>. HIDE DEF c
<1>5. Recalls(c.tombstones, ended, TombstoneRetention)
  <2> SUFFICES ASSUME NEW e \in DOMAIN ended
               PROVE  \/ ran - ended[e] > TombstoneRetention
                      \/ e \in DOMAIN c.tombstones /\ Elapsed(now, c.tombstones[e]) <= ran - ended[e]
    BY DEF Recalls
  <2>1. \/ ran - ended[e] > TombstoneRetention
        \/ e \in DOMAIN snap.tombstones /\ Elapsed(now, snap.tombstones[e]) <= ran - ended[e]
    BY DEF Good, Faithful, Recalls
  <2>2. CASE e \in DOMAIN snap.tombstones /\ Elapsed(now, snap.tombstones[e]) <= ran - ended[e]
    <3>1. CASE e \in DOMAIN c.tombstones /\ c.tombstones[e] = snap.tombstones[e]
      BY <2>2, <3>1
    <3>2. CASE Elapsed(now, snap.tombstones[e]) > TombstoneRetention
      <4>1. ended[e] \in Nat
        BY <1>3 DEF Past
      <4>2. Elapsed(now, snap.tombstones[e]) \in Nat
        BY <1>3, <2>2 DEF Good, Fits, TombstonesFit, Elapsed
      <4> QED BY <1>3, <2>2, <3>2, <4>1, <4>2, QuarantineAssumption
    <3> QED BY <1>4, <2>2, <3>1, <3>2
  <2> QED BY <2>1, <2>2
<1> QED BY <1>1, <1>2, <1>4, <1>5 DEF Good, Fits, Faithful, c

Since(ids) == [e \in DOMAIN ended \cup ids |-> IF e \in ids THEN ran ELSE ended[e]]

\* What is ended is remembered as ended now.
LEMMA TerminatedGood ==
  ASSUME GhostsTyped, NEW snap, Good(snap), NEW ids \in SUBSET Held(snap), HasTombstoneRoom(snap, ids)
  PROVE  LET c == Terminated(snap, ids, now)
         IN  Sound(c) /\ Fits(c) /\ Faithful(c, granted, charged, Since(ids))
<1>. DEFINE c == Terminated(snap, ids, now)
            over == Since(ids)
<1>1. /\ Sound(snap) /\ Sound(c) /\ ids \in SUBSET Events
  BY TerminatedEffect DEF Good, Sound
<1>2. now \in Nat /\ ran \in Nat
  BY DEF GhostsTyped
<1>3. Fits(c)
  BY <1>1, <1>2, TerminatedFits DEF Good
<1>4. /\ c.policies = snap.policies /\ c.charges = snap.charges
      /\ DOMAIN c.tombstones = DOMAIN snap.tombstones \cup ids
      /\ \A e \in DOMAIN snap.tombstones \cup ids :
           c.tombstones[e] = IF e \in DOMAIN snap.tombstones THEN snap.tombstones[e] ELSE now
  BY <1>1, TerminatedParts
<1>5. ids \cap DOMAIN snap.tombstones = {}
  BY <1>1 DEF Sound, Held, Done
<1>6. DOMAIN over = DOMAIN ended \cup ids /\ \A e \in DOMAIN over : over[e] = IF e \in ids THEN ran ELSE ended[e]
  BY DEF Since
<1>7. Elapsed(now, now) = 0
  BY <1>2 DEF Elapsed
<1>. HIDE DEF c, over
<1>8. Recalls(c.tombstones, over, TombstoneRetention)
  <2> SUFFICES ASSUME NEW e \in DOMAIN over
               PROVE  \/ ran - over[e] > TombstoneRetention
                      \/ e \in DOMAIN c.tombstones /\ Elapsed(now, c.tombstones[e]) <= ran - over[e]
    BY DEF Recalls
  <2>1. CASE e \in ids
    <3>1. over[e] = ran /\ e \in DOMAIN c.tombstones /\ c.tombstones[e] = now
      BY <1>4, <1>5, <1>6, <2>1
    <3>2. Elapsed(now, now) <= ran - ran
      BY <1>2, <1>7
    <3> QED BY <3>1, <3>2
  <2>2. CASE e \notin ids
    <3>1. e \in DOMAIN ended /\ over[e] = ended[e]
      BY <1>6, <2>2
    <3>2. \/ ran - ended[e] > TombstoneRetention
          \/ e \in DOMAIN snap.tombstones /\ Elapsed(now, snap.tombstones[e]) <= ran - ended[e]
      BY <3>1 DEF Good, Faithful, Recalls
    <3> QED BY <1>4, <3>1, <3>2
  <2> QED BY <2>1, <2>2
<1> QED BY <1>1, <1>3, <1>4, <1>8 DEF Good, Faithful, c, over

LEMMA PostponedGood ==
  ASSUME GhostsTyped, NEW snap, Good(snap), NEW e \in DOMAIN snap.records
  PROVE  Good(Postponed(snap, e, now))
<1>. DEFINE c == Postponed(snap, e, now)
<1>1. Sound(c)
  BY PostponedEffect DEF Good
<1>2. /\ c.tombstones = snap.tombstones /\ c.policies = snap.policies /\ c.charges = snap.charges
  BY DEF Postponed, Good, Sound, Shaped, Snapshot
<1>3. RecordsFit(c.records)
  BY PostponedRecords DEF Good, Fits, GhostsTyped
<1>. HIDE DEF c
<1> QED BY <1>1, <1>2, <1>3 DEF Good, Fits, Faithful, c

-----------------------------------------------------------------------------
(* Steps within the limits *)

\* A step that leaves the clock alone keeps the invariant when what it leaves in
\* the file and in memory fits and tells what happened.
LEMMA QKept ==
  ASSUME QInv, now' = now, ran' = ran, deleted' \in BOOLEAN,
         call'.at \in {"idle", "opened", "recover", "items", "routed"},
         call'.item \in Events \cup {NoEvent},
         granted' \in [Senders -> Nat], Past(charged'), Past(ended'),
         Fits(disk'), Fits(call'.mem), Faithful(disk', granted', charged', ended'),
         call'.at # "idle" => Faithful(call'.mem, granted', charged', ended')
  PROVE  QInv'
<1>1. GhostsTyped'
  BY DEF QInv, GhostsTyped, Past
<1>2. Fits(disk)' /\ Fits(call.mem)'
  OBVIOUS
<1>3. \A snap, given, paid, over :
        Faithful(snap, given, paid, over) <=>
          /\ \A s \in Senders :
               IF s \in DOMAIN snap.policies
               THEN given[s] * RefillSecs + snap.policies[s].permits * RefillSecs
                      + Elapsed(now', snap.policies[s].refilled) <= Burst * RefillSecs + ran'
               ELSE given[s] * RefillSecs <= ran'
          /\ \A e \in DOMAIN paid :
               \/ ran' - paid[e] > ChargeRetention
               \/ e \in DOMAIN snap.charges /\ Elapsed(now', snap.charges[e]) <= ran' - paid[e]
          /\ \A e \in DOMAIN over :
               \/ ran' - over[e] > TombstoneRetention
               \/ e \in DOMAIN snap.tombstones /\ Elapsed(now', snap.tombstones[e]) <= ran' - over[e]
  BY DEF Faithful, Bounded, Recalls
<1>4. Faithful(disk, granted, charged, ended)'
  BY <1>3 DEF Faithful, Bounded, Recalls
<1>5. call'.at # "idle" => Faithful(call.mem, granted, charged, ended)'
  BY <1>3 DEF Faithful, Bounded, Recalls
<1> QED BY <1>1, <1>2, <1>4, <1>5 DEF QInv

LEMMA AgeGrows ==
  ASSUME NEW early \in Nat, NEW late \in Nat, NEW d \in Nat, late <= early + d, NEW t \in Nat
  PROVE  /\ Elapsed(early, t) \in Nat /\ Elapsed(late, t) \in Nat
         /\ Elapsed(late, t) <= Elapsed(early, t) + d
BY DEF Elapsed

\* The clock moves between receives: forward, every age grows at most as fast as
\* the time that passed, and back, every age shrinks.
LEMMA ClockMoves == IInv /\ QInv /\ (Tick \/ SetClockBack) => QInv'
<1> SUFFICES ASSUME IInv, QInv, Tick \/ SetClockBack PROVE QInv'
  OBVIOUS
<1>1. PICK d \in Nat : /\ now \in Nat /\ ran \in Nat /\ now' \in Nat /\ ran' \in Nat
                      /\ now' <= now + d /\ ran' = ran + d
                      /\ UNCHANGED <<disk, call, granted, charged, ended, deleted>>
                      /\ call.at = "idle"
  <2>1. now \in Nat /\ ran \in Nat
    BY DEF QInv, GhostsTyped
  <2>2. CASE Tick
    <3>1. now' <= now + 1 /\ ran' = ran + 1 /\ now' \in Nat /\ ran' \in Nat
      BY <2>1, <2>2 DEF Tick
    <3> QED BY <2>1, <2>2, <3>1 DEF Tick
  <2>3. CASE SetClockBack
    <3>1. now' <= now + 0 /\ ran' = ran + 0 /\ now' \in Nat /\ ran' \in Nat
      BY <2>1, <2>3 DEF SetClockBack
    <3> QED BY <2>1, <2>3, <3>1 DEF SetClockBack
  <2> QED BY <2>2, <2>3
<1>2. GhostsTyped'
  <2>1. \A S : Past(S) => Past(S)'
    BY <1>1 DEF Past
  <2>2. Past(charged)' /\ Past(ended)'
    BY <1>1 DEF QInv, GhostsTyped, Past
  <2> QED BY <1>1, <2>2 DEF QInv, GhostsTyped
<1>3. Fits(disk)' /\ Fits(call.mem)'
  BY <1>1 DEF QInv
<1>4. \A t \in Nat : /\ Elapsed(now, t) \in Nat /\ Elapsed(now', t) \in Nat
                     /\ Elapsed(now', t) <= Elapsed(now, t) + d
  BY <1>1, AgeGrows
<1>5. Bounded(disk.policies, granted)'
  <2> SUFFICES ASSUME NEW s \in Senders
               PROVE  IF s \in DOMAIN disk.policies
                      THEN granted[s] * RefillSecs + disk.policies[s].permits * RefillSecs
                             + Elapsed(now', disk.policies[s].refilled) <= Burst * RefillSecs + ran'
                      ELSE granted[s] * RefillSecs <= ran'
    BY <1>1 DEF Bounded
  <2>. DEFINE g == granted[s] * RefillSecs
              b == disk.policies[s].permits * RefillSecs
              w == Elapsed(now, disk.policies[s].refilled)
              x == Elapsed(now', disk.policies[s].refilled)
              top == Burst * RefillSecs
  <2>1. IF s \in DOMAIN disk.policies THEN g + b + w <= top + ran ELSE g <= ran
    BY DEF QInv, Faithful, Bounded
  <2>2. \A i \in Nat, j \in Nat : i * j \in Nat
    OBVIOUS
  <2>3. g \in Nat /\ top \in Nat
    <3>1. granted[s] \in Nat /\ RefillSecs \in Nat /\ Burst \in Nat
      BY QuarantineAssumption DEF QInv, GhostsTyped
    <3> QED BY <2>2, <3>1
  <2>4. CASE s \in DOMAIN disk.policies
    <3>1. disk.policies[s] \in [permits : Nat, refilled : Nat, active : Nat]
      BY <2>4 DEF QInv, Fits, PoliciesFit
    <3>2. b \in Nat /\ w \in Nat /\ x \in Nat /\ x <= w + d
      <4>1. disk.policies[s].permits \in Nat /\ disk.policies[s].refilled \in Nat /\ RefillSecs \in Nat
        BY <3>1, QuarantineAssumption
      <4> QED BY <1>4, <2>2, <4>1
    <3>. HIDE DEF g, b, w, x, top
    <3>3. g + b + x <= top + ran'
      <4>1. g + b + w <= top + ran
        BY <2>1, <2>4
      <4>2. ran \in Nat /\ ran' = ran + d /\ d \in Nat
        BY <1>1
      <4> QED BY <2>3, <3>2, <4>1, <4>2
    <3> QED BY <2>4, <3>3 DEF g, b, x, top
  <2>5. CASE s \notin DOMAIN disk.policies
    <3>1. g <= ran
      BY <2>1, <2>5
    <3>. HIDE DEF g
    <3>2. g <= ran'
      BY <1>1, <2>3, <3>1
    <3> QED BY <2>5, <3>2 DEF g
  <2> QED BY <2>4, <2>5
<1>6. ASSUME NEW dates, NEW since, NEW retention \in Nat, Recalls(dates, since, retention),
             \A e \in DOMAIN dates : dates[e] \in Nat, Past(since)
      PROVE  \A e \in DOMAIN since :
               \/ ran' - since[e] > retention
               \/ e \in DOMAIN dates /\ Elapsed(now', dates[e]) <= ran' - since[e]
  <2> SUFFICES ASSUME NEW e \in DOMAIN since
               PROVE  \/ ran' - since[e] > retention
                      \/ e \in DOMAIN dates /\ Elapsed(now', dates[e]) <= ran' - since[e]
    OBVIOUS
  <2>1. since[e] \in Nat
    BY <1>6, <1>1 DEF Past
  <2>2. CASE ran - since[e] > retention
    BY <1>1, <2>1, <2>2
  <2>3. CASE e \in DOMAIN dates /\ Elapsed(now, dates[e]) <= ran - since[e]
    <3>1. dates[e] \in Nat
      BY <1>6, <2>3
    <3>2. /\ Elapsed(now, dates[e]) \in Nat /\ Elapsed(now', dates[e]) \in Nat
          /\ Elapsed(now', dates[e]) <= Elapsed(now, dates[e]) + d
      BY <1>4, <3>1
    <3> QED BY <1>1, <2>1, <2>3, <3>2
  <2> QED BY <1>6, <2>2, <2>3 DEF Recalls
<1>7. Recalls(disk.charges, charged, ChargeRetention)'
  <2>1. /\ Recalls(disk.charges, charged, ChargeRetention) /\ Past(charged)
        /\ \A e \in DOMAIN disk.charges : disk.charges[e] \in Nat
    BY DEF QInv, Faithful, Fits, ChargesFit, GhostsTyped
  <2>2. ChargeRetention \in Nat
    BY QuarantineAssumption
  <2> QED BY <1>1, <1>6, <2>1, <2>2 DEF Recalls
<1>8. Recalls(disk.tombstones, ended, TombstoneRetention)'
  <2>1. /\ Recalls(disk.tombstones, ended, TombstoneRetention) /\ Past(ended)
        /\ \A e \in DOMAIN disk.tombstones : disk.tombstones[e] \in Nat
    BY DEF QInv, Faithful, Fits, TombstonesFit, GhostsTyped
  <2>2. TombstoneRetention \in Nat
    BY QuarantineAssumption
  <2> QED BY <1>1, <1>6, <2>1, <2>2 DEF Recalls
<1>9. Faithful(disk, granted, charged, ended)'
  BY <1>5, <1>7, <1>8 DEF Faithful
<1>10. call'.at = "idle"
  BY <1>1
<1> QED BY <1>2, <1>3, <1>9, <1>10 DEF QInv

LEMMA MemoryGood == IInv /\ QInv /\ call.at # "idle" => Good(call.mem) /\ GhostsTyped
BY DEF IInv, QInv, Good

\* Nothing is written, memory is dropped, read from the file or kept.
LEMMA QNoWrite ==
  ASSUME IInv, QInv,
         UNCHANGED <<disk, now, ran, granted, charged, ended>>, deleted' \in BOOLEAN,
         \/ call' = Idle
         \/ call' = Call("opened", disk, NoEvent)
         \/ \E at \in {"recover", "items"}, item \in {call.item, NoEvent} :
              call.at # "idle" /\ call' = Call(at, call.mem, item)
  PROVE  QInv'
<1>1. GhostsTyped /\ Fits(disk) /\ Faithful(disk, granted, charged, ended) /\ Fits(call.mem)
      /\ (call.at # "idle" => Faithful(call.mem, granted, charged, ended))
  BY DEF QInv
<1>2. /\ call'.at \in {"idle", "opened", "recover", "items", "routed"}
      /\ call'.item \in Events \cup {NoEvent} /\ Fits(call'.mem)
      /\ call'.at # "idle" => Faithful(call'.mem, granted, charged, ended)
  <2>1. CASE call' = Idle
    BY <2>1, CallShape, EmptyFits DEF Idle
  <2>2. CASE call' = Call("opened", disk, NoEvent)
    BY <1>1, <2>2, CallShape
  <2>3. ASSUME NEW at \in {"recover", "items"}, NEW item \in {call.item, NoEvent},
               call.at # "idle", call' = Call(at, call.mem, item)
        PROVE  /\ call'.at \in {"idle", "opened", "recover", "items", "routed"}
               /\ call'.item \in Events \cup {NoEvent} /\ Fits(call'.mem)
               /\ call'.at # "idle" => Faithful(call'.mem, granted, charged, ended)
    <3>1. call'.at = at /\ call'.mem = call.mem /\ call'.item = item
      BY <2>3, CallShape
    <3> QED BY <1>1, <2>3, <3>1 DEF GhostsTyped
  <2> QED BY <2>1, <2>2, <2>3
<1>3. granted' \in [Senders -> Nat] /\ Past(charged') /\ Past(ended')
  BY <1>1 DEF GhostsTyped
<1> QED BY <1>1, <1>2, <1>3, QKept

\* Memory changes, and the change is written or not.
LEMMA QWrite ==
  ASSUME IInv, QInv, call.at # "idle", NEW next, Good(next), disk' = next \/ disk' = disk,
         UNCHANGED <<now, ran, granted, charged, ended, deleted>>,
         NEW at \in {"recover", "items", "routed"}, NEW item \in Events \cup {NoEvent},
         call' = Call(at, next, item)
  PROVE  QInv'
<1>1. GhostsTyped /\ Fits(disk) /\ Faithful(disk, granted, charged, ended)
  BY DEF QInv
<1>2. Fits(next) /\ Faithful(next, granted, charged, ended)
  BY DEF Good
<1>3. call'.at = at /\ call'.mem = next /\ call'.item = item
  BY CallShape
<1>4. granted' \in [Senders -> Nat] /\ Past(charged') /\ Past(ended') /\ deleted' \in BOOLEAN
  BY <1>1 DEF GhostsTyped
<1>5. Fits(disk') /\ Faithful(disk', granted', charged', ended')
  BY <1>1, <1>2
<1> QED BY <1>2, <1>3, <1>4, <1>5, QKept

\* Envelopes are ended, in memory and in the file.
LEMMA QEnd ==
  ASSUME IInv, QInv, call.at # "idle", NEW snap, Good(snap), NEW ids \in SUBSET Held(snap),
         HasTombstoneRoom(snap, ids), disk' = Terminated(snap, ids, now), Ended(ids),
         UNCHANGED <<now, ran, granted, charged, deleted>>,
         NEW at \in {"recover", "items"}, call' = Call(at, Terminated(snap, ids, now), NoEvent)
  PROVE  QInv'
<1>1. GhostsTyped
  BY DEF QInv
<1>. DEFINE next == Terminated(snap, ids, now)
<1>2. Fits(next) /\ Faithful(next, granted, charged, Since(ids))
  BY <1>1, TerminatedGood
<1>3. call'.at = at /\ call'.mem = next /\ call'.item = NoEvent
  BY CallShape
<1>4. ended' = Since(ids)
  BY DEF Ended, Since
<1>5. ids \subseteq Events
  BY DEF Good, Sound
<1>6. Past(Since(ids))
  BY <1>1, <1>5 DEF GhostsTyped, Past, Since
<1>7. granted' \in [Senders -> Nat] /\ Past(charged') /\ deleted' \in BOOLEAN
  BY <1>1 DEF GhostsTyped
<1>. HIDE DEF next
<1>8. disk' = next
  BY DEF next
<1>9. Fits(disk') /\ Faithful(disk', granted', charged', ended')
  BY <1>2, <1>4, <1>8
<1>10. Fits(call'.mem) /\ Faithful(call'.mem, granted', charged', ended')
  BY <1>2, <1>3, <1>4
<1> QED BY <1>3, <1>4, <1>6, <1>7, <1>9, <1>10, QKept

LEMMA QExpiring == IInv /\ QInv /\ ExpireDue => QInv'
<1> SUFFICES ASSUME IInv, QInv, ExpireDue PROVE QInv'
  OBVIOUS
<1>. DEFINE kept == Pruned(call.mem, now)
            due == Due(call.mem, now)
<1>1. call.at = "opened" /\ UNCHANGED <<now, ran, granted, charged, deleted>>
  BY DEF ExpireDue
<1>2. Good(call.mem) /\ GhostsTyped
  BY <1>1, MemoryGood
<1>3. Good(kept) /\ kept.records = call.mem.records
  BY <1>2, PrunedGood
<1>4. due \in SUBSET Held(kept)
  BY <1>3 DEF Due, Held
<1>5. CASE call' = [call EXCEPT !.at = "recover"] /\ UNCHANGED <<disk, ended>>
  <2>1. call' = Call("recover", call.mem, call.item)
    BY <1>5 DEF IInv, Call
  <2> QED BY <1>1, <1>2, <1>5, <2>1, QNoWrite DEF GhostsTyped
<1>6. CASE /\ HasTombstoneRoom(kept, due) /\ disk' = Terminated(kept, due, now) /\ Ended(due)
           /\ call' = Call("recover", Terminated(kept, due, now), NoEvent)
  <2>. HIDE DEF kept, due
  <2> QED BY <1>1, <1>3, <1>4, <1>6, QEnd
<1> QED BY <1>5, <1>6 DEF ExpireDue, Persist

LEMMA QRecovering ==
  ASSUME IInv, QInv, NEW e \in Events, RecoverConsumed(e) \/ RecoverRetry(e)
  PROVE  QInv'
<1>1. call.at = "recover" /\ e \in DOMAIN call.mem.records
  BY DEF RecoverConsumed, RecoverRetry, IsNextEligible, Eligible
<1>2. Good(call.mem) /\ GhostsTyped
  BY <1>1, MemoryGood
<1>3. CASE RecoverConsumed(e)
  <2>1. {e} \in SUBSET Held(call.mem)
    BY <1>1 DEF Held
  <2>2. /\ HasTombstoneRoom(call.mem, {e}) /\ disk' = Terminated(call.mem, {e}, now) /\ Ended({e})
        /\ call' = Call("items", Terminated(call.mem, {e}, now), NoEvent)
        /\ UNCHANGED <<now, ran, granted, charged, deleted>>
    BY <1>3 DEF RecoverConsumed, Persist
  <2> QED BY <1>1, <1>2, <2>1, <2>2, QEnd
<1>4. CASE RecoverRetry(e)
  <2>1. Good(Postponed(call.mem, e, now))
    BY <1>1, <1>2, PostponedGood
  <2>2. /\ disk' = Postponed(call.mem, e, now)
        /\ call' = Call("items", Postponed(call.mem, e, now), NoEvent)
        /\ UNCHANGED <<now, ran, granted, charged, ended, deleted>>
    BY <1>4 DEF RecoverRetry, Persist
  <2> QED BY <1>1, <2>1, <2>2, QWrite
<1> QED BY <1>3, <1>4

LEMMA QDeciding ==
  ASSUME IInv, QInv, NEW e \in Events, ApplySenderPolicy(e) \/ PolicyUnwritten(e)
  PROVE  QInv'
<1>1. call.at = "items" /\ e \notin Done(call.mem)
  BY DEF ApplySenderPolicy, PolicyUnwritten, Unresolved, Done
<1>2. Good(call.mem) /\ GhostsTyped
  BY <1>1, MemoryGood
<1>. DEFINE given == [granted EXCEPT ![SenderOf[e]] = @ + 1]
            paid == With(charged, e, ran)
<1>3. ASSUME NEW d \in Decisions(call.mem, e, now)
      PROVE  Good(d.snap) /\ (d.decision = "permit" => Faithful(d.snap, given, paid, ended))
  BY <1>1, <1>2, DecisionGood
<1>4. CASE PolicyUnwritten(e)
  <2>1. PICK d \in Decisions(call.mem, e, now) : call' = [call EXCEPT !.mem = d.snap]
    BY <1>4 DEF PolicyUnwritten
  <2>2. call' = Call("items", d.snap, call.item)
    BY <1>1, <2>1 DEF IInv, Call
  <2>3. disk' = disk /\ UNCHANGED <<now, ran, granted, charged, ended, deleted>>
    BY <1>4 DEF PolicyUnwritten, Unwritten
  <2>4. call.item \in Events \cup {NoEvent}
    BY <1>2 DEF GhostsTyped
  <2>5. Good(d.snap)
    BY <1>3
  <2> QED BY <1>1, <2>2, <2>3, <2>4, <2>5, QWrite
<1>5. CASE ApplySenderPolicy(e)
  <2>1. PICK d \in Decisions(call.mem, e, now) :
          /\ disk' = d.snap
          /\ call' = IF Routed(d.decision) THEN Call("routed", d.snap, e)
                                           ELSE Call("items", d.snap, NoEvent)
          /\ IF d.decision = "permit" THEN granted' = given /\ charged' = paid
                                      ELSE UNCHANGED <<granted, charged>>
    BY <1>5 DEF ApplySenderPolicy, Persist
  <2>2. UNCHANGED <<now, ran, ended, deleted>>
    BY <1>5 DEF ApplySenderPolicy
  <2>3. Good(d.snap)
    BY <1>3
  <2>4. \E at \in {"items", "routed"}, item \in Events \cup {NoEvent} : call' = Call(at, d.snap, item)
    BY <2>1
  <2>5. CASE d.decision # "permit"
    BY <1>1, <2>1, <2>2, <2>3, <2>4, <2>5, QWrite
  <2>6. CASE d.decision = "permit"
    <3>1. Fits(d.snap) /\ Faithful(d.snap, given, paid, ended)
      BY <1>3, <2>3, <2>6 DEF Good
    <3>2. given \in [Senders -> Nat]
      <4>1. granted \in [Senders -> Nat] /\ \A n \in Nat : n + 1 \in Nat
        BY <1>2 DEF GhostsTyped
      <4>2. SenderOf[e] \in Senders => granted[SenderOf[e]] + 1 \in Nat
        BY <4>1
      <4> QED BY <4>1, <4>2, QuarantineAssumption
    <3>3. Past(paid)
      BY <1>2 DEF GhostsTyped, Past, With
    <3>4. call'.mem = d.snap /\ call'.at \in {"items", "routed"} /\ call'.item \in Events \cup {NoEvent}
      BY <2>4, CallShape
    <3>. HIDE DEF given, paid
    <3>5. granted' = given /\ charged' = paid /\ disk' = d.snap
      BY <2>1, <2>6
    <3>6. Past(ended') /\ deleted' \in BOOLEAN
      BY <1>2, <2>2 DEF GhostsTyped
    <3>7. granted' \in [Senders -> Nat] /\ Past(charged')
      BY <3>2, <3>3, <3>5
    <3>8. Fits(disk') /\ Faithful(disk', granted', charged', ended')
          /\ Fits(call'.mem) /\ Faithful(call'.mem, granted', charged', ended')
      BY <2>2, <3>1, <3>4, <3>5
    <3> QED BY <2>2, <3>4, <3>6, <3>7, <3>8, QKept
  <2> QED BY <2>5, <2>6
<1> QED BY <1>4, <1>5

LEMMA QRetaining == IInv /\ QInv /\ ItemRetained => QInv'
<1> SUFFICES ASSUME IInv, QInv, ItemRetained PROVE QInv'
  OBVIOUS
<1>. DEFINE next == Retained(call.mem, call.item, now)
<1>1. call.at = "routed" /\ call.item \in Events \ Done(call.mem)
      /\ UNCHANGED <<now, ran, granted, charged, ended, deleted>>
  BY DEF ItemRetained, IInv
<1>2. Good(call.mem) /\ GhostsTyped
  BY <1>1, MemoryGood
<1>3. HasRoom(call.mem, call.item) => Good(next)
  BY <1>1, <1>2, RetainedGood
<1>4. \/ /\ HasRoom(call.mem, call.item) /\ call' = Call("items", next, NoEvent)
         /\ disk' = next \/ disk' = disk
      \/ call' = Call("items", call.mem, NoEvent) /\ disk' = disk
  BY DEF ItemRetained, Persist, Unwritten
<1>. HIDE DEF next
<1>5. CASE /\ HasRoom(call.mem, call.item) /\ call' = Call("items", next, NoEvent)
           /\ disk' = next \/ disk' = disk
  BY <1>1, <1>3, <1>5, QWrite
<1>6. CASE call' = Call("items", call.mem, NoEvent) /\ disk' = disk
  BY <1>1, <1>2, <1>6, QWrite
<1> QED BY <1>4, <1>5, <1>6

\* A deletion gives the burst back with the file; a receive that goes on may only
\* have given less than it thinks.
LEMMA QDeleting == IInv /\ QInv /\ DeleteCapsuleQuarantine => QInv'
<1> SUFFICES ASSUME IInv, QInv, DeleteCapsuleQuarantine PROVE QInv'
  OBVIOUS
<1>. DEFINE given == [s \in Senders |-> 0]
<1>1. /\ disk' = Empty /\ granted' = given /\ charged' = <<>> /\ ended' = <<>> /\ deleted' = TRUE
      /\ UNCHANGED <<call, now, ran>>
  BY DEF DeleteCapsuleQuarantine
<1>2. GhostsTyped /\ Fits(call.mem) /\ RefillSecs \in Nat /\ Burst \in Nat
  BY QuarantineAssumption DEF QInv
<1>3. given \in [Senders -> Nat] /\ \A s \in Senders : given[s] = 0
  BY <1>2
<1>4. Past(<<>>)
  BY DEF Past
<1>. HIDE DEF given
<1>5. DOMAIN Empty.policies = {}
  BY DEF Empty, Snapshot
<1>6. Bounded(Empty.policies, given)
  BY <1>2, <1>3, <1>5 DEF Bounded, GhostsTyped
<1>7. \A dates, retention : Recalls(dates, <<>>, retention)
  BY DEF Recalls
<1>8. Faithful(Empty, given, <<>>, <<>>)
  BY <1>6, <1>7 DEF Faithful
<1>9. ASSUME call.at # "idle" PROVE Faithful(call.mem, given, <<>>, <<>>)
  <2>1. Bounded(call.mem.policies, given)
    <3> SUFFICES ASSUME NEW s \in Senders
                 PROVE  IF s \in DOMAIN call.mem.policies
                        THEN given[s] * RefillSecs + call.mem.policies[s].permits * RefillSecs
                               + Elapsed(now, call.mem.policies[s].refilled) <= Burst * RefillSecs + ran
                        ELSE given[s] * RefillSecs <= ran
      BY DEF Bounded
    <3>1. given[s] * RefillSecs = 0 /\ ran \in Nat /\ now \in Nat
      BY <1>2, <1>3 DEF GhostsTyped
    <3>2. CASE s \notin DOMAIN call.mem.policies
      BY <3>1, <3>2
    <3>3. CASE s \in DOMAIN call.mem.policies
      <4>. DEFINE g == granted[s] * RefillSecs
                  b == call.mem.policies[s].permits * RefillSecs
                  w == Elapsed(now, call.mem.policies[s].refilled)
                  top == Burst * RefillSecs + ran
      <4>1. g + b + w <= top
        BY <1>9, <3>3 DEF QInv, Faithful, Bounded
      <4>2. call.mem.policies[s] \in [permits : Nat, refilled : Nat, active : Nat]
        BY <1>2, <3>3 DEF Fits, PoliciesFit
      <4>3. \A i \in Nat, j \in Nat : i * j \in Nat
        OBVIOUS
      <4>4. granted[s] \in Nat /\ call.mem.policies[s].permits \in Nat
            /\ call.mem.policies[s].refilled \in Nat
        BY <1>2, <4>2 DEF GhostsTyped
      <4>5. g \in Nat /\ b \in Nat /\ Burst * RefillSecs \in Nat
        BY <1>2, <4>3, <4>4
      <4>6. w \in Nat /\ top \in Nat
        BY <3>1, <4>4, <4>5 DEF Elapsed
      <4>. HIDE DEF g, b, w, top
      <4>7. 0 + b + w <= top
        BY <4>1, <4>5, <4>6
      <4> QED BY <3>1, <3>3, <4>7 DEF b, w, top
    <3> QED BY <3>2, <3>3
  <2> QED BY <1>7, <2>1 DEF Faithful
<1>10. /\ granted' \in [Senders -> Nat] /\ Past(charged') /\ Past(ended') /\ deleted' \in BOOLEAN
       /\ Fits(disk') /\ Fits(call'.mem)
       /\ call'.at \in {"idle", "opened", "recover", "items", "routed"}
       /\ call'.item \in Events \cup {NoEvent}
  BY <1>1, <1>2, <1>3, <1>4, EmptyFits DEF GhostsTyped
<1>11. /\ Faithful(disk', granted', charged', ended')
       /\ call'.at # "idle" => Faithful(call'.mem, granted', charged', ended')
  BY <1>1, <1>8, <1>9
<1> QED BY <1>1, <1>10, <1>11, QKept

LEMMA QStep == IInv /\ QInv /\ [Next]_vars => QInv'
<1> SUFFICES ASSUME IInv, QInv, [Next]_vars PROVE QInv'
  OBVIOUS
<1>0. deleted \in BOOLEAN
  BY DEF QInv, GhostsTyped
<1>1. CASE UNCHANGED vars
  BY <1>1 DEF vars, QInv, GhostsTyped, Past, Faithful, Bounded, Recalls
<1>2. CASE Open
  BY <1>2, QNoWrite DEF Open
<1>3. CASE ExpireDue
  BY <1>3, QExpiring
<1>4. CASE ExpireFails \/ RecoverFails \/ Return
  BY <1>0, <1>4, QNoWrite DEF ExpireFails, RecoverFails, Return
<1>5. CASE NothingEligible
  <2>1. call' = Call("items", call.mem, call.item)
    BY <1>5 DEF NothingEligible, IInv, Call
  <2> QED BY <1>0, <1>5, <2>1, QNoWrite DEF NothingEligible
<1>6. CASE ItemConsumed
  BY <1>0, <1>6, QNoWrite DEF ItemConsumed
<1>7. CASE ItemRetained
  BY <1>7, QRetaining
<1>8. CASE DeleteCapsuleQuarantine
  BY <1>8, QDeleting
<1>9. CASE Tick \/ SetClockBack
  BY <1>9, ClockMoves
<1>10. ASSUME NEW e \in Events, RecoverConsumed(e) \/ RecoverRetry(e) PROVE QInv'
  BY <1>10, QRecovering
<1>11. ASSUME NEW e \in Events, ApplySenderPolicy(e) \/ PolicyUnwritten(e) PROVE QInv'
  BY <1>11, QDeciding
<1> QED BY <1>1, <1>2, <1>3, <1>4, <1>5, <1>6, <1>7, <1>8, <1>9, <1>10, <1>11 DEF Next

LEMMA QInitially == Init => QInv
<1> SUFFICES ASSUME Init PROVE QInv
  OBVIOUS
<1>1. /\ disk = Empty /\ call.at = "idle" /\ call.mem = Empty /\ call.item = NoEvent
      /\ now = 0 /\ ran = 0 /\ granted = [s \in Senders |-> 0]
      /\ charged = <<>> /\ ended = <<>> /\ deleted = FALSE
  BY CallShape DEF Init, Idle
<1>2. GhostsTyped
  <2>1. granted \in [Senders -> Nat]
    BY <1>1
  <2>2. Past(charged) /\ Past(ended)
    BY <1>1 DEF Past
  <2> QED BY <1>1, <2>1, <2>2 DEF GhostsTyped
<1>3. DOMAIN Empty.policies = {} /\ RefillSecs \in Nat
  BY QuarantineAssumption DEF Empty, Snapshot
<1>4. Bounded(disk.policies, granted)
  BY <1>1, <1>3 DEF Bounded
<1>5. Faithful(disk, granted, charged, ended)
  BY <1>1, <1>4 DEF Faithful, Recalls
<1> QED BY <1>1, <1>2, <1>5, EmptyFits DEF QInv

\* The invariants follow.
LEMMA QImplies == IInv /\ QInv => TypeOK /\ NeverCorrupt /\ RateBound
<1> SUFFICES ASSUME IInv, QInv PROVE TypeOK /\ NeverCorrupt /\ RateBound
  OBVIOUS
<1>1. Sound(disk) /\ Fits(disk) /\ Sound(call.mem) /\ Fits(call.mem) /\ GhostsTyped
  BY DEF IInv, QInv
<1>2. /\ IsSnapshot(disk) /\ Valid(disk) /\ IsSnapshot(call.mem) /\ Valid(call.mem)
  BY <1>1, FitsMeans
<1>3. TypeOK
  BY <1>1, <1>2 DEF TypeOK, GhostsTyped, Past
<1>4. NeverCorrupt
  BY <1>2 DEF NeverCorrupt
<1>5. RateBound
  <2> SUFFICES ASSUME NEW s \in Senders PROVE granted[s] * RefillSecs <= Burst * RefillSecs + ran
    BY DEF RateBound
  <2>. DEFINE g == granted[s] * RefillSecs
              b == disk.policies[s].permits * RefillSecs
              w == Elapsed(now, disk.policies[s].refilled)
              full == Burst * RefillSecs
  <2>1. IF s \in DOMAIN disk.policies THEN g + b + w <= full + ran ELSE g <= ran
    BY DEF QInv, Faithful, Bounded
  <2>2. \A i \in Nat, j \in Nat : i * j \in Nat
    OBVIOUS
  <2>3. granted[s] \in Nat /\ RefillSecs \in Nat /\ Burst \in Nat /\ ran \in Nat /\ now \in Nat
    BY <1>1, QuarantineAssumption DEF GhostsTyped
  <2>4. g \in Nat /\ full \in Nat
    BY <2>2, <2>3
  <2>5. CASE s \in DOMAIN disk.policies
    <3>1. disk.policies[s].permits \in Nat /\ disk.policies[s].refilled \in Nat
      BY <1>1, <2>5 DEF Fits, PoliciesFit
    <3>2. b \in Nat /\ w \in Nat
      BY <2>2, <2>3, <3>1 DEF Elapsed
    <3>3. g + b + w <= full + ran
      BY <2>1, <2>5
    <3>. HIDE DEF g, b, w, full
    <3>4. g <= full + ran
      BY <2>3, <2>4, <3>2, <3>3
    <3> QED BY <3>4 DEF g, full
  <2>6. CASE s \notin DOMAIN disk.policies
    <3>1. g <= ran
      BY <2>1, <2>6
    <3>. HIDE DEF g, full
    <3>2. g <= full + ran
      BY <2>3, <2>4, <3>1
    <3> QED BY <3>2 DEF g, full
  <2> QED BY <2>5, <2>6
<1> QED BY <1>3, <1>4, <1>5

\* A permit is given by the sender policy only, and only to the envelope at hand.
LEMMA PermitsAreGiven ==
  ASSUME IInv, QInv, [Next]_vars, NEW e \in DOMAIN charged, GivesPermit(e)
  PROVE  ran - charged[e] > ChargeRetention
<1>1. /\ GhostsTyped /\ Past(charged) /\ granted \in [Senders -> Nat] /\ e \in Events
      /\ SenderOf[e] \in Senders
  BY QuarantineAssumption DEF QInv, GhostsTyped, Past
<1>2. granted'[SenderOf[e]] > granted[SenderOf[e]] /\ call'.item = e
  BY DEF GivesPermit
<1>3. granted[SenderOf[e]] \in Nat
  BY <1>1
<1>4. granted' # granted /\ granted' # [s \in Senders |-> 0]
  BY <1>1, <1>2, <1>3
<1>5. PICK f \in Events : ApplySenderPolicy(f)
  BY <1>4 DEF Next, vars, Open, ExpireDue, ExpireFails, NothingEligible, RecoverFails, ItemConsumed,
         ItemRetained, Return, DeleteCapsuleQuarantine, Tick, SetClockBack, RecoverConsumed,
         RecoverRetry, PolicyUnwritten
<1>6. PICK d \in Decisions(call.mem, f, now) :
        /\ call' = IF Routed(d.decision) THEN Call("routed", d.snap, f)
                                         ELSE Call("items", d.snap, NoEvent)
        /\ d.decision = "permit"
  BY <1>4, <1>5 DEF ApplySenderPolicy
<1>7. f = e
  BY <1>2, <1>6, CallShape DEF Routed
<1>8. call.at = "items" /\ e \notin Done(call.mem)
  BY <1>5, <1>7 DEF ApplySenderPolicy, Unresolved, Done
<1>9. Good(call.mem)
  BY <1>8, MemoryGood
<1> QED BY <1>1, <1>6, <1>7, <1>8, <1>9, DecisionGood

\* An envelope comes back only through the sender policy or into the file, and
\* neither takes one whose evidence is kept.
LEMMA ReadmittedLate ==
  ASSUME IInv, QInv, [Next]_vars, NEW e \in DOMAIN ended, Readmitted(e)
  PROVE  ran - ended[e] > TombstoneRetention
<1>1. GhostsTyped /\ e \in Events /\ e # NoEvent
  BY QuarantineAssumption DEF QInv, GhostsTyped, Past
<1>2. CASE e \in DOMAIN disk'.records \ DOMAIN disk.records
  <2>1. Follows(disk', disk) \/ disk' = disk \/ disk' = Empty
    BY EveryStep DEF Keeps, DeleteCapsuleQuarantine
  <2>2. e \notin Done(disk)
    BY <1>2, <2>1, EmptyIsSound DEF Follows, Held
  <2> QED BY <2>2 DEF QInv, Faithful, Recalls, Done
<1>3. CASE call'.item = e /\ call.item # e
  <2>1. call' # Idle /\ \A at, mem : call' # Call(at, mem, NoEvent)
    BY <1>1, <1>3, CallShape DEF Idle
  <2>2. call' # call /\ (\A at : call' # [call EXCEPT !.at = at]) /\ (\A mem : call' # [call EXCEPT !.mem = mem])
    <3>1. call = Call(call.at, call.mem, call.item)
      BY DEF IInv
    <3>2. \A at : [call EXCEPT !.at = at] = Call(at, call.mem, call.item)
      BY <3>1 DEF Call
    <3>3. \A mem : [call EXCEPT !.mem = mem] = Call(call.at, mem, call.item)
      BY <3>1 DEF Call
    <3> QED BY <1>3, <3>2, <3>3, CallShape
  <2>3. PICK f \in Events : ApplySenderPolicy(f)
    <3>1. ~ UNCHANGED vars /\ ~ Open /\ ~ ExpireFails /\ ~ NothingEligible /\ ~ RecoverFails
          /\ ~ ItemConsumed /\ ~ ItemRetained /\ ~ Return /\ ~ DeleteCapsuleQuarantine
          /\ ~ Tick /\ ~ SetClockBack
      BY <2>1, <2>2 DEF vars, Open, ExpireFails, NothingEligible, RecoverFails, ItemConsumed,
           ItemRetained, Return, DeleteCapsuleQuarantine, Tick, SetClockBack
    <3>2. ~ ExpireDue /\ \A f \in Events : ~ RecoverConsumed(f) /\ ~ RecoverRetry(f) /\ ~ PolicyUnwritten(f)
      BY <2>1, <2>2 DEF ExpireDue, RecoverConsumed, RecoverRetry, PolicyUnwritten
    <3> QED BY <3>1, <3>2 DEF Next
  <2>4. f = e
    <3>1. \E d \in Decisions(call.mem, f, now) :
            call' = Call("routed", d.snap, f) \/ call' = Call("items", d.snap, NoEvent)
      BY <2>3 DEF ApplySenderPolicy
    <3>2. \E mem : call' = Call("routed", mem, f)
      BY <2>1, <3>1
    <3> QED BY <1>3, <3>2, CallShape
  <2>5. call.at = "items" /\ e \notin Done(call.mem)
    BY <2>3, <2>4 DEF ApplySenderPolicy, Unresolved, Done
  <2> QED BY <2>5 DEF QInv, Faithful, Recalls, Done
<1> QED BY <1>2, <1>3 DEF Readmitted

\* What holds in every state: memory and file are in step, every limit is kept
\* and the snapshots tell enough of what happened.
THEOREM WithinLimits == Spec => [](IInv /\ QInv)
<1>1. Init => IInv /\ QInv
  BY Initially, QInitially
<1>2. IInv /\ QInv /\ [Next]_vars => IInv' /\ QInv'
  BY EveryStep, QStep DEF Keeps
<1> QED BY <1>1, <1>2, PTL DEF Spec

\* Every variable keeps its type: in particular no permit, date or counter of the
\* snapshot is ever negative (the u64 and u32 fields of inbound_quarantine.rs).
THEOREM TypeCorrect == Spec => []TypeOK
<1>1. IInv /\ QInv => TypeOK
  BY QImplies
<1> QED BY <1>1, WithinLimits, PTL

\* No sequence of receives, failed writes, crashes, deletions and clock changes
\* makes a snapshot that validate_snapshot rejects (inbound_quarantine.rs).
THEOREM StaysValid == Spec => []NeverCorrupt
<1>1. IInv /\ QInv => NeverCorrupt
  BY QImplies
<1> QED BY <1>1, WithinLimits, PTL

\* A sender gets at most its burst and one permit per interval of time that really
\* passed (apply_sender_policy, make_sender_policy_capacity).
THEOREM KeepsTheRate == Spec => []RateBound
<1>1. IInv /\ QInv => RateBound
  BY QImplies
<1> QED BY <1>1, WithinLimits, PTL

\* The same event is charged at most once while its charge is to be remembered
\* (apply_sender_policy, maintain_sender_policy_state).
THEOREM ChargesOnce == Spec => ChargedOnce
<1>1. IInv /\ QInv /\ [Next]_vars =>
        [\A e \in DOMAIN charged : GivesPermit(e) => ran - charged[e] > ChargeRetention]_vars
  BY PermitsAreGiven
<1> QED BY <1>1, WithinLimits, PTL DEF Spec, ChargedOnce

\* What was turned into a tombstone in the file is neither routed nor retained
\* again within the tombstone's retention (append_tombstone, expire_due and the
\* check for terminal evidence in hivra_transport_receive).
THEOREM NeverReadmits == Spec => NoReadmission
<1>1. IInv /\ QInv /\ [Next]_vars =>
        [\A e \in DOMAIN ended : Readmitted(e) => ran - ended[e] > TombstoneRetention]_vars
  BY ReadmittedLate
<1> QED BY <1>1, WithinLimits, PTL DEF Spec, NoReadmission
=============================================================================
