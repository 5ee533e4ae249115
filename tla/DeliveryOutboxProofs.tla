------------------------ MODULE DeliveryOutboxProofs ------------------------
(***************************************************************************)
(* The outbox never lies, for any number of items and crashes: what a      *)
(* stale write may undo is progress, never honesty.                        *)
(***************************************************************************)
EXTENDS DeliveryOutbox, TLAPS

\* EvidenceIsReal is not inductive: a write puts back a file loaded earlier.  It
\* is once every loaded copy is honest too, and every activity about to write an
\* item has the ground for the status it will write.  Grounds only accumulate
\* (facts, resolved and relay grow), so a copy stays honest while it ages.
Grounds ==
  /\ worker.at # "idle" => worker.item \in facts
  /\ fetch.todo \subseteq facts
  /\ fetch.at = "write" => fetch.item \in facts
  /\ pump.at \in {"load", "write"} /\ pump.result = "receipt" => pump.item \in relay
  /\ pump.at \in {"load", "write"} /\ pump.result = "nothing" => pump.item \in resolved

IInv ==
  /\ TypeOK
  /\ Honest(file) /\ Honest(worker.loaded) /\ Honest(fetch.loaded) /\ Honest(pump.loaded)
  /\ Grounds

\* A capsule with no outbox file has an honest outbox.
LEMMA EmptyIsHonest == Empty \in File /\ Honest(Empty)
BY DEF Empty, File, Status, Honest

\* scheduleDuePump leaves a running pump alone and starts one that has loaded
\* nothing.
LEMMA ScheduledFacts ==
  ASSUME IInv
  PROVE  /\ Scheduled \in [at : {"off", "due", "exit", "retry", "load", "write"},
                           todo : SUBSET Items, item : Items \cup {NoItem},
                           result : Results \cup {"none"}, loaded : File]
         /\ Scheduled.loaded \in {Empty, pump.loaded}
         /\ Scheduled.at \in {"load", "write"} => Scheduled = pump
<1>1. CASE pump.at = "off"
  BY <1>1, EmptyIsHonest DEF Scheduled, Pump
<1>2. CASE pump.at # "off"
  BY <1>2 DEF Scheduled, IInv, TypeOK, Activities
<1> QED BY <1>1, <1>2

\* Each step of an activity keeps the outbox and every loaded copy of it honest.
LEMMA Inductive == IInv /\ [Next]_vars => IInv'
<1> SUFFICES ASSUME IInv, [Next]_vars PROVE IInv'
  OBVIOUS
<1> USE EmptyIsHonest
<1>1. CASE UNCHANGED vars
  BY <1>1 DEF vars, IInv, TypeOK, Activities, Honest, Grounds
<1>2. ASSUME NEW i \in Items, Commit(i) PROVE IInv'
  <2>1. /\ facts' = facts \cup {i}
        /\ worker' = [at |-> "load", item |-> i, loaded |-> Empty]
        /\ UNCHANGED <<resolved, relay, file, fetch, pump, crashes>>
    BY <1>2 DEF Commit
  <2>2. TypeOK'
    BY <2>1, OutboxAssumption DEF IInv, TypeOK, Activities
  <2>3. Honest(file)' /\ Honest(worker.loaded)' /\ Honest(fetch.loaded)' /\ Honest(pump.loaded)'
    BY <2>1 DEF IInv, Honest
  <2>4. Grounds'
    BY <2>1 DEF IInv, Grounds
  <2> QED BY <2>2, <2>3, <2>4 DEF IInv
<1>3. CASE EnqueueLoad
  <2>1. /\ worker.at = "load"
        /\ worker' = [at |-> "write", item |-> worker.item, loaded |-> file]
        /\ UNCHANGED <<facts, resolved, relay, file, fetch, pump, crashes>>
    BY <1>3 DEF EnqueueLoad
  <2>2. TypeOK'
    BY <2>1 DEF IInv, TypeOK, Activities
  <2>3. Honest(file)' /\ Honest(worker.loaded)' /\ Honest(fetch.loaded)' /\ Honest(pump.loaded)'
    BY <2>1 DEF IInv, Honest
  <2>4. Grounds'
    BY <2>1 DEF IInv, Grounds
  <2> QED BY <2>2, <2>3, <2>4 DEF IInv
<1>4. CASE EnqueueWrite
  <2>1. /\ worker.at = "write"
        /\ file' = [worker.loaded EXCEPT ![worker.item] = "pending"]
        /\ worker' = WorkerIdle
        /\ pump' = Scheduled
        /\ UNCHANGED <<facts, resolved, relay, fetch, crashes>>
    BY <1>4 DEF EnqueueWrite
  <2>2. TypeOK'
    BY <2>1, ScheduledFacts DEF IInv, TypeOK, Activities, WorkerIdle, File, Status
  <2>3. Honest(file)'
    BY <2>1 DEF IInv, TypeOK, Activities, Honest, Grounds, File, Status
  <2>4. Honest(worker.loaded)' /\ Honest(fetch.loaded)' /\ Honest(pump.loaded)'
    BY <2>1, ScheduledFacts DEF IInv, Honest, WorkerIdle
  <2>5. Grounds'
    BY <2>1, ScheduledFacts DEF IInv, Grounds, WorkerIdle
  <2> QED BY <2>2, <2>3, <2>4, <2>5 DEF IInv
<1>5. CASE FetchStart
  <2>1. /\ fetch' = [at |-> "next", todo |-> facts \cap Terminals, item |-> NoItem,
                     loaded |-> Empty]
        /\ UNCHANGED <<facts, resolved, relay, file, worker, pump, crashes>>
    BY <1>5 DEF FetchStart
  <2>2. TypeOK'
    BY <2>1 DEF IInv, TypeOK, Activities
  <2>3. Honest(file)' /\ Honest(worker.loaded)' /\ Honest(fetch.loaded)' /\ Honest(pump.loaded)'
    BY <2>1 DEF IInv, Honest
  <2>4. Grounds'
    BY <2>1 DEF IInv, Grounds
  <2> QED BY <2>2, <2>3, <2>4 DEF IInv
<1>6. ASSUME NEW i \in Items, ReconcileLoad(i) PROVE IInv'
  <2>1. /\ i \in fetch.todo
        /\ fetch' = [at |-> "write", todo |-> fetch.todo \ {i}, item |-> i, loaded |-> file]
        /\ UNCHANGED <<facts, resolved, relay, file, worker, pump, crashes>>
    BY <1>6 DEF ReconcileLoad
  <2>2. TypeOK'
    BY <2>1 DEF IInv, TypeOK, Activities
  <2>3. Honest(file)' /\ Honest(worker.loaded)' /\ Honest(fetch.loaded)' /\ Honest(pump.loaded)'
    BY <2>1 DEF IInv, Honest
  <2>4. Grounds'
    BY <2>1 DEF IInv, Grounds
  <2> QED BY <2>2, <2>3, <2>4 DEF IInv
<1>7. CASE ReconcileWrite
  <2>1. /\ fetch.at = "write"
        /\ file' \in {file, [fetch.loaded EXCEPT ![fetch.item] = "pending"]}
        /\ pump' \in {pump, Scheduled}
        /\ fetch' = [at |-> "next", todo |-> fetch.todo, item |-> NoItem, loaded |-> Empty]
        /\ UNCHANGED <<facts, resolved, relay, worker, crashes>>
    BY <1>7 DEF ReconcileWrite
  <2>2. TypeOK'
    BY <2>1, ScheduledFacts DEF IInv, TypeOK, Activities, File, Status
  <2>3. Honest(file)'
    BY <2>1 DEF IInv, TypeOK, Activities, Honest, Grounds, File, Status
  <2>4. Honest(worker.loaded)' /\ Honest(fetch.loaded)' /\ Honest(pump.loaded)'
    BY <2>1, ScheduledFacts DEF IInv, Honest
  <2>5. Grounds'
    BY <2>1, ScheduledFacts DEF IInv, Grounds
  <2> QED BY <2>2, <2>3, <2>4, <2>5 DEF IInv
<1>8. CASE FetchEnd
  <2>1. /\ fetch' = FetchIdle
        /\ pump' = Scheduled
        /\ UNCHANGED <<facts, resolved, relay, file, worker, crashes>>
    BY <1>8 DEF FetchEnd
  <2>2. TypeOK'
    BY <2>1, ScheduledFacts DEF IInv, TypeOK, Activities, FetchIdle
  <2>3. Honest(file)' /\ Honest(worker.loaded)' /\ Honest(fetch.loaded)' /\ Honest(pump.loaded)'
    BY <2>1, ScheduledFacts DEF IInv, Honest, FetchIdle
  <2>4. Grounds'
    BY <2>1, ScheduledFacts DEF IInv, Grounds, FetchIdle
  <2> QED BY <2>2, <2>3, <2>4 DEF IInv
<1>9. ASSUME NEW due \in SUBSET Items, PumpDue(due) PROVE IInv'
  <2>1. /\ pump' = Pump("retry", due, NoItem, "none", Empty)
        /\ UNCHANGED <<facts, resolved, relay, file, worker, fetch, crashes>>
    BY <1>9 DEF PumpDue
  <2> QED BY <2>1 DEF IInv, TypeOK, Activities, Honest, Grounds, Pump
<1>10. CASE PumpLook
  <2>1. /\ pump' \in {pump, Pump("exit", {}, NoItem, "none", Empty)}
        /\ UNCHANGED <<facts, resolved, relay, file, worker, fetch, crashes>>
    BY <1>10 DEF PumpLook
  <2> QED BY <2>1 DEF IInv, TypeOK, Activities, Honest, Grounds, Pump
<1>11. CASE PumpExit
  <2>1. /\ pump' = PumpOff
        /\ UNCHANGED <<facts, resolved, relay, file, worker, fetch, crashes>>
    BY <1>11 DEF PumpExit
  <2> QED BY <2>1 DEF IInv, TypeOK, Activities, Honest, Grounds, Pump, PumpOff
<1>12. ASSUME NEW i \in Items, NEW result \in Results, Retry(i, result) PROVE IInv'
  <2>1. /\ relay' \in {relay, relay \cup {i}}
        /\ result = "receipt" => relay' = relay \cup {i}
        /\ result = "nothing" => i \in resolved
        /\ pump' = Pump("load", pump.todo \ {i}, i, result, Empty)
        /\ UNCHANGED <<facts, resolved, file, worker, fetch, crashes>>
    BY <1>12 DEF Retry
  <2>2. TypeOK'
    BY <2>1 DEF IInv, TypeOK, Activities, Pump
  <2>3. Honest(file)' /\ Honest(worker.loaded)' /\ Honest(fetch.loaded)' /\ Honest(pump.loaded)'
    BY <2>1 DEF IInv, Honest, Pump
  <2>4. Grounds'
    BY <2>1 DEF IInv, Grounds, Pump
  <2> QED BY <2>2, <2>3, <2>4 DEF IInv
<1>13. CASE RecordLoad
  <2>1. /\ pump.at = "load"
        /\ pump' = Pump("write", pump.todo, pump.item, pump.result, file)
        /\ UNCHANGED <<facts, resolved, relay, file, worker, fetch, crashes>>
    BY <1>13 DEF RecordLoad
  <2> QED BY <2>1 DEF IInv, TypeOK, Activities, Honest, Grounds, Pump
<1>14. CASE RecordWrite
  <2> DEFINE old == pump.loaded[pump.item]
             new == IF old = "absent" \/ RecordedStatus(pump.result) = "pending"
                    THEN old ELSE RecordedStatus(pump.result)
  <2>1. /\ pump.at = "write"
        /\ file' = [pump.loaded EXCEPT ![pump.item] = new]
        /\ pump' = Pump(IF pump.todo = {} THEN "due" ELSE "retry", pump.todo, NoItem,
                        "none", Empty)
        /\ UNCHANGED <<facts, resolved, relay, worker, fetch, crashes>>
    BY <1>14 DEF RecordWrite
  <2>2. /\ pump.item \in Items /\ pump.loaded \in File /\ Honest(pump.loaded)
        /\ new \in Status
        /\ new = "published" => pump.item \in relay
        /\ new = "superseded" => pump.item \in resolved
        /\ new # "absent" => pump.item \in facts
    BY <2>1 DEF IInv, TypeOK, Activities, Honest, Grounds, RecordedStatus, File, Status
  <2> HIDE DEF new
  <2>3. file' \in File
    BY <2>1, <2>2 DEF File
  <2>4. Honest(file)'
    BY <2>1, <2>2 DEF Honest, File
  <2>5. TypeOK'
    BY <2>1, <2>3 DEF IInv, TypeOK, Activities, Pump
  <2>6. Honest(worker.loaded)' /\ Honest(fetch.loaded)' /\ Honest(pump.loaded)'
    BY <2>1 DEF IInv, Honest, Pump
  <2>7. Grounds'
    BY <2>1 DEF IInv, Grounds, Pump
  <2> QED BY <2>4, <2>5, <2>6, <2>7 DEF IInv
<1>15. ASSUME NEW i \in Items, Resolve(i) PROVE IInv'
  <2>1. /\ resolved' = resolved \cup {i}
        /\ UNCHANGED <<facts, relay, file, worker, fetch, pump, crashes>>
    BY <1>15 DEF Resolve
  <2> QED BY <2>1 DEF IInv, TypeOK, Activities, Honest, Grounds
<1>16. CASE Crash
  <2>1. /\ crashes' = crashes + 1
        /\ worker' = WorkerIdle /\ fetch' = FetchIdle /\ pump' = PumpOff
        /\ UNCHANGED <<facts, resolved, relay, file>>
    BY <1>16 DEF Crash
  <2>2. crashes' \in Nat
    BY <2>1 DEF IInv, TypeOK
  <2> QED BY <2>1, <2>2 DEF IInv, TypeOK, Activities, Honest, Grounds, WorkerIdle, FetchIdle,
                            Pump, PumpOff, Results
<1> QED BY <1>1, <1>2, <1>3, <1>4, <1>5, <1>6, <1>7, <1>8, <1>9, <1>10, <1>11, <1>12, <1>13,
           <1>14, <1>15, <1>16 DEF Next

\* A capsule starts with no facts, no outbox file and no activity.
LEMMA Initially == Init => IInv
BY EmptyIsHonest DEF Init, IInv, TypeOK, Activities, Honest, Grounds, WorkerIdle, FetchIdle,
                     PumpOff, Pump, Results

\* In every reachable state of the outbox (enqueue, reconciliation and pump
\* interleaved at every await) the stored file and all loaded copies are honest.
THEOREM InvariantHolds == Spec => []IInv
BY Initially, Inductive, PTL DEF Spec

\* The outbox file and the steps of its three writers are well formed.
THEOREM TypeCorrect == Spec => []TypeOK
<1>1. IInv => TypeOK
  BY DEF IInv
<1> QED BY <1>1, InvariantHolds, PTL

\* The outbox claims a publication only with a relay's receipt, gives up only on a
\* resolved delivery and owes only committed facts, for any number of items and
\* whatever write is overtaken by another.
THEOREM EvidenceReal == Spec => []EvidenceIsReal
<1>1. IInv => EvidenceIsReal
  BY DEF IInv, EvidenceIsReal
<1> QED BY <1>1, InvariantHolds, PTL
=============================================================================
