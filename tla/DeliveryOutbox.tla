--------------------------- MODULE DeliveryOutbox ---------------------------
(***************************************************************************)
(* The delivery outbox of one capsule: delivery_outbox_store.dart (a file  *)
(* of items), capsule_delivery_lifecycle_service.dart (the pump) and their *)
(* use by invitation_actions_service.dart.                                 *)
(*                                                                         *)
(* Three activities of one isolate change the file: the worker that has    *)
(* just committed a fact and still holds the FFI queue, the reconciliation *)
(* at the start of a fetch, and the pump recording what a retry did.  Each *)
(* change loads the whole file, awaits, and writes the whole file back;    *)
(* nothing serialises these, so the others may run at each await.          *)
(*                                                                         *)
(* An item stands for its delivery reference (an invitation's offer or     *)
(* terminal, a relationship break).  Attempt counters and times are left   *)
(* out: which pending items are due is a choice.                           *)
(***************************************************************************)
EXTENDS Integers, FiniteSets

CONSTANTS
  Items,         \* delivery references
  Terminals,     \* those of invitation terminals, which a fetch reconciles
  NoItem,
  MaxCrashes     \* bound: times the process dies

ASSUME OutboxAssumption ==
  /\ Terminals \subseteq Items
  /\ NoItem \notin Items
  /\ MaxCrashes \in Nat

VARIABLES
  facts,         \* items whose fact is in the stored journal
  resolved,      \* items with nothing left to deliver
  relay,         \* items some relay has accepted
  file,          \* the stored status of each item
  worker,        \* the worker holding the FFI queue to enqueue its item
  fetch,         \* the reconciliation
  pump,          \* the background pump
  crashes

vars == <<facts, resolved, relay, file, worker, fetch, pump, crashes>>

Status == {"absent", "pending", "published", "superseded"}
File == [Items -> Status]
Empty == [i \in Items |-> "absent"]

WorkerIdle == [at |-> "idle", item |-> NoItem, loaded |-> Empty]
FetchIdle == [at |-> "idle", todo |-> {}, item |-> NoItem, loaded |-> Empty]
Pump(at, todo, item, result, loaded) ==
  [at |-> at, todo |-> todo, item |-> item, result |-> result, loaded |-> loaded]
PumpOff == Pump("off", {}, NoItem, "none", Empty)

Init ==
  /\ facts = {}
  /\ resolved = {}
  /\ relay = {}
  /\ file = Empty
  /\ worker = WorkerIdle
  /\ fetch = FetchIdle
  /\ pump = PumpOff
  /\ crashes = 0

\* scheduleDuePump: at most one pump; after its first delay it looks for due
\* items.
Scheduled == IF pump.at = "off" THEN Pump("due", {}, NoItem, "none", Empty) ELSE pump

-----------------------------------------------------------------------------
(* The worker: the fact is stored, then its item is enqueued *)

\* A terminal may be enqueued again (a repeated rejection appends nothing and
\* still enqueues).
Commit(i) ==
  /\ worker.at = "idle"
  /\ i \in facts => i \in Terminals
  /\ facts' = facts \cup {i}
  /\ worker' = [at |-> "load", item |-> i, loaded |-> Empty]
  /\ UNCHANGED <<resolved, relay, file, fetch, pump, crashes>>

\* enqueue: load...
EnqueueLoad ==
  /\ worker.at = "load"
  /\ worker' = [at |-> "write", item |-> worker.item, loaded |-> file]
  /\ UNCHANGED <<facts, resolved, relay, file, fetch, pump, crashes>>

\* ...and write what was loaded with this item pending, known before or not.
EnqueueWrite ==
  /\ worker.at = "write"
  /\ file' = [worker.loaded EXCEPT ![worker.item] = "pending"]
  /\ worker' = WorkerIdle
  /\ pump' = Scheduled
  /\ UNCHANGED <<facts, resolved, relay, fetch, crashes>>

-----------------------------------------------------------------------------
(* The fetch: _reconcileTerminalOutbox, then scheduleDuePump *)

FetchStart ==
  /\ fetch.at = "idle"
  /\ fetch' = [at |-> "next", todo |-> facts \cap Terminals, item |-> NoItem,
               loaded |-> Empty]
  /\ UNCHANGED <<facts, resolved, relay, file, worker, pump, crashes>>

\* enqueueIfAbsent: load...
ReconcileLoad(i) ==
  /\ fetch.at = "next" /\ i \in fetch.todo
  /\ fetch' = [at |-> "write", todo |-> fetch.todo \ {i}, item |-> i, loaded |-> file]
  /\ UNCHANGED <<facts, resolved, relay, file, worker, pump, crashes>>

\* ...and write only if what was loaded has no such item.
ReconcileWrite ==
  LET absent == fetch.loaded[fetch.item] = "absent" IN
  /\ fetch.at = "write"
  /\ file' = IF absent THEN [fetch.loaded EXCEPT ![fetch.item] = "pending"] ELSE file
  /\ pump' = IF absent THEN Scheduled ELSE pump
  /\ fetch' = [at |-> "next", todo |-> fetch.todo, item |-> NoItem, loaded |-> Empty]
  /\ UNCHANGED <<facts, resolved, relay, worker, crashes>>

\* Mutant: a fetch that restored nothing leaves the pump alone.
BugFetchDoesNotSchedule ==
  /\ fetch.at = "next" /\ fetch.todo = {}
  /\ fetch' = FetchIdle
  /\ UNCHANGED <<facts, resolved, relay, file, worker, pump, crashes>>

\* Every fetch schedules the pump, whether it restored something or not.
FetchEnd ==
  /\ fetch.at = "next" /\ fetch.todo = {}
  /\ fetch' = FetchIdle
  /\ pump' = Scheduled
  /\ UNCHANGED <<facts, resolved, relay, file, worker, crashes>>

-----------------------------------------------------------------------------
(* The pump: pumpDueNow, _recordItemCycle, _runPump *)

Pending == {i \in Items : file[i] = "pending"}

\* Some pending items are due.
PumpDue(due) ==
  /\ pump.at = "due"
  /\ due # {} /\ due \subseteq Pending
  /\ pump' = Pump("retry", due, NoItem, "none", Empty)
  /\ UNCHANGED <<facts, resolved, relay, file, worker, fetch, crashes>>

\* None is due: load once more and stop if nothing is pending at all, else wait.
PumpLook ==
  /\ pump.at = "due"
  /\ pump' = IF Pending = {} THEN Pump("exit", {}, NoItem, "none", Empty) ELSE pump
  /\ UNCHANGED <<facts, resolved, relay, file, worker, fetch, crashes>>

\* The pump removes itself after its future completed: until then
\* scheduleDuePump takes it for running.
PumpExit ==
  /\ pump.at = "exit"
  /\ pump' = PumpOff
  /\ UNCHANGED <<facts, resolved, relay, file, worker, fetch, crashes>>

\* A retry runs in the FFI queue.  Nothing to deliver: success without receipt.
\* A retry may fail, and one that timed out may still have published.
Retry(i, result) ==
  /\ pump.at = "retry" /\ i \in pump.todo
  /\ worker.at = "idle"
  /\ result = "receipt" => i \notin resolved
  /\ result = "nothing" => i \in resolved
  /\ \/ result # "receipt" /\ relay' = relay
     \/ i \notin resolved /\ relay' = relay \cup {i}
  /\ pump' = Pump("load", pump.todo \ {i}, i, result, Empty)
  /\ UNCHANGED <<facts, resolved, file, worker, fetch, crashes>>

\* Mutant: a retry without a receipt counts as published.
BugSettledWithoutReceipt(result) == IF result = "nothing" THEN "superseded" ELSE "published"

\* markPublished, markSuperseded or markAttempt.
RecordedStatus(result) ==
  IF result = "receipt" THEN "published"
  ELSE IF result = "nothing" THEN "superseded"
  ELSE "pending"

RecordLoad ==
  /\ pump.at = "load"
  /\ pump' = Pump("write", pump.todo, pump.item, pump.result, file)
  /\ UNCHANGED <<facts, resolved, relay, file, worker, fetch, crashes>>

\* An item the loaded file does not have is not added; a failed attempt keeps
\* the loaded status.
RecordWrite ==
  LET old == pump.loaded[pump.item] IN
  /\ pump.at = "write"
  /\ file' = [pump.loaded EXCEPT ![pump.item] =
                IF old = "absent" \/ RecordedStatus(pump.result) = "pending"
                THEN old ELSE RecordedStatus(pump.result)]
  /\ pump' = Pump(IF pump.todo = {} THEN "due" ELSE "retry", pump.todo, NoItem, "none", Empty)
  /\ UNCHANGED <<facts, resolved, relay, worker, fetch, crashes>>

-----------------------------------------------------------------------------
(* The environment *)

\* The journal resolves an offer: its delivery becomes superfluous.
Resolve(i) ==
  /\ i \in facts \ Terminals
  /\ worker.at = "idle"
  /\ resolved' = resolved \cup {i}
  /\ UNCHANGED <<facts, relay, file, worker, fetch, pump, crashes>>

\* The process dies: only journal, file and relays remain (writes are atomic
\* renames).
Crash ==
  /\ crashes < MaxCrashes
  /\ crashes' = crashes + 1
  /\ worker' = WorkerIdle
  /\ fetch' = FetchIdle
  /\ pump' = PumpOff
  /\ UNCHANGED <<facts, resolved, relay, file>>

Results == {"receipt", "nothing", "failed"}

Next ==
  \/ \E i \in Items : Commit(i) \/ ReconcileLoad(i) \/ Resolve(i)
  \/ \E i \in Items, result \in Results : Retry(i, result)
  \/ \E due \in SUBSET Items : PumpDue(due)
  \/ EnqueueLoad \/ EnqueueWrite
  \/ FetchStart \/ ReconcileWrite \/ FetchEnd
  \/ PumpLook \/ PumpExit \/ RecordLoad \/ RecordWrite
  \/ Crash

\* Started work goes on (the FFI queue is first in, first out, so other workers
\* do not keep the pump out of it), fetches are triggered again and again (launch,
\* resume, timer), each pending item's backoff runs out, and a retry repeated again
\* and again goes through at last.
Fairness ==
  /\ WF_vars(EnqueueLoad \/ EnqueueWrite)
  /\ WF_vars(FetchStart \/ ReconcileWrite \/ FetchEnd \/ \E i \in Items : ReconcileLoad(i))
  /\ SF_vars(PumpExit \/ RecordLoad \/ RecordWrite
             \/ \E i \in Items, result \in Results : Retry(i, result))
  /\ \A i \in Items : /\ SF_vars(\E due \in SUBSET Items : i \in due /\ PumpDue(due))
                      /\ SF_vars(Retry(i, "receipt") \/ Retry(i, "nothing"))

Spec == Init /\ [][Next]_vars
FairSpec == Spec /\ Fairness

-----------------------------------------------------------------------------
(* Properties *)

Activities ==
  /\ worker \in [at : {"idle", "load", "write"}, item : Items \cup {NoItem}, loaded : File]
  /\ fetch \in [at : {"idle", "next", "write"}, todo : SUBSET Items,
                item : Items \cup {NoItem}, loaded : File]
  /\ pump \in [at : {"off", "due", "exit", "retry", "load", "write"}, todo : SUBSET Items,
               item : Items \cup {NoItem}, result : Results \cup {"none"}, loaded : File]

\* Every stored or loaded file is a file, every activity is in one of its steps,
\* with an item wherever it is about to write one.
TypeOK ==
  /\ facts \subseteq Items /\ resolved \subseteq Items /\ relay \subseteq Items
  /\ file \in File
  /\ crashes \in Nat
  /\ Activities
  /\ worker.at # "idle" => worker.item \in Items
  /\ fetch.at = "write" => fetch.item \in Items
  /\ pump.at \in {"load", "write"} => pump.item \in Items

\* Whatever is overwritten by a stale file, the outbox claims a publication only
\* for what a relay accepted, gives up only on what is resolved, and owes only
\* what the journal holds.
Honest(f) ==
  \A i \in Items :
    /\ f[i] = "published" => i \in relay
    /\ f[i] = "superseded" => i \in resolved
    /\ f[i] # "absent" => i \in facts
EvidenceIsReal == Honest(file)

\* Every committed terminal reaches a relay: a crash before it was enqueued, a
\* stale write that erases its record, or a pump that stopped just before the
\* item appeared only delay it, since each fetch restores the record and the pump.
TerminalReachesRelay == \A i \in Terminals : i \in facts ~> i \in relay

\* docs/architecture/transport-delivery-lifecycle.md: the worker "MUST persist the
\* matching outbox item before releasing the FFI queue. A timeout may change UI
\* feedback, never the durable delivery obligation."
ObligationKept ==
  worker.at = "idle" => \A i \in facts : file[i] # "absent"
=============================================================================
