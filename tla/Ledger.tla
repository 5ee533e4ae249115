------------------------------- MODULE Ledger -------------------------------
(***************************************************************************)
(* The append-only journal of one capsule (core/hivra-core ledger.rs,      *)
(* ledger_v5.rs, event.rs) in the runtime that owns it                     *)
(* (platform/hivra-ffi runtime_support.rs).                                *)
(*                                                                         *)
(* A ledger is one sequence of events.  A protocol-v4 ledger chains them   *)
(* with a running checksum; a protocol-v5 ledger adds one receipt per      *)
(* event, each committing to everything before it, and starts at an        *)
(* anchor: fresh, or the snapshot of the v4 history it was migrated from.  *)
(*                                                                         *)
(* Hashes are modelled as collision free: the digest of a chain is the     *)
(* sequence of what was hashed into it.  Signatures are the signer field   *)
(* of an event; an event reaches the journal only after its signature was  *)
(* verified, and every receipt is signed by the one owner.                 *)
(***************************************************************************)
EXTENDS Integers, Sequences

CONSTANTS
  Owner,        \* root key of the capsule whose journal this is
  Remote,       \* root keys of other capsules, whose events arrive verified
  Birth,        \* the CapsuleCreated fact
  Facts,        \* the other facts: an event kind with its payload
  MaxEvents,    \* bound: events in a journal
  MaxTs,        \* bound: timestamps, local and remote
  Starter       \* the StarterCreated fact a Relay capsule is born with

ASSUME LedgerAssumption ==
  /\ Owner \notin Remote
  /\ Birth \notin Facts
  /\ Starter \in Facts
  /\ MaxEvents \in Nat \ {0}
  /\ MaxTs \in Nat

VARIABLES
  runtime,      \* RuntimeState.capsule's ledger, or NoLedger
  disk,         \* the exported ledger the host keeps, or NoLedger
  engineTs      \* LAST_ENGINE_TS_MS of this process

vars == <<runtime, disk, engineTs>>

-----------------------------------------------------------------------------
(* Events and commitments *)

Signers == {Owner} \cup Remote
Timestamps == 0..MaxTs

Event == [version : {4, 5}, fact : Facts \cup {Birth}, ts : Timestamps,
          signer : Signers]

\* The v4 identity leaves timestamp and signer out; the v5 identity binds them.
EventId(e) ==
  IF e.version = 4
  THEN [version |-> 4, fact |-> e.fact, ts |-> 0, signer |-> Owner]
  ELSE e

\* A commitment: the anchor, then the position and identity of each entry.
Link == [sequence : Nat, id : Event]
Anchor == [kind : {"none", "fresh", "legacy"}, snapshot : Seq(Event)]
Commitment == [anchor : Anchor, links : Seq(Link)]

Receipt == [sequence : Nat, previous : Commitment]

NoAnchor == [kind |-> "none", snapshot |-> <<>>]
FreshAnchor == [kind |-> "fresh", snapshot |-> <<>>]
LegacyAnchor(snapshot) == [kind |-> "legacy", snapshot |-> snapshot]

AnchorCommitment(anchor) == [anchor |-> anchor, links |-> <<>>]

EntryCommitment(sequence, previous, event) ==
  [anchor |-> previous.anchor,
   links  |-> Append(previous.links, [sequence |-> sequence, id |-> EventId(event)])]

\* last_hash is the checksum of the v4 events: the sequence itself.
LedgerRecord == [events : Seq(Event), last_hash : Seq(Event), anchor : Anchor,
                 legacy_event_count : Nat, receipts : Seq(Receipt)]

NoLedger == [events |-> <<>>, last_hash |-> <<>>, anchor |-> NoAnchor,
             legacy_event_count |-> 0, receipts |-> <<>>]

FreshV5 == [events |-> <<>>, last_hash |-> <<>>, anchor |-> FreshAnchor,
            legacy_event_count |-> 0, receipts |-> <<>>]

IsContinuousV5(l) == l.anchor.kind # "none"

-----------------------------------------------------------------------------
(* Ledger::append, append_v5, migrate_v4 *)

\* Ledger::append: one protocol-v4 event, in timestamp order, never twice.
CanAppend(l, e) ==
  /\ ~IsContinuousV5(l)
  /\ e.version = 4
  /\ \A i \in 1..Len(l.events) : l.events[i] # e
  /\ l.events # <<>> => e.ts >= l.events[Len(l.events)].ts

AppendV4(l, e) ==
  [events             |-> Append(l.events, e),
   last_hash          |-> Append(l.last_hash, e),
   anchor             |-> l.anchor,
   legacy_event_count |-> l.legacy_event_count,
   receipts           |-> l.receipts]

\* Mutant: the head stops at what the last entry committed to.
BugHeadWithoutLastEntry(l) ==
  IF l.receipts # <<>> THEN l.receipts[Len(l.receipts)].previous
  ELSE AnchorCommitment(l.anchor)

TailCommitmentV5(l) ==
  IF l.receipts # <<>> /\ l.events # <<>>
  THEN LET r == l.receipts[Len(l.receipts)]
       IN  EntryCommitment(r.sequence, r.previous, l.events[Len(l.events)])
  ELSE AnchorCommitment(l.anchor)

\* Mutant: append_v5 compares with the last event only.
BugTailOnlyDuplicateScan(l, e) ==
  /\ IsContinuousV5(l)
  /\ e.version = 5
  /\ l.events # <<>> => EventId(l.events[Len(l.events)]) # EventId(e)

\* append_v5_event + Ledger::append_v5: the entry is prepared from the
\* ledger's own next sequence and tail commitment, under one lock.
CanAppendV5(l, e) ==
  /\ IsContinuousV5(l)
  /\ e.version = 5
  /\ \A i \in 1..Len(l.events) : EventId(l.events[i]) # EventId(e)

\* Mutant: the sequence of the entry before.
BugPreviousSequence(l, e) ==
  [events             |-> Append(l.events, e),
   last_hash          |-> l.last_hash,
   anchor             |-> l.anchor,
   legacy_event_count |-> l.legacy_event_count,
   receipts           |-> Append(l.receipts, [sequence |-> Len(l.receipts) - 1,
                                              previous |-> TailCommitmentV5(l)])]

AppendV5(l, e) ==
  [events             |-> Append(l.events, e),
   last_hash          |-> l.last_hash,
   anchor             |-> l.anchor,
   legacy_event_count |-> l.legacy_event_count,
   receipts           |-> Append(l.receipts, [sequence |-> Len(l.receipts),
                                              previous |-> TailCommitmentV5(l)])]

\* verify_v4_events over the first n events against the stored checksum.
VerifyV4(l, n) ==
  /\ \A i \in 1..n :
       /\ l.events[i].version = 4
       /\ \A j \in 1..(i - 1) : l.events[j] # l.events[i]
       /\ i > 1 => l.events[i - 1].ts <= l.events[i].ts
  /\ l.last_hash = SubSeq(l.events, 1, n)

\* verify_v5_structure.  The duplicate scan covers events[..index] with index
\* counting receipts, so a legacy prefix shifts what it compares with.
VerifyV5(l) ==
  LET n == l.legacy_event_count IN
  /\ n <= Len(l.events)
  /\ Len(l.receipts) = Len(l.events) - n
  /\ n > 0 => VerifyV4(l, n)
  /\ \A i \in 1..Len(l.receipts) :
       /\ l.events[n + i].version = 5
       /\ l.receipts[i].sequence = i - 1
       /\ l.receipts[i].previous =
            IF i = 1 THEN AnchorCommitment(l.anchor)
            ELSE EntryCommitment(l.receipts[i - 1].sequence,
                                 l.receipts[i - 1].previous, l.events[n + i - 1])
       /\ \A j \in 1..(i - 1) : EventId(l.events[j]) # EventId(l.events[n + i])

Verify(l) == IF IsContinuousV5(l) THEN VerifyV5(l) ELSE VerifyV4(l, Len(l.events))

\* Mutant: migration forgets how long the legacy prefix is.
BugPrefixNotCounted(l) ==
  [events             |-> l.events,
   last_hash          |-> l.last_hash,
   anchor             |-> LegacyAnchor(l.events),
   legacy_event_count |-> 0,
   receipts           |-> <<>>]

MigrateV4(l) ==
  [events             |-> l.events,
   last_hash          |-> l.last_hash,
   anchor             |-> LegacyAnchor(l.events),
   legacy_event_count |-> Len(l.events),
   receipts           |-> <<>>]

\* validate_imported_ledger: structure, then exactly one birth, first, by the owner.
ValidImport(l) ==
  /\ Verify(l)
  /\ l.events # <<>> => /\ l.events[1].fact = Birth
                        /\ l.events[1].signer = Owner
  /\ \A i \in 1..Len(l.events) : l.events[i].fact = Birth => i = 1
-----------------------------------------------------------------------------
(* The runtime *)

Init ==
  /\ runtime = NoLedger
  /\ disk = NoLedger
  /\ engineTs = 0

Larger(a, b) == IF a >= b THEN a ELSE b

\* FfiTimeSource::now: the wall clock (any value: it may be set back), but
\* never a timestamp this process has already issued or observed.
Now(wall) == Larger(wall, engineTs + 1)

TailTs(l) == IF l.events = <<>> THEN 0 ELSE l.events[Len(l.events)].ts

LocalEvent(l, fact, ts) ==
  [version |-> IF IsContinuousV5(l) THEN 5 ELSE 4, fact |-> fact, ts |-> ts,
   signer |-> Owner]

\* init_runtime_state builds a journal outside the runtime and installs it:
\* the birth and, for a Relay capsule, its starters (five appends of the same
\* shape, one here).
NewCapsule(relay, wall) ==
  LET born == AppendV5(FreshV5, LocalEvent(FreshV5, Birth, Now(wall)))
  IN  IF relay THEN AppendV5(born, LocalEvent(born, Starter, Now(wall) + 1)) ELSE born

\* Mutant: a new capsule is created over a stored one.
BugCreateOverStored(relay, wall) ==
  /\ runtime = NoLedger
  /\ Now(wall) + 1 <= MaxTs
  /\ runtime' = NewCapsule(relay, wall)
  /\ engineTs' = TailTs(NewCapsule(relay, wall))
  /\ UNCHANGED disk

\* hivra_capsule_create for a capsule the host has no ledger of.
CapsuleCreate(relay, wall) ==
  /\ runtime = NoLedger
  /\ disk = NoLedger
  /\ Now(wall) + 1 <= MaxTs
  /\ runtime' = NewCapsule(relay, wall)
  /\ engineTs' = TailTs(NewCapsule(relay, wall))
  /\ UNCHANGED disk

\* A capsule born under the release that wrote protocol-v4 ledgers.
LegacyCreate(wall) ==
  /\ runtime = NoLedger
  /\ disk = NoLedger
  /\ Now(wall) <= MaxTs
  /\ runtime' = AppendV4(NoLedger, LocalEvent(NoLedger, Birth, Now(wall)))
  /\ engineTs' = Now(wall)
  /\ UNCHANGED disk

\* append_runtime_event / append_prepared_event: sign at Now, append under the
\* lock.  A refused append has still consumed the timestamp.
AppendLocal(fact, wall) ==
  LET e == LocalEvent(runtime, fact, Now(wall)) IN
  /\ runtime # NoLedger
  /\ Len(runtime.events) < MaxEvents
  /\ Now(wall) <= MaxTs
  /\ runtime' = IF CanAppendV5(runtime, e) THEN AppendV5(runtime, e)
                ELSE IF CanAppend(runtime, e) THEN AppendV4(runtime, e)
                ELSE runtime
  /\ engineTs' = Now(wall)
  /\ UNCHANGED disk

\* append_verified_runtime_event on a v5 journal keeps the remote event as signed.
AppendRemote(e) ==
  /\ CanAppendV5(runtime, e)
  /\ Len(runtime.events) < MaxEvents
  /\ runtime' = AppendV5(runtime, e)
  /\ UNCHANGED <<disk, engineTs>>

\* append_verified_runtime_event on a v4 journal restamps it.
AppendRemoteV4(e, wall) ==
  LET ts == Larger(wall, TailTs(runtime) + 1)
      stamped == [version |-> 4, fact |-> e.fact, ts |-> ts, signer |-> e.signer]
  IN
  /\ runtime # NoLedger
  /\ ts <= MaxTs
  /\ CanAppend(runtime, stamped)
  /\ Len(runtime.events) < MaxEvents
  /\ runtime' = AppendV4(runtime, stamped)
  /\ engineTs' = Larger(engineTs, ts)
  /\ UNCHANGED disk

\* export_runtime_ledger, written by the host.
Export ==
  /\ runtime # NoLedger
  /\ disk' = runtime
  /\ UNCHANGED <<runtime, engineTs>>

\* The host's worker bootstrap: hivra_capsule_create, then import_runtime_ledger
\* replaces the new journal by the stored one, migrating a v4 journal.  Two calls,
\* one step: the worker makes them back to back and exports only afterwards.
Bootstrap(relay, wall) ==
  /\ disk # NoLedger
  /\ Now(wall) + 1 <= MaxTs
  /\ ValidImport(disk)
  /\ runtime' = IF IsContinuousV5(disk) THEN disk ELSE MigrateV4(disk)
  /\ engineTs' = Larger(TailTs(NewCapsule(relay, wall)), TailTs(disk))
  /\ UNCHANGED disk

\* The process dies: the runtime and the static clock are gone.
Restart ==
  /\ runtime' = NoLedger
  /\ engineTs' = 0
  /\ UNCHANGED disk

Next ==
  \/ \E wall \in Timestamps :
       \/ \E relay \in BOOLEAN : CapsuleCreate(relay, wall) \/ Bootstrap(relay, wall)
       \/ LegacyCreate(wall)
       \/ \E fact \in Facts : AppendLocal(fact, wall)
       \/ \E e \in Event : e.fact # Birth /\ e.signer \in Remote
                           /\ AppendRemoteV4(e, wall)
  \/ \E e \in Event : e.fact # Birth /\ e.signer \in Remote /\ AppendRemote(e)
  \/ Export
  \/ Restart

Spec == Init /\ [][Next]_vars

-----------------------------------------------------------------------------
(* Properties *)

\* Runtime and stored journal are ledger records, the clock a timestamp.
TypeOK ==
  /\ runtime \in LedgerRecord
  /\ disk \in LedgerRecord
  /\ engineTs \in Nat

\* What append and append_v5 build is what verify and the import gate accept:
\* no sequence of creations, appends, migrations, exports and restarts yields a
\* journal the next start refuses (validate_imported_ledger).
AlwaysImportable == ValidImport(runtime) /\ ValidImport(disk)

\* No v5 event occurs twice in a journal.  Behind a legacy prefix the import
\* gate alone does not give this (its scan does not reach the v5 part), so it
\* rests on append_v5 over every path by which an event is appended.
DistinctFacts(l) ==
  \A i \in (l.legacy_event_count + 1)..Len(l.events), j \in 1..Len(l.events) :
    IsContinuousV5(l) /\ EventId(l.events[i]) = EventId(l.events[j]) => i = j
NoFactTwice == DistinctFacts(runtime) /\ DistinctFacts(disk)

\* Two continuous journals with the same head commitment hold the same history,
\* the migrated v4 prefix included (tail_commitment_v5 is used as its identity).
HeadIdentifiesHistory ==
  /\ IsContinuousV5(runtime)
  /\ IsContinuousV5(disk)
  /\ TailCommitmentV5(runtime) = TailCommitmentV5(disk)
  => runtime.events = disk.events

IsExtensionOf(long, short) ==
  /\ Len(short.events) <= Len(long.events)
  /\ \A i \in 1..Len(short.events) : long.events[i] = short.events[i]
  /\ IsContinuousV5(short) => IsContinuousV5(long)

\* The stored journal only ever grows at its end: no crash, migration or
\* clock step makes an export drop or rewrite an event that was already stored,
\* or turn a continuous journal back into a v4 one.
StoredHistoryOnlyGrows == [][IsExtensionOf(disk', disk)]_vars
=============================================================================
