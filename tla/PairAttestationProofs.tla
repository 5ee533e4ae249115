----------------------- MODULE PairAttestationProofs -----------------------
(***************************************************************************)
(* What pair evidence guarantees, for any facts, faults and changes.       *)
(***************************************************************************)
EXTENDS PairAttestation, TLAPS

ViewTypes ==
  /\ rel \in [Capsules -> [Facts -> {"none", "active", "pending_remote_break"}]]
  /\ invited \in [Capsules -> BOOLEAN]

UserTypes ==
  /\ selected \in [Capsules -> BOOLEAN] /\ wants \in [Capsules -> BOOLEAN]
  /\ changes \in Nat /\ faults \in Nat

EvidenceTypes ==
  /\ store \in [Capsules -> SUBSET Evidence] /\ sent \in [Capsules -> SUBSET Evidence]
  /\ wire \in [Capsules -> SUBSET Evidence] /\ inbox \in [Capsules -> SUBSET Evidence]
  /\ accepted \in [Capsules -> SUBSET Evidence]
  /\ batch \in [Capsules -> [by : {"none", "receive", "ensure"}, items : SUBSET Evidence]]

EnsureTypes ==
  /\ ensure \in [Capsules -> {"idle", "drain", "send", "redrain"}]
  /\ \A c \in Capsules : batch[c].by = "ensure" => ensure[c] \in {"drain", "redrain"}

AnswerTypes ==
  /\ checkpoint \in [Capsules -> [Snapshots -> {"none", "cooling", "eligible"}]]
  /\ responding \in [Capsules -> SUBSET Snapshots]
  /\ answered \in [Capsules -> SUBSET Snapshots]

HeldType == held \in [Capsules -> SUBSET Snapshots]

\* ReadyIsMutual is not inductive: the evidence that makes a capsule ready was in
\* a batch, in the inbox, on the wire or with the relays before.  Wherever it is,
\* its signer has held its snapshot without a blocker, for a root signs nothing
\* else and what it has held it has held for ever.
Honest(es) == \A e \in es : e.snap \in held[e.signer]

Signed ==
  \A c \in Capsules :
    /\ Honest(store[c]) /\ Honest(sent[c]) /\ Honest(wire[c]) /\ Honest(inbox[c])
    /\ Honest(batch[c].items)

Seen == \A c \in Capsules : ~Blocked(c) => Snapshot(c) \in held[c]

\* OneAnswerPerWindow is inductive once a reserved answer and a given one both
\* stand for a checkpoint whose retry time is still to come.
Windows ==
  \A c \in Capsules :
    /\ responding[c] \subseteq held[c]
    /\ \A s \in responding[c] \cup answered[c] : checkpoint[c][s] = "cooling"
    /\ responding[c] \cap answered[c] = {}

IInv ==
  /\ ViewTypes /\ UserTypes /\ EvidenceTypes /\ EnsureTypes /\ AnswerTypes /\ HeldType
  /\ Signed /\ Seen /\ Windows

\* There are two capsules, each the peer of the other.
LEMMA PeerFacts ==
  ASSUME NEW c \in Capsules
  PROVE  /\ Peer(c) \in Capsules /\ Peer(c) # c
         /\ Capsules = {c, Peer(c)}
<1>1. \E d \in Capsules : d # c
  BY PairAssumption
<1>2. Peer(c) \in Capsules /\ Peer(c) # c
  BY <1>1 DEF Peer
<1> QED BY <1>2, PairAssumption

LEMMA ViewFixed ==
  ASSUME UNCHANGED view
  PROVE  \A c \in Capsules : Snapshot(c)' = Snapshot(c) /\ (Blocked(c)' <=> Blocked(c))
<1>1. rel' = rel /\ invited' = invited
  BY DEF view
<1>2. \A c \in Capsules : Snapshot(c)' = Snapshot(c)
  BY <1>1 DEF Snapshot
<1> QED BY <1>1, <1>2, Zenon DEF Blocked

LEMMA SnapshotShape ==
  ASSUME NEW c \in Capsules, ~Blocked(c)
  PROVE  Snapshot(c) \in Snapshots
BY DEF Blocked, Snapshot, Snapshots

\* What a root signs is a snapshot it holds.
LEMMA OwnIsHonest ==
  ASSUME IInv, NEW c \in Capsules, ~Blocked(c)
  PROVE  Own(c) \in Evidence /\ Honest({Own(c)})
<1>1. Snapshot(c) \in Snapshots
  BY SnapshotShape
<1>2. Own(c) \in Evidence /\ Own(c).signer = c /\ Own(c).snap = Snapshot(c)
  BY <1>1 DEF Own, Evidence
<1> QED BY <1>2 DEF IInv, Seen, Honest

LEMMA HonestUnion ==
  ASSUME NEW A, NEW B, Honest(A), Honest(B)
  PROVE  Honest(A \cup B)
BY DEF Honest

LEMMA HonestSubset ==
  ASSUME NEW A, NEW B, Honest(A), B \subseteq A
  PROVE  Honest(B)
BY DEF Honest

\* As long as nobody forgets a snapshot, evidence stays honest.
LEMMA HonestFixed ==
  ASSUME NEW A, Honest(A), held' = held
  PROVE  Honest(A)'
BY DEF Honest

\* A change of a pair view adds what the new view holds.
LEMMA ChangeStep ==
  ASSUME IInv, NEW c \in Capsules, Project(c), ViewTypes',
         \A d \in Capsules : d # c => rel'[d] = rel[d] /\ invited'[d] = invited[d]
  PROVE  IInv'
<1>1. /\ changes' = changes + 1
      /\ held' = [held EXCEPT ![c] = @ \cup IF Blocked(c)' THEN {} ELSE {Snapshot(c)'}]
      /\ UNCHANGED <<selected, wants, store, checkpoint, sent, wire, inbox, batch, ensure,
                     accepted, responding, faults, answered>>
  BY DEF Project, files, relays, process
<1>2. Blocked(c)' \/ Snapshot(c)' \in Snapshots
  BY DEF Blocked, Snapshot, Snapshots
<1>3. HeldType' /\ \A d \in Capsules : held[d] \subseteq held'[d]
  BY <1>1, <1>2 DEF IInv, HeldType
<1>4. UserTypes' /\ EvidenceTypes' /\ EnsureTypes' /\ AnswerTypes'
  BY <1>1 DEF IInv, UserTypes, EvidenceTypes, EnsureTypes, AnswerTypes
<1>5. ASSUME NEW A \in SUBSET Evidence, Honest(A)
      PROVE  \A e \in A : e.snap \in held'[e.signer]
  BY <1>3, <1>5 DEF Honest, Evidence
<1>6. Signed'
  BY <1>1, <1>5 DEF IInv, EvidenceTypes, Signed, Honest
<1>7. Seen'
  <2>1. ASSUME NEW d \in Capsules, ~Blocked(d)' PROVE Snapshot(d)' \in held'[d]
    <3>1. CASE d = c
      BY <1>1, <2>1, <3>1 DEF IInv, HeldType
    <3>2. CASE d # c
      <4>1. Snapshot(d)' = Snapshot(d) /\ ~Blocked(d)
        BY <2>1, <3>2 DEF Snapshot, Blocked
      <4> QED BY <1>3, <4>1 DEF IInv, Seen
    <3> QED BY <3>1, <3>2
  <2> QED BY <2>1 DEF Seen
<1>8. Windows'
  BY <1>1, <1>3 DEF IInv, Windows
<1> QED BY <1>3, <1>4, <1>6, <1>7, <1>8 DEF IInv

LEMMA Changing ==
  ASSUME IInv, NEW c \in Capsules, Changes(c)
  PROVE  IInv'
<1>1. PICK v \in [Facts -> {"none", "active", "pending_remote_break"}], b \in BOOLEAN :
        /\ rel' = [rel EXCEPT ![c] = v] /\ invited' = [invited EXCEPT ![c] = b]
        /\ Project(c)
  <2>1. rel[c] \in [Facts -> {"none", "active", "pending_remote_break"}] /\ invited[c] \in BOOLEAN
    BY DEF IInv, ViewTypes
  <2>2. rel = [rel EXCEPT ![c] = rel[c]] /\ invited = [invited EXCEPT ![c] = invited[c]]
    BY DEF IInv, ViewTypes
  <2>3. CASE Invite(c)
    <3>1. invited' = [invited EXCEPT ![c] = ~invited[c]] /\ rel' = rel /\ Project(c)
      BY <2>3 DEF Invite
    <3>2. (~invited[c]) \in BOOLEAN
      OBVIOUS
    <3> QED BY <2>1, <2>2, <3>1, <3>2
  <2>4. ASSUME NEW f \in Facts, NEW k \in {"none", "active", "pending_remote_break"},
               rel' = [rel EXCEPT ![c][f] = k], invited' = invited, Project(c)
        PROVE  \E v \in [Facts -> {"none", "active", "pending_remote_break"}], b \in BOOLEAN :
                 /\ rel' = [rel EXCEPT ![c] = v] /\ invited' = [invited EXCEPT ![c] = b]
                 /\ Project(c)
    <3>1. [rel[c] EXCEPT ![f] = k] \in [Facts -> {"none", "active", "pending_remote_break"}]
      BY <2>1
    <3>2. rel' = [rel EXCEPT ![c] = [rel[c] EXCEPT ![f] = k]]
      BY <2>4
    <3> QED BY <2>1, <2>2, <2>4, <3>1, <3>2
  <2>5. CASE \E f \in Facts : Establish(c, f) \/ Break(c, f) \/ PeerBreak(c, f)
    BY <2>4, <2>5 DEF Establish, Break, PeerBreak
  <2> QED BY <2>3, <2>5 DEF Changes
<1>2. ViewTypes' /\ \A d \in Capsules : d # c => rel'[d] = rel[d] /\ invited'[d] = invited[d]
  BY <1>1 DEF IInv, ViewTypes
<1> QED BY <1>1, <1>2, ChangeStep

\* Steps that leave the views and what was held alone.
LEMMA Unchanged ==
  ASSUME IInv, UNCHANGED <<view, held>>
  PROVE  ViewTypes' /\ HeldType' /\ Seen'
<1>1. rel' = rel /\ invited' = invited /\ held' = held
  BY DEF view
<1>2. \A c \in Capsules : Snapshot(c)' = Snapshot(c) /\ (Blocked(c)' <=> Blocked(c))
  BY ViewFixed
<1> QED BY <1>1, <1>2 DEF IInv, ViewTypes, HeldType, Seen

\* A step of the transport or of drainAndStore moves evidence on.
LEMMA Transporting ==
  ASSUME IInv, NEW c \in Capsules,
         \/ \E e \in Evidence : Queue(c, e)
         \/ ReceiveTakes(c) \/ StoreBatch(c) \/ DrainTimesOut(c)
  PROVE  IInv'
<1>1. ViewTypes' /\ HeldType' /\ Seen'
  BY Unchanged DEF Queue, ReceiveTakes, StoreBatch, DrainTimesOut, ghosts
<1>2. held' = held /\ UNCHANGED <<selected, wants, checkpoint, responding, answered>>
      /\ changes' = changes /\ (faults' = faults \/ faults' = faults + 1)
  BY DEF Queue, ReceiveTakes, StoreBatch, DrainTimesOut, ghosts, counters, files, Fault
<1>3. UserTypes' /\ AnswerTypes' /\ Windows'
  BY <1>2 DEF IInv, UserTypes, AnswerTypes, Windows
<1>4. EvidenceTypes /\ EnsureTypes /\ Signed
  BY DEF IInv
<1>5. CASE \E e \in Evidence : Queue(c, e)
  <2>1. PICK e \in Evidence :
          /\ e \in wire[c] /\ wire' = [wire EXCEPT ![c] = @ \ {e}]
          /\ inbox' = [inbox EXCEPT ![c] = @ \cup {e}]
          /\ UNCHANGED <<store, sent, batch, ensure, accepted>>
    BY <1>5 DEF Queue, files
  <2>2. EvidenceTypes' /\ EnsureTypes'
    BY <1>4, <2>1 DEF EvidenceTypes, EnsureTypes
  <2>3. Signed'
    BY <1>2, <1>4, <2>1 DEF EvidenceTypes, Signed, Honest
  <2> QED BY <1>1, <1>2, <1>3, <2>2, <2>3 DEF IInv
<1>6. CASE ReceiveTakes(c)
  <2>1. /\ batch[c] = NoBatch /\ inbox' = [inbox EXCEPT ![c] = {}]
        /\ batch' = [batch EXCEPT ![c] = [by |-> "receive", items |-> inbox[c]]]
        /\ UNCHANGED <<store, sent, wire, ensure, accepted>>
    BY <1>6 DEF ReceiveTakes, Take, files, relays
  <2>2. EvidenceTypes' /\ EnsureTypes'
    BY <1>4, <2>1 DEF EvidenceTypes, EnsureTypes
  <2>3. Signed'
    BY <1>2, <1>4, <2>1 DEF EvidenceTypes, Signed, Honest
  <2> QED BY <1>1, <1>2, <1>3, <2>2, <2>3 DEF IInv
<1>7. ASSUME batch' = [batch EXCEPT ![c] = NoBatch],
             ensure' = [ensure EXCEPT ![c] = AfterDrain(c, batch[c].by)]
      PROVE  /\ EnsureTypes'
             /\ batch' \in [Capsules -> [by : {"none", "receive", "ensure"}, items : SUBSET Evidence]]
             /\ \A d \in Capsules : batch'[d].items = {} \/ batch'[d] = batch[d]
  <2>1. AfterDrain(c, batch[c].by) \in {"idle", "drain", "send", "redrain"}
    BY <1>4 DEF EnsureTypes, AfterDrain
  <2>2. NoBatch \in [by : {"none", "receive", "ensure"}, items : SUBSET Evidence]
        /\ NoBatch.by = "none" /\ NoBatch.items = {}
    BY DEF NoBatch
  <2> QED BY <1>4, <1>7, <2>1, <2>2 DEF EnsureTypes, EvidenceTypes
<1>8. CASE StoreBatch(c)
  <2>1. /\ batch' = [batch EXCEPT ![c] = NoBatch]
        /\ ensure' = [ensure EXCEPT ![c] = AfterDrain(c, batch[c].by)]
        /\ store' = store \/ store' = [store EXCEPT ![c] = @ \cup batch[c].items]
        /\ accepted' = accepted \/ accepted' = [accepted EXCEPT ![c] = @ \cup HandOn(c)]
        /\ UNCHANGED <<sent, wire, inbox>>
    BY <1>8 DEF StoreBatch, relays
  <2>2. HandOn(c) \subseteq Evidence /\ batch[c].items \subseteq Evidence
    BY <1>4 DEF EvidenceTypes, HandOn, FromPeer
  <2>3. store' \in [Capsules -> SUBSET Evidence]
    BY <1>4, <2>1, <2>2 DEF EvidenceTypes
  <2>4. accepted' \in [Capsules -> SUBSET Evidence]
    BY <1>4, <2>1, <2>2 DEF EvidenceTypes
  <2>5. EvidenceTypes' /\ EnsureTypes'
    BY <1>4, <1>7, <2>1, <2>3, <2>4 DEF EvidenceTypes
  <2>6. \A d \in Capsules : store'[d] = store[d] \/ store'[d] = store[d] \cup batch[d].items
    BY <1>4, <2>1 DEF EvidenceTypes
  <2>7. Signed'
    BY <1>2, <1>4, <1>7, <2>1, <2>6 DEF Signed, Honest
  <2> QED BY <1>1, <1>2, <1>3, <2>5, <2>7 DEF IInv
<1>9. CASE DrainTimesOut(c)
  <2>1. /\ batch' = [batch EXCEPT ![c] = NoBatch]
        /\ ensure' = [ensure EXCEPT ![c] = AfterDrain(c, batch[c].by)]
        /\ UNCHANGED <<store, sent, wire, inbox, accepted>>
    BY <1>9 DEF DrainTimesOut, files, relays
  <2>2. EvidenceTypes' /\ EnsureTypes'
    BY <1>4, <1>7, <2>1 DEF EvidenceTypes
  <2>3. Signed'
    BY <1>2, <1>4, <1>7, <2>1 DEF Signed, Honest
  <2> QED BY <1>1, <1>2, <1>3, <2>2, <2>3 DEF IInv
<1> QED BY <1>5, <1>6, <1>8, <1>9

\* Signing puts own, honest evidence into the store and possibly on the wire.
LEMMA Signing ==
  ASSUME IInv, NEW c \in Capsules, ~Blocked(c), held' = held, Sign(c),
         Post(c, {Own(c)}) \/ UNCHANGED relays, UNCHANGED <<inbox, batch, accepted>>
  PROVE  EvidenceTypes' /\ Signed'
<1>1. Own(c) \in Evidence /\ Honest({Own(c)})
  BY OwnIsHonest
<1>2. EvidenceTypes /\ Signed
  BY DEF IInv
<1>3. store' = [store EXCEPT ![c] = @ \cup {Own(c)}]
  BY DEF Sign
<1>4. /\ sent' = [sent EXCEPT ![Peer(c)] = @ \cup {Own(c)}] \/ sent' = sent
      /\ wire' = [wire EXCEPT ![Peer(c)] = @ \cup {Own(c)}] \/ wire' = wire
  BY DEF Post, relays
<1>5. EvidenceTypes'
  BY <1>1, <1>2, <1>3, <1>4, PeerFacts DEF EvidenceTypes
<1>6. \A d \in Capsules :
        /\ store'[d] \subseteq store[d] \cup {Own(c)}
        /\ sent'[d] \subseteq sent[d] \cup {Own(c)}
        /\ wire'[d] \subseteq wire[d] \cup {Own(c)}
        /\ inbox'[d] = inbox[d] /\ batch'[d] = batch[d]
  BY <1>2, <1>3, <1>4, PeerFacts DEF EvidenceTypes
<1>7. Signed'
  BY <1>1, <1>2, <1>6 DEF Signed, Honest
<1> QED BY <1>5, <1>7

\* A step of ensureForPeer.
LEMMA Ensuring ==
  ASSUME IInv, NEW c \in Capsules, Ensure(c)
  PROVE  IInv'
<1> USE DEF IInv
<1>1. ViewTypes' /\ HeldType' /\ Seen'
  BY Unchanged DEF Ensure, EnsureStarts, EnsureDrains, EnsureFindsReady, EnsureSends, EnsureEnds, ghosts
<1>2. /\ held' = held /\ changes' = changes /\ (faults' = faults \/ faults' = faults + 1)
      /\ UNCHANGED <<selected, wants, checkpoint, responding, answered>>
  BY DEF Ensure, EnsureStarts, EnsureDrains, EnsureFindsReady, EnsureSends, EnsureEnds, ghosts,
         counters, files, Fault
<1>3. UserTypes' /\ AnswerTypes' /\ Windows'
  BY <1>2 DEF UserTypes, AnswerTypes, Windows
<1>4. FromPeer(c, Verified(c)) \subseteq Evidence
  BY DEF FromPeer, Verified, EvidenceTypes
<1>5. ASSUME accepted' = accepted \/ AnswerReady(c)
      PROVE  accepted' \in [Capsules -> SUBSET Evidence]
  BY <1>4, <1>5 DEF EvidenceTypes, AnswerReady
<1>6. CASE EnsureStarts(c)
  <2>1. /\ UNCHANGED <<store, sent, wire, inbox, batch>> /\ ensure[c] = "idle"
        /\ accepted' = accepted \/ AnswerReady(c)
        /\ ensure' = ensure \/ ensure' = [ensure EXCEPT ![c] = "drain"]
    BY <1>6 DEF EnsureStarts, files, relays
  <2>2. EvidenceTypes' /\ Signed'
    BY <1>2, <1>5, <2>1 DEF EvidenceTypes, Signed, Honest
  <2>3. EnsureTypes'
    BY <2>1 DEF EnsureTypes
  <2> QED BY <1>1, <1>2, <1>3, <2>2, <2>3
<1>7. CASE EnsureDrains(c)
  <2>1. /\ ensure[c] \in {"drain", "redrain"} /\ batch[c].by # "ensure"
        /\ UNCHANGED <<store, sent, wire, accepted>>
        /\ \/ /\ inbox' = [inbox EXCEPT ![c] = {}] /\ ensure' = ensure
              /\ batch' = [batch EXCEPT ![c] = [by |-> "ensure", items |-> inbox[c]]]
           \/ /\ inbox' = inbox /\ batch' = batch
              /\ ensure' = [ensure EXCEPT ![c] = AfterDrain(c, "ensure")]
    BY <1>7 DEF EnsureDrains, Take, files, relays
  <2>2. AfterDrain(c, "ensure") \in {"idle", "send"}
    BY DEF AfterDrain
  <2>3. EvidenceTypes' /\ EnsureTypes'
    <3>1. CASE inbox' = inbox /\ batch' = batch
               /\ ensure' = [ensure EXCEPT ![c] = AfterDrain(c, "ensure")]
      BY <2>1, <2>2, <3>1 DEF EvidenceTypes, EnsureTypes
    <3>2. CASE /\ inbox' = [inbox EXCEPT ![c] = {}] /\ ensure' = ensure
               /\ batch' = [batch EXCEPT ![c] = [by |-> "ensure", items |-> inbox[c]]]
      <4>1. EvidenceTypes'
        BY <2>1, <3>2 DEF EvidenceTypes
      <4>2. \A d \in Capsules : d # c => batch'[d] = batch[d]
        BY <3>2 DEF EvidenceTypes
      <4>3. EnsureTypes'
        BY <2>1, <3>2, <4>2 DEF EnsureTypes
      <4> QED BY <4>1, <4>3
    <3> QED BY <2>1, <3>1, <3>2
  <2>4. Signed'
    BY <1>2, <2>1 DEF EvidenceTypes, Signed, Honest
  <2> QED BY <1>1, <1>2, <1>3, <2>3, <2>4
<1>8. CASE EnsureFindsReady(c) \/ EnsureEnds(c)
  <2>1. /\ UNCHANGED <<store, sent, wire, inbox, batch>> /\ batch[c].by # "ensure"
        /\ accepted' = accepted \/ AnswerReady(c)
        /\ ensure' = [ensure EXCEPT ![c] = "idle"]
    BY <1>8 DEF EnsureFindsReady, EnsureEnds, files, relays, EnsureTypes
  <2>2. EvidenceTypes' /\ Signed'
    BY <1>2, <1>5, <2>1 DEF EvidenceTypes, Signed, Honest
  <2>3. EnsureTypes'
    BY <2>1 DEF EnsureTypes
  <2> QED BY <1>1, <1>2, <1>3, <2>2, <2>3
<1>9. CASE EnsureSends(c)
  <2>1. /\ ensure[c] = "send" /\ ~Blocked(c) /\ Sign(c)
        /\ Post(c, {Own(c)}) \/ UNCHANGED relays
        /\ UNCHANGED <<inbox, batch, accepted>>
        /\ ensure' = [ensure EXCEPT ![c] = "redrain"] \/ ensure' = [ensure EXCEPT ![c] = "idle"]
    BY <1>9 DEF EnsureSends
  <2>2. EvidenceTypes' /\ Signed'
    BY <1>2, <2>1, Signing
  <2>3. EnsureTypes'
    BY <2>1 DEF EnsureTypes
  <2> QED BY <1>1, <1>2, <1>3, <2>2, <2>3
<1> QED BY <1>6, <1>7, <1>8, <1>9 DEF Ensure

\* Answers: reserved, sent, held back until their retry time.
LEMMA Answering ==
  ASSUME IInv, NEW c \in Capsules,
         \/ \E e \in Evidence : Respond(c, e)
         \/ \E s \in Snapshots : SendAnswer(c, s) \/ Elapse(c, s)
  PROVE  IInv'
<1> USE DEF IInv
<1>1. ViewTypes' /\ HeldType' /\ Seen' /\ held' = held
  BY Unchanged DEF Respond, SendAnswer, Elapse, ghosts
<1>2. UserTypes'
  <2>1. /\ UNCHANGED <<selected, wants, changes>>
        /\ faults' = faults \/ faults' = faults + 1
    BY DEF Respond, SendAnswer, Elapse, counters, Fault
  <2> QED BY <2>1 DEF UserTypes
<1>3. CASE \E e \in Evidence : Respond(c, e)
  <2>1. PICK e \in Evidence : Respond(c, e)
    BY <1>3
  <2>2. /\ accepted' = [accepted EXCEPT ![c] = @ \ {e}]
        /\ UNCHANGED <<sent, wire, inbox, batch, ensure, answered>>
        /\ store' = store \/ (~Blocked(c) /\ Sign(c))
    BY <2>1 DEF Respond, relays, ghosts
  <2>3. EnsureTypes' /\ accepted' \in [Capsules -> SUBSET Evidence]
    BY <2>2 DEF EnsureTypes, EvidenceTypes
  <2>4. EvidenceTypes' /\ Signed'
    <3>1. CASE store' = store
      BY <1>1, <2>2, <2>3, <3>1 DEF EvidenceTypes, Signed, Honest
    <3>2. CASE ~Blocked(c) /\ Sign(c)
      <4>1. Own(c) \in Evidence /\ Honest({Own(c)}) /\ store' = [store EXCEPT ![c] = @ \cup {Own(c)}]
        BY <3>2, OwnIsHonest DEF Sign
      <4>2. EvidenceTypes'
        BY <2>2, <2>3, <4>1 DEF EvidenceTypes
      <4>3. \A d \in Capsules : store'[d] \subseteq store[d] \cup {Own(c)}
        BY <4>1 DEF EvidenceTypes
      <4>4. Signed'
        BY <1>1, <2>2, <4>1, <4>3 DEF Signed, Honest
      <4> QED BY <4>2, <4>4
    <3> QED BY <2>2, <3>1, <3>2
  <2>5. AnswerTypes' /\ Windows'
    <3>1. CASE Answers(c, e) /\ e \in store[c] /\ MayReserve(c, e.snap)
      <4>1. /\ checkpoint' = [checkpoint EXCEPT ![c][e.snap] = "cooling"]
            /\ responding' = [responding EXCEPT ![c] = @ \cup {e.snap}]
        BY <2>1, <3>1 DEF Respond
      <4>2. e.snap \in held[c] /\ e.snap \in Snapshots
        BY <3>1 DEF Answers, Seen, Evidence
      <4>3. e.snap \notin answered[c]
        BY <3>1 DEF Windows, MayReserve
      <4>4. AnswerTypes'
        BY <2>2, <4>1, <4>2 DEF AnswerTypes
      <4>5. \A s \in Snapshots : checkpoint'[c][s] =
              IF s = e.snap THEN "cooling" ELSE checkpoint[c][s]
        BY <4>1 DEF AnswerTypes
      <4>6. \A d \in Capsules : d # c => checkpoint'[d] = checkpoint[d] /\ responding'[d] = responding[d]
        BY <4>1 DEF AnswerTypes
      <4>7. responding'[c] = responding[c] \cup {e.snap}
        BY <4>1 DEF AnswerTypes
      <4>8. \A d \in Capsules : responding[d] \subseteq Snapshots /\ answered[d] \subseteq Snapshots
        BY DEF AnswerTypes
      <4>9. Windows'
        <5> SUFFICES ASSUME NEW d \in Capsules
                     PROVE  /\ responding'[d] \subseteq held[d]
                            /\ \A s \in responding'[d] \cup answered[d] : checkpoint'[d][s] = "cooling"
                            /\ responding'[d] \cap answered[d] = {}
          BY <1>1, <2>2 DEF Windows
        <5>1. CASE d = c
          BY <4>2, <4>3, <4>5, <4>7, <4>8, <5>1 DEF Windows
        <5>2. CASE d # c
          BY <4>6, <5>2 DEF Windows
        <5> QED BY <5>1, <5>2
      <4> QED BY <4>4, <4>9
    <3>2. CASE ~(Answers(c, e) /\ e \in store[c] /\ MayReserve(c, e.snap))
      <4>1. UNCHANGED <<checkpoint, responding>>
        BY <2>1, <3>2 DEF Respond
      <4> QED BY <1>1, <2>2, <4>1 DEF AnswerTypes, Windows
    <3> QED BY <3>1, <3>2
  <2> QED BY <1>1, <1>2, <2>3, <2>4, <2>5
<1>4. CASE \E s \in Snapshots : SendAnswer(c, s)
  <2>1. PICK s \in Snapshots : SendAnswer(c, s)
    BY <1>4
  <2>. DEFINE e == [signer |-> c, snap |-> s]
  <2>2. /\ s \in responding[c] /\ responding' = [responding EXCEPT ![c] = @ \ {s}]
        /\ answered' = [answered EXCEPT ![c] = @ \cup {s}]
        /\ UNCHANGED <<store, checkpoint, inbox, batch, ensure, accepted>>
        /\ sent' = sent \/ sent' = [sent EXCEPT ![Peer(c)] = @ \cup {e}]
        /\ wire' = wire \/ wire' = [wire EXCEPT ![Peer(c)] = @ \cup {e}]
    BY <2>1 DEF SendAnswer, Post, relays, files
  <2>3. e \in Evidence /\ Honest({e})
    BY <2>2 DEF Evidence, Honest, Windows
  <2>. HIDE DEF e
  <2>4. EvidenceTypes' /\ EnsureTypes' /\ AnswerTypes'
    <3>1. EvidenceTypes'
      <4>1. Peer(c) \in Capsules
        BY PeerFacts
      <4>2. sent' \in [Capsules -> SUBSET Evidence]
        BY <2>2, <2>3, <4>1 DEF EvidenceTypes
      <4>3. wire' \in [Capsules -> SUBSET Evidence]
        BY <2>2, <2>3, <4>1 DEF EvidenceTypes
      <4> QED BY <2>2, <4>2, <4>3 DEF EvidenceTypes
    <3>2. EnsureTypes' /\ AnswerTypes'
      BY <2>2 DEF EnsureTypes, AnswerTypes
    <3> QED BY <3>1, <3>2
  <2>5. \A d \in Capsules : sent'[d] \subseteq sent[d] \cup {e} /\ wire'[d] \subseteq wire[d] \cup {e}
    BY <2>2, PeerFacts DEF EvidenceTypes
  <2>6. Signed'
    BY <1>1, <2>2, <2>3, <2>5 DEF Signed, Honest
  <2>7. Windows'
    BY <1>1, <2>2 DEF Windows, AnswerTypes
  <2> QED BY <1>1, <1>2, <2>4, <2>6, <2>7
<1>5. CASE \E s \in Snapshots : Elapse(c, s)
  <2>1. PICK s \in Snapshots :
          /\ s \notin responding[c]
          /\ checkpoint' = [checkpoint EXCEPT ![c][s] = "eligible"]
          /\ answered' = [answered EXCEPT ![c] = @ \ {s}]
          /\ UNCHANGED <<store, sent, wire, inbox, batch, ensure, accepted, responding>>
    BY <1>5 DEF Elapse, relays, process
  <2>2. EvidenceTypes' /\ EnsureTypes' /\ Signed'
    BY <1>1, <2>1 DEF EvidenceTypes, EnsureTypes, Signed, Honest
  <2>3. AnswerTypes'
    BY <2>1 DEF AnswerTypes
  <2>4. Windows'
    <3>1. \A t \in Snapshots : t # s => checkpoint'[c][t] = checkpoint[c][t]
      BY <2>1 DEF AnswerTypes
    <3>2. \A d \in Capsules : d # c => checkpoint'[d] = checkpoint[d] /\ answered'[d] = answered[d]
      BY <2>1 DEF AnswerTypes
    <3>3. answered'[c] = answered[c] \ {s}
      BY <2>1 DEF AnswerTypes
    <3>4. \A d \in Capsules : responding[d] \subseteq Snapshots /\ answered[d] \subseteq Snapshots
      BY DEF AnswerTypes
    <3>5. responding' = responding
      BY <2>1
    <3> SUFFICES ASSUME NEW d \in Capsules
                 PROVE  /\ responding[d] \subseteq held[d]
                        /\ \A t \in responding[d] \cup answered'[d] : checkpoint'[d][t] = "cooling"
                        /\ responding[d] \cap answered'[d] = {}
      BY <1>1, <3>5 DEF Windows
    <3>6. CASE d = c
      BY <2>1, <3>1, <3>3, <3>4, <3>6 DEF Windows
    <3>7. CASE d # c
      BY <3>2, <3>7 DEF Windows
    <3> QED BY <3>6, <3>7
  <2> QED BY <1>1, <1>2, <2>2, <2>3, <2>4
<1> QED BY <1>3, <1>4, <1>5

\* A process ends; what its files and the relays hold is as honest as before.
LEMMA Restarting ==
  ASSUME IInv, NEW c \in Capsules, Restart(c), faults' = faults + 1,
         store' \in [Capsules -> SUBSET Evidence],
         checkpoint' \in [Capsules -> [Snapshots -> {"none", "cooling", "eligible"}]],
         answered' \in [Capsules -> SUBSET Snapshots],
         \A d \in Capsules : store'[d] \subseteq store[d],
         \A d \in Capsules : \A s \in answered'[d] : checkpoint'[d][s] = "cooling",
         \A d \in Capsules :
           d # c => checkpoint'[d] = checkpoint[d] /\ answered'[d] = answered[d]
  PROVE  IInv'
<1> USE DEF IInv
<1>1. ViewTypes' /\ HeldType' /\ Seen' /\ held' = held
  BY Unchanged DEF Restart
<1>2. UserTypes'
  BY DEF Restart, UserTypes
<1>3. /\ inbox' = [inbox EXCEPT ![c] = {}] /\ batch' = [batch EXCEPT ![c] = NoBatch]
      /\ ensure' = [ensure EXCEPT ![c] = "idle"]
      /\ accepted' = [accepted EXCEPT ![c] = {}]
      /\ responding' = [responding EXCEPT ![c] = {}]
      /\ wire' = [wire EXCEPT ![c] = sent[c]] /\ sent' = sent
  BY DEF Restart
<1>4. NoBatch \in [by : {"none", "receive", "ensure"}, items : SUBSET Evidence]
      /\ NoBatch.by = "none" /\ NoBatch.items = {}
  BY DEF NoBatch
<1>5. EvidenceTypes'
  BY <1>3, <1>4 DEF EvidenceTypes
<1>6. EnsureTypes'
  BY <1>3, <1>4 DEF EnsureTypes, EvidenceTypes
<1>7. AnswerTypes'
  BY <1>3 DEF AnswerTypes
<1>8. \A d \in Capsules :
        /\ inbox'[d] \subseteq inbox[d] /\ batch'[d].items \subseteq batch[d].items
        /\ wire'[d] = wire[d] \/ wire'[d] = sent[d]
  BY <1>3, <1>4 DEF EvidenceTypes
<1>9. Signed'
  BY <1>1, <1>3, <1>8 DEF Signed, Honest
<1>10. Windows'
  <2>1. /\ responding'[c] = {}
        /\ \A d \in Capsules : d # c => responding'[d] = responding[d]
    BY <1>3 DEF AnswerTypes
  <2> SUFFICES ASSUME NEW d \in Capsules
               PROVE  /\ responding'[d] \subseteq held[d]
                      /\ \A s \in responding'[d] \cup answered'[d] : checkpoint'[d][s] = "cooling"
                      /\ responding'[d] \cap answered'[d] = {}
    BY <1>1 DEF Windows
  <2>2. CASE d = c
    BY <2>1, <2>2
  <2>3. CASE d # c
    BY <2>1, <2>3 DEF Windows
  <2> QED BY <2>2, <2>3
<1> QED BY <1>1, <1>2, <1>5, <1>6, <1>7, <1>9, <1>10

\* The user gives up or another capsule is active for a while.
LEMMA Choosing ==
  ASSUME IInv, NEW c \in Capsules, GiveUp(c) \/ Switch(c) \/ SwitchBack(c)
  PROVE  IInv'
<1> USE DEF IInv
<1>1. ViewTypes' /\ HeldType' /\ Seen' /\ held' = held
  BY Unchanged DEF GiveUp, Switch, SwitchBack, ghosts
<1>2. /\ wants' = wants \/ wants' = [wants EXCEPT ![c] = FALSE]
      /\ \/ selected' = selected
         \/ selected' = [selected EXCEPT ![c] = TRUE]
         \/ selected' = [selected EXCEPT ![c] = FALSE]
      /\ changes' = changes /\ (faults' = faults \/ faults' = faults + 1)
      /\ UNCHANGED <<store, checkpoint, sent, wire, inbox, batch, ensure, accepted, responding,
                     answered>>
  BY DEF GiveUp, Switch, SwitchBack, Fault, files, relays, process, counters, ghosts
<1>3. UserTypes'
  <2>1. wants' \in [Capsules -> BOOLEAN]
    BY <1>2 DEF UserTypes
  <2>2. selected' \in [Capsules -> BOOLEAN]
    BY <1>2 DEF UserTypes
  <2> QED BY <1>2, <2>1, <2>2 DEF UserTypes
<1>4. EvidenceTypes' /\ EnsureTypes' /\ AnswerTypes' /\ Signed' /\ Windows'
  BY <1>1, <1>2 DEF EvidenceTypes, EnsureTypes, AnswerTypes, Signed, Windows, Honest
<1> QED BY <1>1, <1>3, <1>4

LEMMA Initially == Init => IInv
<1> SUFFICES ASSUME Init PROVE IInv
  OBVIOUS
<1>1. ViewTypes /\ UserTypes /\ EvidenceTypes /\ EnsureTypes
  BY DEF Init, ViewTypes, UserTypes, EvidenceTypes, EnsureTypes, NoBatch
<1>2. AnswerTypes /\ Signed /\ Windows
  BY DEF Init, AnswerTypes, Signed, Windows, Honest, NoBatch
<1>3. HeldType /\ Seen
  <2>1. held = [c \in Capsules |-> {Snapshot(c)} \cap Snapshots]
    BY DEF Init
  <2>2. HeldType
    BY <2>1 DEF HeldType
  <2>3. Seen
    BY <2>1, SnapshotShape DEF Seen
  <2> QED BY <2>2, <2>3
<1> QED BY <1>1, <1>2, <1>3 DEF IInv

LEMMA Inductive == IInv /\ [Next]_vars => IInv'
<1> SUFFICES ASSUME IInv, [Next]_vars PROVE IInv'
  OBVIOUS
<1>1. CASE UNCHANGED vars
  <2>1. ViewTypes' /\ HeldType' /\ Seen' /\ held' = held
    BY <1>1, Unchanged DEF vars, ghosts
  <2>2. UNCHANGED <<selected, wants, changes, faults, store, sent, wire, inbox, batch, ensure,
                    accepted, checkpoint, responding, answered>>
    BY <1>1 DEF vars, counters, files, relays, process, ghosts
  <2>3. UserTypes' /\ EvidenceTypes' /\ EnsureTypes' /\ AnswerTypes' /\ Signed' /\ Windows'
    BY <2>1, <2>2 DEF IInv, UserTypes, EvidenceTypes, EnsureTypes, AnswerTypes, Signed, Windows,
       Honest
  <2> QED BY <2>1, <2>3 DEF IInv
<1>2. ASSUME NEW c \in Capsules, Crash(c) PROVE IInv'
  <2>1. /\ faults' = faults + 1 /\ Restart(c)
        /\ store' = store /\ checkpoint' = checkpoint /\ answered' = answered
    BY <1>2 DEF Crash, Fault, files
  <2> QED BY <2>1, Restarting DEF IInv, EvidenceTypes, AnswerTypes, Windows
<1>3. ASSUME NEW c \in Capsules, Restore(c) PROVE IInv'
  <2>1. /\ faults' = faults + 1 /\ Restart(c) /\ store' = [store EXCEPT ![c] = {}]
        /\ checkpoint' = [checkpoint EXCEPT ![c] = [s \in Snapshots |-> "none"]]
        /\ answered' = [answered EXCEPT ![c] = {}]
    BY <1>3 DEF Restore, Fault
  <2>2. /\ store' \in [Capsules -> SUBSET Evidence]
        /\ \A d \in Capsules : store'[d] \subseteq store[d]
    BY <2>1 DEF IInv, EvidenceTypes
  <2>3. /\ checkpoint' \in [Capsules -> [Snapshots -> {"none", "cooling", "eligible"}]]
        /\ answered' \in [Capsules -> SUBSET Snapshots]
        /\ answered'[c] = {}
        /\ \A d \in Capsules : d # c => checkpoint'[d] = checkpoint[d] /\ answered'[d] = answered[d]
    BY <2>1 DEF IInv, AnswerTypes
  <2>4. \A d \in Capsules : \A s \in answered'[d] : checkpoint'[d][s] = "cooling"
    BY <2>3 DEF IInv, Windows
  <2> QED BY <2>1, <2>2, <2>3, <2>4, Restarting
<1> QED BY <1>1, <1>2, <1>3, Changing, Ensuring, Transporting, Answering, Choosing DEF Next

LEMMA ReadyFollows == IInv => ReadyIsMutual
<1> SUFFICES ASSUME IInv, NEW c \in Capsules, Ready(c)
             PROVE  Snapshot(c) \in held[Peer(c)]
  BY DEF ReadyIsMutual
<1>1. PICK e \in Verified(c) : e.signer = Peer(c)
  BY PeerFacts DEF Ready
<1>2. e \in store[c] /\ e.snap = Snapshot(c)
  BY <1>1 DEF Verified
<1> QED BY <1>1, <1>2 DEF IInv, Signed, Honest

\* The type invariant of the pair exchange.
THEOREM TypeCorrect == Spec => []TypeOK
<1>1. IInv => TypeOK
  BY DEF IInv, TypeOK, ViewTypes, UserTypes, EvidenceTypes, EnsureTypes, AnswerTypes, HeldType
<1> QED BY <1>1, Initially, Inductive, PTL DEF Spec

\* A capsule is ready for a pair effect (_hasTwoRootEvidence) only for a pair
\* state that the other capsule, too, has held without a blocker: no loss, replay,
\* crash, restore or switch makes stale or one-sided evidence count.
THEOREM ReadyNeedsBothViews == Spec => []ReadyIsMutual
BY Initially, Inductive, ReadyFollows, PTL DEF Spec

\* Between two retry times at most one automatic answer leaves for a snapshot
\* (reserveResponse), across restarts, whatever arrives and however often.
THEOREM AnswersAreHeldBack == Spec => []OneAnswerPerWindow
<1>1. IInv => OneAnswerPerWindow
  BY DEF IInv, Windows, OneAnswerPerWindow
<1> QED BY <1>1, Initially, Inductive, PTL DEF Spec
=============================================================================
