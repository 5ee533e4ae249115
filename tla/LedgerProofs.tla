---------------------------- MODULE LedgerProofs ----------------------------
(***************************************************************************)
(* The properties of Ledger for every owner, set of facts, number of       *)
(* events and range of timestamps.                                         *)
(*                                                                         *)
(* The inductive invariant describes a journal by a closed form: the       *)
(* commitment stored in receipt k is the anchor followed by the first k-1  *)
(* entries (Chain), the checksum and the anchor's snapshot are the v4      *)
(* prefix, and the identities of the v5 part are distinct.  verify and     *)
(* tail_commitment_v5 only look at neighbouring receipts; the closed form  *)
(* is what they amount to over the whole journal.                          *)
(***************************************************************************)
EXTENDS Ledger, SequenceTheorems, TLAPS

\* The entry at position m behind a prefix of n events.
LinkAt(evs, n, m) == [sequence |-> m - 1, id |-> EventId(evs[n + m])]

\* The commitment to an anchor and the first k entries behind it.
Chain(anchor, evs, n, k) ==
  [anchor |-> anchor, links |-> [m \in 1..k |-> LinkAt(evs, n, m)]]

\* The first n events are a v4 history.
GoodPrefix(evs, n) ==
  /\ \A i \in 1..n : evs[i].version = 4
  /\ \A i, j \in 1..n : j < i => evs[j] # evs[i]
  /\ \A i, j \in 1..n : i = j + 1 => evs[j].ts <= evs[i].ts

\* seq repeats the first n events (the checksum, the snapshot).
Covers(seq, evs, n) == Len(seq) = n /\ \A i \in 1..n : seq[i] = evs[i]

\* Every receipt commits to the anchor and to all entries before it.
GoodReceipts(anchor, evs, n, rs) ==
  \A i \in 1..Len(rs) : /\ evs[n + i].version = 5
                        /\ rs[i].sequence = i - 1
                        /\ rs[i].previous = Chain(anchor, evs, n, i - 1)

\* No v5 event is a repetition.
GoodFacts(evs, n) ==
  \A i, j \in 1..Len(evs) : i > n /\ EventId(evs[i]) = EventId(evs[j]) => i = j

GoodV4(l) ==
  /\ l.anchor = NoAnchor
  /\ l.legacy_event_count = 0
  /\ l.receipts = <<>>
  /\ GoodPrefix(l.events, Len(l.events))
  /\ Covers(l.last_hash, l.events, Len(l.events))

GoodV5(l) ==
  /\ IsContinuousV5(l)
  /\ Len(l.events) = l.legacy_event_count + Len(l.receipts)
  /\ GoodPrefix(l.events, l.legacy_event_count)
  /\ Covers(l.last_hash, l.events, l.legacy_event_count)
  /\ Covers(l.anchor.snapshot, l.events, l.legacy_event_count)
  /\ GoodReceipts(l.anchor, l.events, l.legacy_event_count, l.receipts)
  /\ GoodFacts(l.events, l.legacy_event_count)

\* One birth, first, by the owner.
GoodBirth(evs) ==
  /\ evs # <<>> => evs[1].fact = Birth /\ evs[1].signer = Owner
  /\ \A i \in 1..Len(evs) : evs[i].fact = Birth => i = 1

Good(l) == l \in LedgerRecord /\ (GoodV4(l) \/ GoodV5(l)) /\ GoodBirth(l.events)

IInv ==
  /\ Good(runtime)
  /\ Good(disk)
  /\ engineTs \in Nat
  /\ disk # NoLedger => disk.events # <<>>
  /\ runtime # NoLedger => runtime.events # <<>> /\ IsExtensionOf(runtime, disk)

-----------------------------------------------------------------------------
(* Sequences *)

\* Length and elements of a sequence with one more element.
LEMMA AppendFacts ==
  ASSUME NEW S, NEW s \in Seq(S), NEW e \in S, NEW n \in Nat, n = Len(s)
  PROVE  /\ Append(s, e) \in Seq(S)
         /\ Len(Append(s, e)) = n + 1
         /\ \A i \in 1..n : Append(s, e)[i] = s[i]
         /\ Append(s, e)[n + 1] = e
PROOF OBVIOUS

\* A length is a natural number.
LEMMA LenNat == ASSUME NEW S, NEW s \in Seq(S) PROVE Len(s) \in Nat
PROOF OBVIOUS

\* Only the empty sequence has length 0.
LEMMA LenZero == ASSUME NEW S, NEW s \in Seq(S) PROVE Len(s) = 0 <=> s = <<>>
PROOF OBVIOUS

-----------------------------------------------------------------------------
(* Commitments *)

\* An event identity is itself an event record.
LEMMA EventIdType == ASSUME NEW e \in Event PROVE EventId(e) \in Event
PROOF
<1>1. 0 \in Timestamps
  BY LedgerAssumption DEF Timestamps
<1>2. Owner \in Signers
  BY DEF Signers
<1>. QED
  BY <1>1, <1>2 DEF EventId, Event

\* The links that a run of events gives rise to are a sequence of links.
LEMMA LinksType ==
  ASSUME NEW evs \in Seq(Event), NEW n \in Nat, NEW k \in Nat, n + k <= Len(evs)
  PROVE  [m \in 1..k |-> LinkAt(evs, n, m)] \in Seq(Link)
PROOF
<1>1. ASSUME NEW m \in 1..k PROVE LinkAt(evs, n, m) \in Link
  <2>1. n + m \in 1..Len(evs) /\ m - 1 \in Nat
    OBVIOUS
  <2>2. evs[n + m] \in Event
    BY <2>1
  <2>. QED  BY <2>1, <2>2, EventIdType DEF LinkAt, Link
<1>. QED
  BY <1>1

\* The commitment over an anchor and a run of events is a commitment.
LEMMA ChainType ==
  ASSUME NEW anchor \in Anchor, NEW evs \in Seq(Event), NEW n \in Nat, NEW k \in Nat,
         n + k <= Len(evs)
  PROVE  Chain(anchor, evs, n, k) \in Commitment
PROOF
  BY LinksType DEF Chain, Commitment

\* Extending the closed form by one entry is EntryCommitment.
LEMMA ChainStep ==
  ASSUME NEW anchor, NEW evs \in Seq(Event), NEW n \in Nat, NEW k \in Nat,
         n + k + 1 <= Len(evs)
  PROVE  EntryCommitment(k, Chain(anchor, evs, n, k), evs[n + k + 1])
           = Chain(anchor, evs, n, k + 1)
PROOF
<1>. DEFINE f(j) == [m \in 1..j |-> LinkAt(evs, n, m)]
<1>1. f(k) \in Seq(Link) /\ Len(f(k)) = k
  <2>1. f(k) \in Seq(Link)
    BY LinksType
  <2>. QED  BY <2>1
<1>2. LinkAt(evs, n, k + 1) = [sequence |-> k, id |-> EventId(evs[n + k + 1])]
  BY DEF LinkAt
<1>3. Append(f(k), LinkAt(evs, n, k + 1)) = f(k + 1)
  <2>1. Append(f(k), LinkAt(evs, n, k + 1))
          = [i \in 1..(k + 1) |-> IF i = k + 1 THEN LinkAt(evs, n, k + 1) ELSE f(k)[i]]
    BY <1>1
  <2>2. ASSUME NEW i \in 1..(k + 1)
        PROVE  (IF i = k + 1 THEN LinkAt(evs, n, k + 1) ELSE f(k)[i]) = LinkAt(evs, n, i)
    OBVIOUS
  <2>. QED  BY <2>1, <2>2, Zenon
<1>. QED
  BY <1>2, <1>3 DEF EntryCommitment, Chain

\* The closed form depends only on the events it covers.
LEMMA ChainLocal ==
  ASSUME NEW anchor, NEW a, NEW b, NEW n \in Nat, NEW k \in Nat,
         \A i \in 1..(n + k) : a[i] = b[i]
  PROVE  Chain(anchor, a, n, k) = Chain(anchor, b, n, k)
PROOF
<1>1. ASSUME NEW m \in 1..k PROVE LinkAt(a, n, m) = LinkAt(b, n, m)
  <2>1. n + m \in 1..(n + k)
    OBVIOUS
  <2>. QED  BY <2>1 DEF LinkAt
<1>2. [m \in 1..k |-> LinkAt(a, n, m)] = [m \in 1..k |-> LinkAt(b, n, m)]
  BY <1>1
<1>. QED
  BY <1>2 DEF Chain

-----------------------------------------------------------------------------
(* Appending one event *)

\* Whether a v4 prefix verifies depends on the events in it only.
LEMMA PrefixKept ==
  ASSUME NEW a, NEW b, NEW n \in Nat, \A i \in 1..n : a[i] = b[i], GoodPrefix(a, n)
  PROVE  GoodPrefix(b, n)
PROOF
  BY DEF GoodPrefix

\* What a snapshot or checksum covers depends on the covered events only.
LEMMA CoversKept ==
  ASSUME NEW s, NEW a, NEW b, NEW n \in Nat, \A i \in 1..n : a[i] = b[i], Covers(s, a, n)
  PROVE  Covers(s, b, n)
PROOF
  BY DEF Covers

\* Ledger::append extends the verified v4 prefix by its event.
LEMMA PrefixGrows ==
  ASSUME NEW a, NEW b, NEW n \in Nat, \A i \in 1..n : a[i] = b[i], GoodPrefix(a, n),
         b[n + 1].version = 4,
         \A i \in 1..n : a[i] # b[n + 1],
         n > 0 => a[n].ts <= b[n + 1].ts
  PROVE  GoodPrefix(b, n + 1)
PROOF
<1>1. GoodPrefix(b, n)
  BY PrefixKept
<1>2. \A i \in 1..n : b[i] # b[n + 1]
  OBVIOUS
<1>3. n > 0 => b[n].ts <= b[n + 1].ts
  OBVIOUS
<1>4. \A i \in 1..(n + 1) : b[i].version = 4
  BY <1>1 DEF GoodPrefix
<1>5. ASSUME NEW i \in 1..(n + 1), NEW j \in 1..(n + 1), j < i PROVE b[j] # b[i]
  BY <1>1, <1>2, <1>5 DEF GoodPrefix
<1>6. ASSUME NEW i \in 1..(n + 1), NEW j \in 1..(n + 1), i = j + 1 PROVE b[j].ts <= b[i].ts
  BY <1>1, <1>3, <1>6 DEF GoodPrefix
<1>. QED
  BY <1>4, <1>5, <1>6 DEF GoodPrefix

\* Ledger::append extends what the checksum covers by its event.
LEMMA CoversGrows ==
  ASSUME NEW s \in Seq(Event), NEW a \in Seq(Event), NEW e \in Event,
         NEW n \in Nat, n = Len(a), Covers(s, a, n)
  PROVE  Covers(Append(s, e), Append(a, e), n + 1)
PROOF
<1>1. Len(s) = n /\ \A i \in 1..n : s[i] = a[i]
  BY DEF Covers
<1>2. /\ Len(Append(s, e)) = n + 1
      /\ \A i \in 1..n : Append(s, e)[i] = s[i]
      /\ Append(s, e)[n + 1] = e
  BY <1>1, AppendFacts
<1>3. /\ \A i \in 1..n : Append(a, e)[i] = a[i]
      /\ Append(a, e)[n + 1] = e
  BY AppendFacts
<1>4. ASSUME NEW i \in 1..(n + 1) PROVE Append(s, e)[i] = Append(a, e)[i]
  <2>1. CASE i = n + 1  BY <2>1, <1>2, <1>3
  <2>2. CASE i \in 1..n  BY <2>2, <1>1, <1>2, <1>3
  <2>3. i = n + 1 \/ i \in 1..n
    OBVIOUS
  <2>. QED  BY <2>1, <2>2, <2>3, Zenon
<1>. QED
  BY <1>2, <1>4 DEF Covers

\* The receipt append_v5 adds continues the chain of receipts.
LEMMA ReceiptsGrow ==
  ASSUME NEW anchor \in Anchor, NEW a \in Seq(Event), NEW e \in Event, e.version = 5,
         NEW n \in Nat, NEW k \in Nat, NEW rs \in Seq(Receipt), k = Len(rs),
         Len(a) = n + k, GoodReceipts(anchor, a, n, rs),
         NEW r \in Receipt, r = [sequence |-> k, previous |-> Chain(anchor, a, n, k)]
  PROVE  GoodReceipts(anchor, Append(a, e), n, Append(rs, r))
PROOF
<1>1. /\ \A i \in 1..(n + k) : Append(a, e)[i] = a[i]
      /\ Append(a, e)[n + k + 1] = e
  <2>1. n + k \in Nat
    OBVIOUS
  <2>. QED  BY <2>1, AppendFacts
<1>2. /\ Len(Append(rs, r)) = k + 1
      /\ \A i \in 1..k : Append(rs, r)[i] = rs[i]
      /\ Append(rs, r)[k + 1] = r
  BY AppendFacts
<1>3. ASSUME NEW j \in 0..k
      PROVE  Chain(anchor, Append(a, e), n, j) = Chain(anchor, a, n, j)
  <2>1. PICK b : b = Append(a, e)
    OBVIOUS
  <2>2. \A i \in 1..(n + j) : b[i] = a[i]
    BY <2>1, <1>1
  <2>3. j \in Nat
    OBVIOUS
  <2>4. Chain(anchor, b, n, j) = Chain(anchor, a, n, j)
    BY <2>2, <2>3, ChainLocal
  <2>. QED  BY <2>1, <2>4
<1>4. ASSUME NEW i \in 1..(k + 1)
      PROVE  /\ Append(a, e)[n + i].version = 5
             /\ Append(rs, r)[i].sequence = i - 1
             /\ Append(rs, r)[i].previous = Chain(anchor, Append(a, e), n, i - 1)
  <2>1. CASE i = k + 1
    <3>1. Append(a, e)[n + i] = e /\ Append(rs, r)[i] = r /\ i - 1 = k
      BY <2>1, <1>1, <1>2
    <3>2. Chain(anchor, Append(a, e), n, k) = Chain(anchor, a, n, k)
      BY <1>3
    <3>. QED  BY <3>1, <3>2
  <2>2. CASE i \in 1..k
    <3>1. n + i \in 1..(n + k) /\ i - 1 \in 0..k
      BY <2>2
    <3>2. Append(a, e)[n + i] = a[n + i] /\ Append(rs, r)[i] = rs[i]
      BY <2>2, <3>1, <1>1, <1>2
    <3>3. /\ a[n + i].version = 5
          /\ rs[i].sequence = i - 1
          /\ rs[i].previous = Chain(anchor, a, n, i - 1)
      BY <2>2 DEF GoodReceipts
    <3>4. Chain(anchor, Append(a, e), n, i - 1) = Chain(anchor, a, n, i - 1)
      BY <3>1, <1>3
    <3>. QED  BY <3>2, <3>3, <3>4
  <2>3. i = k + 1 \/ i \in 1..k
    OBVIOUS
  <2>. QED  BY <2>1, <2>2, <2>3, Zenon
<1>. QED
  BY <1>2, <1>4 DEF GoodReceipts

\* An event append_v5 lets through differs from all before it.
LEMMA FactsGrow ==
  ASSUME NEW a \in Seq(Event), NEW e \in Event, NEW n \in Nat, NEW m \in Nat, m = Len(a),
         GoodFacts(a, n), \A i \in 1..m : EventId(a[i]) # EventId(e)
  PROVE  GoodFacts(Append(a, e), n)
PROOF
<1>1. /\ Len(Append(a, e)) = m + 1
      /\ \A i \in 1..m : Append(a, e)[i] = a[i]
      /\ Append(a, e)[m + 1] = e
  BY AppendFacts
<1>2. \A i, j \in 1..m : i > n /\ EventId(a[i]) = EventId(a[j]) => i = j
  BY DEF GoodFacts
<1>3. ASSUME NEW i \in 1..(m + 1), NEW j \in 1..(m + 1), i > n,
             EventId(Append(a, e)[i]) = EventId(Append(a, e)[j])
      PROVE  i = j
  <2>1. CASE i \in 1..m /\ j \in 1..m
    BY <2>1, <1>1, <1>2, <1>3
  <2>2. CASE i = m + 1 /\ j \in 1..m
    BY <2>2, <1>1, <1>3
  <2>3. CASE i \in 1..m /\ j = m + 1
    BY <2>3, <1>1, <1>3
  <2>. QED  BY <2>1, <2>2, <2>3
<1>. QED
  BY <1>1, <1>3 DEF GoodFacts

\* Appending what is not a birth leaves the birth first and the only one.
LEMMA BirthKept ==
  ASSUME NEW a \in Seq(Event), NEW e \in Event, a # <<>>, GoodBirth(a), e.fact # Birth
  PROVE  GoodBirth(Append(a, e))
PROOF
<1>1. Len(a) \in Nat /\ Len(a) > 0
  OBVIOUS
<1>2. PICK m \in Nat : m = Len(a) /\ m > 0
  BY <1>1
<1>3. /\ Append(a, e) \in Seq(Event) /\ Len(Append(a, e)) = m + 1
      /\ \A i \in 1..m : Append(a, e)[i] = a[i]
      /\ Append(a, e)[m + 1] = e
  BY <1>2, AppendFacts
<1>4. Append(a, e)[1] = a[1] /\ Append(a, e) # <<>>
  BY <1>2, <1>3
<1>5. ASSUME NEW i \in 1..(m + 1), Append(a, e)[i].fact = Birth PROVE i = 1
  <2>1. i \in 1..m
    BY <1>2, <1>3, <1>5
  <2>. QED  BY <2>1, <1>2, <1>3, <1>5 DEF GoodBirth
<1>. QED
  BY <1>3, <1>4, <1>5 DEF GoodBirth

-----------------------------------------------------------------------------
(* Whole journals *)

\* The fields of a ledger record have their types.
LEMMA RecordFields ==
  ASSUME NEW l \in LedgerRecord
  PROVE  /\ l.events \in Seq(Event) /\ l.last_hash \in Seq(Event) /\ l.anchor \in Anchor
         /\ l.legacy_event_count \in Nat /\ l.receipts \in Seq(Receipt)
         /\ Len(l.events) \in Nat /\ Len(l.receipts) \in Nat
         /\ l.anchor.snapshot \in Seq(Event)
PROOF
<1>1. /\ l.events \in Seq(Event) /\ l.last_hash \in Seq(Event) /\ l.anchor \in Anchor
      /\ l.legacy_event_count \in Nat /\ l.receipts \in Seq(Receipt)
  BY DEF LedgerRecord
<1>2. Len(l.events) \in Nat /\ Len(l.receipts) \in Nat
  BY <1>1, LenNat
<1>3. l.anchor.snapshot \in Seq(Event)
  BY <1>1 DEF Anchor
<1>. QED  BY <1>1, <1>2, <1>3

\* tail_commitment_v5 of a good journal commits to all of it.
LEMMA TailIsChain ==
  ASSUME NEW l \in LedgerRecord, GoodV5(l)
  PROVE  TailCommitmentV5(l)
           = Chain(l.anchor, l.events, l.legacy_event_count, Len(l.receipts))
PROOF
<1>1. PICK evs, n, rs, k, anchor :
        /\ evs = l.events /\ n = l.legacy_event_count /\ rs = l.receipts
        /\ k = Len(l.receipts) /\ anchor = l.anchor
  OBVIOUS
<1>2. /\ evs \in Seq(Event) /\ n \in Nat /\ rs \in Seq(Receipt) /\ k \in Nat
      /\ k = Len(rs)
  BY <1>1, RecordFields
<1>3. Len(evs) = n + k /\ GoodReceipts(anchor, evs, n, rs)
  BY <1>1 DEF GoodV5
<1>4. CASE k = 0
  <2>1. rs = <<>>
    BY <1>2, <1>4, LenZero
  <2>2. TailCommitmentV5(l) = [anchor |-> anchor, links |-> <<>>]
    BY <1>1, <2>1 DEF TailCommitmentV5, AnchorCommitment
  <2>3. [m \in 1..k |-> LinkAt(evs, n, m)] = <<>>
    BY <1>4
  <2>. QED  BY <1>1, <2>2, <2>3 DEF Chain
<1>5. CASE k > 0
  <2>1. PICK j \in Nat : k = j + 1
    <3>1. k - 1 \in Nat /\ k = (k - 1) + 1
      BY <1>2, <1>5
    <3>. QED  BY <3>1
  <2>2. rs # <<>> /\ evs # <<>>
    BY <1>2, <1>3, <1>5
  <2>3. rs[k].sequence = j /\ rs[k].previous = Chain(anchor, evs, n, j)
    <3>1. k \in 1..Len(rs) /\ k - 1 = j
      BY <1>2, <2>1
    <3>. QED  BY <1>3, <3>1 DEF GoodReceipts
  <2>4. TailCommitmentV5(l)
          = EntryCommitment(rs[Len(rs)].sequence, rs[Len(rs)].previous, evs[Len(evs)])
    BY <1>1, <2>2 DEF TailCommitmentV5
  <2>5. Len(evs) = n + j + 1 /\ Len(rs) = k
    BY <1>2, <1>3, <2>1
  <2>6. TailCommitmentV5(l) = EntryCommitment(j, Chain(anchor, evs, n, j), evs[n + j + 1])
    BY <2>3, <2>4, <2>5
  <2>7. EntryCommitment(j, Chain(anchor, evs, n, j), evs[n + j + 1])
          = Chain(anchor, evs, n, j + 1)
    <3>1. n + j + 1 <= Len(evs)
      BY <1>2, <2>5
    <3>. QED  BY <1>2, <3>1, ChainStep
  <2>. QED  BY <1>1, <2>1, <2>6, <2>7
<1>6. k = 0 \/ k > 0
  BY <1>2
<1>. QED
  BY <1>4, <1>5, <1>6

\* append_v5 keeps a journal good.
LEMMA AppendV5Good ==
  ASSUME NEW l \in LedgerRecord, GoodV5(l), NEW e \in Event, CanAppendV5(l, e)
  PROVE  AppendV5(l, e) \in LedgerRecord /\ GoodV5(AppendV5(l, e))
PROOF
<1>1. PICK evs, hash, n, rs, k, anchor, r :
        /\ evs = l.events /\ hash = l.last_hash /\ n = l.legacy_event_count
        /\ rs = l.receipts /\ k = Len(l.receipts) /\ anchor = l.anchor
        /\ r = [sequence |-> k, previous |-> Chain(anchor, evs, n, k)]
  OBVIOUS
<1>2. /\ evs \in Seq(Event) /\ hash \in Seq(Event) /\ n \in Nat /\ rs \in Seq(Receipt)
      /\ k \in Nat /\ k = Len(rs) /\ anchor \in Anchor
  BY <1>1, RecordFields
<1>3. /\ Len(evs) = n + k
      /\ GoodPrefix(evs, n) /\ Covers(hash, evs, n) /\ Covers(anchor.snapshot, evs, n)
      /\ GoodReceipts(anchor, evs, n, rs) /\ GoodFacts(evs, n)
      /\ anchor.kind # "none"
  BY <1>1 DEF GoodV5, IsContinuousV5
<1>4. AppendV5(l, e) = [events |-> Append(evs, e), last_hash |-> hash, anchor |-> anchor,
                        legacy_event_count |-> n, receipts |-> Append(rs, r)]
  BY <1>1, TailIsChain DEF AppendV5
<1>5. r \in Receipt
  <2>1. Chain(anchor, evs, n, k) \in Commitment
    <3>1. n + k <= Len(evs)
      BY <1>2, <1>3
    <3>. QED  BY <1>2, <3>1, ChainType
  <2>. QED  BY <1>1, <1>2, <2>1 DEF Receipt
<1>6. e.version = 5 /\ \A i \in 1..Len(evs) : EventId(evs[i]) # EventId(e)
  BY <1>1 DEF CanAppendV5
<1>7. PICK b, q : b = Append(evs, e) /\ q = Append(rs, r)
  OBVIOUS
<1>8. /\ b \in Seq(Event) /\ Len(b) = n + k + 1 /\ q \in Seq(Receipt) /\ Len(q) = k + 1
      /\ \A i \in 1..(n + k) : evs[i] = b[i]
  <2>1. n + k \in Nat
    BY <1>2
  <2>2. /\ b \in Seq(Event) /\ Len(b) = n + k + 1
        /\ \A i \in 1..(n + k) : b[i] = evs[i]
    BY <1>2, <1>3, <1>7, <2>1, AppendFacts
  <2>3. q \in Seq(Receipt) /\ Len(q) = k + 1
    BY <1>2, <1>5, <1>7, AppendFacts
  <2>. QED  BY <2>2, <2>3
<1>9. \A i \in 1..n : evs[i] = b[i]
  BY <1>2, <1>8
<1>10. GoodPrefix(b, n) /\ Covers(hash, b, n) /\ Covers(anchor.snapshot, b, n)
  BY <1>2, <1>3, <1>9, PrefixKept, CoversKept
<1>11. GoodReceipts(anchor, b, n, q)
  BY <1>1, <1>2, <1>3, <1>5, <1>6, <1>7, ReceiptsGrow
<1>12. GoodFacts(b, n)
  <2>1. Len(evs) \in Nat
    BY <1>2, LenNat
  <2>. QED  BY <1>2, <1>3, <1>6, <1>7, <2>1, FactsGrow
<1>13. PICK x : x = [events |-> b, last_hash |-> hash, anchor |-> anchor,
                     legacy_event_count |-> n, receipts |-> q]
  OBVIOUS
<1>14. x \in LedgerRecord
  BY <1>2, <1>8, <1>13 DEF LedgerRecord
<1>15. /\ x.events = b /\ x.last_hash = hash /\ x.anchor = anchor
       /\ x.legacy_event_count = n /\ x.receipts = q
  BY <1>13
<1>16. Len(b) = n + Len(q)
  BY <1>2, <1>8
<1>17. GoodV5(x)
  BY <1>3, <1>10, <1>11, <1>12, <1>15, <1>16 DEF GoodV5, IsContinuousV5
<1>. QED
  BY <1>4, <1>7, <1>13, <1>14, <1>17

\* append keeps a v4 journal good.
LEMMA AppendV4Good ==
  ASSUME NEW l \in LedgerRecord, GoodV4(l), NEW e \in Event, CanAppend(l, e)
  PROVE  AppendV4(l, e) \in LedgerRecord /\ GoodV4(AppendV4(l, e))
PROOF
<1>1. PICK evs, hash, n : evs = l.events /\ hash = l.last_hash /\ n = Len(l.events)
  OBVIOUS
<1>2. evs \in Seq(Event) /\ hash \in Seq(Event) /\ n \in Nat /\ n = Len(evs)
  BY <1>1, RecordFields
<1>3. GoodPrefix(evs, n) /\ Covers(hash, evs, n)
  BY <1>1 DEF GoodV4
<1>4. PICK b, h : b = Append(evs, e) /\ h = Append(hash, e)
  OBVIOUS
<1>5. /\ b \in Seq(Event) /\ Len(b) = n + 1
      /\ (\A i \in 1..n : evs[i] = b[i]) /\ b[n + 1] = e
  <2>1. /\ b \in Seq(Event) /\ Len(b) = n + 1
        /\ (\A i \in 1..n : b[i] = evs[i]) /\ b[n + 1] = e
    BY <1>2, <1>4, AppendFacts
  <2>. QED  BY <2>1
<1>6. h \in Seq(Event) /\ Covers(h, b, n + 1)
  BY <1>2, <1>3, <1>4, CoversGrows
<1>7. /\ e.version = 4
      /\ \A i \in 1..n : evs[i] # e
      /\ n > 0 => evs[n].ts <= e.ts
  <2>1. n > 0 => evs # <<>> /\ evs[n] \in Event
    BY <1>2
  <2>2. evs # <<>> => e.ts >= evs[n].ts
    BY <1>1 DEF CanAppend
  <2>3. n > 0 => evs[n].ts \in Nat /\ e.ts \in Nat
    BY <2>1, LedgerAssumption DEF Event, Timestamps
  <2>4. e.version = 4 /\ \A i \in 1..n : evs[i] # e
    BY <1>1 DEF CanAppend
  <2>. QED  BY <2>1, <2>2, <2>3, <2>4
<1>8. GoodPrefix(b, n + 1)
  BY <1>2, <1>3, <1>5, <1>7, PrefixGrows
<1>9. PICK x : x = AppendV4(l, e)
  OBVIOUS
<1>10. /\ x.events = b /\ x.last_hash = h /\ x.anchor = NoAnchor
       /\ x.legacy_event_count = 0 /\ x.receipts = <<>>
  BY <1>1, <1>4, <1>9 DEF AppendV4, GoodV4
<1>11. x \in LedgerRecord
  BY <1>1, <1>4, <1>5, <1>6, <1>9 DEF AppendV4, LedgerRecord
<1>12. GoodV4(x)
  BY <1>5, <1>6, <1>8, <1>10 DEF GoodV4
<1>. QED
  BY <1>9, <1>11, <1>12

\* migrate_v4 binds the v4 journal it is given.
LEMMA MigrateGood ==
  ASSUME NEW l \in LedgerRecord, GoodV4(l)
  PROVE  MigrateV4(l) \in LedgerRecord /\ GoodV5(MigrateV4(l))
PROOF
<1>1. PICK evs, hash, n : evs = l.events /\ hash = l.last_hash /\ n = Len(l.events)
  OBVIOUS
<1>2. evs \in Seq(Event) /\ hash \in Seq(Event) /\ n \in Nat /\ n = Len(evs)
  BY <1>1, RecordFields
<1>3. GoodPrefix(evs, n) /\ Covers(hash, evs, n)
  BY <1>1 DEF GoodV4
<1>4. PICK x : x = MigrateV4(l)
  OBVIOUS
<1>5. /\ x.events = evs /\ x.last_hash = hash /\ x.anchor = LegacyAnchor(evs)
      /\ x.legacy_event_count = n /\ x.receipts = <<>>
  BY <1>1, <1>4 DEF MigrateV4
<1>6. LegacyAnchor(evs) \in Anchor /\ LegacyAnchor(evs).kind # "none"
      /\ LegacyAnchor(evs).snapshot = evs
  BY <1>2 DEF LegacyAnchor, Anchor
<1>7. x \in LedgerRecord
  BY <1>1, <1>2, <1>4, <1>6 DEF MigrateV4, LedgerRecord
<1>8. Covers(evs, evs, n)
  BY <1>2 DEF Covers
<1>9. Len(<<>>) = 0 /\ n = n + 0
  BY <1>2
<1>10. GoodReceipts(x.anchor, evs, n, <<>>)
  BY DEF GoodReceipts
<1>11. GoodFacts(evs, n)
  BY <1>2 DEF GoodFacts
<1>12. GoodV5(x)
  BY <1>2, <1>3, <1>5, <1>6, <1>8, <1>9, <1>10, <1>11 DEF GoodV5, IsContinuousV5
<1>. QED
  BY <1>4, <1>7, <1>12

\* The journals the specification starts from.
LEMMA EmptyGood ==
  /\ Good(NoLedger) /\ ~IsContinuousV5(NoLedger) /\ GoodV4(NoLedger)
  /\ FreshV5 \in LedgerRecord /\ GoodV5(FreshV5)
PROOF
<1>1. <<>> \in Seq(Event) /\ <<>> \in Seq(Receipt) /\ Len(<<>>) = 0
  OBVIOUS
<1>2. NoAnchor \in Anchor /\ FreshAnchor \in Anchor
  BY <1>1 DEF NoAnchor, FreshAnchor, Anchor
<1>3. NoLedger \in LedgerRecord /\ FreshV5 \in LedgerRecord
  BY <1>1, <1>2 DEF NoLedger, FreshV5, LedgerRecord
<1>4. GoodPrefix(<<>>, 0) /\ Covers(<<>>, <<>>, 0) /\ GoodFacts(<<>>, 0)
  BY <1>1 DEF GoodPrefix, Covers, GoodFacts
<1>5. GoodReceipts(FreshAnchor, <<>>, 0, <<>>)
  BY <1>1 DEF GoodReceipts
<1>6. GoodBirth(<<>>)
  BY <1>1 DEF GoodBirth
<1>7. GoodV4(NoLedger) /\ ~IsContinuousV5(NoLedger)
  BY <1>1, <1>4 DEF NoLedger, GoodV4, IsContinuousV5, NoAnchor
<1>8. GoodV5(FreshV5)
  BY <1>1, <1>4, <1>5 DEF FreshV5, GoodV5, IsContinuousV5, FreshAnchor
<1>9. NoLedger.events = <<>>
  BY DEF NoLedger
<1>. QED
  BY <1>3, <1>6, <1>7, <1>8, <1>9 DEF Good

\* A good journal passes verify and the import gate.
LEMMA GoodIsValid == ASSUME NEW l, Good(l) PROVE ValidImport(l)
PROOF
<1>1. PICK evs, hash, n, rs, k, anchor :
        /\ evs = l.events /\ hash = l.last_hash /\ n = l.legacy_event_count
        /\ rs = l.receipts /\ k = Len(l.receipts) /\ anchor = l.anchor
  OBVIOUS
<1>2. /\ evs \in Seq(Event) /\ hash \in Seq(Event) /\ n \in Nat /\ rs \in Seq(Receipt)
      /\ k \in Nat /\ k = Len(rs) /\ Len(evs) \in Nat
  BY <1>1, RecordFields DEF Good
<1>3. ASSUME NEW m \in Nat, m <= Len(evs), GoodPrefix(evs, m), Covers(hash, evs, m)
      PROVE  VerifyV4(l, m)
  <2>1. hash = SubSeq(evs, 1, m)
    <3>1. /\ Len(hash) = m /\ \A i \in 1..m : hash[i] = evs[i]
      BY <1>3 DEF Covers
    <3>2. SubSeq(evs, 1, m) \in Seq(Event) /\ Len(SubSeq(evs, 1, m)) = m
          /\ \A i \in 1..m : SubSeq(evs, 1, m)[i] = evs[i]
      BY <1>2, <1>3
    <3>. QED  BY <1>2, <3>1, <3>2
  <2>2. ASSUME NEW i \in 1..m
        PROVE  /\ evs[i].version = 4
               /\ \A j \in 1..(i - 1) : evs[j] # evs[i]
               /\ i > 1 => evs[i - 1].ts <= evs[i].ts
    BY <1>3 DEF GoodPrefix
  <2>. QED  BY <1>1, <2>1, <2>2 DEF VerifyV4
<1>4. CASE GoodV4(l)
  <2>1. VerifyV4(l, Len(evs))
    BY <1>1, <1>2, <1>3, <1>4 DEF GoodV4
  <2>2. ~IsContinuousV5(l)
    BY <1>4 DEF GoodV4, IsContinuousV5, NoAnchor
  <2>. QED  BY <1>1, <2>1, <2>2 DEF Verify, ValidImport, Good, GoodBirth
<1>5. CASE GoodV5(l)
  <2>1. /\ Len(evs) = n + k /\ GoodPrefix(evs, n) /\ Covers(hash, evs, n)
        /\ GoodReceipts(anchor, evs, n, rs) /\ GoodFacts(evs, n) /\ IsContinuousV5(l)
    BY <1>1, <1>5 DEF GoodV5
  <2>2. n <= Len(evs) /\ k = Len(evs) - n
    BY <1>2, <2>1
  <2>3. VerifyV4(l, n)
    BY <1>2, <1>3, <2>1, <2>2
  <2>4. ASSUME NEW i \in 1..k
        PROVE  /\ evs[n + i].version = 5
               /\ rs[i].sequence = i - 1
               /\ rs[i].previous = IF i = 1 THEN AnchorCommitment(anchor)
                                   ELSE EntryCommitment(rs[i - 1].sequence,
                                          rs[i - 1].previous, evs[n + i - 1])
               /\ \A j \in 1..(i - 1) : EventId(evs[j]) # EventId(evs[n + i])
    <3>1. /\ evs[n + i].version = 5
          /\ rs[i].sequence = i - 1
          /\ rs[i].previous = Chain(anchor, evs, n, i - 1)
      BY <1>2, <2>1 DEF GoodReceipts
    <3>2. ASSUME NEW j \in 1..(i - 1) PROVE EventId(evs[j]) # EventId(evs[n + i])
      <4>1. n + i \in 1..Len(evs) /\ j \in 1..Len(evs) /\ n + i > n /\ n + i # j
        BY <1>2, <2>1
      <4>. QED  BY <2>1, <4>1 DEF GoodFacts
    <3>3. CASE i = 1
      <4>1. [m \in 1..(i - 1) |-> LinkAt(evs, n, m)] = <<>>
        BY <3>3
      <4>. QED  BY <3>1, <3>2, <3>3, <4>1 DEF Chain, AnchorCommitment
    <3>4. CASE i > 1
      <4>1. PICK j \in Nat : i = j + 2
        <5>1. i - 2 \in Nat /\ i = (i - 2) + 2
          BY <3>4
        <5>. QED  BY <5>1
      <4>2. i - 1 = j + 1 /\ i - 1 \in 1..Len(rs) /\ (i - 1) - 1 = j
        BY <1>2, <4>1
      <4>3. rs[i - 1].sequence = j /\ rs[i - 1].previous = Chain(anchor, evs, n, j)
        BY <2>1, <4>2 DEF GoodReceipts
      <4>4. n + j + 1 <= Len(evs) /\ n + i - 1 = n + j + 1
        BY <1>2, <2>1, <4>1
      <4>5. EntryCommitment(j, Chain(anchor, evs, n, j), evs[n + j + 1])
              = Chain(anchor, evs, n, j + 1)
        BY <1>2, <4>4, ChainStep
      <4>6. rs[i].previous = EntryCommitment(rs[i - 1].sequence, rs[i - 1].previous,
                                             evs[n + i - 1])
        BY <3>1, <4>2, <4>3, <4>4, <4>5
      <4>. QED  BY <3>1, <3>2, <3>4, <4>6
    <3>5. i = 1 \/ i > 1
      BY <1>2
    <3>. QED  BY <3>3, <3>4, <3>5
  <2>5. VerifyV5(l)
    BY <1>1, <2>2, <2>3, <2>4 DEF VerifyV5
  <2>. QED  BY <1>1, <2>1, <2>5 DEF Verify, ValidImport, Good, GoodBirth
<1>. QED
  BY <1>4, <1>5 DEF Good

-----------------------------------------------------------------------------
(* Steps of the runtime *)

\* A journal extends itself.
LEMMA ExtendsItself == ASSUME NEW l \in LedgerRecord PROVE IsExtensionOf(l, l)
PROOF
  BY RecordFields DEF IsExtensionOf

\* Every journal extends the one of a capsule that does not exist.
LEMMA ExtendsEmpty == ASSUME NEW l \in LedgerRecord PROVE IsExtensionOf(l, NoLedger)
PROOF
<1>1. NoLedger.events = <<>> /\ Len(<<>>) = 0 /\ ~IsContinuousV5(NoLedger)
  BY EmptyGood DEF NoLedger
<1>2. Len(l.events) \in Nat
  BY RecordFields
<1>. QED
  BY <1>1, <1>2 DEF IsExtensionOf

\* What extends a journal still does after an append.
LEMMA ExtendsMore ==
  ASSUME NEW x \in LedgerRecord, NEW l \in LedgerRecord, NEW d \in LedgerRecord,
         NEW e \in Event, x.events = Append(l.events, e),
         IsContinuousV5(l) => IsContinuousV5(x), IsExtensionOf(l, d)
  PROVE  IsExtensionOf(x, d)
PROOF
<1>1. PICK evs, n, ds, m : /\ evs = l.events /\ n = Len(l.events)
                           /\ ds = d.events /\ m = Len(d.events)
  OBVIOUS
<1>2. evs \in Seq(Event) /\ n \in Nat /\ n = Len(evs) /\ m \in Nat
  BY <1>1, RecordFields
<1>3. m <= n /\ \A i \in 1..m : evs[i] = ds[i]
  BY <1>1 DEF IsExtensionOf
<1>4. PICK b : b = Append(evs, e)
  OBVIOUS
<1>5. Len(b) = n + 1 /\ \A i \in 1..n : b[i] = evs[i]
  BY <1>2, <1>4, AppendFacts
<1>6. x.events = b
  BY <1>1, <1>4
<1>7. m <= Len(b) /\ \A i \in 1..m : b[i] = ds[i]
  BY <1>2, <1>3, <1>5
<1>. QED
  BY <1>1, <1>6, <1>7 DEF IsExtensionOf

\* What IInv says of a journal in use.
InUse(l, d) == Good(l) /\ l.events # <<>> /\ IsExtensionOf(l, d)

\* An append never yields an empty journal.
LEMMA NonEmpty ==
  ASSUME NEW evs \in Seq(Event), NEW e \in Event PROVE Append(evs, e) # <<>>
PROOF
<1>1. Len(evs) \in Nat
  OBVIOUS
<1>2. Append(evs, e) \in Seq(Event) /\ Len(Append(evs, e)) = Len(evs) + 1
  BY <1>1, AppendFacts
<1>. QED
  BY <1>1, <1>2, LenZero

\* Every append that is allowed keeps a journal in use.
LEMMA GrowV5 ==
  ASSUME NEW l, NEW d \in LedgerRecord, InUse(l, d), NEW e \in Event, e.fact # Birth,
         CanAppendV5(l, e)
  PROVE  InUse(AppendV5(l, e), d)
PROOF
<1>1. l \in LedgerRecord /\ l.events \in Seq(Event) /\ GoodBirth(l.events)
  BY RecordFields DEF InUse, Good
<1>2. GoodV5(l)
  <2>1. ~GoodV4(l)
    BY DEF CanAppendV5, IsContinuousV5, GoodV4, NoAnchor
  <2>. QED  BY <2>1 DEF InUse, Good
<1>3. PICK x : x = AppendV5(l, e)
  OBVIOUS
<1>4. x \in LedgerRecord /\ GoodV5(x)
  BY <1>1, <1>2, <1>3, AppendV5Good
<1>5. x.events = Append(l.events, e) /\ IsContinuousV5(x)
  BY <1>3, <1>4 DEF AppendV5, GoodV5
<1>6. GoodBirth(x.events) /\ x.events # <<>>
  BY <1>1, <1>5, BirthKept, NonEmpty DEF InUse
<1>7. IsExtensionOf(x, d)
  BY <1>1, <1>4, <1>5, ExtendsMore DEF InUse
<1>. QED
  BY <1>3, <1>4, <1>6, <1>7 DEF InUse, Good

\* Ledger::append keeps the journal in use good, not empty and ahead of the disk.
LEMMA GrowV4 ==
  ASSUME NEW l, NEW d \in LedgerRecord, InUse(l, d), NEW e \in Event, e.fact # Birth,
         CanAppend(l, e)
  PROVE  InUse(AppendV4(l, e), d)
PROOF
<1>1. l \in LedgerRecord /\ l.events \in Seq(Event) /\ GoodBirth(l.events)
  BY RecordFields DEF InUse, Good
<1>2. GoodV4(l) /\ ~IsContinuousV5(l)
  BY DEF CanAppend, GoodV5, InUse, Good
<1>3. PICK x : x = AppendV4(l, e)
  OBVIOUS
<1>4. x \in LedgerRecord /\ GoodV4(x)
  BY <1>1, <1>2, <1>3, AppendV4Good
<1>5. x.events = Append(l.events, e)
  BY <1>3 DEF AppendV4
<1>6. GoodBirth(x.events) /\ x.events # <<>>
  BY <1>1, <1>5, BirthKept, NonEmpty DEF InUse
<1>7. IsExtensionOf(x, d)
  BY <1>1, <1>2, <1>4, <1>5, ExtendsMore DEF InUse
<1>. QED
  BY <1>3, <1>4, <1>6, <1>7 DEF InUse, Good

\* A journal that holds the owner's birth only has its birth in order.
LEMMA BirthAlone ==
  ASSUME NEW e \in Event, e.fact = Birth, e.signer = Owner
  PROVE  GoodBirth(Append(<<>>, e)) /\ Append(<<>>, e) # <<>>
PROOF
<1>1. Append(<<>>, e) = <<e>> /\ Len(<<e>>) = 1 /\ <<e>>[1] = e /\ <<e>> # <<>>
  OBVIOUS
<1>. QED
  BY <1>1 DEF GoodBirth

\* A locally prepared event is an event of the owner.
LEMMA LocalEventType ==
  ASSUME NEW l, NEW fact, fact \in Facts \/ fact = Birth, NEW ts \in Nat, ts <= MaxTs
  PROVE  /\ LocalEvent(l, fact, ts) \in Event
         /\ LocalEvent(l, fact, ts).fact = fact
         /\ LocalEvent(l, fact, ts).signer = Owner
         /\ LocalEvent(l, fact, ts).ts = ts
         /\ IsContinuousV5(l) => LocalEvent(l, fact, ts).version = 5
         /\ ~IsContinuousV5(l) => LocalEvent(l, fact, ts).version = 4
PROOF
<1>1. ts \in Timestamps /\ Owner \in Signers
  BY LedgerAssumption DEF Timestamps, Signers
<1>. QED
  BY <1>1 DEF LocalEvent, Event

\* FfiTimeSource::now is a natural number.
LEMMA NowType ==
  ASSUME engineTs \in Nat, NEW wall \in Timestamps
  PROVE  Now(wall) \in Nat
PROOF
<1>1. wall \in Nat
  BY LedgerAssumption DEF Timestamps
<1>. QED  BY <1>1 DEF Now, Larger

\* The timestamp observe_ledger_tail_ts reads is a natural number.
LEMMA TailTsType ==
  ASSUME NEW l \in LedgerRecord
  PROVE  TailTs(l) \in Nat
PROOF
<1>1. PICK evs : evs = l.events /\ evs \in Seq(Event)
  BY RecordFields
<1>2. evs # <<>> => evs[Len(evs)] \in Event
  BY <1>1
<1>3. evs # <<>> => evs[Len(evs)].ts \in Nat
  BY <1>2, LedgerAssumption DEF Event, Timestamps
<1>. QED
  BY <1>1, <1>3 DEF TailTs

\* init_runtime_state builds a good journal.
LEMMA NewCapsuleGood ==
  ASSUME engineTs \in Nat, NEW wall \in Timestamps, Now(wall) + 1 <= MaxTs,
         NEW relay \in BOOLEAN
  PROVE  InUse(NewCapsule(relay, wall), NoLedger)
PROOF
<1>1. PICK t : t = Now(wall)
  OBVIOUS
<1>2. t \in Nat /\ t + 1 \in Nat /\ t <= MaxTs /\ t + 1 <= MaxTs
  BY <1>1, NowType, LedgerAssumption
<1>3. PICK b : b = LocalEvent(FreshV5, Birth, t)
  OBVIOUS
<1>4. FreshV5.events = <<>> /\ IsContinuousV5(FreshV5) /\ FreshV5 \in LedgerRecord
      /\ GoodV5(FreshV5)
  BY EmptyGood DEF FreshV5, IsContinuousV5, FreshAnchor
<1>5. b \in Event /\ b.fact = Birth /\ b.signer = Owner /\ b.version = 5
  <2>1. t \in Timestamps /\ Owner \in Signers
    BY <1>2, LedgerAssumption DEF Timestamps, Signers
  <2>2. b = [version |-> 5, fact |-> Birth, ts |-> t, signer |-> Owner]
    BY <1>3, <1>4 DEF LocalEvent
  <2>. QED  BY <2>1, <2>2 DEF Event
<1>6. CanAppendV5(FreshV5, b)
  BY <1>4, <1>5 DEF CanAppendV5
<1>7. PICK born : born = AppendV5(FreshV5, b)
  OBVIOUS
<1>8. born \in LedgerRecord /\ GoodV5(born)
  BY <1>4, <1>5, <1>6, <1>7, AppendV5Good
<1>9. born.events = Append(<<>>, b) /\ IsContinuousV5(born)
  BY <1>4, <1>7, <1>8 DEF AppendV5, GoodV5
<1>10. InUse(born, NoLedger)
  BY <1>5, <1>8, <1>9, BirthAlone, ExtendsEmpty DEF InUse, Good
<1>11. PICK s : s = LocalEvent(born, Starter, t + 1)
  OBVIOUS
<1>12. s \in Event /\ s.fact = Starter /\ s.version = 5 /\ s.fact # Birth
  BY <1>2, <1>9, <1>11, LocalEventType, LedgerAssumption
<1>13. EventId(b) # EventId(s)
  BY <1>5, <1>12 DEF EventId
<1>14. CanAppendV5(born, s)
  <2>1. Append(<<>>, b) = <<b>> /\ Len(<<b>>) = 1 /\ <<b>>[1] = b
    OBVIOUS
  <2>2. \A i \in 1..Len(born.events) : EventId(born.events[i]) # EventId(s)
    BY <1>9, <1>13, <2>1
  <2>. QED  BY <1>9, <1>12, <2>2 DEF CanAppendV5
<1>15. InUse(AppendV5(born, s), NoLedger)
  BY <1>10, <1>12, <1>14, GrowV5, EmptyGood DEF Good
<1>16. NewCapsule(relay, wall) = IF relay THEN AppendV5(born, s) ELSE born
  BY <1>1, <1>3, <1>7, <1>11 DEF NewCapsule
<1>. QED
  BY <1>10, <1>15, <1>16

-----------------------------------------------------------------------------
(* The inductive invariant *)

\* Before any capsule exists, the inductive invariant holds.
LEMMA InitIInv == ASSUME Init PROVE IInv
PROOF
  BY EmptyGood DEF Init, IInv

\* hivra_capsule_create keeps the inductive invariant.
LEMMA CreateStep ==
  ASSUME IInv, NEW relay \in BOOLEAN, NEW wall \in Timestamps, CapsuleCreate(relay, wall)
  PROVE  IInv'
PROOF
<1>1. disk = NoLedger /\ disk' = NoLedger /\ runtime' = NewCapsule(relay, wall)
      /\ engineTs' = TailTs(NewCapsule(relay, wall))
  BY DEF CapsuleCreate
<1>2. InUse(NewCapsule(relay, wall), NoLedger)
  BY NewCapsuleGood DEF IInv, CapsuleCreate
<1>3. TailTs(NewCapsule(relay, wall)) \in Nat
  BY <1>2, TailTsType DEF InUse, Good
<1>. QED
  BY <1>1, <1>2, <1>3, EmptyGood DEF IInv, InUse

\* Creating a v4 journal keeps the inductive invariant.
LEMMA LegacyStep ==
  ASSUME IInv, NEW wall \in Timestamps, LegacyCreate(wall)
  PROVE  IInv'
PROOF
<1>1. PICK t : t = Now(wall)
  OBVIOUS
<1>2. t \in Nat /\ t <= MaxTs
  BY <1>1, NowType DEF IInv, LegacyCreate
<1>3. PICK b : b = LocalEvent(NoLedger, Birth, t)
  OBVIOUS
<1>4. b \in Event /\ b.fact = Birth /\ b.signer = Owner /\ b.version = 4
  <2>1. t \in Timestamps /\ Owner \in Signers
    BY <1>2, LedgerAssumption DEF Timestamps, Signers
  <2>2. b = [version |-> 4, fact |-> Birth, ts |-> t, signer |-> Owner]
    BY <1>3, EmptyGood DEF LocalEvent
  <2>. QED  BY <2>1, <2>2 DEF Event
<1>5. NoLedger.events = <<>> /\ Len(<<>>) = 0
  BY DEF NoLedger
<1>6. CanAppend(NoLedger, b)
  BY <1>4, <1>5, EmptyGood DEF CanAppend
<1>7. PICK x : x = AppendV4(NoLedger, b)
  OBVIOUS
<1>8. x \in LedgerRecord /\ GoodV4(x)
  BY <1>4, <1>6, <1>7, AppendV4Good, EmptyGood DEF Good
<1>9. x.events = Append(<<>>, b)
  BY <1>5, <1>7 DEF AppendV4
<1>10. InUse(x, NoLedger)
  BY <1>4, <1>8, <1>9, BirthAlone, ExtendsEmpty DEF InUse, Good
<1>11. disk' = NoLedger /\ runtime' = x /\ engineTs' = t
  BY <1>1, <1>3, <1>7 DEF LegacyCreate
<1>. QED
  BY <1>2, <1>10, <1>11, EmptyGood DEF IInv, InUse

\* A local append, done or refused, keeps the inductive invariant.
LEMMA LocalStep ==
  ASSUME IInv, NEW fact \in Facts, NEW wall \in Timestamps, AppendLocal(fact, wall)
  PROVE  IInv'
PROOF
<1>1. PICK t : t = Now(wall)
  OBVIOUS
<1>2. t \in Nat /\ t <= MaxTs
  BY <1>1, NowType DEF IInv, AppendLocal
<1>3. PICK e : e = LocalEvent(runtime, fact, t)
  OBVIOUS
<1>4. e \in Event /\ e.fact # Birth
  BY <1>2, <1>3, LocalEventType, LedgerAssumption
<1>5. InUse(runtime, disk) /\ disk \in LedgerRecord /\ runtime # NoLedger
  BY DEF IInv, InUse, Good, AppendLocal
<1>6. InUse(runtime', disk)
  <2>1. runtime' = IF CanAppendV5(runtime, e) THEN AppendV5(runtime, e)
                   ELSE IF CanAppend(runtime, e) THEN AppendV4(runtime, e)
                   ELSE runtime
    BY <1>1, <1>3 DEF AppendLocal
  <2>2. CASE CanAppendV5(runtime, e)
    BY <1>4, <1>5, <2>1, <2>2, GrowV5
  <2>3. CASE ~CanAppendV5(runtime, e) /\ CanAppend(runtime, e)
    BY <1>4, <1>5, <2>1, <2>3, GrowV4
  <2>4. CASE ~CanAppendV5(runtime, e) /\ ~CanAppend(runtime, e)
    BY <1>5, <2>1, <2>4
  <2>. QED  BY <2>2, <2>3, <2>4
<1>7. disk' = disk /\ engineTs' = t
  BY <1>1 DEF AppendLocal
<1>. QED
  BY <1>2, <1>6, <1>7 DEF IInv, InUse

\* A remote event on a v5 journal keeps the inductive invariant.
LEMMA RemoteStep ==
  ASSUME IInv, NEW e \in Event, e.fact # Birth, AppendRemote(e)
  PROVE  IInv'
PROOF
<1>1. CanAppendV5(runtime, e) /\ runtime' = AppendV5(runtime, e)
      /\ disk' = disk /\ engineTs' = engineTs
  BY DEF AppendRemote
<1>2. runtime # NoLedger
  BY <1>1, EmptyGood DEF CanAppendV5
<1>3. InUse(runtime, disk) /\ disk \in LedgerRecord
  BY <1>2 DEF IInv, InUse, Good
<1>4. InUse(runtime', disk)
  BY <1>1, <1>3, GrowV5
<1>. QED
  BY <1>1, <1>4 DEF IInv, InUse

\* A restamped remote event on a v4 journal keeps the inductive invariant.
LEMMA RemoteV4Step ==
  ASSUME IInv, NEW e \in Event, e.fact # Birth, NEW wall \in Timestamps,
         AppendRemoteV4(e, wall)
  PROVE  IInv'
PROOF
<1>1. PICK ts : ts = Larger(wall, TailTs(runtime) + 1)
  OBVIOUS
<1>2. PICK s : s = [version |-> 4, fact |-> e.fact, ts |-> ts, signer |-> e.signer]
  OBVIOUS
<1>3. /\ runtime # NoLedger /\ ts <= MaxTs /\ CanAppend(runtime, s)
      /\ runtime' = AppendV4(runtime, s)
      /\ engineTs' = Larger(engineTs, ts) /\ disk' = disk
  BY <1>1, <1>2 DEF AppendRemoteV4
<1>4. ts \in Nat
  <2>1. wall \in Nat
    BY LedgerAssumption DEF Timestamps
  <2>2. TailTs(runtime) \in Nat
    BY TailTsType DEF IInv, Good
  <2>. QED  BY <1>1, <2>1, <2>2 DEF Larger
<1>5. s \in Event /\ s.fact # Birth
  <2>1. ts \in Timestamps
    BY <1>3, <1>4, LedgerAssumption DEF Timestamps
  <2>. QED  BY <1>2, <2>1 DEF Event
<1>6. InUse(runtime, disk) /\ disk \in LedgerRecord
  BY <1>3 DEF IInv, InUse, Good
<1>7. InUse(runtime', disk)
  BY <1>3, <1>5, <1>6, GrowV4
<1>8. engineTs' \in Nat
  BY <1>3, <1>4 DEF IInv, Larger
<1>. QED
  BY <1>3, <1>7, <1>8 DEF IInv, InUse

\* Import with migration keeps the inductive invariant.
LEMMA BootstrapStep ==
  ASSUME IInv, NEW relay \in BOOLEAN, NEW wall \in Timestamps, Bootstrap(relay, wall)
  PROVE  IInv'
PROOF
<1>1. /\ disk # NoLedger /\ disk' = disk /\ Now(wall) + 1 <= MaxTs
      /\ runtime' = IF IsContinuousV5(disk) THEN disk ELSE MigrateV4(disk)
      /\ engineTs' = Larger(TailTs(NewCapsule(relay, wall)), TailTs(disk))
  BY DEF Bootstrap
<1>2. Good(disk) /\ disk \in LedgerRecord /\ engineTs \in Nat
  BY DEF IInv, Good
<1>3. engineTs' \in Nat
  <2>1. InUse(NewCapsule(relay, wall), NoLedger)
    BY <1>1, <1>2, NewCapsuleGood
  <2>2. TailTs(NewCapsule(relay, wall)) \in Nat /\ TailTs(disk) \in Nat
    BY <1>2, <2>1, TailTsType DEF InUse, Good
  <2>. QED  BY <1>1, <2>2 DEF Larger
<1>4. disk.events # <<>>
  BY <1>1 DEF IInv
<1>5. InUse(runtime', disk)
  <2>1. CASE IsContinuousV5(disk)
    BY <1>1, <1>2, <1>4, <2>1, ExtendsItself DEF InUse
  <2>2. CASE ~IsContinuousV5(disk)
    <3>1. GoodV4(disk) /\ GoodBirth(disk.events)
      BY <1>2, <2>2 DEF Good, GoodV5
    <3>2. PICK x : x = MigrateV4(disk)
      OBVIOUS
    <3>3. x \in LedgerRecord /\ GoodV5(x)
      BY <1>2, <3>1, <3>2, MigrateGood
    <3>4. x.events = disk.events /\ IsContinuousV5(x)
      BY <3>2, <3>3 DEF MigrateV4, GoodV5
    <3>5. IsExtensionOf(x, disk)
      BY <1>2, <3>4, ExtendsItself DEF IsExtensionOf
    <3>. QED  BY <1>1, <1>4, <2>2, <3>1, <3>2, <3>3, <3>4, <3>5 DEF InUse, Good
  <2>. QED  BY <2>1, <2>2
<1>. QED
  BY <1>1, <1>2, <1>3, <1>4, <1>5 DEF IInv, InUse

\* Storing the exported journal keeps the inductive invariant.
LEMMA ExportStep == ASSUME IInv, Export PROVE IInv'
PROOF
<1>1. runtime # NoLedger /\ disk' = runtime /\ runtime' = runtime /\ engineTs' = engineTs
  BY DEF Export
<1>2. Good(runtime) /\ runtime.events # <<>> /\ IsExtensionOf(runtime, runtime)
  BY <1>1, ExtendsItself DEF IInv, Good
<1>. QED
  BY <1>1, <1>2 DEF IInv

\* A crash keeps the inductive invariant.
LEMMA RestartStep == ASSUME IInv, Restart PROVE IInv'
PROOF
<1>1. runtime' = NoLedger /\ engineTs' = 0 /\ disk' = disk
  BY DEF Restart
<1>. QED
  BY <1>1, EmptyGood DEF IInv

\* Every step of the runtime keeps the inductive invariant.
LEMMA NextIInv == ASSUME IInv, [Next]_vars PROVE IInv'
PROOF
<1>1. CASE UNCHANGED vars
  BY <1>1 DEF vars, IInv
<1>2. ASSUME NEW relay \in BOOLEAN, NEW wall \in Timestamps, CapsuleCreate(relay, wall)
      PROVE  IInv'
  BY <1>2, CreateStep
<1>3. ASSUME NEW relay \in BOOLEAN, NEW wall \in Timestamps, Bootstrap(relay, wall)
      PROVE  IInv'
  BY <1>3, BootstrapStep
<1>4. ASSUME NEW wall \in Timestamps, LegacyCreate(wall) PROVE IInv'
  BY <1>4, LegacyStep
<1>5. ASSUME NEW fact \in Facts, NEW wall \in Timestamps, AppendLocal(fact, wall)
      PROVE  IInv'
  BY <1>5, LocalStep
<1>6. ASSUME NEW e \in Event, e.fact # Birth, NEW wall \in Timestamps,
             AppendRemoteV4(e, wall)
      PROVE  IInv'
  BY <1>6, RemoteV4Step
<1>7. ASSUME NEW e \in Event, e.fact # Birth, AppendRemote(e) PROVE IInv'
  BY <1>7, RemoteStep
<1>8. CASE Export
  BY <1>8, ExportStep
<1>9. CASE Restart
  BY <1>9, RestartStep
<1>. QED
  BY <1>1, <1>2, <1>3, <1>4, <1>5, <1>6, <1>7, <1>8, <1>9, Zenon DEF Next

\* The closed form holds in every reachable state.
THEOREM IInvInvariant == Spec => []IInv
PROOF
<1>1. Init => IInv
  BY InitIInv
<1>2. IInv /\ [Next]_vars => IInv'
  BY NextIInv
<1>. QED
  BY <1>1, <1>2, PTL DEF Spec

-----------------------------------------------------------------------------
(* The properties *)

\* TypeOK for every number of events and range of timestamps.
THEOREM TypeCorrect == Spec => []TypeOK
PROOF
<1>1. IInv => TypeOK
  BY DEF IInv, TypeOK, Good
<1>. QED
  BY <1>1, IInvInvariant, PTL

\* Whatever the runtime builds or the host stores, validate_imported_ledger
\* accepts it on the next start.
THEOREM Importable == Spec => []AlwaysImportable
PROOF
<1>1. IInv => AlwaysImportable
  BY GoodIsValid DEF IInv, AlwaysImportable
<1>. QED
  BY <1>1, IInvInvariant, PTL

\* No v5 event is journalled twice, a legacy prefix included.
THEOREM FactsOnce == Spec => []NoFactTwice
PROOF
<1>1. ASSUME NEW l, Good(l) PROVE DistinctFacts(l)
  <2>1. CASE IsContinuousV5(l)
    <3>1. PICK evs, n, m : evs = l.events /\ n = l.legacy_event_count /\ m = Len(l.events)
      OBVIOUS
    <3>2. n \in Nat /\ m \in Nat /\ m = Len(evs)
      BY <1>1, <3>1, RecordFields DEF Good
    <3>3. GoodFacts(evs, n)
      BY <1>1, <2>1, <3>1 DEF Good, GoodV5, GoodV4, IsContinuousV5, NoAnchor
    <3>4. ASSUME NEW i \in (n + 1)..m, NEW j \in 1..m, EventId(evs[i]) = EventId(evs[j])
          PROVE  i = j
      <4>1. i \in 1..m /\ i > n
        BY <3>2
      <4>. QED  BY <3>2, <3>3, <3>4, <4>1 DEF GoodFacts
    <3>. QED  BY <3>1, <3>4 DEF DistinctFacts
  <2>2. CASE ~IsContinuousV5(l)
    BY <2>2 DEF DistinctFacts
  <2>. QED  BY <2>1, <2>2
<1>2. IInv => NoFactTwice
  BY <1>1 DEF IInv, NoFactTwice
<1>. QED
  BY <1>2, IInvInvariant, PTL

\* No export drops, rewrites or downgrades what the host already stored.
THEOREM StoredGrows == Spec => StoredHistoryOnlyGrows
PROOF
<1>1. IInv /\ [Next]_vars => [IsExtensionOf(disk', disk)]_vars
  <2>. SUFFICES ASSUME IInv, Next PROVE IsExtensionOf(disk', disk)
    OBVIOUS
  <2>1. CASE Export
    BY <2>1 DEF Export, IInv
  <2>2. CASE disk' = disk
    BY <2>2, ExtendsItself DEF IInv, Good
  <2>3. disk' = disk \/ Export
    BY Zenon DEF Next, CapsuleCreate, Bootstrap, LegacyCreate, AppendLocal, AppendRemote,
                 AppendRemoteV4, Restart
  <2>. QED  BY <2>1, <2>2, <2>3
<1>. QED
  BY <1>1, IInvInvariant, PTL DEF Spec, StoredHistoryOnlyGrows

\* A continuous journal's head commitment determines its events.
THEOREM HeadIsHistory == Spec => []HeadIdentifiesHistory
PROOF
<1>1. ASSUME NEW a, NEW b, Good(a), Good(b), IsContinuousV5(a), IsContinuousV5(b),
             TailCommitmentV5(a) = TailCommitmentV5(b)
      PROVE  a.events = b.events
  <2>1. GoodV5(a) /\ GoodV5(b) /\ a \in LedgerRecord /\ b \in LedgerRecord
    BY <1>1 DEF Good, GoodV4, IsContinuousV5, NoAnchor
  <2>2. PICK ea, na, ka, eb, nb, kb, anchor :
          /\ ea = a.events /\ na = a.legacy_event_count /\ ka = Len(a.receipts)
          /\ eb = b.events /\ nb = b.legacy_event_count /\ kb = Len(b.receipts)
          /\ anchor = a.anchor
    OBVIOUS
  <2>3. /\ ea \in Seq(Event) /\ na \in Nat /\ ka \in Nat
        /\ eb \in Seq(Event) /\ nb \in Nat /\ kb \in Nat
    BY <2>1, <2>2, RecordFields
  <2>4. /\ Len(ea) = na + ka /\ Covers(anchor.snapshot, ea, na)
        /\ Len(eb) = nb + kb /\ Covers(b.anchor.snapshot, eb, nb)
    BY <2>1, <2>2 DEF GoodV5
  <2>5. Chain(anchor, ea, na, ka) = Chain(b.anchor, eb, nb, kb)
    BY <1>1, <2>1, <2>2, TailIsChain
  <2>6. PICK fa, fb : /\ fa = [m \in 1..ka |-> LinkAt(ea, na, m)]
                      /\ fb = [m \in 1..kb |-> LinkAt(eb, nb, m)]
    OBVIOUS
  <2>7. anchor = b.anchor /\ fa = fb
    BY <2>5, <2>6 DEF Chain
  <2>8. na = nb /\ \A i \in 1..na : ea[i] = eb[i]
    BY <2>4, <2>7 DEF Covers
  <2>9. ka = kb
    <3>1. DOMAIN fa = 1..ka /\ DOMAIN fb = 1..kb
      BY <2>6
    <3>2. 1..ka = 1..kb
      BY <2>7, <3>1
    <3>. QED  BY <2>3, <3>2
  <2>10. ASSUME NEW m \in 1..ka PROVE ea[na + m] = eb[na + m]
    <3>1. fa[m] = LinkAt(ea, na, m) /\ fb[m] = LinkAt(eb, na, m)
      BY <2>6, <2>8, <2>9
    <3>2. EventId(ea[na + m]) = EventId(eb[na + m])
      BY <2>7, <3>1 DEF LinkAt
    <3>3. ea[na + m].version = 5 /\ eb[na + m].version = 5
      BY <2>1, <2>2, <2>8, <2>9 DEF GoodV5, GoodReceipts
    <3>. QED  BY <3>2, <3>3 DEF EventId
  <2>11. ASSUME NEW i \in 1..(na + ka) PROVE ea[i] = eb[i]
    <3>1. CASE i \in 1..na
      BY <2>8, <3>1
    <3>2. CASE i > na
      <4>1. i - na \in 1..ka /\ na + (i - na) = i
        BY <2>3, <3>2
      <4>2. PICK m \in 1..ka : na + m = i
        BY <4>1
      <4>. QED  BY <2>10, <4>2
    <3>3. i \in 1..na \/ i > na
      BY <2>3
    <3>. QED  BY <3>1, <3>2, <3>3, Zenon
  <2>12. Len(ea) = Len(eb)
    BY <2>4, <2>8, <2>9
  <2>13. \A i \in 1..Len(ea) : ea[i] = eb[i]
    BY <2>4, <2>11
  <2>14. ea = eb
    BY <2>3, <2>12, <2>13, SeqEqual
  <2>. QED  BY <2>2, <2>14
<1>2. IInv => HeadIdentifiesHistory
  BY <1>1 DEF IInv, HeadIdentifiesHistory
<1>. QED
  BY <1>2, IInvInvariant, PTL
=============================================================================
