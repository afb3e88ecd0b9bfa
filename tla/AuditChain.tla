----------------------------- MODULE AuditChain -----------------------------
(***************************************************************************)
(* What the chain verifier's verdict is worth.  The agent appends entries, *)
(* pins the head and may pin a baseline; between two verifications the     *)
(* database file may be damaged in ways that need no key (a lost row, an   *)
(* edited or renumbered row, links and hashes recomputed, an older copy of *)
(* a singleton), and the agent may restart on what it finds.  The verdict of *)
(* VerifyChainQuery is a state function, so every property relates it to   *)
(* what the agent really wrote (the history variables).                    *)
(*                                                                         *)
(* BLAKE3 and the keyed MAC are injective: a hash is the tuple it commits  *)
(* to and a tag is the tuple of key and message.  Nobody but AppendEntry   *)
(* and SetBaseline makes a tag.  The content of an entry (op, outcome,     *)
(* handle, caller, ...) is a body; two entries differ by their ids anyway. *)
(***************************************************************************)
EXTENDS Integers, FiniteSets, FiniteSetsExt

CONSTANTS
    MaxLegacy,    \* most entries written under an earlier key (ADR-0029)
    MaxAppends,   \* bound on entries appended under the current key
    MaxDamage     \* bound on damage steps

ASSUME AuditChainAssumption ==
    MaxLegacy \in Nat /\ MaxAppends \in Nat /\ MaxDamage \in Nat

Key == "current"
OldKey == "earlier"
NoKey == "none"

GENESIS == <<>>
NoPrev == <<"none">>
NoTag == <<>>

\* canonical_bytes_for_hashing and BLAKE3; the prev_hash field of the entry
\* itself is not hashed, the caller says which hash to chain to.
HashOf(e, prev) == <<prev, e.seq, e.id, e.body>>
TagOf(key, hash, id) == <<key, hash, id>>

\* PinnedHead and AuditBaseline with their MACs.
HeadMac(key, h, count) == <<key, h.hash, h.seq, h.id, count>>
BaselineMac(key, h, count) == <<"baseline", key, h.hash, h.seq, h.id, count>>
NoRecord == [seq |-> -1, hash |-> GENESIS, id |-> 0, mac |-> NoTag]

VARIABLES
    rows,       \* table audit_entries, by seq
    pinned,     \* table pinned_head
    baseline,   \* table audit_baseline
    log,        \* in-memory AuditLog: head seq and hash
    nextId,     \* entry ids are fresh
    authored,   \* history: every entry the agent wrote
    vouched,    \* history: every baseline the agent pinned
    lastHead,   \* history: the head of the latest commit
    damage      \* history: damage steps so far

vars == <<rows, pinned, baseline, log, nextId, authored, vouched, lastHead, damage>>
history == <<authored, vouched, lastHead>>

Rows == {rows[s] : s \in DOMAIN rows}

-----------------------------------------------------------------------------
\* AuditWriter::append followed by commit_audit_entry

NewEntry(key, head, id, body) ==
    LET e == [seq |-> head.seq + 1, id |-> id, body |-> body]
        hash == HashOf(e, head.hash)
    IN [seq |-> e.seq, id |-> id, body |-> body,
        prev |-> IF head.seq = -1 THEN NoPrev ELSE head.hash,
        hash |-> hash, tag |-> TagOf(key, hash, id)]

PinnedHead_CountIsSeq(key, e) ==
    LET h == [seq |-> e.seq, hash |-> e.hash, id |-> e.id]
    IN [seq |-> e.seq, hash |-> e.hash, id |-> e.id, mac |-> HeadMac(key, h, e.seq)]

PinnedHead(key, e) ==
    LET h == [seq |-> e.seq, hash |-> e.hash, id |-> e.id]
    IN [seq |-> e.seq, hash |-> e.hash, id |-> e.id, mac |-> HeadMac(key, h, e.seq + 1)]

Init ==
    /\ rows = [s \in {} |-> NoRecord]
    /\ pinned = NoRecord
    /\ baseline = NoRecord
    /\ log = [seq |-> -1, hash |-> GENESIS]
    /\ nextId = 1
    /\ authored = {}
    /\ vouched = {}
    /\ lastHead = NoRecord
    /\ damage = 0

Bounded == Cardinality(authored) < MaxLegacy + MaxAppends

\* One append: rejected by UNIQUE(seq) when the row exists (the in-memory
\* head is then rolled back), otherwise row and pinned head together.
Commit(key, e) ==
    /\ e.seq \notin DOMAIN rows
    /\ rows' = [s \in DOMAIN rows \cup {e.seq} |-> IF s = e.seq THEN e ELSE rows[s]]
    /\ pinned' = PinnedHead(key, e)
    /\ log' = [seq |-> e.seq, hash |-> e.hash]
    /\ nextId' = nextId + 1
    /\ authored' = authored \cup {e}
    /\ lastHead' = pinned'

AppendEntry ==
    /\ Bounded
    /\ Commit(Key, NewEntry(Key, log, nextId, "command"))
    /\ UNCHANGED <<baseline, vouched, damage>>

\* The same before the key changed: an entry and a head under the earlier key.
AppendLegacy ==
    /\ Cardinality(authored) < MaxLegacy
    /\ \A r \in authored : r.tag[1] = OldKey
    /\ Commit(OldKey, NewEntry(OldKey, log, nextId, "legacy"))
    /\ UNCHANGED <<baseline, vouched, damage>>

\* SetAuditBaselineCommand: a marker entry, then the baseline on the pinned
\* head (its interleavings with other commands are in VaultLifecycle).
SetBaseline ==
    /\ Bounded
    /\ Commit(Key, NewEntry(Key, log, nextId, "rebaseline"))
    /\ LET h == [seq |-> pinned'.seq, hash |-> pinned'.hash, id |-> pinned'.id]
       IN baseline' = [seq |-> h.seq, hash |-> h.hash, id |-> h.id,
                       mac |-> BaselineMac(Key, h, h.seq + 1)]
    /\ vouched' = vouched \cup {baseline'}
    /\ UNCHANGED damage

\* restore_audit_chain: the in-memory head comes from the pinned head, whose
\* MAC nobody checks at boot (there is no key yet).
Restart ==
    /\ log' = [seq |-> pinned.seq, hash |-> pinned.hash]
    /\ UNCHANGED <<rows, pinned, baseline, nextId, history, damage>>

-----------------------------------------------------------------------------
\* ChainVerifier.  The log is read in seq order, so a slice of it is a set es
\* of seqs; key is Key or NoKey (hash-only).

IsFirst(es, s) == \A t \in es : s <= t
Pred(es, s) == Max({t \in es : t < s})

\* entry.prev_hash.unwrap_or(GENESIS)
OwnPrev(e) == IF e.prev = NoPrev THEN GENESIS ELSE e.prev

PrevForHashing(es, s) ==
    IF IsFirst(es, s) THEN OwnPrev(rows[s]) ELSE rows[Pred(es, s)].hash

CheckLink(es, s) ==
    /\ s = Pred(es, s) + 1
    /\ rows[s].prev = rows[Pred(es, s)].hash

CheckHash(es, s) == rows[s].hash = HashOf(rows[s], PrevForHashing(es, s))

\* A check that fails names the outcome, and the first one that does decides.
Fails(cond, name) == IF cond THEN name ELSE "Intact"
Then(outcome, next) == IF outcome = "Intact" THEN next ELSE outcome

CheckHmac_IdOnly(e, key) == Then(
    Fails(key # NoKey /\ e.tag = NoTag, "MissingHmac"),
    Fails(key # NoKey /\ (e.tag = NoTag \/ e.tag[1] # key \/ e.tag[3] # e.id), "HmacMismatch"))

CheckHmac(e, key) == Then(
    Fails(key # NoKey /\ e.tag = NoTag, "MissingHmac"),
    Fails(key # NoKey /\ e.tag # TagOf(key, e.hash, e.id), "HmacMismatch"))

\* The verdict on the entry at s; keyFrom is the seq from which tags are examined.
EntryOutcome(es, s, key, keyFrom) == Then(
    Fails(~IsFirst(es, s) /\ ~CheckLink(es, s), "BrokenAtEntry"), Then(
    Fails(~CheckHash(es, s), "BrokenAtEntry"),
    IF s >= keyFrom THEN CheckHmac(rows[s], key) ELSE "Intact"))

\* The walk stops at the first entry that fails.
Walk(es, key, keyFrom) ==
    LET bad == {s \in es : EntryOutcome(es, s, key, keyFrom) # "Intact"}
    IN IF bad = {} THEN "Intact" ELSE EntryOutcome(es, Min(bad), key, keyFrom)

CheckGenesisAnchor_Skip(es) == TRUE

CheckGenesisAnchor(es) == es = {} \/ (0 \in es /\ rows[0].prev = NoPrev)

FinalSeq(es) == IF es = {} THEN 0 ELSE Max(es)
FinalHash(es) == IF es = {} THEN GENESIS ELSE rows[Max(es)].hash

CheckHeadCommitment_CountRows(es, head, key) == Then(
    Fails(key # NoKey /\ head.mac # HeadMac(key, head, Cardinality(es)), "HeadMacMismatch"), Then(
    Fails(head.seq > FinalSeq(es), "TruncationDetected"),
    Fails(head.hash # FinalHash(es) \/ head.seq # FinalSeq(es), "HeadHashMismatch")))

CheckHeadCommitment(es, head, key) == Then(
    Fails(key # NoKey /\ head.mac # HeadMac(key, head, head.seq + 1), "HeadMacMismatch"), Then(
    Fails(head.seq > FinalSeq(es), "TruncationDetected"),
    Fails(head.hash # FinalHash(es) \/ head.seq # FinalSeq(es), "HeadHashMismatch")))

\* The entries from the first with from_id (absent: none) up to and including
\* the next with to_id.
NoId == 0
SliceFrom(from) ==
    {s \in DOMAIN rows : from = NoId \/ \E t \in DOMAIN rows : rows[t].id = from /\ t <= s}

SliceEntries_Exclusive(from, to) ==
    {s \in SliceFrom(from) : to = NoId \/ \A t \in SliceFrom(from) : rows[t].id = to => s < t}

SliceEntries(from, to) ==
    {s \in SliceFrom(from) : to = NoId \/ \A t \in SliceFrom(from) : rows[t].id = to => s <= t}

\* NoKey (an empty key) is an explicit hash-only pass.  The anchor and the head are
\* examined on a full pass only.
VerifyRange(from, to, key) ==
    LET es == SliceEntries(from, to)
        full == from = NoId /\ to = NoId
    IN Then(Fails(full /\ ~CheckGenesisAnchor(es), "GenesisAnchorMissing"), Then(
            Walk(es, key, 0),
            IF full THEN CheckHeadCommitment(es, pinned, key) ELSE "Intact"))

VerifyFull(key) == VerifyRange(NoId, NoId, key)

AnchorOk(es) == baseline.seq \in es /\ rows[baseline.seq].hash = baseline.hash

VerifyFromBaseline(key) ==
    LET es == SliceEntries(NoId, NoId)
    IN Then(Fails(baseline.mac # BaselineMac(key, baseline, baseline.seq + 1),
                  "BaselineMacMismatch"), Then(
            Fails(~CheckGenesisAnchor(es), "GenesisAnchorMissing"), Then(
            Walk(es, key, baseline.seq), Then(
            Fails(~AnchorOk(es), "BaselineEntryMissing"),
            CheckHeadCommitment(es, pinned, key)))))

\* VerifyChainQuery on one snapshot of the three tables.
VerifyChain ==
    IF pinned = NoRecord THEN "NoPinnedHead"
    ELSE IF baseline # NoRecord THEN VerifyFromBaseline(Key) ELSE VerifyFull(Key)

-----------------------------------------------------------------------------
\* Damage to the stored file that needs no key

Damaged == damage < MaxDamage /\ damage' = damage + 1

LoseRow ==
    /\ Damaged
    /\ \E s \in DOMAIN rows : rows' = [t \in DOMAIN rows \ {s} |-> rows[t]]
    /\ UNCHANGED <<pinned, baseline, log, nextId, history>>

\* A column of one row changes: body, link or tag.
EditRow ==
    /\ Damaged
    /\ \E s \in DOMAIN rows, r \in Rows :
         \E e \in {[rows[s] EXCEPT !.body = "edited"], [rows[s] EXCEPT !.prev = r.hash],
                   [rows[s] EXCEPT !.tag = r.tag], [rows[s] EXCEPT !.tag = NoTag]} :
            /\ e # rows[s]
            /\ rows' = [rows EXCEPT ![s] = e]
    /\ UNCHANGED <<pinned, baseline, log, nextId, history>>

\* The row with its link and its hash recomputed to follow hash p.
Linked(e, p) == [e EXCEPT !.prev = IF p = GENESIS THEN NoPrev ELSE p, !.hash = HashOf(e, p)]

\* A row moves to a free seq, its hash recomputed for the new place.
RenumberRow ==
    /\ Damaged
    /\ \E s \in DOMAIN rows, t \in 0..Cardinality(DOMAIN rows) :
         /\ t \notin DOMAIN rows
         /\ rows' = [u \in (DOMAIN rows \ {s}) \cup {t} |->
                       IF u = t THEN Linked([rows[s] EXCEPT !.seq = t], OwnPrev(rows[s]))
                       ELSE rows[u]]
    /\ UNCHANGED <<pinned, baseline, log, nextId, history>>

\* After a damage, links and hashes are recomputed row by row, so that a suffix
\* is consistent again; the tags stay what they were.
RelinkRow ==
    /\ damage > 0
    /\ \E s \in DOMAIN rows :
         rows' = [rows EXCEPT ![s] = Linked(rows[s],
                    IF s - 1 \in DOMAIN rows THEN rows[s - 1].hash ELSE OwnPrev(rows[s]))]
    /\ UNCHANGED <<pinned, baseline, log, nextId, history, damage>>

\* The pinned head is lost, an older one comes back, or its fields describe
\* another row while its MAC stays.
DamageHead ==
    /\ Damaged
    /\ pinned' \in {NoRecord} \cup {PinnedHead(r.tag[1], r) : r \in authored}
          \cup {[seq |-> r.seq, hash |-> r.hash, id |-> r.id, mac |-> pinned.mac] :
                  r \in Rows}
    /\ pinned' # pinned
    /\ UNCHANGED <<rows, baseline, log, nextId, history>>

DamageBaseline ==
    /\ Damaged
    /\ baseline' \in {NoRecord} \cup vouched
          \cup {[seq |-> r.seq, hash |-> r.hash, id |-> r.id, mac |-> baseline.mac] :
                  r \in Rows}
    /\ baseline' # baseline
    /\ UNCHANGED <<rows, pinned, log, nextId, history>>

-----------------------------------------------------------------------------
Next ==
    \/ AppendLegacy \/ AppendEntry \/ SetBaseline \/ Restart
    \/ LoseRow \/ EditRow \/ RenumberRow \/ RelinkRow
    \/ DamageHead \/ DamageBaseline

Spec == Init /\ [][Next]_vars

-----------------------------------------------------------------------------
\* Properties

TypeOK ==
    /\ DOMAIN rows \subseteq Nat
    /\ \A s \in DOMAIN rows : rows[s].seq = s
    /\ pinned.seq \in -1..(MaxLegacy + MaxAppends)
    /\ baseline.seq \in -1..(MaxLegacy + MaxAppends)
    /\ log.seq \in -1..(MaxLegacy + MaxAppends)
    /\ nextId = Cardinality(authored) + 1
    /\ damage \in 0..MaxDamage

\* An undamaged chain is never accused: any mix of appends, re-baselines and
\* restarts verifies Intact, and entries of an earlier key stop mattering
\* once a baseline is pinned (the promise of ADR-0029).
OwnKeyOnly == \A r \in authored : r.tag[1] = Key
NoFalseAlarm ==
    damage = 0 /\ authored # {} /\ (OwnKeyOnly \/ baseline # NoRecord)
        => VerifyChain = "Intact"

\* An Intact verdict means the agent wrote every entry from the baseline on,
\* column for column, whatever was damaged and even when the agent restarted
\* on a damaged head and went on appending: check_link, check_hash,
\* check_hmac and the head commitment leave no gap between them.
TrustedRows == {r \in Rows : baseline = NoRecord \/ r.seq >= baseline.seq}
IntactIsAuthored == VerifyChain = "Intact" => TrustedRows \subseteq authored

\* With a baseline, Intact means a baseline the agent pinned is in force and
\* the chain still holds the very prefix it was pinned on (hashes commit to
\* the whole prefix), so quarantined entries may lose tags but never content.
Chained(s) == \A t \in 1..s :
    t \in DOMAIN rows /\ t - 1 \in DOMAIN rows /\ rows[t].prev = rows[t - 1].hash
BaselineHolds ==
    VerifyChain = "Intact" /\ baseline # NoRecord =>
        /\ baseline \in vouched
        /\ baseline.seq \in DOMAIN rows
        /\ rows[baseline.seq].hash = baseline.hash
        /\ Chained(baseline.seq)

\* With the pinned head of the latest commit in place, Intact means that no
\* entry is missing at either end: the genesis is there and so is the tip.
IntactIsComplete ==
    VerifyChain = "Intact" /\ pinned = lastHead =>
        DOMAIN rows = 0..lastHead.seq

\* Together: an Intact chain is fixed at its anchor and has lost nothing.
IntactIsAnchored == BaselineHolds /\ IntactIsComplete

\* Even without the key, an untouched head commits to every entry below it:
\* as long as the agent only ever extended its own entries, a hash-only Intact
\* vouches for all columns but the tags.
Untagged(r) == [seq |-> r.seq, id |-> r.id, body |-> r.body, prev |-> r.prev, hash |-> r.hash]
ExtendedOwnEntries == \A r \in authored :
    r.prev = NoPrev \/ \E q \in authored : q.hash = r.prev
HashOnlySound ==
    ExtendedOwnEntries /\ pinned = lastHead /\ VerifyFull(NoKey) = "Intact" =>
        \A r \in Rows : \E q \in authored : Untagged(q) = Untagged(r)

\* A sub-range that verifies is a run of consecutive entries the agent wrote,
\* both named ends included.
RangeSound ==
    \A from, to \in 1..(nextId - 1) :
        VerifyRange(from, to, Key) = "Intact" =>
            \A r, q \in Rows : r.id = from /\ q.id = to /\ r.seq <= q.seq =>
                \A s \in r.seq..q.seq : s \in DOMAIN rows /\ rows[s] \in authored

\* The two modes that check less than a full verification (no key, a sub-range)
\* are sound within their limits, on tables that are well typed.
ModesSound == TypeOK /\ HashOnlySound /\ RangeSound

\* Losing the tail of the log, all of it included, is reported as what it is.
TailLost ==
    /\ pinned = lastHead /\ baseline = NoRecord /\ OwnKeyOnly
    /\ Rows \subseteq authored
    /\ \E n \in 0..lastHead.seq : DOMAIN rows = 0..(n - 1)
TailLossNamed ==
    TailLost /\ Walk(DOMAIN rows, Key, 0) = "Intact" =>
        VerifyChain = IF lastHead.seq > 0 THEN "TruncationDetected" ELSE "HeadHashMismatch"
=============================================================================
