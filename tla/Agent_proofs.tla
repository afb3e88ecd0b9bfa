---------------------------- MODULE Agent_proofs ----------------------------
(***************************************************************************)
(* Theorems about what the agent keeps and who keeps it: the audit chain     *)
(* (AuditChain, for any number of entries and any amount of damage), the      *)
(* process that verifies it beside its commands (AgentProcess, for any        *)
(* number of connections, tasks, starts and audit entries), and the vault's   *)
(* keys (KeyCustody, for any number of requests, starts and faults).          *)
(*                                                                         *)
(* The chain. First the hashes and tags, which are injective, and least and   *)
(* greatest elements of sets of seqs. Then the inductive invariant IInv:      *)
(* what every entry the agent made satisfies, and what no damage without a    *)
(* key can change of a row. Then what a verdict of Intact says about the      *)
(* rows, and the theorems about it.                                          *)
(*                                                                         *)
(* The process, with its invariant AgentIInv; its liveness, IdleSeals and     *)
(* ShutdownEnds, stays with TLC.                                             *)
(*                                                                         *)
(* The keys. CustodyIInv relates what a ceremony holds in its local variables *)
(* to the two keystores, which others write meanwhile, and gives the safety   *)
(* of every roll-back. AckIInv adds what an acknowledged key needs to open    *)
(* the vault, when ceremonies do not overlap. SoleIInv follows the key that   *)
(* all data depends on until the first backup carries it.                     *)
(***************************************************************************)
EXTENDS AuditChain, AgentProcess, KeyCustody,
        FiniteSetTheorems, NaturalsInduction, WellFoundedInduction, SequenceTheorems, TLAPS

-----------------------------------------------------------------------------
(* An entry is a record of six columns, a head or a baseline of four.        *)
IsEntry(e) == e = [seq |-> e.seq, id |-> e.id, body |-> e.body,
                   prev |-> e.prev, hash |-> e.hash, tag |-> e.tag]
IsRecord(h) == h = [seq |-> h.seq, hash |-> h.hash, id |-> h.id, mac |-> h.mac]

(* A hash is neither the genesis nor the absence of one.                     *)
IsHash(x) == x # GENESIS /\ x # NoPrev

(* What every entry the agent made satisfies: its hash is the hash of its    *)
(* content after its link, its tag is the tag of that hash, and only the     *)
(* entry with seq 0 has no link.                                             *)
WellMade(e) ==
  /\ IsEntry(e)
  /\ IsHash(e.hash) /\ e.prev # GENESIS
  /\ e.hash = HashOf(e, OwnPrev(e))
  /\ e.tag = TagOf(e.tag[1], e.hash, e.id)
  /\ e.prev = NoPrev <=> e.seq = 0

Made(e, n) == WellMade(e) /\ e.seq \in 0..(n - 1) /\ e.id \in 1..(n - 1)
AuthoredInv == \A e \in authored : Made(e, nextId)

(* The identifiers count the entries, and no seq runs ahead of them.         *)
CountInv ==
  /\ IsFiniteSet(authored) /\ nextId = Cardinality(authored) + 1
  /\ nextId \in 1..(MaxLegacy + MaxAppends + 1)
  /\ damage \in 0..MaxDamage
  /\ DOMAIN rows \subseteq 0..(nextId - 1)
  /\ Cardinality(DOMAIN rows) <= nextId - 1

(* Whatever happened to a row, its tag is one the agent made, or none.       *)
RowOk(e, n, made) ==
  /\ IsEntry(e)
  /\ IsHash(e.hash) /\ e.prev # GENESIS
  /\ e.id \in 1..(n - 1)
  /\ e.tag = NoTag \/ \E q \in made : q.tag = e.tag
RowInv ==
  /\ \A s \in DOMAIN rows : rows[s].seq = s /\ RowOk(rows[s], nextId, authored)
  /\ \A s, t \in DOMAIN rows : rows[s].id = rows[t].id => s = t

(* A head has a seq that some row or entry had, and a hash if it has a seq.   *)
HeadOk(h, n) ==
  /\ h.seq \in -1..(n - 1)
  /\ h.seq = -1 => h.hash = GENESIS
  /\ h.seq # -1 => IsHash(h.hash)
HeadInv ==
  /\ HeadOk(pinned, nextId) /\ HeadOk(log, nextId)
  /\ lastHead = NoRecord \/ \E q \in authored : lastHead = PinnedHead(q.tag[1], q)

(* A baseline in force has no MAC or one the agent made.                     *)
BaselineInv ==
  /\ IsRecord(baseline) /\ baseline.seq \in -1..(nextId - 1)
  /\ baseline.mac = NoTag \/ \E v \in vouched : v.mac = baseline.mac
  /\ \A v \in vouched : /\ IsRecord(v) /\ v.seq \in 0..(nextId - 1)
                        /\ v.mac = BaselineMac(Key, v, v.seq + 1)

(* Before any damage the table is the chain: entry s follows entry s - 1, the *)
(* heads are those of the last one, and from a baseline on every tag is of    *)
(* the current key.                                                          *)
Follows(s) == rows[s].prev = IF s = 0 THEN NoPrev ELSE rows[s - 1].hash
CleanHead ==
  IF log.seq = -1 THEN pinned = NoRecord
  ELSE /\ log.hash = rows[log.seq].hash
       /\ pinned = PinnedHead(rows[log.seq].tag[1], rows[log.seq])
CleanBaseline ==
  baseline # NoRecord =>
    /\ baseline.seq \in 0..log.seq
    /\ rows[baseline.seq].hash = baseline.hash
    /\ baseline.mac = BaselineMac(Key, baseline, baseline.seq + 1)
    /\ \A s \in baseline.seq..log.seq : rows[s].tag[1] = Key
Clean ==
  /\ DOMAIN rows = 0..log.seq
  /\ authored = Rows
  /\ \A s \in DOMAIN rows : Follows(s)
  /\ CleanHead /\ CleanBaseline
CleanInv == damage = 0 => Clean

IInv == CountInv /\ AuthoredInv /\ RowInv /\ HeadInv /\ BaselineInv /\ CleanInv
-----------------------------------------------------------------------------
(* Hashes and tags commit to what they are made of. *)

LEMMA HashInjective ==
  ASSUME NEW e, NEW p, NEW f, NEW q, HashOf(e, p) = HashOf(f, q)
  PROVE  p = q /\ e.seq = f.seq /\ e.id = f.id /\ e.body = f.body
BY DEF HashOf

LEMMA HashIsHash == ASSUME NEW e, NEW p PROVE IsHash(HashOf(e, p))
BY DEF HashOf, IsHash, GENESIS, NoPrev

LEMMA GenesisIsPresent == GENESIS # NoPrev
BY DEF GENESIS, NoPrev

LEMMA TagInjective ==
  ASSUME NEW k, NEW h, NEW i, NEW l, NEW g, NEW j
  PROVE  /\ TagOf(k, h, i) = TagOf(l, g, j) => k = l /\ h = g /\ i = j
         /\ TagOf(k, h, i) # NoTag
         /\ TagOf(k, h, i)[1] = k
BY DEF TagOf, NoTag

LEMMA BaselineMacInjective ==
  ASSUME NEW k, NEW h, NEW i, NEW l, NEW g, NEW j
  PROVE  /\ BaselineMac(k, h, i) = BaselineMac(l, g, j) =>
               k = l /\ h.hash = g.hash /\ h.seq = g.seq /\ h.id = g.id
         /\ BaselineMac(k, h, i) # NoTag
BY DEF BaselineMac, NoTag

(* The link of an entry is read in one way only. *)
LEMMA OwnPrevInjective ==
  ASSUME NEW e, NEW f, e.prev # GENESIS, f.prev # GENESIS, OwnPrev(e) = OwnPrev(f)
  PROVE  e.prev = f.prev
BY DEF OwnPrev

(* The head of an entry. *)
LEMMA PinnedHeadFields ==
  ASSUME NEW k, NEW e
  PROVE  /\ PinnedHead(k, e).seq = e.seq /\ PinnedHead(k, e).hash = e.hash
         /\ PinnedHead(k, e).id = e.id
         /\ PinnedHead(k, e).mac = HeadMac(k, PinnedHead(k, e), e.seq + 1)
BY DEF PinnedHead, HeadMac

(* A set of numbers that is not empty has a least element. *)
LEMMA NatLess == \E R : IsWellFoundedOn(R, Nat) /\ \A i, j \in Nat : i < j => <<i, j>> \in R
<1>1. IsWellFoundedOn(OpToRel(<, Nat), Nat)
  BY ONLY NatLessThanWellFounded, Zenon
<1>2. ASSUME NEW i \in Nat, NEW j \in Nat, i < j
      PROVE  <<i, j>> \in OpToRel(<, Nat)
  BY <1>2, Zenon DEF OpToRel
<1> QED BY <1>1, <1>2, Zenon

LEMMA Least ==
  ASSUME NEW S \in SUBSET Nat, S # {} PROVE \E i \in S : \A j \in S : i <= j
<1>1. PICK R : IsWellFoundedOn(R, Nat) /\ \A i, j \in Nat : i < j => <<i, j>> \in R
  BY NatLess
<1>2. IsWellFoundedOn(R, Nat)
  BY <1>1
<1>3. \A i, j \in Nat : i < j => <<i, j>> \in R
  BY <1>1
<1>4. S \subseteq Nat
  OBVIOUS
<1>5. \E x \in S : \A y \in S : ~ (<<y, x>> \in R)
  BY <1>2, <1>4, WFMin
<1>6. PICK x \in S : \A y \in S : ~ (<<y, x>> \in R)
  BY <1>5
<1>7. ASSUME NEW y \in S PROVE x <= y
  <2>1. x \in Nat /\ y \in Nat
    OBVIOUS
  <2>2. ~(<<y, x>> \in R)
    BY <1>6
  <2>3. ~(y < x)
    BY <2>1, <2>2, <1>3
  <2> QED BY <2>1, <2>3
<1> QED BY <1>7

(* One that is bounded has a greatest element, which is Max. *)
LEMMA Greatest ==
  ASSUME NEW n \in Nat, NEW S \in SUBSET (0..n), S # {}
  PROVE  Max(S) \in S /\ \A y \in S : y <= Max(S)
<1> DEFINE D == {d \in Nat : n - d \in S}
<1>1. D # {}
  <2>1. PICK s \in S : TRUE
    OBVIOUS
  <2>2. n - s \in Nat /\ n - (n - s) = s
    BY <2>1
  <2> QED BY <2>2
<1>2. PICK d \in D : \A j \in D : d <= j
  <2>1. D \in SUBSET Nat
    OBVIOUS
  <2> HIDE DEF D
  <2> QED BY <1>1, <2>1, Least
<1>3. n - d \in S
  OBVIOUS
<1>4. ASSUME NEW y \in S PROVE n - d >= y
  <2>1. n - y \in D
    <3>1. n - y \in Nat /\ n - (n - y) = y
      OBVIOUS
    <3> QED BY <3>1
  <2>2. d <= n - y
    BY <1>2, <2>1
  <2> QED BY <2>2
<1>5. \E x \in S : \A y \in S : x >= y
  BY <1>3, <1>4
<1>6. Max(S) \in S /\ \A y \in S : Max(S) >= y
  BY <1>5 DEF Max
<1>7. \A y \in S : y \in Int
  OBVIOUS
<1>8. Max(S) \in Int
  BY <1>6, <1>7
<1> QED BY <1>6, <1>7, <1>8

(* The lowest of a set of seqs. *)
LEMMA Lowest ==
  ASSUME NEW S \in SUBSET Nat, S # {}
  PROVE  Min(S) \in S /\ \A y \in S : Min(S) <= y
BY Least DEF Min

-----------------------------------------------------------------------------
(* IInv is inductive. *)

LEMMA InitIInv == Init => IInv
<1> SUFFICES ASSUME Init PROVE IInv
  OBVIOUS
<1>1. DOMAIN rows = {}
  BY DEF Init
<1>2. CountInv
  BY <1>1, AuditChainAssumption, FS_EmptySet DEF Init, CountInv
<1>3. AuthoredInv /\ RowInv /\ HeadInv
  BY <1>1 DEF Init, AuthoredInv, RowInv, HeadInv, HeadOk, NoRecord
<1>4. BaselineInv
  BY DEF Init, BaselineInv, IsRecord, NoRecord
<1>5. CleanInv
  BY <1>1 DEF Init, CleanInv, Clean, Rows, CleanHead, CleanBaseline
<1> QED BY <1>2, <1>3, <1>4, <1>5 DEF IInv

(* The entry an append makes. *)
LEMMA NewEntryMade ==
  ASSUME IInv, NEW key, NEW body, NEW e, e = NewEntry(key, log, nextId, body)
  PROVE  /\ WellMade(e)
         /\ e.seq = log.seq + 1 /\ e.id = nextId /\ e.tag[1] = key
         /\ e.prev = IF log.seq = -1 THEN NoPrev ELSE log.hash
         /\ e.seq \in 0..nextId /\ nextId \in Nat /\ nextId >= 1 /\ log.seq \in -1..(nextId - 1)
<1>1. /\ log.seq \in -1..(nextId - 1) /\ nextId \in Nat /\ nextId >= 1
      /\ log.seq = -1 => log.hash = GENESIS
      /\ log.seq # -1 => IsHash(log.hash)
  BY AuditChainAssumption DEF IInv, HeadInv, HeadOk, CountInv
<1> DEFINE c == [seq |-> log.seq + 1, id |-> nextId, body |-> body]
           h == HashOf(c, log.hash)
<1>2. /\ e.seq = log.seq + 1 /\ e.id = nextId /\ e.body = body
      /\ e.prev = IF log.seq = -1 THEN NoPrev ELSE log.hash
      /\ e.hash = h /\ e.tag = TagOf(key, h, nextId)
      /\ e = [seq |-> log.seq + 1, id |-> nextId, body |-> body,
              prev |-> IF log.seq = -1 THEN NoPrev ELSE log.hash,
              hash |-> h, tag |-> TagOf(key, h, nextId)]
  BY DEF NewEntry
<1>3. h = HashOf(e, log.hash)
  BY <1>2 DEF HashOf
<1>4. IsHash(h)
  BY HashIsHash
<1> HIDE DEF h, c
<1>5. IsEntry(e)
  BY <1>2 DEF IsEntry
<1>6. OwnPrev(e) = log.hash
  BY <1>1, <1>2 DEF OwnPrev, IsHash
<1>7. e.prev # GENESIS /\ (e.prev = NoPrev <=> log.seq = -1)
  BY <1>1, <1>2, GenesisIsPresent DEF IsHash
<1>8. e.prev = NoPrev <=> e.seq = 0
  BY <1>1, <1>2, <1>7
<1>9. e.tag[1] = key /\ e.tag = TagOf(e.tag[1], e.hash, e.id)
  BY <1>2, TagInjective
<1>10. WellMade(e)
  BY <1>2, <1>3, <1>4, <1>5, <1>6, <1>7, <1>8, <1>9 DEF WellMade
<1> QED BY <1>1, <1>2, <1>9, <1>10

(* A commit adds one row and one entry. *)
LEMMA CommitCounts ==
  ASSUME IInv, NEW key, NEW body, NEW e, e = NewEntry(key, log, nextId, body),
         Commit(key, e), Cardinality(authored) < MaxLegacy + MaxAppends, UNCHANGED damage
  PROVE  CountInv'
<1>1. e.seq \in 0..nextId /\ e.id = nextId /\ nextId \in Nat
  BY NewEntryMade
<1>2. DOMAIN rows' = DOMAIN rows \cup {e.seq} /\ e.seq \notin DOMAIN rows
      /\ authored' = authored \cup {e} /\ nextId' = nextId + 1
  BY DEF Commit
<1>3. e \notin authored
  BY <1>1 DEF IInv, AuthoredInv, Made
<1>4. IsFiniteSet(authored) /\ nextId = Cardinality(authored) + 1
      /\ DOMAIN rows \subseteq 0..(nextId - 1) /\ Cardinality(DOMAIN rows) <= nextId - 1
      /\ damage \in 0..MaxDamage
  BY DEF IInv, CountInv
<1>5. IsFiniteSet(authored') /\ Cardinality(authored') = Cardinality(authored) + 1
  BY <1>2, <1>3, <1>4, FS_AddElement
<1>6. IsFiniteSet(DOMAIN rows)
  <2>1. IsFiniteSet(0..(nextId - 1))
    BY <1>1, FS_Interval
  <2> QED BY <2>1, <1>4, FS_Subset
<1>7. Cardinality(DOMAIN rows') = Cardinality(DOMAIN rows) + 1 /\ Cardinality(DOMAIN rows) \in Nat
  BY <1>2, <1>6, FS_AddElement, FS_CardinalityType
<1>8. Cardinality(authored) \in Nat
  BY <1>4, FS_CardinalityType
<1>9. nextId' \in 1..(MaxLegacy + MaxAppends + 1)
  BY <1>2, <1>4, <1>8, AuditChainAssumption
<1>10. DOMAIN rows' \subseteq 0..(nextId' - 1)
  BY <1>1, <1>2, <1>4
<1>11. Cardinality(DOMAIN rows') <= nextId' - 1
  BY <1>1, <1>2, <1>4, <1>7
<1> QED BY <1>2, <1>4, <1>5, <1>8, <1>9, <1>10, <1>11 DEF CountInv

LEMMA CommitTables ==
  ASSUME IInv, NEW key, NEW body, NEW e, e = NewEntry(key, log, nextId, body), Commit(key, e)
  PROVE  AuthoredInv' /\ RowInv' /\ HeadInv'
<1>1. /\ WellMade(e) /\ e.id = nextId /\ e.tag[1] = key
      /\ e.seq \in 0..nextId /\ nextId \in Nat /\ nextId >= 1
  BY NewEntryMade
<1>2. /\ e.seq \notin DOMAIN rows /\ DOMAIN rows' = DOMAIN rows \cup {e.seq}
      /\ rows'[e.seq] = e
      /\ \A s \in DOMAIN rows : rows'[s] = rows[s]
      /\ authored' = authored \cup {e} /\ nextId' = nextId + 1
      /\ pinned' = PinnedHead(key, e) /\ lastHead' = PinnedHead(key, e)
      /\ log' = [seq |-> e.seq, hash |-> e.hash]
  BY DEF Commit
<1>3. AuthoredInv'
  <2>1. \A x \in authored : Made(x, nextId + 1)
    BY <1>1 DEF IInv, AuthoredInv, Made
  <2>2. Made(e, nextId + 1)
    BY <1>1 DEF Made
  <2> QED BY <1>2, <2>1, <2>2 DEF AuthoredInv
<1>4. ASSUME NEW x, RowOk(x, nextId, authored) PROVE RowOk(x, nextId + 1, authored \cup {e})
  BY <1>1, <1>4 DEF RowOk
<1>5. RowOk(e, nextId + 1, authored \cup {e})
  BY <1>1 DEF RowOk, WellMade
<1>6. \A s \in DOMAIN rows : rows[s].seq = s /\ RowOk(rows[s], nextId, authored) /\ rows[s].id # nextId
  <2> SUFFICES ASSUME NEW s \in DOMAIN rows
               PROVE  /\ rows[s].seq = s /\ RowOk(rows[s], nextId, authored)
                      /\ rows[s].id # nextId
    OBVIOUS
  <2>1. rows[s].seq = s /\ RowOk(rows[s], nextId, authored)
    BY DEF IInv, RowInv
  <2>2. rows[s].id \in 1..(nextId - 1)
    BY <2>1 DEF RowOk
  <2> QED BY <2>1, <2>2, <1>1
<1>7. RowInv'
  <2>1. \A s \in DOMAIN rows' : rows'[s].seq = s /\ RowOk(rows'[s], nextId', authored')
    BY <1>2, <1>4, <1>5, <1>6
  <2>2. \A s, t \in DOMAIN rows' : rows'[s].id = rows'[t].id => s = t
    BY <1>1, <1>2, <1>6 DEF IInv, RowInv
  <2> QED BY <2>1, <2>2 DEF RowInv
<1>8. HeadInv'
  <2>1. HeadOk(pinned', nextId') /\ HeadOk(log', nextId')
    BY <1>1, <1>2, PinnedHeadFields DEF HeadOk, WellMade
  <2>2. e \in authored' /\ lastHead' = PinnedHead(e.tag[1], e)
    BY <1>1, <1>2
  <2> QED BY <2>1, <2>2 DEF HeadInv
<1> QED BY <1>3, <1>7, <1>8

(* What a commit does to an undamaged chain. *)
LEMMA CommitClean ==
  ASSUME IInv, damage = 0, NEW key, NEW body, NEW e,
         e = NewEntry(key, log, nextId, body), Commit(key, e)
  PROVE  /\ DOMAIN rows = 0..log.seq /\ log.seq \in Int /\ log.seq >= -1
         /\ log'.seq = log.seq + 1 /\ DOMAIN rows' = 0..log'.seq
         /\ rows'[log'.seq] = e /\ \A s \in DOMAIN rows : rows'[s] = rows[s]
         /\ authored' = Rows'
         /\ \A s \in DOMAIN rows' : Follows(s)'
         /\ CleanHead'
<1>1. /\ e.seq = log.seq + 1 /\ e.tag[1] = key
      /\ e.prev = IF log.seq = -1 THEN NoPrev ELSE log.hash
      /\ nextId \in Nat /\ log.seq \in -1..(nextId - 1)
  BY NewEntryMade
<1>2. /\ DOMAIN rows' = DOMAIN rows \cup {e.seq}
      /\ rows'[e.seq] = e
      /\ e.seq \notin DOMAIN rows
      /\ \A s \in DOMAIN rows : rows'[s] = rows[s]
      /\ authored' = authored \cup {e}
      /\ pinned' = PinnedHead(key, e)
      /\ log' = [seq |-> e.seq, hash |-> e.hash]
  BY DEF Commit
<1>3. Clean
  BY DEF IInv, CleanInv
<1>4. DOMAIN rows = 0..log.seq /\ authored = Rows /\ \A s \in DOMAIN rows : Follows(s)
  BY <1>3 DEF Clean
<1>5. DOMAIN rows' = 0..log'.seq /\ log'.seq = log.seq + 1
  BY <1>1, <1>2, <1>4
<1>6. authored' = Rows'
  BY <1>2, <1>4 DEF Rows
<1>7. ASSUME NEW s \in DOMAIN rows' PROVE Follows(s)'
  <2>1. CASE s = e.seq
    <3>1. CASE log.seq = -1
      BY <2>1, <3>1, <1>1, <1>2 DEF Follows
    <3>2. CASE log.seq # -1
      <4>1. log.hash = rows[log.seq].hash
        BY <1>3, <3>2 DEF Clean, CleanHead
      <4>2. log.seq \in DOMAIN rows /\ s - 1 = log.seq /\ s # 0
        BY <1>1, <1>4, <2>1, <3>2
      <4>3. rows'[s].prev = rows'[s - 1].hash
        BY <1>1, <1>2, <2>1, <3>2, <4>1, <4>2
      <4> QED BY <4>2, <4>3 DEF Follows
    <3> QED BY <3>1, <3>2
  <2>2. CASE s \in DOMAIN rows
    <3>1. Follows(s) /\ rows'[s] = rows[s]
      BY <2>2, <1>2, <1>4
    <3>2. s # 0 => s - 1 \in DOMAIN rows
      BY <2>2, <1>1, <1>4
    <3>3. s # 0 => rows'[s - 1] = rows[s - 1]
      BY <3>2, <1>2
    <3> QED BY <3>1, <3>3 DEF Follows
  <2> QED BY <2>1, <2>2, <1>2
<1>8. CleanHead'
  <2>1. log'.seq = e.seq /\ log'.hash = e.hash /\ log'.seq # -1
    BY <1>1, <1>2
  <2> QED BY <2>1, <1>1, <1>2 DEF CleanHead
<1> QED BY <1>1, <1>2, <1>4, <1>5, <1>6, <1>7, <1>8

(* AppendLegacy and AppendEntry: the baseline stays, and entries of another   *)
(* key do not follow those of the current one.                                *)
LEMMA AppendStep ==
  ASSUME IInv, NEW key, NEW body, Commit(key, NewEntry(key, log, nextId, body)),
         Cardinality(authored) < MaxLegacy + MaxAppends,
         key = Key \/ \A r \in authored : r.tag[1] # Key,
         UNCHANGED <<baseline, vouched, damage>>
  PROVE  IInv'
<1> DEFINE e == NewEntry(key, log, nextId, body)
<1>1. CountInv'
  BY CommitCounts
<1>2. AuthoredInv' /\ RowInv' /\ HeadInv'
  BY CommitTables
<1>3. BaselineInv'
  <2>1. nextId' = nextId + 1 /\ nextId \in Nat
    BY AuditChainAssumption DEF Commit, IInv, CountInv
  <2> QED BY <2>1 DEF IInv, BaselineInv
<1>4. ASSUME damage' = 0 PROVE Clean'
  <2>0. damage = 0
    BY <1>4
  <2>1. /\ DOMAIN rows = 0..log.seq /\ log.seq \in Int /\ log.seq >= -1
        /\ log'.seq = log.seq + 1 /\ DOMAIN rows' = 0..log'.seq
        /\ rows'[log'.seq] = e /\ \A s \in DOMAIN rows : rows'[s] = rows[s]
        /\ authored' = Rows'
        /\ \A s \in DOMAIN rows' : Follows(s)'
        /\ CleanHead'
    BY <2>0, CommitClean
  <2>2. e.tag[1] = key
    BY NewEntryMade
  <2>3. CleanBaseline /\ authored = Rows
    BY <2>0 DEF IInv, CleanInv, Clean
  <2> HIDE DEF e
  <2>4. ASSUME baseline' # NoRecord
        PROVE  /\ baseline'.seq \in 0..log'.seq
               /\ rows'[baseline'.seq].hash = baseline'.hash
               /\ baseline'.mac = BaselineMac(Key, baseline', baseline'.seq + 1)
               /\ \A s \in baseline'.seq..log'.seq : rows'[s].tag[1] = Key
    <3>1. /\ baseline' = baseline /\ baseline.seq \in 0..log.seq
          /\ rows[baseline.seq].hash = baseline.hash
          /\ baseline.mac = BaselineMac(Key, baseline, baseline.seq + 1)
          /\ \A s \in baseline.seq..log.seq : rows[s].tag[1] = Key
      BY <2>3, <2>4 DEF CleanBaseline
    <3>2. baseline.seq \in DOMAIN rows /\ rows[baseline.seq].tag[1] = Key
      BY <3>1, <2>1
    <3>3. rows[baseline.seq] \in authored
      BY <3>2, <2>3 DEF Rows
    <3>4. key = Key
      BY <3>2, <3>3
    <3>5. ASSUME NEW s \in baseline.seq..log'.seq PROVE rows'[s].tag[1] = Key
      <4>1. CASE s = log'.seq
        BY <4>1, <2>1, <2>2, <3>4
      <4>2. CASE s # log'.seq
        <5>1. s \in baseline.seq..log.seq /\ s \in DOMAIN rows
          BY <4>2, <3>1, <2>1
        <5> QED BY <5>1, <3>1, <2>1
      <4> QED BY <4>1, <4>2
    <3>6. baseline.seq \in 0..log'.seq
      BY <3>1, <2>1
    <3>7. rows'[baseline.seq] = rows[baseline.seq]
      BY <3>2, <2>1
    <3> QED BY <3>1, <3>5, <3>6, <3>7
  <2>5. CleanBaseline'
    BY <2>4 DEF CleanBaseline
  <2> QED BY <2>1, <2>5 DEF Clean
<1> QED BY <1>1, <1>2, <1>3, <1>4 DEF IInv, CleanInv

LEMMA SetBaselineStep == ASSUME IInv, SetBaseline PROVE IInv'
<1> DEFINE e == NewEntry(Key, log, nextId, "rebaseline")
           h == [seq |-> pinned'.seq, hash |-> pinned'.hash, id |-> pinned'.id]
<1>0. /\ Cardinality(authored) < MaxLegacy + MaxAppends /\ Commit(Key, e) /\ damage' = damage
      /\ baseline' = [seq |-> h.seq, hash |-> h.hash, id |-> h.id,
                      mac |-> BaselineMac(Key, h, h.seq + 1)]
      /\ vouched' = vouched \cup {baseline'}
  BY DEF SetBaseline, Bounded
<1>1. CountInv'
  BY <1>0, CommitCounts
<1>2. AuthoredInv' /\ RowInv' /\ HeadInv'
  BY <1>0, CommitTables
<1>3. e.seq = log.seq + 1 /\ e.seq \in 0..nextId /\ nextId \in Nat /\ e.tag[1] = Key
  BY NewEntryMade
<1>4. nextId' = nextId + 1 /\ pinned' = PinnedHead(Key, e)
      /\ log' = [seq |-> e.seq, hash |-> e.hash]
  BY <1>0 DEF Commit
<1> HIDE DEF e
<1>5. pinned'.seq = e.seq /\ pinned'.hash = e.hash
  BY <1>4, PinnedHeadFields
<1>6. /\ baseline'.seq = e.seq /\ baseline'.hash = e.hash
      /\ baseline'.mac = BaselineMac(Key, baseline', baseline'.seq + 1)
      /\ baseline' = [seq |-> baseline'.seq, hash |-> baseline'.hash,
                      id |-> baseline'.id, mac |-> baseline'.mac]
  BY <1>0, <1>5 DEF BaselineMac
<1>7. BaselineInv'
  <2>1. IsRecord(baseline')
    BY <1>6 DEF IsRecord
  <2>2. baseline'.seq \in 0..(nextId' - 1) /\ baseline'.seq \in -1..(nextId' - 1)
    BY <1>3, <1>4, <1>6
  <2>3. \A v \in vouched : IsRecord(v) /\ v.seq \in 0..(nextId' - 1)
                           /\ v.mac = BaselineMac(Key, v, v.seq + 1)
    BY <1>3, <1>4 DEF IInv, BaselineInv
  <2>4. baseline' \in vouched'
    BY <1>0
  <2> QED BY <1>0, <1>6, <2>1, <2>2, <2>3, <2>4 DEF BaselineInv
<1>8. ASSUME damage' = 0 PROVE Clean'
  <2>0. damage = 0
    BY <1>0, <1>8
  <2>1. /\ log'.seq = log.seq + 1 /\ DOMAIN rows' = 0..log'.seq
        /\ log.seq \in Int /\ log.seq >= -1
        /\ rows'[log'.seq] = e
        /\ authored' = Rows'
        /\ \A s \in DOMAIN rows' : Follows(s)'
        /\ CleanHead'
    BY <1>0, <2>0, CommitClean DEF e
  <2>2. CleanBaseline'
    <3>1. baseline'.seq = log'.seq
      BY <1>3, <1>6, <2>1
    <3>2. \A s \in baseline'.seq..log'.seq : s = log'.seq
      BY <3>1, <2>1
    <3>3. baseline'.seq \in 0..log'.seq
      BY <3>1, <2>1
    <3>4. rows'[baseline'.seq] = e
      BY <3>1, <2>1
    <3> QED BY <1>3, <1>6, <2>1, <3>2, <3>3, <3>4 DEF CleanBaseline
  <2> QED BY <2>1, <2>2 DEF Clean
<1> QED BY <1>1, <1>2, <1>7, <1>8 DEF IInv, CleanInv

LEMMA RestartStep == ASSUME IInv, Restart PROVE IInv'
<1>0. /\ log'.seq = pinned.seq /\ log'.hash = pinned.hash
      /\ UNCHANGED <<rows, pinned, baseline, nextId, authored, vouched, lastHead, damage>>
  BY DEF Restart, history
<1>1. CountInv' /\ AuthoredInv' /\ RowInv' /\ BaselineInv'
  BY <1>0 DEF IInv, CountInv, AuthoredInv, RowInv, BaselineInv
<1>2. HeadInv'
  BY <1>0 DEF IInv, HeadInv, HeadOk
<1>3. ASSUME damage' = 0 PROVE Clean'
  <2>1. Clean
    BY <1>0, <1>3 DEF IInv, CleanInv
  <2>2. log'.seq = log.seq /\ (log.seq # -1 => log'.hash = log.hash)
    <3>1. CASE log.seq = -1
      BY <1>0, <2>1, <3>1 DEF Clean, CleanHead, NoRecord
    <3>2. CASE log.seq # -1
      <4>1. log.hash = rows[log.seq].hash /\ pinned.hash = rows[log.seq].hash
            /\ pinned.seq = rows[log.seq].seq
        BY <2>1, <3>2, PinnedHeadFields DEF Clean, CleanHead
      <4>2. log.seq \in DOMAIN rows
        BY <2>1, <3>2 DEF Clean, IInv, HeadInv, HeadOk
      <4>3. rows[log.seq].seq = log.seq
        BY <4>2 DEF IInv, RowInv
      <4> QED BY <1>0, <4>1, <4>3
    <3> QED BY <3>1, <3>2
  <2>3. CleanHead'
    BY <1>0, <2>1, <2>2 DEF Clean, CleanHead
  <2>4. CleanBaseline'
    BY <1>0, <2>1, <2>2 DEF Clean, CleanBaseline
  <2>5. \A s \in DOMAIN rows' : Follows(s)'
    BY <1>0, <2>1 DEF Clean, Follows
  <2> QED BY <1>0, <2>1, <2>2, <2>3, <2>4, <2>5 DEF Clean, Rows
<1> QED BY <1>1, <1>2, <1>3 DEF IInv, CleanInv

(* Damage to the table of entries that keeps RowInv keeps IInv. *)
LEMMA RowsStep ==
  ASSUME IInv, damage' \in 1..MaxDamage, RowInv',
         DOMAIN rows' \subseteq 0..(nextId - 1), Cardinality(DOMAIN rows') <= nextId - 1,
         UNCHANGED <<pinned, baseline, log, nextId, authored, vouched, lastHead>>
  PROVE  IInv'
<1>1. damage' \in 0..MaxDamage /\ damage' # 0
  BY AuditChainAssumption
<1>2. CountInv'
  BY <1>1 DEF IInv, CountInv
<1>3. AuthoredInv' /\ HeadInv' /\ BaselineInv'
  BY DEF IInv, AuthoredInv, HeadInv, BaselineInv
<1>4. CleanInv'
  BY <1>1 DEF CleanInv
<1> QED BY <1>2, <1>3, <1>4 DEF IInv

LEMMA DamagedCount == ASSUME IInv, Damaged PROVE damage' \in 1..MaxDamage
BY AuditChainAssumption DEF IInv, CountInv, Damaged

LEMMA FiniteRows == ASSUME IInv PROVE IsFiniteSet(DOMAIN rows) /\ Cardinality(DOMAIN rows) \in Nat
<1>1. nextId \in Nat /\ DOMAIN rows \subseteq 0..(nextId - 1)
  BY AuditChainAssumption DEF IInv, CountInv
<1>2. IsFiniteSet(0..(nextId - 1))
  BY <1>1, FS_Interval
<1>3. IsFiniteSet(DOMAIN rows)
  BY <1>1, <1>2, FS_Subset
<1> QED BY <1>3, FS_CardinalityType

LEMMA LoseRowStep == ASSUME IInv, LoseRow PROVE IInv'
<1>1. PICK s \in DOMAIN rows : rows' = [t \in DOMAIN rows \ {s} |-> rows[t]]
  BY DEF LoseRow
<1>2. damage' \in 1..MaxDamage
      /\ UNCHANGED <<pinned, baseline, log, nextId, authored, vouched, lastHead>>
  BY DamagedCount DEF LoseRow, history
<1>3. DOMAIN rows' = DOMAIN rows \ {s} /\ \A t \in DOMAIN rows' : rows'[t] = rows[t]
  BY <1>1
<1>4. RowInv'
  BY <1>2, <1>3 DEF IInv, RowInv
<1>5. Cardinality(DOMAIN rows') <= Cardinality(DOMAIN rows) /\ Cardinality(DOMAIN rows') \in Nat
  BY <1>3, FiniteRows, FS_Subset, FS_CardinalityType
<1>6. DOMAIN rows' \subseteq 0..(nextId - 1) /\ Cardinality(DOMAIN rows') <= nextId - 1
  <2>1. nextId \in Nat /\ DOMAIN rows \subseteq 0..(nextId - 1)
        /\ Cardinality(DOMAIN rows) <= nextId - 1 /\ Cardinality(DOMAIN rows) \in Nat
    BY AuditChainAssumption, FiniteRows DEF IInv, CountInv
  <2> QED BY <1>3, <1>5, <2>1
<1> QED BY <1>2, <1>4, <1>6, RowsStep

(* A row that keeps its id and its tag, or takes the tag of another row.      *)
LEMMA ReplaceRow ==
  ASSUME IInv, damage' \in 1..MaxDamage, NEW s \in DOMAIN rows, NEW e,
         rows' = [rows EXCEPT ![s] = e], IsEntry(e), e.seq = s, e.id = rows[s].id,
         IsHash(e.hash), e.prev # GENESIS,
         e.tag = NoTag \/ \E r \in Rows : e.tag = r.tag,
         UNCHANGED <<pinned, baseline, log, nextId, authored, vouched, lastHead>>
  PROVE  IInv'
<1>1. DOMAIN rows' = DOMAIN rows /\ rows'[s] = e
      /\ \A t \in DOMAIN rows : t # s => rows'[t] = rows[t]
  OBVIOUS
<1>2. \A t \in DOMAIN rows : rows[t].seq = t /\ RowOk(rows[t], nextId, authored)
  BY DEF IInv, RowInv
<1>3. \A r \in Rows : r.tag = NoTag \/ \E q \in authored : q.tag = r.tag
  BY <1>2 DEF Rows, RowOk
<1>4. e.tag = NoTag \/ \E q \in authored : q.tag = e.tag
  BY <1>3
<1>5. RowOk(e, nextId, authored)
  BY <1>2, <1>4 DEF RowOk
<1>6. RowInv'
  <2>1. \A t \in DOMAIN rows' : rows'[t].seq = t /\ RowOk(rows'[t], nextId', authored')
    BY <1>1, <1>2, <1>5
  <2>2. \A t, u \in DOMAIN rows' : rows'[t].id = rows'[u].id => t = u
    BY <1>1 DEF IInv, RowInv
  <2> QED BY <2>1, <2>2 DEF RowInv
<1>7. DOMAIN rows' \subseteq 0..(nextId - 1) /\ Cardinality(DOMAIN rows') <= nextId - 1
  BY <1>1 DEF IInv, CountInv
<1> QED BY <1>6, <1>7, RowsStep

(* The columns of an entry after one of them is edited. *)
LEMMA EditedEntry ==
  ASSUME NEW x, IsEntry(x), NEW v
  PROVE  /\ [x EXCEPT !.body = v] = [seq |-> x.seq, id |-> x.id, body |-> v,
                                     prev |-> x.prev, hash |-> x.hash, tag |-> x.tag]
         /\ [x EXCEPT !.prev = v] = [seq |-> x.seq, id |-> x.id, body |-> x.body,
                                     prev |-> v, hash |-> x.hash, tag |-> x.tag]
         /\ [x EXCEPT !.tag = v] = [seq |-> x.seq, id |-> x.id, body |-> x.body,
                                    prev |-> x.prev, hash |-> x.hash, tag |-> v]
BY DEF IsEntry

LEMMA EditRowStep == ASSUME IInv, EditRow PROVE IInv'
<1>1. PICK s \in DOMAIN rows, r \in Rows :
        \E e \in {[rows[s] EXCEPT !.body = "edited"], [rows[s] EXCEPT !.prev = r.hash],
                  [rows[s] EXCEPT !.tag = r.tag], [rows[s] EXCEPT !.tag = NoTag]} :
          rows' = [rows EXCEPT ![s] = e]
  BY DEF EditRow
<1>2. PICK e \in {[rows[s] EXCEPT !.body = "edited"], [rows[s] EXCEPT !.prev = r.hash],
                  [rows[s] EXCEPT !.tag = r.tag], [rows[s] EXCEPT !.tag = NoTag]} :
          rows' = [rows EXCEPT ![s] = e]
  BY <1>1
<1>3. damage' \in 1..MaxDamage
      /\ UNCHANGED <<pinned, baseline, log, nextId, authored, vouched, lastHead>>
  BY DamagedCount DEF EditRow, history
<1>4. \A t \in DOMAIN rows : rows[t].seq = t /\ IsEntry(rows[t]) /\ IsHash(rows[t].hash)
                            /\ rows[t].prev # GENESIS
  BY DEF IInv, RowInv, RowOk
<1>5. IsHash(r.hash)
  BY <1>4 DEF Rows
<1>6. rows[s] \in Rows
  BY DEF Rows
<1>7. /\ IsEntry(e) /\ e.seq = s /\ e.id = rows[s].id
      /\ IsHash(e.hash) /\ e.prev # GENESIS
      /\ e.tag = NoTag \/ \E q \in Rows : e.tag = q.tag
  <2> DEFINE x == rows[s]
  <2>0. IsEntry(x) /\ x.seq = s /\ IsHash(x.hash) /\ x.prev # GENESIS /\ x \in Rows
    BY <1>4, <1>6
  <2> HIDE DEF x
  <2>1. CASE e = [x EXCEPT !.body = "edited"]
    <3>1. e = [seq |-> x.seq, id |-> x.id, body |-> "edited", prev |-> x.prev, hash |-> x.hash, tag |-> x.tag]
      BY <2>0, <2>1, EditedEntry
    <3> QED BY <3>1, <2>0 DEF IsEntry, IsHash, x
  <2>2. CASE e = [x EXCEPT !.prev = r.hash]
    <3>1. e = [seq |-> x.seq, id |-> x.id, body |-> x.body, prev |-> r.hash, hash |-> x.hash, tag |-> x.tag]
      BY <2>0, <2>2, EditedEntry
    <3> QED BY <3>1, <2>0, <1>5 DEF IsEntry, IsHash, x
  <2>3. CASE e = [x EXCEPT !.tag = r.tag]
    <3>1. e = [seq |-> x.seq, id |-> x.id, body |-> x.body, prev |-> x.prev, hash |-> x.hash, tag |-> r.tag]
      BY <2>0, <2>3, EditedEntry
    <3> QED BY <3>1, <2>0 DEF IsEntry, IsHash, x
  <2>4. CASE e = [x EXCEPT !.tag = NoTag]
    <3>1. e = [seq |-> x.seq, id |-> x.id, body |-> x.body, prev |-> x.prev, hash |-> x.hash, tag |-> NoTag]
      BY <2>0, <2>4, EditedEntry
    <3> QED BY <3>1, <2>0 DEF IsEntry, IsHash, x
  <2> QED BY <1>2, <2>1, <2>2, <2>3, <2>4 DEF x
<1> QED BY <1>2, <1>3, <1>7, ReplaceRow

(* A row after its link and its hash are recomputed. *)
LEMMA LinkedEntry ==
  ASSUME NEW w, IsEntry(w), NEW p, p # NoPrev
  PROVE  /\ IsEntry(Linked(w, p)) /\ Linked(w, p).seq = w.seq /\ Linked(w, p).id = w.id
         /\ Linked(w, p).tag = w.tag
         /\ IsHash(Linked(w, p).hash) /\ Linked(w, p).prev # GENESIS
<1> DEFINE h == HashOf(w, p)
           g == IF p = GENESIS THEN NoPrev ELSE p
<1>1. IsHash(h) /\ g # GENESIS
  BY HashIsHash, GenesisIsPresent
<1>2. Linked(w, p) = [w EXCEPT !.prev = g, !.hash = h]
  BY DEF Linked
<1> HIDE DEF h, g
<1>3. Linked(w, p) = [seq |-> w.seq, id |-> w.id, body |-> w.body,
                      prev |-> g, hash |-> h, tag |-> w.tag]
  BY <1>2 DEF IsEntry
<1> QED BY <1>1, <1>3 DEF IsEntry

LEMMA RelinkRowStep == ASSUME IInv, RelinkRow PROVE IInv'
<1>1. PICK s \in DOMAIN rows : rows' = [rows EXCEPT ![s] = Linked(rows[s],
                    IF s - 1 \in DOMAIN rows THEN rows[s - 1].hash ELSE OwnPrev(rows[s]))]
  BY DEF RelinkRow
<1> DEFINE p == IF s - 1 \in DOMAIN rows THEN rows[s - 1].hash ELSE OwnPrev(rows[s])
<1>2. damage' \in 1..MaxDamage
      /\ UNCHANGED <<pinned, baseline, log, nextId, authored, vouched, lastHead>>
  BY AuditChainAssumption DEF RelinkRow, history, IInv, CountInv
<1>3. \A t \in DOMAIN rows : rows[t].seq = t /\ IsEntry(rows[t]) /\ IsHash(rows[t].hash)
  BY DEF IInv, RowInv, RowOk
<1>4. p # NoPrev
  BY <1>3, GenesisIsPresent DEF OwnPrev, IsHash
<1>5. rows' = [rows EXCEPT ![s] = Linked(rows[s], p)]
  BY <1>1
<1> HIDE DEF p
<1>6. IsEntry(rows[s]) /\ rows[s].seq = s /\ rows[s] \in Rows
  BY <1>3 DEF Rows
<1>7. LET e == Linked(rows[s], p)
      IN /\ IsEntry(e) /\ e.seq = s /\ e.id = rows[s].id
         /\ IsHash(e.hash) /\ e.prev # GENESIS /\ e.tag = rows[s].tag
  BY <1>4, <1>6, LinkedEntry
<1> DEFINE e == Linked(rows[s], p)
<1>8. /\ IsEntry(e) /\ e.seq = s /\ e.id = rows[s].id
      /\ IsHash(e.hash) /\ e.prev # GENESIS /\ e.tag = rows[s].tag
      /\ rows' = [rows EXCEPT ![s] = e]
  BY <1>5, <1>7
<1> HIDE DEF e
<1> QED BY <1>2, <1>6, <1>8, ReplaceRow

LEMMA RenumberRowStep == ASSUME IInv, RenumberRow PROVE IInv'
<1>1. PICK s \in DOMAIN rows, t \in 0..Cardinality(DOMAIN rows) :
         /\ t \notin DOMAIN rows
         /\ rows' = [u \in (DOMAIN rows \ {s}) \cup {t} |->
                       IF u = t THEN Linked([rows[s] EXCEPT !.seq = t], OwnPrev(rows[s]))
                       ELSE rows[u]]
  BY DEF RenumberRow
<1> DEFINE x == rows[s]
           p == OwnPrev(rows[s])
           w == [x EXCEPT !.seq = t]
           e == Linked(w, p)
<1>2. damage' \in 1..MaxDamage
      /\ UNCHANGED <<pinned, baseline, log, nextId, authored, vouched, lastHead>>
  BY DamagedCount DEF RenumberRow, history
<1>3. /\ DOMAIN rows' = (DOMAIN rows \ {s}) \cup {t} /\ rows'[t] = e
      /\ \A u \in DOMAIN rows \ {s} : rows'[u] = rows[u]
  BY <1>1
<1>4. \A u \in DOMAIN rows : rows[u].seq = u /\ RowOk(rows[u], nextId, authored)
  BY DEF IInv, RowInv
<1>5. RowOk(x, nextId, authored)
  BY <1>4
<1>6. p # NoPrev
  BY GenesisIsPresent DEF OwnPrev
<1> HIDE DEF p, x
<1>7. /\ IsEntry(e) /\ e.seq = t /\ e.id = x.id /\ e.tag = x.tag
      /\ IsHash(e.hash) /\ e.prev # GENESIS
  <2>1. w = [seq |-> t, id |-> x.id, body |-> x.body,
             prev |-> x.prev, hash |-> x.hash, tag |-> x.tag]
    BY <1>5 DEF RowOk, IsEntry
  <2>2. IsEntry(w) /\ w.seq = t /\ w.id = x.id /\ w.tag = x.tag
    BY <2>1 DEF IsEntry
  <2> HIDE DEF w
  <2> QED BY <1>6, <2>2, LinkedEntry
<1> HIDE DEF e
<1>8. RowOk(e, nextId, authored)
  BY <1>5, <1>7 DEF RowOk
<1>9. RowInv'
  <2>1. \A u \in DOMAIN rows' : rows'[u].seq = u /\ RowOk(rows'[u], nextId', authored')
    BY <1>2, <1>3, <1>4, <1>7, <1>8
  <2>2. \A u, v \in DOMAIN rows : rows[u].id = rows[v].id => u = v
    BY DEF IInv, RowInv
  <2>3. \A u, v \in DOMAIN rows' : rows'[u].id = rows'[v].id => u = v
    BY <1>3, <1>7, <2>2 DEF x
  <2> QED BY <2>1, <2>3 DEF RowInv
<1>10. nextId \in Nat /\ DOMAIN rows \subseteq 0..(nextId - 1)
       /\ Cardinality(DOMAIN rows) <= nextId - 1 /\ Cardinality(DOMAIN rows) \in Nat
  BY AuditChainAssumption, FiniteRows DEF IInv, CountInv
<1>11. Cardinality(DOMAIN rows') <= nextId - 1
  <2>1. IsFiniteSet(DOMAIN rows \ {s})
        /\ Cardinality(DOMAIN rows \ {s}) = Cardinality(DOMAIN rows) - 1
    BY FiniteRows, FS_RemoveElement
  <2>2. Cardinality((DOMAIN rows \ {s}) \cup {t}) = Cardinality(DOMAIN rows \ {s}) + 1
    BY <1>1, <2>1, FS_AddElement
  <2> QED BY <1>3, <1>10, <2>1, <2>2
<1>12. DOMAIN rows' \subseteq 0..(nextId - 1)
  BY <1>1, <1>3, <1>10
<1> QED BY <1>2, <1>9, <1>11, <1>12, RowsStep

LEMMA DamageHeadStep == ASSUME IInv, DamageHead PROVE IInv'
<1>1. damage' \in 1..MaxDamage
      /\ UNCHANGED <<rows, baseline, log, nextId, authored, vouched, lastHead>>
  BY DamagedCount DEF DamageHead, history
<1>2. \/ pinned' = NoRecord
      \/ \E r \in authored : pinned' = PinnedHead(r.tag[1], r)
      \/ \E r \in Rows : pinned' = [seq |-> r.seq, hash |-> r.hash, id |-> r.id, mac |-> pinned.mac]
  BY DEF DamageHead
<1>3. nextId \in Nat /\ nextId >= 1
  BY AuditChainAssumption DEF IInv, CountInv
<1>4. HeadOk(pinned', nextId)
  <2>1. CASE pinned' = NoRecord
    BY <2>1, <1>3 DEF HeadOk, NoRecord
  <2>2. ASSUME NEW r \in authored, pinned' = PinnedHead(r.tag[1], r)
        PROVE  HeadOk(pinned', nextId)
    <3>1. r.seq \in 0..(nextId - 1) /\ IsHash(r.hash)
      BY DEF IInv, AuthoredInv, Made, WellMade
    <3> QED BY <2>2, <3>1, <1>3, PinnedHeadFields DEF HeadOk
  <2>3. ASSUME NEW r \in Rows,
               pinned' = [seq |-> r.seq, hash |-> r.hash, id |-> r.id, mac |-> pinned.mac]
        PROVE  HeadOk(pinned', nextId)
    <3>1. PICK s \in DOMAIN rows : r = rows[s]
      BY DEF Rows
    <3>2. r.seq = s /\ s \in 0..(nextId - 1) /\ IsHash(r.hash)
      BY <3>1 DEF IInv, CountInv, RowInv, RowOk
    <3> QED BY <2>3, <3>2, <1>3 DEF HeadOk
  <2> QED BY <1>2, <2>1, <2>2, <2>3
<1>5. HeadInv'
  BY <1>1, <1>4 DEF IInv, HeadInv
<1>6. damage' # 0 /\ damage' \in 0..MaxDamage
  BY <1>1, AuditChainAssumption
<1>7. CountInv' /\ AuthoredInv' /\ RowInv' /\ BaselineInv' /\ CleanInv'
  BY <1>1, <1>6 DEF IInv, CountInv, AuthoredInv, RowInv, BaselineInv, CleanInv
<1> QED BY <1>5, <1>7 DEF IInv

LEMMA DamageBaselineStep == ASSUME IInv, DamageBaseline PROVE IInv'
<1>1. damage' \in 1..MaxDamage
      /\ UNCHANGED <<rows, pinned, log, nextId, authored, vouched, lastHead>>
  BY DamagedCount DEF DamageBaseline, history
<1>2. \/ baseline' = NoRecord
      \/ baseline' \in vouched
      \/ \E r \in Rows :
           baseline' = [seq |-> r.seq, hash |-> r.hash, id |-> r.id, mac |-> baseline.mac]
  BY DEF DamageBaseline
<1>3. nextId \in Nat /\ nextId >= 1
  BY AuditChainAssumption DEF IInv, CountInv
<1>4. /\ IsRecord(baseline') /\ baseline'.seq \in -1..(nextId - 1)
      /\ baseline'.mac = NoTag \/ \E v \in vouched : v.mac = baseline'.mac
  <2>1. CASE baseline' = NoRecord
    BY <2>1, <1>3 DEF IsRecord, NoRecord
  <2>2. CASE baseline' \in vouched
    BY <2>2, <1>3 DEF IInv, BaselineInv
  <2>3. ASSUME NEW r \in Rows,
               baseline' = [seq |-> r.seq, hash |-> r.hash, id |-> r.id, mac |-> baseline.mac]
        PROVE  /\ IsRecord(baseline') /\ baseline'.seq \in -1..(nextId - 1)
               /\ baseline'.mac = NoTag \/ \E v \in vouched : v.mac = baseline'.mac
    <3>1. PICK s \in DOMAIN rows : r = rows[s]
      BY DEF Rows
    <3>2. r.seq = s /\ s \in 0..(nextId - 1)
      BY <3>1 DEF IInv, CountInv, RowInv
    <3>3. IsRecord(baseline')
      BY <2>3 DEF IsRecord
    <3>4. baseline'.mac = baseline.mac /\ baseline'.seq = s
      BY <2>3, <3>2
    <3> QED BY <3>2, <3>3, <3>4, <1>3 DEF IInv, BaselineInv
  <2> QED BY <1>2, <2>1, <2>2, <2>3
<1>5. BaselineInv'
  BY <1>1, <1>4 DEF IInv, BaselineInv
<1>6. damage' # 0 /\ damage' \in 0..MaxDamage
  BY <1>1, AuditChainAssumption
<1>7. CountInv' /\ AuthoredInv' /\ RowInv' /\ HeadInv' /\ CleanInv'
  BY <1>1, <1>6 DEF IInv, CountInv, AuthoredInv, RowInv, HeadInv, CleanInv
<1> QED BY <1>5, <1>7 DEF IInv

LEMMA AppendLegacyStep == ASSUME IInv, AppendLegacy PROVE IInv'
<1>1. Cardinality(authored) \in Nat
  BY FS_CardinalityType DEF IInv, CountInv
<1>2. Cardinality(authored) < MaxLegacy + MaxAppends
  BY <1>1, AuditChainAssumption DEF AppendLegacy
<1>3. OldKey # Key
  BY DEF OldKey, Key
<1>4. \A r \in authored : r.tag[1] # Key
  BY <1>3 DEF AppendLegacy
<1> QED BY <1>2, <1>4, AppendStep DEF AppendLegacy

LEMMA AppendEntryStep == ASSUME IInv, AppendEntry PROVE IInv'
BY AppendStep DEF AppendEntry, Bounded

LEMMA NextIInv == IInv /\ [Next]_vars => IInv'
<1> SUFFICES ASSUME IInv, [Next]_vars PROVE IInv'
  OBVIOUS
<1>1. CASE Next
  BY <1>1, AppendLegacyStep, AppendEntryStep, SetBaselineStep, RestartStep, LoseRowStep,
     EditRowStep, RenumberRowStep, RelinkRowStep, DamageHeadStep, DamageBaselineStep DEF Next
<1>2. CASE UNCHANGED vars
  <2>1. UNCHANGED <<rows, pinned, baseline, log, nextId, authored, vouched, lastHead, damage>>
    BY <1>2 DEF vars
  <2>2. CountInv' /\ AuthoredInv' /\ RowInv' /\ HeadInv' /\ BaselineInv'
    BY <2>1 DEF IInv, CountInv, AuthoredInv, RowInv, HeadInv, BaselineInv
  <2>3. CleanInv'
    BY <2>1 DEF IInv, CleanInv, Clean, Rows, Follows, CleanHead, CleanBaseline
  <2> QED BY <2>2, <2>3 DEF IInv
<1> QED BY <1>1, <1>2

LEMMA Invariance == Spec => []IInv
BY InitIInv, NextIInv, PTL DEF Spec

-----------------------------------------------------------------------------
(* What a verdict says. *)

LEMMA ThenIntact ==
  ASSUME NEW v, NEW w
  PROVE  Then(v, w) = "Intact" <=> v = "Intact" /\ w = "Intact"
BY DEF Then

LEMMA FailsIntact ==
  ASSUME NEW c \in BOOLEAN, NEW name, name # "Intact"
  PROVE  Fails(c, name) = "Intact" <=> ~c
BY DEF Fails

LEMMA KeyIsNotEmpty == Key # NoKey
BY DEF Key, NoKey

LEMMA FullSlice == SliceEntries(NoId, NoId) = DOMAIN rows
BY DEF SliceEntries, SliceFrom

LEMMA RowSeqs == ASSUME IInv PROVE nextId - 1 \in Nat /\ DOMAIN rows \subseteq 0..(nextId - 1)
BY AuditChainAssumption DEF IInv, CountInv

(* The entry before another one in a slice. *)
LEMMA PredInSlice ==
  ASSUME IInv, NEW es \in SUBSET DOMAIN rows, NEW s \in es, ~IsFirst(es, s)
  PROVE  /\ Pred(es, s) \in es /\ Pred(es, s) < s
         /\ \A t \in es : t < s => t <= Pred(es, s)
<1> DEFINE below == {t \in es : t < s}
           n == nextId - 1
<1>1. n \in Nat /\ es \subseteq 0..n
  BY RowSeqs
<1>2. below # {}
  <2>1. PICK t \in es : ~(s <= t)
    BY DEF IsFirst
  <2>2. t < s
    BY <1>1, <2>1
  <2> QED BY <2>2
<1>3. below \in SUBSET (0..n)
  BY <1>1
<1>4. Pred(es, s) = Max(below)
  BY DEF Pred
<1>5. Max(below) \in below /\ \A y \in below : y <= Max(below)
  <2> HIDE DEF below, n
  <2> QED BY <1>1, <1>2, <1>3, Greatest
<1> QED BY <1>4, <1>5

(* The walk is Intact when no entry fails. *)
LEMMA WalkIntact ==
  ASSUME IInv, NEW es \in SUBSET DOMAIN rows, NEW key, NEW keyFrom
  PROVE  Walk(es, key, keyFrom) = "Intact" <=>
           \A s \in es : EntryOutcome(es, s, key, keyFrom) = "Intact"
<1> DEFINE bad == {s \in es : EntryOutcome(es, s, key, keyFrom) # "Intact"}
<1>1. CASE bad = {}
  BY <1>1 DEF Walk
<1>2. CASE bad # {}
  <2>1. bad \in SUBSET Nat
    BY RowSeqs
  <2>2. Min(bad) \in bad
    <3> HIDE DEF bad
    <3> QED BY <1>2, <2>1, Lowest
  <2>3. Walk(es, key, keyFrom) = EntryOutcome(es, Min(bad), key, keyFrom)
    BY <1>2 DEF Walk
  <2> QED BY <2>2, <2>3
<1> QED BY <1>1, <1>2

(* An entry passes when its link, its hash and, if examined, its tag do.       *)
Passes(es, s) == (IsFirst(es, s) \/ CheckLink(es, s)) /\ CheckHash(es, s)

LEMMA EntryIntact ==
  ASSUME NEW es, NEW s, NEW key, NEW keyFrom
  PROVE  EntryOutcome(es, s, key, keyFrom) = "Intact" <=>
           /\ Passes(es, s)
           /\ s >= keyFrom => CheckHmac(rows[s], key) = "Intact"
<1> DEFINE link == ~IsFirst(es, s) /\ ~CheckLink(es, s)
           content == ~CheckHash(es, s)
           tag == IF s >= keyFrom THEN CheckHmac(rows[s], key) ELSE "Intact"
<1>1. link \in BOOLEAN /\ content \in BOOLEAN
  OBVIOUS
<1>2. EntryOutcome(es, s, key, keyFrom) =
        Then(Fails(link, "BrokenAtEntry"), Then(Fails(content, "BrokenAtEntry"), tag))
  BY DEF EntryOutcome
<1>3. Passes(es, s) <=> ~link /\ ~content
  BY DEF Passes
<1>4. tag = "Intact" <=> (s >= keyFrom => CheckHmac(rows[s], key) = "Intact")
  OBVIOUS
<1> HIDE DEF link, content, tag
<1>5. Fails(link, "BrokenAtEntry") = "Intact" <=> ~link
  BY <1>1, FailsIntact
<1>6. Fails(content, "BrokenAtEntry") = "Intact" <=> ~content
  BY <1>1, FailsIntact
<1> QED BY <1>2, <1>3, <1>4, <1>5, <1>6, ThenIntact

LEMMA HmacIntact ==
  ASSUME NEW e
  PROVE  /\ CheckHmac(e, NoKey) = "Intact"
         /\ CheckHmac(e, Key) = "Intact" <=> e.tag = TagOf(Key, e.hash, e.id)
<1>1. TagOf(Key, e.hash, e.id) # NoTag
  BY TagInjective
<1> QED BY <1>1, KeyIsNotEmpty DEF CheckHmac, Then, Fails

(* The hash of an entry that passes is the hash of its own content and link.  *)
LEMMA PassesHash ==
  ASSUME IInv, NEW es \in SUBSET DOMAIN rows, NEW s \in es, Passes(es, s)
  PROVE  rows[s].hash = HashOf(rows[s], OwnPrev(rows[s]))
<1>1. CASE IsFirst(es, s)
  BY <1>1 DEF Passes, CheckHash, PrevForHashing
<1>2. CASE ~IsFirst(es, s)
  <2>1. Pred(es, s) \in DOMAIN rows
    BY <1>2, PredInSlice
  <2>2. IsHash(rows[Pred(es, s)].hash)
    BY <2>1 DEF IInv, RowInv, RowOk
  <2>3. rows[s].prev = rows[Pred(es, s)].hash
        /\ rows[s].hash = HashOf(rows[s], rows[Pred(es, s)].hash)
    BY <1>2 DEF Passes, CheckLink, CheckHash, PrevForHashing
  <2>4. OwnPrev(rows[s]) = rows[Pred(es, s)].hash
    BY <2>2, <2>3 DEF OwnPrev, IsHash
  <2> QED BY <2>3, <2>4
<1> QED BY <1>1, <1>2

(* Two entries with one hash, the hash of their content, agree on all columns *)
(* but the tag.                                                               *)
LEMMA SameHash ==
  ASSUME NEW r, NEW q, r.hash = HashOf(r, OwnPrev(r)), q.hash = HashOf(q, OwnPrev(q)),
         r.prev # GENESIS, q.prev # GENESIS, r.hash = q.hash
  PROVE  r.seq = q.seq /\ r.id = q.id /\ r.body = q.body /\ r.prev = q.prev
<1>1. HashOf(r, OwnPrev(r)) = HashOf(q, OwnPrev(q))
  OBVIOUS
<1>2. OwnPrev(r) = OwnPrev(q) /\ r.seq = q.seq /\ r.id = q.id /\ r.body = q.body
  BY <1>1, HashInjective
<1> QED BY <1>2, OwnPrevInjective

(* An entry that passes, tag included, is one the agent wrote.                *)
LEMMA PassesAuthored ==
  ASSUME IInv, NEW es \in SUBSET DOMAIN rows, NEW s \in es, Passes(es, s),
         CheckHmac(rows[s], Key) = "Intact"
  PROVE  rows[s] \in authored
<1> DEFINE r == rows[s]
<1>1. r.hash = HashOf(r, OwnPrev(r))
  BY PassesHash
<1>2. r.tag = TagOf(Key, r.hash, r.id)
  BY HmacIntact
<1>3. RowOk(r, nextId, authored)
  BY DEF IInv, RowInv
<1> HIDE DEF r
<1>4. r.tag # NoTag
  BY <1>2, TagInjective
<1>5. PICK q \in authored : q.tag = r.tag
  BY <1>3, <1>4 DEF RowOk
<1>6. WellMade(q)
  BY DEF IInv, AuthoredInv, Made
<1>7. q.tag = TagOf(q.tag[1], q.hash, q.id)
  BY <1>6 DEF WellMade
<1>8. r.hash = q.hash
  BY <1>2, <1>5, <1>7, TagInjective
<1>9. r.seq = q.seq /\ r.id = q.id /\ r.body = q.body /\ r.prev = q.prev
  BY <1>1, <1>3, <1>6, <1>8, SameHash DEF RowOk, WellMade
<1>10. r = q
  BY <1>3, <1>5, <1>6, <1>8, <1>9 DEF RowOk, WellMade, IsEntry
<1> QED BY <1>10 DEF r

(* A slice whose entries pass has no gap. *)
LEMMA NoGap ==
  ASSUME IInv, NEW es \in SUBSET DOMAIN rows, \A s \in es : Passes(es, s),
         NEW a \in es, NEW b \in es, NEW t \in a..b
  PROVE  t \in es
<1> SUFFICES ASSUME t \notin es PROVE FALSE
  OBVIOUS
<1>0. es \subseteq Nat
  BY RowSeqs
<1> DEFINE above == {x \in es : x > t}
<1>1. b \in above /\ above \in SUBSET Nat
  BY <1>0
<1>2. PICK c \in above : \A x \in above : c <= x
  <2> HIDE DEF above
  <2> QED BY <1>1, Least
<1>3. c \in es /\ c > t /\ c \in Nat /\ t \in Int /\ a \in Nat /\ a < c
  BY <1>0
<1>4. ~IsFirst(es, c)
  BY <1>3 DEF IsFirst
<1>5. Pred(es, c) \in es /\ c = Pred(es, c) + 1
  BY <1>3, <1>4, PredInSlice DEF Passes, CheckLink
<1>6. Pred(es, c) \in Nat
  BY <1>0, <1>5
<1>7. Pred(es, c) # t
  BY <1>5
<1>8. Pred(es, c) > t
  BY <1>3, <1>5, <1>6, <1>7
<1>9. Pred(es, c) \in above
  BY <1>5, <1>8
<1>10. c <= Pred(es, c)
  BY <1>2, <1>9
<1> QED BY <1>5, <1>6, <1>10, <1>3

LEMMA HeadIntact ==
  ASSUME IInv, NEW es \in SUBSET DOMAIN rows, NEW key
  PROVE  CheckHeadCommitment(es, pinned, key) = "Intact" <=>
           /\ key = NoKey \/ pinned.mac = HeadMac(key, pinned, pinned.seq + 1)
           /\ pinned.seq = FinalSeq(es) /\ pinned.hash = FinalHash(es)
<1> DEFINE mac == key # NoKey /\ pinned.mac # HeadMac(key, pinned, pinned.seq + 1)
           short == pinned.seq > FinalSeq(es)
           other == pinned.hash # FinalHash(es) \/ pinned.seq # FinalSeq(es)
<1>1. mac \in BOOLEAN /\ short \in BOOLEAN /\ other \in BOOLEAN
  OBVIOUS
<1>2. CheckHeadCommitment(es, pinned, key) =
        Then(Fails(mac, "HeadMacMismatch"),
             Then(Fails(short, "TruncationDetected"), Fails(other, "HeadHashMismatch")))
  BY DEF CheckHeadCommitment
<1>3. pinned.seq \in Int
  BY AuditChainAssumption DEF IInv, HeadInv, HeadOk
<1>4. ~other => ~short
  BY <1>3
<1> HIDE DEF mac, short, other
<1>5. /\ Fails(mac, "HeadMacMismatch") = "Intact" <=> ~mac
      /\ Fails(short, "TruncationDetected") = "Intact" <=> ~short
      /\ Fails(other, "HeadHashMismatch") = "Intact" <=> ~other
  BY <1>1, FailsIntact
<1>6. CheckHeadCommitment(es, pinned, key) = "Intact" <=> ~mac /\ ~other
  BY <1>2, <1>4, <1>5, ThenIntact
<1> QED BY <1>6 DEF mac, other

(* The last entry of a slice. *)
LEMMA Tip ==
  ASSUME IInv, NEW es \in SUBSET DOMAIN rows, es # {}
  PROVE  /\ FinalSeq(es) \in es /\ FinalHash(es) = rows[FinalSeq(es)].hash
         /\ \A s \in es : s <= FinalSeq(es)
<1> DEFINE n == nextId - 1
<1>1. n \in Nat /\ es \in SUBSET (0..n)
  BY RowSeqs
<1> HIDE DEF n
<1>2. Max(es) \in es /\ \A y \in es : y <= Max(es)
  BY <1>1, Greatest
<1> QED BY <1>2 DEF FinalSeq, FinalHash

(* A full pass and a pass over a range. *)
LEMMA RangeIntact ==
  ASSUME IInv, NEW from, NEW to, NEW key
  PROVE  LET es == SliceEntries(from, to)
         IN VerifyRange(from, to, key) = "Intact" <=>
              /\ from = NoId /\ to = NoId => CheckGenesisAnchor(es)
              /\ \A s \in es : Passes(es, s) /\ CheckHmac(rows[s], key) = "Intact"
              /\ from = NoId /\ to = NoId => CheckHeadCommitment(es, pinned, key) = "Intact"
<1> DEFINE es == SliceEntries(from, to)
           full == from = NoId /\ to = NoId
           anchor == full /\ ~CheckGenesisAnchor(es)
           head == IF full THEN CheckHeadCommitment(es, pinned, key) ELSE "Intact"
<1>1. es \in SUBSET DOMAIN rows
  BY DEF SliceEntries, SliceFrom
<1>2. VerifyRange(from, to, key) =
        Then(Fails(anchor, "GenesisAnchorMissing"), Then(Walk(es, key, 0), head))
  BY DEF VerifyRange
<1>3. Fails(anchor, "GenesisAnchorMissing") = "Intact" <=> ~anchor
  <2>1. anchor \in BOOLEAN
    OBVIOUS
  <2> HIDE DEF anchor
  <2> QED BY <2>1, FailsIntact
<1>4. Walk(es, key, 0) = "Intact" <=>
        \A s \in es : Passes(es, s) /\ CheckHmac(rows[s], key) = "Intact"
  <2>1. \A s \in es : s >= 0
    BY <1>1, RowSeqs
  <2> HIDE DEF es
  <2>2. Walk(es, key, 0) = "Intact" <=> \A s \in es : EntryOutcome(es, s, key, 0) = "Intact"
    BY <1>1, WalkIntact
  <2>3. \A s \in es : EntryOutcome(es, s, key, 0) = "Intact" <=>
          Passes(es, s) /\ CheckHmac(rows[s], key) = "Intact"
    BY <2>1, EntryIntact
  <2> QED BY <2>2, <2>3
<1> HIDE DEF es
<1>5. VerifyRange(from, to, key) = "Intact" <=>
        ~anchor /\ Walk(es, key, 0) = "Intact" /\ head = "Intact"
  <2> HIDE DEF anchor, head
  <2> QED BY <1>2, <1>3, ThenIntact
<1>6. VerifyRange(from, to, key) = "Intact" <=>
              /\ from = NoId /\ to = NoId => CheckGenesisAnchor(es)
              /\ \A s \in es : Passes(es, s) /\ CheckHmac(rows[s], key) = "Intact"
              /\ from = NoId /\ to = NoId => CheckHeadCommitment(es, pinned, key) = "Intact"
  BY <1>4, <1>5
<1> QED BY <1>6 DEF es

LEMMA FullIntact ==
  ASSUME IInv, NEW key
  PROVE  VerifyFull(key) = "Intact" <=>
           /\ CheckGenesisAnchor(DOMAIN rows)
           /\ \A s \in DOMAIN rows : Passes(DOMAIN rows, s) /\ CheckHmac(rows[s], key) = "Intact"
           /\ CheckHeadCommitment(DOMAIN rows, pinned, key) = "Intact"
<1>1. LET es == SliceEntries(NoId, NoId)
      IN VerifyRange(NoId, NoId, key) = "Intact" <=>
              /\ NoId = NoId /\ NoId = NoId => CheckGenesisAnchor(es)
              /\ \A s \in es : Passes(es, s) /\ CheckHmac(rows[s], key) = "Intact"
              /\ NoId = NoId /\ NoId = NoId => CheckHeadCommitment(es, pinned, key) = "Intact"
  BY RangeIntact
<1> QED BY <1>1, FullSlice DEF VerifyFull

(* Every entry passes, and from a seq on its tag does.                        *)
TagsPass(from) == \A s \in DOMAIN rows :
  Passes(DOMAIN rows, s) /\ (s >= from => CheckHmac(rows[s], Key) = "Intact")

LEMMA BaselineIntact ==
  ASSUME IInv
  PROVE  VerifyFromBaseline(Key) = "Intact" <=>
           /\ baseline.mac = BaselineMac(Key, baseline, baseline.seq + 1)
           /\ CheckGenesisAnchor(DOMAIN rows)
           /\ TagsPass(baseline.seq)
           /\ AnchorOk(DOMAIN rows)
           /\ CheckHeadCommitment(DOMAIN rows, pinned, Key) = "Intact"
<1> DEFINE es == DOMAIN rows
           mac == baseline.mac # BaselineMac(Key, baseline, baseline.seq + 1)
           anchor == ~CheckGenesisAnchor(es)
           missing == ~AnchorOk(es)
           head == CheckHeadCommitment(es, pinned, Key)
<1>1. VerifyFromBaseline(Key) =
        Then(Fails(mac, "BaselineMacMismatch"), Then(Fails(anchor, "GenesisAnchorMissing"),
        Then(Walk(es, Key, baseline.seq), Then(Fails(missing, "BaselineEntryMissing"), head))))
  BY FullSlice DEF VerifyFromBaseline
<1>2. mac \in BOOLEAN /\ anchor \in BOOLEAN /\ missing \in BOOLEAN
  OBVIOUS
<1>3. Walk(es, Key, baseline.seq) = "Intact" <=> TagsPass(baseline.seq)
  <2>1. es \in SUBSET DOMAIN rows
    OBVIOUS
  <2> DEFINE from == baseline.seq
  <2> HIDE DEF es, from
  <2>2. Walk(es, Key, from) = "Intact" <=> \A s \in es : EntryOutcome(es, s, Key, from) = "Intact"
    BY <2>1, WalkIntact
  <2>3. \A s \in es : EntryOutcome(es, s, Key, from) = "Intact" <=>
          /\ Passes(es, s)
          /\ s >= from => CheckHmac(rows[s], Key) = "Intact"
    BY EntryIntact
  <2> QED BY <2>2, <2>3 DEF from, es, TagsPass
<1> HIDE DEF mac, anchor, missing, head, es
<1>4. /\ Fails(mac, "BaselineMacMismatch") = "Intact" <=> ~mac
      /\ Fails(anchor, "GenesisAnchorMissing") = "Intact" <=> ~anchor
      /\ Fails(missing, "BaselineEntryMissing") = "Intact" <=> ~missing
  BY <1>2, FailsIntact
<1>5. VerifyFromBaseline(Key) = "Intact" <=>
        ~mac /\ ~anchor /\ Walk(es, Key, baseline.seq) = "Intact" /\ ~missing /\ head = "Intact"
  BY <1>1, <1>4, ThenIntact
<1> QED BY <1>3, <1>5 DEF mac, anchor, missing, head, es

(* Whichever pass VerifyChainQuery takes. *)
LEMMA ChainIntactMeans ==
  ASSUME IInv, VerifyChain = "Intact"
  PROVE  /\ pinned # NoRecord
         /\ CheckGenesisAnchor(DOMAIN rows)
         /\ \A s \in DOMAIN rows :
              /\ Passes(DOMAIN rows, s)
              /\ baseline = NoRecord \/ s >= baseline.seq => CheckHmac(rows[s], Key) = "Intact"
         /\ CheckHeadCommitment(DOMAIN rows, pinned, Key) = "Intact"
         /\ baseline # NoRecord =>
              /\ baseline.mac = BaselineMac(Key, baseline, baseline.seq + 1)
              /\ AnchorOk(DOMAIN rows)
<1>1. pinned # NoRecord
  BY DEF VerifyChain
<1>2. CASE baseline = NoRecord
  <2>1. VerifyFull(Key) = "Intact"
    BY <1>1, <1>2 DEF VerifyChain
  <2> QED BY <1>1, <1>2, <2>1, FullIntact
<1>3. CASE baseline # NoRecord
  <2>1. VerifyFromBaseline(Key) = "Intact"
    BY <1>1, <1>3 DEF VerifyChain
  <2>2. TagsPass(baseline.seq)
    BY <2>1, BaselineIntact
  <2>3. ASSUME NEW s \in DOMAIN rows
        PROVE  /\ Passes(DOMAIN rows, s)
               /\ baseline = NoRecord \/ s >= baseline.seq => CheckHmac(rows[s], Key) = "Intact"
    BY <1>3, <2>2 DEF TagsPass
  <2> QED BY <1>1, <1>3, <2>1, <2>3, BaselineIntact
<1> QED BY <1>2, <1>3

-----------------------------------------------------------------------------
(* The theorems. *)

LEMMA AuthoredFromIInv == IInv => IntactIsAuthored
<1> SUFFICES ASSUME IInv, VerifyChain = "Intact", NEW r \in TrustedRows PROVE r \in authored
  BY DEF IntactIsAuthored
<1>1. PICK s \in DOMAIN rows : r = rows[s]
  BY DEF TrustedRows, Rows
<1>2. rows[s].seq = s
  BY DEF IInv, RowInv
<1>3. baseline = NoRecord \/ s >= baseline.seq
  BY <1>1, <1>2 DEF TrustedRows
<1>4. Passes(DOMAIN rows, s) /\ CheckHmac(rows[s], Key) = "Intact"
  BY <1>3, ChainIntactMeans
<1>5. DOMAIN rows \in SUBSET DOMAIN rows
  OBVIOUS
<1> QED BY <1>1, <1>4, <1>5, PassesAuthored

(* An Intact verdict of VerifyChainQuery means that the agent wrote every row  *)
(* from the baseline on, column for column, for any number of entries and any  *)
(* damage that needs no key.                                                   *)
THEOREM IntactChainIsAuthored == Spec => []IntactIsAuthored
BY Invariance, AuthoredFromIInv, PTL

(* An Intact verdict: the seqs are those from 0 to that of the head.          *)
LEMMA IntactIsWhole ==
  ASSUME IInv, VerifyChain = "Intact"
  PROVE  DOMAIN rows = 0..pinned.seq
<1> DEFINE es == DOMAIN rows
<1>1. es \in SUBSET DOMAIN rows /\ \A s \in es : Passes(es, s)
  BY ChainIntactMeans
<1>2. pinned.seq = FinalSeq(es) /\ pinned.hash = FinalHash(es)
  BY <1>1, ChainIntactMeans, HeadIntact
<1>3. pinned.seq \in Int /\ (pinned.seq = -1 => pinned.hash = GENESIS)
      /\ (pinned.seq # -1 => IsHash(pinned.hash))
  BY AuditChainAssumption DEF IInv, HeadInv, HeadOk, CountInv
<1>4. es # {}
  <2> SUFFICES ASSUME es = {} PROVE FALSE
    OBVIOUS
  <2>1. FinalSeq(es) = 0 /\ FinalHash(es) = GENESIS
    BY DEF FinalSeq, FinalHash
  <2> QED BY <1>2, <1>3, <2>1 DEF IsHash
<1>5. 0 \in es
  BY <1>4, ChainIntactMeans DEF CheckGenesisAnchor
<1>6. es \subseteq Nat
  BY RowSeqs
<1> HIDE DEF es
<1>7. pinned.seq \in es /\ \A s \in es : s <= pinned.seq
  BY <1>1, <1>2, <1>4, Tip
<1>8. \A t \in 0..pinned.seq : t \in es
  BY <1>1, <1>5, <1>7, NoGap
<1>9. \A s \in es : s \in 0..pinned.seq
  BY <1>3, <1>6, <1>7
<1>10. es = 0..pinned.seq
  BY <1>8, <1>9
<1> QED BY <1>10 DEF es

LEMMA AnchoredFromIInv == IInv => IntactIsAnchored
<1> SUFFICES ASSUME IInv, VerifyChain = "Intact" PROVE IntactIsAnchored
  BY DEF IntactIsAnchored, BaselineHolds, IntactIsComplete
<1>1. DOMAIN rows = 0..pinned.seq /\ pinned.seq \in Int
  BY IntactIsWhole DEF IInv, HeadInv, HeadOk
<1>2. IntactIsComplete
  BY <1>1 DEF IntactIsComplete
<1>3. ASSUME baseline # NoRecord
      PROVE  /\ baseline \in vouched
             /\ baseline.seq \in DOMAIN rows
             /\ rows[baseline.seq].hash = baseline.hash
             /\ Chained(baseline.seq)
  <2>1. baseline.mac = BaselineMac(Key, baseline, baseline.seq + 1) /\ AnchorOk(DOMAIN rows)
    BY <1>3, ChainIntactMeans
  <2>2. baseline.seq \in DOMAIN rows /\ rows[baseline.seq].hash = baseline.hash
    BY <2>1 DEF AnchorOk
  <2>3. PICK v \in vouched : v.mac = baseline.mac
    BY <2>1, BaselineMacInjective DEF IInv, BaselineInv
  <2>4. IsRecord(v) /\ v.mac = BaselineMac(Key, v, v.seq + 1) /\ IsRecord(baseline)
    BY DEF IInv, BaselineInv
  <2>5. v.hash = baseline.hash /\ v.seq = baseline.seq /\ v.id = baseline.id
    BY <2>1, <2>3, <2>4, BaselineMacInjective
  <2>6. baseline \in vouched
    BY <2>3, <2>4, <2>5 DEF IsRecord
  <2>7. ASSUME NEW t \in 1..baseline.seq
        PROVE  t \in DOMAIN rows /\ t - 1 \in DOMAIN rows /\ rows[t].prev = rows[t - 1].hash
    <3> DEFINE es == DOMAIN rows
    <3>1. t \in es /\ t - 1 \in es /\ es \in SUBSET DOMAIN rows
      BY <1>1, <2>2
    <3>2. Passes(es, t)
      BY <3>1, ChainIntactMeans
    <3>3. ~IsFirst(es, t)
      BY <3>1 DEF IsFirst
    <3> HIDE DEF es
    <3>4. CheckLink(es, t)
      BY <3>2, <3>3 DEF Passes
    <3>5. t = Pred(es, t) + 1 /\ rows[t].prev = rows[Pred(es, t)].hash
      BY <3>4 DEF CheckLink
    <3>6. Pred(es, t) \in es
      BY <3>1, <3>3, PredInSlice
    <3>7. Pred(es, t) \in Int
      BY <3>6, RowSeqs DEF es
    <3>8. Pred(es, t) = t - 1
      BY <3>5, <3>7
    <3> QED BY <3>1, <3>5, <3>8 DEF es
  <2> QED BY <2>2, <2>6, <2>7 DEF Chained
<1> QED BY <1>2, <1>3 DEF IntactIsAnchored, BaselineHolds

(* With a baseline, Intact means that it is one the agent pinned and that the  *)
(* chain still holds the prefix it was pinned on; with the head of the latest  *)
(* commit in place, that no entry is missing at either end.                    *)
THEOREM IntactChainIsAnchored == Spec => []IntactIsAnchored
BY Invariance, AnchoredFromIInv, PTL

LEMMA TypeFromIInv == IInv => TypeOK
<1> SUFFICES ASSUME IInv PROVE TypeOK
  OBVIOUS
<1>1. nextId \in 1..(MaxLegacy + MaxAppends + 1) /\ MaxLegacy + MaxAppends \in Nat
  BY AuditChainAssumption DEF IInv, CountInv
<1>2. \A x \in -1..(nextId - 1) : x \in -1..(MaxLegacy + MaxAppends)
  BY <1>1
<1>3. pinned.seq \in -1..(nextId - 1) /\ log.seq \in -1..(nextId - 1)
      /\ baseline.seq \in -1..(nextId - 1)
  BY DEF IInv, HeadInv, HeadOk, BaselineInv
<1>4. DOMAIN rows \subseteq Nat
  BY RowSeqs
<1> QED BY <1>2, <1>3, <1>4 DEF TypeOK, IInv, CountInv, RowInv

(* Without a key: an untouched head vouches for all columns but the tags.     *)
LEMMA HashOnlyFromIInv == IInv => HashOnlySound
<1> SUFFICES ASSUME IInv, ExtendedOwnEntries, pinned = lastHead, VerifyFull(NoKey) = "Intact",
                    NEW r \in Rows
             PROVE  \E q \in authored : Untagged(q) = Untagged(r)
  BY DEF HashOnlySound
<1> DEFINE es == DOMAIN rows
           n == nextId - 1
<1>1. es \in SUBSET DOMAIN rows /\ \A s \in es : Passes(es, s)
  BY FullIntact
<1>2. pinned.seq = FinalSeq(es) /\ pinned.hash = FinalHash(es)
  BY <1>1, FullIntact, HeadIntact
<1>3. PICK x \in es : r = rows[x]
  BY DEF Rows
<1>4. n \in Nat /\ es \in SUBSET (0..n) /\ \A s \in es : s \in Nat
  BY RowSeqs
<1>5. \A s \in es : IsHash(rows[s].hash) /\ rows[s].prev # GENESIS
  BY DEF IInv, RowInv, RowOk
<1>6. \A s \in es : rows[s].hash = HashOf(rows[s], OwnPrev(rows[s]))
  BY <1>1, PassesHash
<1> HIDE DEF es, n
<1>7. pinned.seq \in es /\ pinned.hash = rows[pinned.seq].hash /\ \A s \in es : s <= pinned.seq
  BY <1>1, <1>2, <1>3, Tip
<1>8. PICK top \in authored : lastHead = PinnedHead(top.tag[1], top)
  <2>1. pinned.seq # -1
    BY <1>4, <1>7
  <2>2. pinned # NoRecord
    BY <2>1 DEF NoRecord
  <2> QED BY <2>2 DEF IInv, HeadInv
<1>9. top.hash = rows[pinned.seq].hash
  <2>1. PinnedHead(top.tag[1], top).hash = top.hash
    BY PinnedHeadFields
  <2> QED BY <1>7, <1>8, <2>1
<1>10. \A q \in authored : q.hash = HashOf(q, OwnPrev(q)) /\ q.prev # GENESIS
  BY DEF IInv, AuthoredInv, Made, WellMade
<1> DEFINE bad == {s \in es : \A q \in authored : q.hash # rows[s].hash}
<1>11. bad = {}
  <2> SUFFICES ASSUME bad # {} PROVE FALSE
    OBVIOUS
  <2>1. bad \in SUBSET (0..n)
    BY <1>4
  <2>2. PICK s \in bad : \A y \in bad : y <= s
    <3> HIDE DEF bad
    <3> QED BY <1>4, <2>1, Greatest
  <2>3. s \in es /\ s \in Nat /\ s # pinned.seq
    <3>1. s \in es /\ \A q \in authored : q.hash # rows[s].hash
      BY <2>2
    <3> QED BY <1>4, <1>9, <3>1
  <2>4. s + 1 \in s..pinned.seq
    <3>1. pinned.seq \in Nat /\ s <= pinned.seq
      BY <1>4, <1>7, <2>3
    <3> QED BY <2>3, <3>1
  <2>5. s + 1 \in es
    BY <1>1, <1>7, <2>3, <2>4, NoGap
  <2>6. s + 1 \notin bad
    BY <2>2, <2>3
  <2>7. PICK q \in authored : q.hash = rows[s + 1].hash
    BY <2>5, <2>6
  <2>8. rows[s + 1].prev = q.prev
    BY <1>5, <1>6, <1>10, <2>5, <2>7, SameHash
  <2>9. rows[s + 1].prev = rows[s].hash
    <3>1. ~IsFirst(es, s + 1)
      BY <2>3 DEF IsFirst
    <3>2. s + 1 = Pred(es, s + 1) + 1 /\ rows[s + 1].prev = rows[Pred(es, s + 1)].hash
      BY <1>1, <2>5, <3>1 DEF Passes, CheckLink
    <3>3. Pred(es, s + 1) \in es
      BY <1>1, <2>5, <3>1, PredInSlice
    <3>4. Pred(es, s + 1) \in Int
      <4>1. \A y \in es : y \in Int
        BY <1>4
      <4> QED BY <3>3, <4>1
    <3>5. ASSUME NEW y \in Int, s + 1 = y + 1 PROVE y = s
      BY <2>3, <3>5
    <3>6. Pred(es, s + 1) = s
      BY <3>2, <3>4, <3>5
    <3> QED BY <3>2, <3>6
  <2>10. q.prev # NoPrev
    BY <1>5, <2>3, <2>8, <2>9 DEF IsHash
  <2>11. \E w \in authored : w.hash = q.prev
    BY <2>10 DEF ExtendedOwnEntries
  <2> QED BY <2>2, <2>8, <2>9, <2>11
<1>12. PICK q \in authored : q.hash = rows[x].hash
  BY <1>3, <1>11
<1>13. q.seq = r.seq /\ q.id = r.id /\ q.body = r.body /\ q.prev = r.prev
  BY <1>3, <1>5, <1>6, <1>10, <1>12, SameHash
<1> QED BY <1>3, <1>12, <1>13 DEF Untagged

(* A range that verifies, both ends included. *)
LEMMA RangeFromIInv == IInv => RangeSound
<1> SUFFICES ASSUME IInv, NEW from \in 1..(nextId - 1), NEW to \in 1..(nextId - 1),
                    VerifyRange(from, to, Key) = "Intact",
                    NEW r \in Rows, NEW q \in Rows, r.id = from, q.id = to, r.seq <= q.seq,
                    NEW s \in r.seq..q.seq
             PROVE  s \in DOMAIN rows /\ rows[s] \in authored
  BY DEF RangeSound
<1> DEFINE es == SliceEntries(from, to)
<1>1. es \in SUBSET DOMAIN rows
  BY DEF SliceEntries, SliceFrom
<1>2. \A u \in es : Passes(es, u) /\ CheckHmac(rows[u], Key) = "Intact"
  BY RangeIntact
<1>3. PICK a \in DOMAIN rows : r = rows[a]
  BY DEF Rows
<1>4. PICK b \in DOMAIN rows : q = rows[b]
  BY DEF Rows
<1>5. a = r.seq /\ b = q.seq /\ a \in Nat /\ b \in Nat
  BY <1>3, <1>4, RowSeqs DEF IInv, RowInv
<1>6. a \in SliceFrom(from) /\ b \in SliceFrom(from)
  BY <1>3, <1>4, <1>5 DEF SliceFrom
<1>7. \A t \in SliceFrom(from) : rows[t].id = to => t = b
  BY <1>4 DEF SliceFrom, IInv, RowInv
<1>8. a \in es /\ b \in es
  BY <1>5, <1>6, <1>7 DEF SliceEntries
<1> HIDE DEF es
<1>9. s \in es
  BY <1>1, <1>2, <1>5, <1>8, NoGap
<1>10. rows[s] \in authored
  BY <1>1, <1>2, <1>9, PassesAuthored
<1> QED BY <1>1, <1>9, <1>10

(* The passes that check less are sound within their limits, on well-typed     *)
(* tables: a hash-only pass by the hashes below an untouched head, a pass over *)
(* a range by its tags.                                                        *)
THEOREM WeakerModesAreSound == Spec => []ModesSound
<1>1. IInv => ModesSound
  BY TypeFromIInv, HashOnlyFromIInv, RangeFromIInv DEF ModesSound
<1> QED BY <1>1, Invariance, PTL

(* On an undamaged chain every entry passes. *)
LEMMA CleanPasses ==
  ASSUME IInv, Clean, NEW s \in DOMAIN rows
  PROVE  Passes(DOMAIN rows, s) /\ rows[s] \in authored /\ WellMade(rows[s])
<1> DEFINE es == DOMAIN rows
<1>0. es \in SUBSET DOMAIN rows /\ es = 0..log.seq /\ log.seq \in Int /\ s \in es /\ s \in Nat
  BY RowSeqs DEF Clean, IInv, HeadInv, HeadOk
<1>1. rows[s] \in authored
  BY DEF Clean, Rows
<1>2. WellMade(rows[s])
  BY <1>1 DEF IInv, AuthoredInv, Made
<1>3. Follows(s)
  BY DEF Clean
<1>4. CASE s = 0
  <2>1. IsFirst(es, s)
    BY <1>0, <1>4 DEF IsFirst
  <2>2. CheckHash(es, s)
    BY <1>2, <2>1 DEF CheckHash, PrevForHashing, WellMade
  <2> QED BY <1>1, <1>2, <2>1, <2>2 DEF Passes
<1>5. CASE s # 0
  <2>1. s - 1 \in es /\ s - 1 < s
    BY <1>0, <1>5
  <2>2. ~IsFirst(es, s)
    BY <1>0, <2>1 DEF IsFirst
  <2> HIDE DEF es
  <2>3. Pred(es, s) \in es /\ Pred(es, s) < s /\ s - 1 <= Pred(es, s)
    BY <1>0, <2>1, <2>2, PredInSlice
  <2>4. Pred(es, s) \in Int
    BY <1>0, <2>3
  <2>5. Pred(es, s) = s - 1
    BY <1>0, <2>3, <2>4
  <2>6. rows[s].prev = rows[s - 1].hash
    BY <1>3, <1>5 DEF Follows
  <2>7. CheckLink(es, s)
    BY <1>0, <2>5, <2>6 DEF CheckLink
  <2>8. IsHash(rows[s - 1].hash)
    BY <2>1 DEF es, IInv, RowInv, RowOk
  <2>9. OwnPrev(rows[s]) = rows[s - 1].hash
    BY <2>6, <2>8 DEF OwnPrev, IsHash
  <2>10. CheckHash(es, s)
    BY <1>2, <2>2, <2>5, <2>9 DEF CheckHash, PrevForHashing, WellMade
  <2> QED BY <1>1, <1>2, <2>7, <2>10 DEF Passes, es
<1> QED BY <1>4, <1>5

LEMMA NoFalseAlarmFromIInv == IInv => NoFalseAlarm
<1> SUFFICES ASSUME IInv, damage = 0, authored # {}, OwnKeyOnly \/ baseline # NoRecord
             PROVE  VerifyChain = "Intact"
  BY DEF NoFalseAlarm
<1> DEFINE es == DOMAIN rows
<1>1. Clean
  BY DEF IInv, CleanInv
<1>2. es = 0..log.seq /\ authored = Rows /\ log.seq \in Int /\ es \in SUBSET DOMAIN rows
  BY <1>1 DEF Clean, IInv, HeadInv, HeadOk
<1>3. es # {}
  BY <1>2 DEF Rows
<1>4. log.seq \in es /\ 0 \in es /\ log.seq # -1 /\ \A s \in es : s <= log.seq
  BY <1>2, <1>3
<1>5. \A s \in es : Passes(es, s) /\ rows[s] \in authored /\ WellMade(rows[s])
  BY <1>1, CleanPasses
<1>6. \A s \in es : rows[s].tag[1] = Key => CheckHmac(rows[s], Key) = "Intact"
  <2> SUFFICES ASSUME NEW s \in es, rows[s].tag[1] = Key
               PROVE  CheckHmac(rows[s], Key) = "Intact"
    OBVIOUS
  <2>1. rows[s].tag = TagOf(rows[s].tag[1], rows[s].hash, rows[s].id)
    BY <1>5 DEF WellMade
  <2> QED BY <2>1, HmacIntact
<1>7. CheckGenesisAnchor(es)
  BY <1>1, <1>4 DEF CheckGenesisAnchor, Clean, Follows
<1>8. rows[log.seq].seq = log.seq
  BY <1>4 DEF IInv, RowInv
<1>9. pinned = PinnedHead(rows[log.seq].tag[1], rows[log.seq])
  BY <1>1, <1>4 DEF Clean, CleanHead
<1>10. pinned.seq = log.seq /\ pinned.hash = rows[log.seq].hash
       /\ pinned.mac = HeadMac(rows[log.seq].tag[1], pinned, log.seq + 1)
  BY <1>8, <1>9, PinnedHeadFields
<1>11. pinned # NoRecord
  BY <1>4, <1>10 DEF NoRecord
<1>12. FinalSeq(es) = log.seq /\ FinalHash(es) = rows[log.seq].hash
  <2> HIDE DEF es
  <2>1. FinalSeq(es) \in es /\ FinalHash(es) = rows[FinalSeq(es)].hash
        /\ \A s \in es : s <= FinalSeq(es)
    BY <1>2, <1>3, Tip
  <2>2. FinalSeq(es) \in Int /\ FinalSeq(es) <= log.seq /\ log.seq <= FinalSeq(es)
    BY <1>2, <1>4, <2>1
  <2>3. FinalSeq(es) = log.seq
    BY <1>2, <2>2
  <2> QED BY <2>1, <2>3
<1>13. rows[log.seq].tag[1] = Key => CheckHeadCommitment(es, pinned, Key) = "Intact"
  BY <1>2, <1>10, <1>12, HeadIntact
<1>14. CASE baseline = NoRecord
  <2>1. OwnKeyOnly
    BY <1>14
  <2>2. \A s \in es : rows[s].tag[1] = Key
    BY <1>5, <2>1 DEF OwnKeyOnly
  <2>3. VerifyFull(Key) = "Intact"
    BY <1>4, <1>5, <1>6, <1>7, <1>13, <2>2, FullIntact
  <2> QED BY <1>11, <1>14, <2>3 DEF VerifyChain
<1>15. CASE baseline # NoRecord
  <2>1. /\ baseline.seq \in 0..log.seq
        /\ rows[baseline.seq].hash = baseline.hash
        /\ baseline.mac = BaselineMac(Key, baseline, baseline.seq + 1)
        /\ \A s \in baseline.seq..log.seq : rows[s].tag[1] = Key
    BY <1>1, <1>15 DEF Clean, CleanBaseline
  <2>2. \A s \in es : s >= baseline.seq => rows[s].tag[1] = Key
    BY <1>2, <2>1
  <2>3. TagsPass(baseline.seq)
    BY <1>5, <1>6, <2>2 DEF TagsPass
  <2>4. AnchorOk(es)
    BY <1>2, <2>1 DEF AnchorOk
  <2>5. rows[log.seq].tag[1] = Key
    BY <1>2, <2>1
  <2>6. VerifyFromBaseline(Key) = "Intact"
    BY <1>7, <1>13, <2>1, <2>3, <2>4, <2>5, BaselineIntact
  <2> QED BY <1>11, <1>15, <2>6 DEF VerifyChain
<1> QED BY <1>14, <1>15

(* A chain that nothing damaged verifies Intact after any mix of appends,      *)
(* re-baselines and restarts, entries of an earlier key below the baseline     *)
(* included.                                                                   *)
THEOREM NeverAFalseAlarm == Spec => []NoFalseAlarm
BY Invariance, NoFalseAlarmFromIInv, PTL

LEMMA TailLossFromIInv == IInv => TailLossNamed
<1> SUFFICES ASSUME IInv, TailLost, Walk(DOMAIN rows, Key, 0) = "Intact"
             PROVE  VerifyChain =
                      IF lastHead.seq > 0 THEN "TruncationDetected" ELSE "HeadHashMismatch"
  BY DEF TailLossNamed
<1> DEFINE es == DOMAIN rows
<1>1. pinned = lastHead /\ baseline = NoRecord /\ OwnKeyOnly /\ Rows \subseteq authored
  BY DEF TailLost
<1>2. PICK n \in 0..lastHead.seq : es = 0..(n - 1)
  BY DEF TailLost
<1>3. lastHead.seq \in Int
  BY <1>1 DEF IInv, HeadInv, HeadOk
<1>4. lastHead.seq >= 0 /\ n \in Int /\ n >= 0 /\ n <= lastHead.seq
  BY <1>2, <1>3
<1>5. lastHead # NoRecord
  BY <1>4 DEF NoRecord
<1>6. PICK top \in authored : lastHead = PinnedHead(top.tag[1], top)
  BY <1>5 DEF IInv, HeadInv
<1>7. top.tag[1] = Key
  BY <1>1, <1>6 DEF OwnKeyOnly
<1>8. lastHead.mac = HeadMac(Key, lastHead, lastHead.seq + 1)
  BY <1>6, <1>7, PinnedHeadFields
<1>9. IsHash(lastHead.hash)
  BY <1>1, <1>4 DEF IInv, HeadInv, HeadOk
<1>10. CheckGenesisAnchor(es)
  <2> SUFFICES ASSUME es # {} PROVE 0 \in es /\ rows[0].prev = NoPrev
    BY DEF CheckGenesisAnchor
  <2>1. 0 \in es
    BY <1>2, <1>4
  <2>2. rows[0] \in authored /\ rows[0].seq = 0
    BY <1>1, <2>1 DEF Rows, IInv, RowInv
  <2>3. WellMade(rows[0])
    BY <2>2 DEF IInv, AuthoredInv, Made
  <2> QED BY <2>1, <2>2, <2>3 DEF WellMade
<1>11. VerifyChain = CheckHeadCommitment(es, pinned, Key)
  <2>1. VerifyChain = VerifyRange(NoId, NoId, Key)
    BY <1>1, <1>5 DEF VerifyChain, VerifyFull
  <2>2. VerifyRange(NoId, NoId, Key) =
          Then(Fails(~CheckGenesisAnchor(es), "GenesisAnchorMissing"),
               Then(Walk(es, Key, 0), CheckHeadCommitment(es, pinned, Key)))
    BY FullSlice DEF VerifyRange
  <2> QED BY <1>10, <2>1, <2>2 DEF Then, Fails
<1>12. CheckHeadCommitment(es, pinned, Key) =
         IF pinned.seq > FinalSeq(es) THEN "TruncationDetected"
         ELSE IF pinned.hash # FinalHash(es) \/ pinned.seq # FinalSeq(es) THEN "HeadHashMismatch"
         ELSE "Intact"
  BY <1>1, <1>8 DEF CheckHeadCommitment, Then, Fails
<1>13. CASE es = {}
  <2>1. FinalSeq(es) = 0 /\ FinalHash(es) = GENESIS
    BY <1>13 DEF FinalSeq, FinalHash
  <2>2. pinned.hash # FinalHash(es)
    BY <1>1, <1>9, <2>1 DEF IsHash
  <2> QED BY <1>1, <1>11, <1>12, <2>1, <2>2
<1>14. CASE es # {}
  <2>1. es \in SUBSET DOMAIN rows
    OBVIOUS
  <2>2. FinalSeq(es) \in es
    BY <1>14, <2>1, Tip
  <2>3. FinalSeq(es) \in 0..(n - 1)
    BY <1>2, <2>2
  <2>4. pinned.seq > FinalSeq(es) /\ lastHead.seq > 0
    BY <1>1, <1>3, <1>4, <2>3
  <2> QED BY <1>11, <1>12, <2>4
<1> QED BY <1>13, <1>14

(* When the tail of the log is lost under an untouched head, the verdict says  *)
(* so: a truncation, or a head without its entry when nothing is left of a log *)
(* of one.                                                                     *)
THEOREM TailLossIsNamed == Spec => []TailLossNamed
BY Invariance, TailLossFromIInv, PTL

-----------------------------------------------------------------------------
(* The process that runs the verifier.                                        *)

(* The rows and the head the verifier compares are of one moment.             *)
SnapshotInv == snapshot.entries = snapshot.head /\ NoTornAlarm

(* The socket is open from its binding to the signal, which alone cancels;     *)
(* nothing runs in a process that is down or exiting.                         *)
ProcessInv ==
  /\ phase \in {"bound", "spawned", "ready"} => listening
  /\ cancelled => phase = "draining"
  /\ phase \in {"down", "exiting"} => /\ \A t \in Tasks : task[t] = "none"
                                     /\ \A c \in Conns : conn[c] = "none"

AgentIInv == AgentTypeOK /\ ProcessInv /\ SnapshotInv

(* What the end of the process leaves.                                        *)
LEMMA EndStep ==
  ASSUME AgentIInv, NEW how, Killed(how) \/ Returns(how)
  PROVE  AgentIInv'
<1>1. AgentTypeOK' /\ ProcessInv'
  BY AgentAssumption DEF AgentIInv, AgentTypeOK, ProcessInv, Killed, Returns, Dropped
<1>2. SnapshotInv'
  BY DEF AgentIInv, SnapshotInv, NoTornAlarm, Killed, Returns, Dropped, NoSnapshot
<1> QED
  BY <1>1, <1>2 DEF AgentIInv

LEMMA AgentInitIInv == AgentInit => AgentIInv
  BY AgentAssumption DEF AgentInit, AgentIInv, AgentTypeOK, ProcessInv,
         SnapshotInv, NoTornAlarm, NoSnapshot

(* A step that leaves the verifier's findings alone.                          *)
LEMMA AgentFrame ==
  ASSUME AgentIInv, AgentTypeOK', ProcessInv', snapshot' = snapshot, gauge' = gauge
  PROVE  AgentIInv'
  BY DEF AgentIInv, SnapshotInv, NoTornAlarm

LEMMA StartupStep == ASSUME AgentIInv, Startup PROVE AgentIInv'
<1> USE DEF Startup
<1>1. CASE build_app_context
  BY <1>1, AgentFrame DEF build_app_context, AgentIInv, AgentTypeOK, ProcessInv, stored
<1>2. CASE bind
  BY <1>2, AgentFrame DEF bind, AgentIInv, AgentTypeOK, ProcessInv, stored
<1>3. CASE StartFails
  BY <1>3, EndStep DEF StartFails
<1>4. CASE spawn_tasks
  BY <1>4, AgentFrame DEF spawn_tasks, AgentIInv, AgentTypeOK, ProcessInv, stored
<1>5. CASE notify_ready
  BY <1>5, AgentFrame DEF notify_ready, AgentIInv, AgentTypeOK, ProcessInv, stored
<1> QED
  BY <1>1, <1>2, <1>3, <1>4, <1>5

LEMMA ShutdownStep == ASSUME AgentIInv, Shutdown PROVE AgentIInv'
<1>1. CASE wait_for_shutdown
  BY <1>1, AgentFrame DEF wait_for_shutdown, AgentIInv, AgentTypeOK, ProcessInv, stored
<1>2. CASE companion_socket_task
  BY <1>2, AgentFrame DEF companion_socket_task, AgentIInv, AgentTypeOK, ProcessInv, Running, stored
<1>3. CASE Drained
  BY <1>3, EndStep DEF Drained
<1>4. CASE join_all_with_timeout
  BY <1>4, EndStep DEF join_all_with_timeout
<1>5. CASE Crash
  BY <1>5, EndStep DEF Crash
<1>6. ASSUME NEW t \in Tasks, TaskStops(t) PROVE AgentIInv'
  BY <1>6, AgentFrame DEF TaskStops, Set, AgentIInv, AgentTypeOK, ProcessInv, Running, stored, process
<1>7. CASE Exit
  BY <1>7, AgentFrame DEF Exit, AgentIInv, AgentTypeOK, ProcessInv, stored
<1> QED
  BY <1>1, <1>2, <1>3, <1>4, <1>5, <1>6, <1>7 DEF Shutdown

(* A seal, an unseal or a commit keeps the tables in step.                     *)
StoredOK == entries \in 0..MaxEntries /\ headSeq = entries /\ failed \in 0..MaxFailed

LEMMA BoundFacts == MaxEntries \in Nat /\ MaxFailed \in Nat /\ MaxThreads \in Nat
  BY AgentAssumption

LEMMA CommitOK ==
  ASSUME entries \in 0..MaxEntries, headSeq = entries, entries < MaxEntries, CommitEntry
  PROVE  entries' \in 0..MaxEntries /\ headSeq' = entries'
  BY BoundFacts DEF CommitEntry

LEMMA AuditedOK == ASSUME StoredOK, Audited PROVE entries' \in 0..MaxEntries /\ headSeq' = entries'
<1>1. CASE UNCHANGED <<entries, headSeq>>
  BY <1>1 DEF StoredOK
<1>2. CASE entries < MaxEntries /\ CommitEntry
  BY <1>2, CommitOK DEF StoredOK
<1> QED BY <1>1, <1>2 DEF Audited

LEMMA FaultOK ==
  ASSUME failed \in 0..MaxFailed, UNCHANGED failed \/ (failed < MaxFailed /\ failed' = failed + 1)
  PROVE  failed' \in 0..MaxFailed
  BY BoundFacts

LEMMA SealOK == ASSUME StoredOK, seal_vault PROVE StoredOK'
<1>1. CASE UNCHANGED stored
  BY <1>1 DEF StoredOK, stored
<1>2. CASE ~UNCHANGED stored
  <2>1. Audited \/ UNCHANGED <<entries, headSeq>>
    BY <1>2, Zenon DEF seal_vault
  <2>2. entries' \in 0..MaxEntries /\ headSeq' = entries'
    BY <2>1, AuditedOK DEF StoredOK
  <2>3. UNCHANGED failed \/ (failed < MaxFailed /\ failed' = failed + 1)
    BY <1>2, Zenon DEF seal_vault
  <2>4. failed' \in 0..MaxFailed
    BY <2>3, FaultOK DEF StoredOK
  <2> QED BY <2>2, <2>4 DEF StoredOK
<1> QED BY <1>1, <1>2

LEMMA StoredFromType == AgentIInv => StoredOK
  BY DEF AgentIInv, AgentTypeOK, StoredOK

LEMMA ClientStep == ASSUME AgentIInv, NEW c \in Conns, Client(c) PROVE AgentIInv'
<1>1. phase \notin {"down", "exiting"}
  BY DEF Client, Accept, Request, spawn_blocking, Respond, Close, AgentIInv, AgentTypeOK, ProcessInv, Alive
<1>2. CASE Respond(c)
  <2>1. StoredOK'
    <3>1. CASE UNCHANGED stored
      BY <3>1, StoredFromType DEF StoredOK, stored
    <3>2. CASE seal_vault
      BY <3>2, StoredFromType, SealOK
    <3>3. CASE unseal_vault
      BY <3>3, StoredFromType, AuditedOK DEF unseal_vault, StoredOK
    <3>4. CASE entries < MaxEntries /\ CommitEntry /\ UNCHANGED <<sealed, hmac_key, failed>>
      BY <3>4, StoredFromType, AgentAssumption DEF CommitEntry, StoredOK
    <3> QED BY <1>2, <3>1, <3>2, <3>3, <3>4 DEF Respond
  <2> QED
    BY <1>1, <1>2, <2>1, AgentFrame DEF Respond, StoredOK, AgentIInv, AgentTypeOK, ProcessInv, process
<1>3. CASE Accept(c) \/ Request(c) \/ Close(c)
  BY <1>1, <1>3, AgentFrame DEF Accept, Request, Close, AgentIInv, AgentTypeOK, ProcessInv, stored, process
<1>4. CASE spawn_blocking(c)
  BY <1>1, <1>4, AgentFrame, AgentAssumption DEF spawn_blocking, AgentIInv, AgentTypeOK, ProcessInv, stored
<1> QED
  BY <1>2, <1>3, <1>4 DEF Client

LEMMA TaskStep == ASSUME AgentIInv, IdleRelock \/ Verifier \/ \E t \in Tasks : Wake(t) \/ PassEnds(t)
                  PROVE AgentIInv'
<1> USE DEF Set, Tasks
<1>1. phase \notin {"down", "exiting"}
  BY DEF IdleRelock, idle_check, idle_seal, Verifier, verify_check, audit_snapshot, verify, Wake, PassEnds,
         Running, AgentIInv, ProcessInv
<1>2. CASE idle_check \/ verify_check \/ \E t \in Tasks : Wake(t) \/ PassEnds(t)
  BY <1>1, <1>2, AgentFrame
     DEF idle_check, verify_check, Wake, PassEnds, AgentIInv, AgentTypeOK, ProcessInv, stored, process
<1>3. CASE idle_seal
  <2>1. StoredOK'
    BY <1>3, StoredFromType, SealOK DEF idle_seal
  <2> QED
    BY <1>1, <1>3, <2>1, AgentFrame DEF idle_seal, StoredOK, AgentIInv, AgentTypeOK, ProcessInv, process
<1>4. CASE audit_snapshot \/ verify
  <2>1. failed' \in 0..MaxFailed
    BY <1>4, AgentAssumption DEF audit_snapshot, verify, stored, AgentIInv, AgentTypeOK
  <2>2. AgentTypeOK' /\ ProcessInv'
    BY <1>1, <1>4, <2>1 DEF audit_snapshot, verify, AgentIInv, AgentTypeOK, ProcessInv, stored, process
  <2>3. SnapshotInv'
    BY <1>4 DEF audit_snapshot, verify, AgentIInv, AgentTypeOK, SnapshotInv, NoTornAlarm
  <2> QED
    BY <2>2, <2>3 DEF AgentIInv
<1> QED
  BY <1>2, <1>3, <1>4 DEF IdleRelock, Verifier

LEMMA AgentInvariance == AgentSpec => []AgentIInv
<1>1. ASSUME AgentIInv, [AgentNext]_agentVars PROVE AgentIInv'
  <2>1. CASE IdleTimeout
    BY <1>1, <2>1, AgentFrame DEF IdleTimeout, AgentIInv, AgentTypeOK, ProcessInv, stored, process
  <2>2. CASE Unblocked
    BY <1>1, <2>2, AgentFrame, AgentAssumption DEF Unblocked, AgentIInv, AgentTypeOK, ProcessInv, stored
  <2>3. CASE UNCHANGED agentVars
    BY <1>1, <2>3, AgentFrame DEF agentVars, AgentIInv, AgentTypeOK, ProcessInv, stored, process
  <2> QED
    BY <1>1, <2>1, <2>2, <2>3, StartupStep, ShutdownStep, ClientStep, TaskStep DEF AgentNext
<1> QED
  BY <1>1, AgentInitIInv, PTL DEF AgentSpec

-----------------------------------------------------------------------------
(* verify_chain.rs: the periodic verification reports no broken chain because  *)
(* commands commit while it reads.                                             *)
THEOREM NoTornAlarmEver == AgentSpec => []NoTornAlarm
<1>1. AgentIInv => NoTornAlarm
  BY DEF AgentIInv, SnapshotInv
<1> QED
  BY <1>1, AgentInvariance, PTL

-----------------------------------------------------------------------------
(* A keystore of the file adapter: the index lists the accounts that have an  *)
(* entry, each once.                                                          *)
Places(f) == 1..Len(f.ix)
IsStore(f) ==
  /\ f.e \in [Accounts -> Entry] /\ f.e["vrkr"].k = 0
  /\ f.ix \in Seq(Accounts)
  /\ \A i, j \in Places(f) : f.ix[i] = f.ix[j] => i = j
  /\ \A a \in Accounts : f.e[a] # None <=> \E i \in Places(f) : f.ix[i] = a

(* The keystores, and which of them is loaded.                                *)
StoreInv ==
  /\ os \in [Accounts -> Entry] /\ os["vrkr"].k = 0
  /\ IsStore(disk) /\ IsStore(mem)
  /\ running \in {"off", "boot", "os", "file"}
  /\ running # "file" => mem = NoFile
  /\ todo \in Seq(Accounts)

IdentityInv ==
  /\ state \in {"sealed", "unsealing", "unsealed"}
  /\ vault \in Keys /\ hmac \in Keys
  /\ state = "unsealed" <=> vault # 0

(* A ceremony holds the keys it drew, and runs while the agent is up.         *)
Holding == {"init_vrkm", "init_vrkr", "init_audit", "init_params", "init_wrap",
            "rec_vrkm", "rec_vrkr", "rec_put", "rec_open", "rec_audit"}
JobInv ==
  /\ pc \in [Procs -> Labels]
  /\ job \in [Procs -> [k : Keys, v : Keys, via : {"keychain", "passphrase"}]]
  /\ \A p \in Procs : pc[p] # "idle" => Up
  /\ \A p \in Procs : pc[p] \in Holding => job[p].k # 0 /\ job[p].v # 0

DataInv ==
  /\ \A b \in backups : b \in [gives : Keys, of : Keys] /\ b.gives # 0
  /\ \A v \in written : v \in Keys /\ v # 0
  /\ acked \in [{"os", "file"} -> Keys]
  /\ fresh \in Keys /\ faults \in Nat

(* A roll back follows a failing call; after one failing call in all, it has   *)
(* freed the master account, and for the file keystore both its copies: only a *)
(* second failure leaves a master on disk that is not in the snapshot.         *)
Undoing == {"init_undo", "init_undo2", "rec_undo", "rec_undo2"}
RollInv ==
  /\ undone \in {"no", "os", "file"}
  /\ undone # "no" => faults >= 1
  /\ undone = "os" /\ faults = 1 => os["master"] = None
  /\ undone = "file" /\ faults = 1 =>
       disk.e["master"] = None /\ (running = "file" => mem.e["master"] = None)
  /\ running = "file" /\ mem.e["master"] = None /\ disk.e["master"] # None => faults >= 2
  /\ \A p \in Procs : pc[p] \in Undoing => faults >= 1

CustodyIInv == StoreInv /\ IdentityInv /\ JobInv /\ DataInv /\ RollInv
-----------------------------------------------------------------------------
(* The keychain calls.                                                        *)

LEMMA EntryFacts ==
  /\ None \in Entry /\ MaxKeys \in Nat /\ 0 \in Keys
  /\ \A k, v \in Keys : /\ [k |-> k, v |-> v] \in Entry
                        /\ k # 0 \/ v # 0 => [k |-> k, v |-> v] # None
  /\ \A x \in Entry : x.k \in Keys /\ x.v \in Keys /\ x = [k |-> x.k, v |-> x.v]
BY CustodyAssumption DEF None, Entry, Keys

LEMMA EmptyStore == IsStore(NoFile) /\ Empty \in [Accounts -> Entry] /\ Empty["vrkr"].k = 0
<1>1. NoFile.e = Empty /\ NoFile.ix = <<>>
  BY DEF NoFile
<1>2. Empty \in [Accounts -> Entry] /\ \A a \in Accounts : Empty[a] = None
  BY EntryFacts DEF Empty
<1>3. Empty["vrkr"].k = 0
  BY <1>2 DEF Accounts, None
<1> QED BY <1>1, <1>2, <1>3 DEF IsStore, Places

LEMMA PutStore ==
  ASSUME NEW f, IsStore(f), NEW a \in Accounts, NEW x \in Entry, x # None,
         a = "vrkr" => x.k = 0
  PROVE  IsStore(Put(f, a, x)) /\ Put(f, a, x).e = [f.e EXCEPT ![a] = x]
<1> DEFINE g == Put(f, a, x)
<1>1. g.e = [f.e EXCEPT ![a] = x]
      /\ g.ix = IF \E i \in Places(f) : f.ix[i] = a THEN f.ix ELSE Append(f.ix, a)
  BY DEF Put, Contains, Places
<1>2. g.e \in [Accounts -> Entry] /\ \A b \in Accounts : g.e[b] = IF b = a THEN x ELSE f.e[b]
  BY <1>1 DEF IsStore
<1>3. g.e["vrkr"].k = 0
  BY <1>2 DEF IsStore, Accounts
<1> HIDE DEF g
<1>4. CASE \E i \in Places(f) : f.ix[i] = a
  <2>1. g.ix = f.ix
    BY <1>1, <1>4
  <2> QED BY <1>1, <1>2, <1>3, <1>4, <2>1 DEF IsStore, Places, g
<1>5. CASE ~ \E i \in Places(f) : f.ix[i] = a
  <2>1. g.ix = Append(f.ix, a)
    BY <1>1, <1>5
  <2>2. g.ix \in Seq(Accounts) /\ Len(g.ix) = Len(f.ix) + 1 /\ Len(f.ix) \in Nat
        /\ (\A i \in 1..Len(f.ix) : g.ix[i] = f.ix[i]) /\ g.ix[Len(f.ix) + 1] = a
    BY <2>1 DEF IsStore
  <2>3. \A i, j \in Places(g) : g.ix[i] = g.ix[j] => i = j
    <3>1. \A i \in Places(g) : i \in Places(f) \/ i = Len(f.ix) + 1
      BY <2>2 DEF Places
    <3>2. \A i \in Places(f) : g.ix[i] = f.ix[i] /\ f.ix[i] # a
      BY <1>5, <2>2 DEF Places
    <3>3. \A i, j \in Places(f) : f.ix[i] = f.ix[j] => i = j
      BY DEF IsStore
    <3> QED BY <2>2, <3>1, <3>2, <3>3
  <2>4. \A b \in Accounts : g.e[b] # None <=> \E i \in Places(g) : g.ix[i] = b
    <3> SUFFICES ASSUME NEW b \in Accounts PROVE g.e[b] # None <=> \E i \in Places(g) : g.ix[i] = b
      OBVIOUS
    <3>1. CASE b = a
      BY <1>2, <2>2, <3>1 DEF Places
    <3>2. CASE b # a
      <4>1. g.e[b] = f.e[b]
        BY <1>2, <3>2
      <4>2. f.e[b] # None <=> \E i \in Places(f) : f.ix[i] = b
        BY DEF IsStore
      <4>3. (\E i \in Places(g) : g.ix[i] = b) <=> \E i \in Places(f) : f.ix[i] = b
        BY <2>2, <3>2 DEF Places
      <4> QED BY <4>1, <4>2, <4>3
    <3> QED BY <3>1, <3>2
  <2> QED BY <1>1, <1>2, <1>3, <2>2, <2>3, <2>4 DEF IsStore, g
<1> QED BY <1>4, <1>5

LEMMA WithoutStore ==
  ASSUME NEW f, IsStore(f), NEW a \in Accounts, f.e[a] # None
  PROVE  IsStore(Without(f, a)) /\ Without(f, a).e = [f.e EXCEPT ![a] = None]
<1> DEFINE g == Without(f, a)
           n == CHOOSE i \in 1..Len(f.ix) : f.ix[i] = a
<1>1. g.e = [f.e EXCEPT ![a] = None] /\ g.ix = SubSeq(f.ix, 1, n - 1) \o SubSeq(f.ix, n + 1, Len(f.ix))
  BY DEF Without, RemoveAt
<1>2. g.e \in [Accounts -> Entry] /\ \A b \in Accounts : g.e[b] = IF b = a THEN None ELSE f.e[b]
  BY <1>1, EntryFacts DEF IsStore
<1>3. g.e["vrkr"].k = 0
  BY <1>2 DEF IsStore, Accounts, None
<1>4. n \in 1..Len(f.ix) /\ f.ix[n] = a
  BY DEF IsStore, Places
<1> HIDE DEF g, n
<1> DEFINE s == SubSeq(f.ix, 1, n - 1)
           t == SubSeq(f.ix, n + 1, Len(f.ix))
<1>5. f.ix \in Seq(Accounts) /\ Len(f.ix) \in Nat /\ n \in Nat
  BY <1>4 DEF IsStore
<1>6. s \in Seq(Accounts) /\ Len(s) = n - 1 /\ \A i \in 1..(n - 1) : s[i] = f.ix[i]
  BY <1>4, <1>5, SubSeqProperties
<1>7. t \in Seq(Accounts) /\ Len(t) = Len(f.ix) - n /\ \A i \in 1..(Len(f.ix) - n) : t[i] = f.ix[i + n]
  BY <1>4, <1>5, SubSeqProperties
<1>8. g.ix = s \o t
  BY <1>1
<1> HIDE DEF s, t
<1>9. /\ g.ix \in Seq(Accounts) /\ Len(g.ix) = Len(f.ix) - 1
      /\ \A i \in 1..(Len(f.ix) - 1) : g.ix[i] = IF i < n THEN f.ix[i] ELSE f.ix[i + 1]
  <2>1. /\ g.ix \in Seq(Accounts) /\ Len(g.ix) = Len(s) + Len(t)
        /\ \A i \in 1..(Len(s) + Len(t)) : g.ix[i] = IF i <= Len(s) THEN s[i] ELSE t[i - Len(s)]
    <3>1. /\ s \o t \in Seq(Accounts) /\ Len(s \o t) = Len(s) + Len(t)
          /\ \A i \in 1..(Len(s) + Len(t)) :
               (s \o t)[i] = IF i <= Len(s) THEN s[i] ELSE t[i - Len(s)]
      BY <1>6, <1>7, ConcatProperties, Zenon
    <3> QED BY <1>8, <3>1, Zenon
  <2>2. Len(s) + Len(t) = Len(f.ix) - 1
    BY <1>4, <1>5, <1>6, <1>7
  <2>3. ASSUME NEW i \in 1..(Len(f.ix) - 1), i < n PROVE g.ix[i] = f.ix[i]
    <3>1. i \in 1..(n - 1) /\ i <= Len(s) /\ i \in 1..(Len(s) + Len(t))
      BY <1>4, <1>5, <1>6, <2>2, <2>3
    <3>2. g.ix[i] = s[i]
      BY <2>1, <3>1
    <3> QED BY <1>6, <3>1, <3>2
  <2>4. ASSUME NEW i \in 1..(Len(f.ix) - 1), ~(i < n) PROVE g.ix[i] = f.ix[i + 1]
    <3>1. i - (n - 1) \in 1..(Len(f.ix) - n) /\ (i - (n - 1)) + n = i + 1
      BY <1>4, <1>5, <2>4
    <3>2. t[i - (n - 1)] = f.ix[i + 1]
      BY <1>7, <3>1
    <3>3. ~(i <= Len(s)) /\ i \in 1..(Len(s) + Len(t)) /\ Len(s) = n - 1
      BY <1>4, <1>5, <1>6, <2>2, <2>4
    <3>4. g.ix[i] = t[i - Len(s)]
      BY <2>1, <3>3
    <3> QED BY <3>2, <3>3, <3>4
  <2> QED BY <2>1, <2>2, <2>3, <2>4
<1>10. \A i, j \in Places(g) : g.ix[i] = g.ix[j] => i = j
  BY <1>4, <1>5, <1>9 DEF IsStore, Places
<1>11. \A b \in Accounts : g.e[b] # None <=> \E i \in Places(g) : g.ix[i] = b
  <2> SUFFICES ASSUME NEW b \in Accounts PROVE g.e[b] # None <=> \E i \in Places(g) : g.ix[i] = b
    OBVIOUS
  <2>1. CASE b = a
    <3>1. \A i \in Places(f) : f.ix[i] = a => i = n
      BY <1>4 DEF IsStore, Places
    <3>2. ASSUME NEW i \in Places(g) PROVE g.ix[i] # a
      <4>1. i \in 1..(Len(f.ix) - 1)
        BY <1>9 DEF Places
      <4>2. CASE i < n
        <5>1. i \in Places(f) /\ i # n /\ g.ix[i] = f.ix[i]
          BY <1>4, <1>5, <1>9, <4>1, <4>2 DEF Places
        <5> QED BY <3>1, <5>1
      <4>3. CASE ~(i < n)
        <5>1. i + 1 \in Places(f) /\ i + 1 # n /\ g.ix[i] = f.ix[i + 1]
          BY <1>4, <1>5, <1>9, <4>1, <4>3 DEF Places
        <5> QED BY <3>1, <5>1
      <4> QED BY <4>2, <4>3
    <3> QED BY <1>2, <2>1, <3>2
  <2>2. CASE b # a
    <3>1. g.e[b] = f.e[b]
      BY <1>2, <2>2
    <3>2. f.e[b] # None <=> \E i \in Places(f) : f.ix[i] = b
      BY DEF IsStore
    <3>3. ASSUME NEW i \in Places(f), f.ix[i] = b PROVE \E j \in Places(g) : g.ix[j] = b
      <4>1. i # n
        BY <1>4, <2>2, <3>3
      <4>2. CASE i < n
        <5>1. i \in Places(g) /\ g.ix[i] = b
          BY <1>4, <1>5, <1>9, <3>3, <4>2 DEF Places
        <5> QED BY <5>1
      <4>3. CASE i > n
        <5>1. i - 1 \in Places(g) /\ g.ix[i - 1] = b
          BY <1>4, <1>5, <1>9, <3>3, <4>3 DEF Places
        <5> QED BY <5>1
      <4> QED BY <1>5, <3>3, <4>1, <4>2, <4>3 DEF Places
    <3>4. ASSUME NEW j \in Places(g), g.ix[j] = b PROVE \E i \in Places(f) : f.ix[i] = b
      <4>1. j \in 1..(Len(f.ix) - 1)
        BY <1>9 DEF Places
      <4>2. CASE j < n
        <5>1. j \in Places(f) /\ f.ix[j] = b
          BY <1>5, <1>9, <3>4, <4>1, <4>2 DEF Places
        <5> QED BY <5>1
      <4>3. CASE ~(j < n)
        <5>1. j + 1 \in Places(f) /\ f.ix[j + 1] = b
          BY <1>5, <1>9, <3>4, <4>1, <4>3 DEF Places
        <5> QED BY <5>1
      <4> QED BY <4>2, <4>3
    <3> QED BY <3>1, <3>2, <3>3, <3>4
  <2> QED BY <2>1, <2>2
<1> QED BY <1>1, <1>2, <1>3, <1>9, <1>10, <1>11 DEF IsStore, g

(* What a call leaves of the keystores, whatever its answer. *)
LEMMA StoreCall ==
  ASSUME StoreInv, NEW a \in Accounts, NEW x \in Entry, x # None, a = "vrkr" => x.k = 0,
         StoreOk(a, x) \/ StoreFails(a, x), UNCHANGED <<running, todo>>
  PROVE  /\ StoreInv'
         /\ running = "file" => /\ os' = os /\ mem'.e = [mem.e EXCEPT ![a] = x]
                                /\ disk' = disk \/ disk'.e = [mem.e EXCEPT ![a] = x]
         /\ running # "file" => /\ mem' = mem /\ disk' = disk
                                /\ os' = os \/ os' = [os EXCEPT ![a] = x]
         /\ StoreOk(a, x) => /\ faults' = faults
                             /\ running = "file" => disk'.e = mem'.e
                             /\ running # "file" => os' = [os EXCEPT ![a] = x]
         /\ StoreFails(a, x) => faults' = faults + 1
<1>1. StoreOk(a, x) => faults' = faults
  BY DEF StoreOk, Persisted, NoFault
<1>2. StoreFails(a, x) => faults' = faults + 1
  BY DEF StoreFails, PersistFails, Fault
<1>3. CASE running = "file"
  <2> DEFINE f == Put(mem, a, x)
  <2>1. IsStore(f) /\ f.e = [mem.e EXCEPT ![a] = x]
    BY PutStore DEF StoreInv
  <2> HIDE DEF f
  <2>2. mem' = f /\ os' = os /\ (disk' = disk \/ disk' = f)
    BY <1>3 DEF StoreOk, StoreFails, Persisted, PersistFails, f
  <2>3. StoreOk(a, x) => disk' = f
    BY <1>3 DEF StoreOk, Persisted, f
  <2>4. StoreInv'
    BY <1>3, <2>1, <2>2 DEF StoreInv
  <2> QED BY <1>1, <1>2, <1>3, <2>1, <2>2, <2>3, <2>4
<1>4. CASE running # "file"
  <2>1. mem' = mem /\ disk' = disk /\ (os' = os \/ os' = [os EXCEPT ![a] = x])
    BY <1>4 DEF StoreOk, StoreFails
  <2>2. StoreOk(a, x) => os' = [os EXCEPT ![a] = x]
    BY <1>4 DEF StoreOk
  <2>3. os' \in [Accounts -> Entry] /\ os'["vrkr"].k = 0
    BY <2>1 DEF StoreInv, Accounts
  <2>4. StoreInv'
    BY <1>4, <2>1, <2>3 DEF StoreInv
  <2> QED BY <1>1, <1>2, <1>4, <2>1, <2>2, <2>4
<1> QED BY <1>3, <1>4

LEMMA DeleteCall ==
  ASSUME StoreInv, NEW a \in Accounts, DeleteAny(a), UNCHANGED <<running, todo>>
  PROVE  /\ StoreInv'
         /\ running = "file" => /\ os' = os /\ mem'.e = [mem.e EXCEPT ![a] = None]
                                /\ disk' = disk \/ disk'.e = [mem.e EXCEPT ![a] = None]
         /\ running # "file" => /\ mem' = mem /\ disk' = disk
                                /\ \/ os' = [os EXCEPT ![a] = None]
                                   \/ os' = os /\ faults' = faults + 1
         /\ faults' = faults \/ faults' = faults + 1
<1>0. faults' = faults \/ faults' = faults + 1
  BY DEF DeleteAny, Persisted, PersistFails, Fault, NoFault
<1>1. CASE running = "file" /\ mem.e[a] = None
  <2>1. mem' = mem /\ disk' = disk /\ os' = os
    BY <1>1 DEF DeleteAny, View
  <2>2. [mem.e EXCEPT ![a] = None] = mem.e
    BY <1>1 DEF StoreInv, IsStore
  <2>3. StoreInv'
    BY <2>1 DEF StoreInv
  <2> QED BY <1>0, <1>1, <2>1, <2>2, <2>3
<1>2. CASE running = "file" /\ mem.e[a] # None
  <2> DEFINE f == Without(mem, a)
  <2>1. IsStore(f) /\ f.e = [mem.e EXCEPT ![a] = None]
    BY <1>2, WithoutStore DEF StoreInv
  <2> HIDE DEF f
  <2>2. mem' = f /\ os' = os /\ (disk' = disk \/ disk' = f)
    BY <1>2 DEF DeleteAny, Persisted, PersistFails, View, f
  <2>3. StoreInv'
    BY <1>2, <2>1, <2>2 DEF StoreInv
  <2> QED BY <1>0, <1>2, <2>1, <2>2, <2>3
<1>3. CASE running # "file"
  <2>1. /\ mem' = mem /\ disk' = disk
        /\ os' = [os EXCEPT ![a] = None] \/ (os' = os /\ faults' = faults + 1)
    BY <1>3 DEF DeleteAny, Fault
  <2>2. os' \in [Accounts -> Entry] /\ os'["vrkr"].k = 0
    BY <2>1, EntryFacts DEF StoreInv, Accounts, None
  <2>3. StoreInv'
    BY <1>3, <2>1, <2>2 DEF StoreInv
  <2> QED BY <1>0, <1>3, <2>1, <2>3
<1> QED BY <1>1, <1>2, <1>3

LEMMA NoCall ==
  ASSUME StoreInv, NoKeychainCall \/ UNCHANGED <<os, disk, mem>>, UNCHANGED <<running, todo>>
  PROVE  StoreInv' /\ os' = os /\ mem' = mem /\ disk' = disk
BY DEF StoreInv, NoKeychainCall

-----------------------------------------------------------------------------
(* Frames of the parts of the invariant. *)

LEMMA GotoStep ==
  ASSUME JobInv, NEW p \in Procs, NEW l \in Labels, Goto(p, l), Up, UNCHANGED running,
         l \in Holding => job[p].k # 0 /\ job[p].v # 0
  PROVE  JobInv' /\ \A q \in Procs : pc'[q] = IF q = p THEN l ELSE pc[q]
BY DEF JobInv, Goto, Up

LEMMA StartStep ==
  ASSUME JobInv, NEW p \in Procs, NEW l \in Labels, NEW j, Start(p, l, j), Up, UNCHANGED running,
         j \in [k : Keys, v : Keys, via : {"keychain", "passphrase"}],
         l \in Holding => j.k # 0 /\ j.v # 0
  PROVE  JobInv' /\ \A q \in Procs : pc'[q] = IF q = p THEN l ELSE pc[q]
BY DEF JobInv, Start, Up

LEMMA ReturnStep ==
  ASSUME JobInv, NEW p \in Procs, Return(p), UNCHANGED running
  PROVE  JobInv' /\ \A q \in Procs : pc'[q] = IF q = p THEN "idle" ELSE pc[q]
<1>1. NoJob \in [k : Keys, v : Keys, via : {"keychain", "passphrase"}]
  BY EntryFacts DEF NoJob
<1>2. /\ pc' = [pc EXCEPT ![p] = "idle"] /\ job' = [job EXCEPT ![p] = NoJob]
      /\ "idle" \in Labels /\ "idle" \notin Holding
  BY DEF Return, Labels, Holding
<1> HIDE DEF NoJob, Labels, Holding
<1> QED BY <1>1, <1>2 DEF JobInv, Up

LEMMA JobFrame == ASSUME JobInv, UNCHANGED <<pc, job, running>> PROVE JobInv'
BY DEF JobInv, Up

LEMMA IdentityFrame == ASSUME IdentityInv, UNCHANGED <<state, vault, hmac>> PROVE IdentityInv'
BY DEF IdentityInv

LEMMA DataFrame ==
  ASSUME DataInv, UNCHANGED <<backups, written, acked, fresh>>,
         faults' = faults \/ faults' = faults + 1
  PROVE  DataInv'
BY DEF DataInv

(* A step that leaves the master accounts, or writes the snapshot to the file. *)
LEMMA RollKept ==
  ASSUME RollInv, DataInv, UNCHANGED running, faults' = faults \/ faults' = faults + 1,
         undone' = undone,
         os'["master"] = os["master"], mem'.e["master"] = mem.e["master"],
         \/ disk'.e["master"] = disk.e["master"]
         \/ running = "file" /\ disk'.e["master"] = mem.e["master"],
         \A q \in Procs : pc'[q] \in Undoing => faults' = faults + 1 \/ pc[q] \in Undoing
  PROVE  RollInv'
<1>1. faults \in Nat /\ faults' \in Nat
  BY DEF DataInv
<1>2. \A q \in Procs : pc'[q] \in Undoing => faults' >= 1
  BY <1>1 DEF RollInv
<1>3. undone # "no" => faults >= 1 /\ faults' >= 1 /\ (faults' = 1 => faults = 1)
  BY <1>1 DEF RollInv
<1> QED BY <1>1, <1>2, <1>3 DEF RollInv

-----------------------------------------------------------------------------
(* The steps of the init ceremony. *)

LEMMA Strings == /\ "master" \in Accounts /\ "vrkm" \in Accounts /\ "vrkr" \in Accounts
                 /\ "params" \in Accounts /\ "wrap" \in Accounts
BY DEF Accounts

LEMMA UpWhile == ASSUME JobInv, NEW p \in Procs, pc[p] # "idle" PROVE Up
BY DEF JobInv

LEMMA JobKeys ==
  ASSUME JobInv, NEW p \in Procs, pc[p] \in Holding
  PROVE  job[p].k \in Keys /\ job[p].v \in Keys /\ job[p].k # 0 /\ job[p].v # 0
BY DEF JobInv

(* The labels of a step: only a failing call leads to a roll back. *)
Labelled == \A q \in Procs : pc'[q] \in Undoing => faults' = faults + 1 \/ pc[q] \in Undoing

(* A step that stores an entry of another account than the master's. *)
LEMMA StoreStep ==
  ASSUME CustodyIInv, NEW a \in Accounts \ {"master"},
         NEW x \in Entry, x # None, a = "vrkr" => x.k = 0, StoreOk(a, x) \/ StoreFails(a, x),
         Calm, UNCHANGED <<identity, backups, fresh, written, undone>>,
         acked' \in [{"os", "file"} -> Keys], JobInv', Labelled
  PROVE  CustodyIInv'
<1> USE DEF CustodyIInv
<1>1. UNCHANGED <<running, todo>>
  BY DEF Calm
<1>2. StoreInv' /\ (faults' = faults \/ faults' = faults + 1)
  BY <1>1, StoreCall
<1>3. /\ os'["master"] = os["master"] /\ mem'.e["master"] = mem.e["master"]
      /\ \/ disk'.e["master"] = disk.e["master"]
         \/ running = "file" /\ disk'.e["master"] = mem.e["master"]
  <2>1. os \in [Accounts -> Entry] /\ mem.e \in [Accounts -> Entry]
    BY DEF StoreInv, IsStore
  <2>2. /\ running = "file" => /\ os' = os /\ mem'.e = [mem.e EXCEPT ![a] = x]
                               /\ disk' = disk \/ disk'.e = [mem.e EXCEPT ![a] = x]
        /\ running # "file" => /\ mem' = mem /\ disk' = disk
                               /\ os' = os \/ os' = [os EXCEPT ![a] = x]
    BY <1>1, StoreCall
  <2> QED BY <2>1, <2>2, Strings
<1>4. RollInv'
  BY <1>1, <1>2, <1>3, RollKept DEF Labelled
<1>5. IdentityInv' /\ DataInv'
  BY <1>2, IdentityFrame DEF identity, DataInv
<1> QED BY <1>2, <1>4, <1>5

(* A step without a keychain call. *)
LEMMA QuietStep ==
  ASSUME CustodyIInv, UNCHANGED <<os, disk, mem>>, faults' = faults \/ faults' = faults + 1,
         Calm, undone' = undone, IdentityInv', JobInv', DataInv', Labelled
  PROVE  CustodyIInv'
<1> USE DEF CustodyIInv
<1>1. UNCHANGED <<running, todo>>
  BY DEF Calm
<1>2. StoreInv'
  BY <1>1 DEF StoreInv
<1>4. RollInv'
  BY <1>1, RollKept DEF Labelled
<1> QED BY <1>2, <1>4

(* A ceremony begins: it draws keys and stores the master. *)
LEMMA MasterStep ==
  ASSUME CustodyIInv, NEW p \in Procs, Up, pc[p] = "idle", fresh < MaxKeys, fresh' = fresh + 1,
         NEW l \in {"init_vrkm", "rec_vrkm"}, NEW v \in Keys, v # 0, NEW x,
         x = [k |-> fresh + 1, v |-> 0],
         \/ /\ StoreOk("master", x)
            /\ Start(p, l, [k |-> fresh + 1, v |-> v, via |-> "keychain"])
         \/ StoreFails("master", x) /\ UNCHANGED <<pc, job>>,
         undone' = "no", Calm, UNCHANGED <<identity, backups, written>>,
         acked' \in [{"os", "file"} -> Keys]
  PROVE  CustodyIInv'
<1> USE DEF CustodyIInv
<1>1. UNCHANGED <<running, todo>>
  BY DEF Calm
<1>2. fresh + 1 \in Keys /\ fresh + 1 # 0
  BY EntryFacts DEF DataInv, Keys
<1>3. x \in Entry /\ x # None
  BY <1>2, EntryFacts
<1>4. StoreInv' /\ (faults' = faults \/ faults' = faults + 1)
  BY <1>1, <1>3, StoreCall, Strings
<1>5. JobInv' /\ Labelled
  <2>1. l \in Labels /\ l \notin Undoing
    BY DEF Labels, Undoing
  <2>2. CASE Start(p, l, [k |-> fresh + 1, v |-> v, via |-> "keychain"])
    <3> DEFINE j == [k |-> fresh + 1, v |-> v, via |-> "keychain"]
    <3>1. j \in [k : Keys, v : Keys, via : {"keychain", "passphrase"}] /\ j.k # 0 /\ j.v # 0
      BY <1>2
    <3>2. Start(p, l, j)
      BY <2>2
    <3> HIDE DEF j
    <3>3. JobInv' /\ \A q \in Procs : pc'[q] = IF q = p THEN l ELSE pc[q]
      BY <1>1, <2>1, <3>1, <3>2, StartStep
    <3> QED BY <2>1, <3>3 DEF Labelled
  <2>3. CASE UNCHANGED <<pc, job>>
    BY <1>1, <2>3, JobFrame DEF Labelled
  <2> QED BY <2>2, <2>3
<1>6. RollInv'
  <2>1. os \in [Accounts -> Entry] /\ mem.e \in [Accounts -> Entry]
    BY DEF StoreInv, IsStore
  <2>2. running = "file" => mem'.e["master"] # None
    <3>1. StoreOk("master", x) \/ StoreFails("master", x)
      OBVIOUS
    <3>2. running = "file" => mem'.e = [mem.e EXCEPT !["master"] = x]
      BY <1>1, <1>3, <3>1, StoreCall, Strings
    <3> QED BY <1>3, <2>1, <3>2, Strings
  <2>3. \A q \in Procs : pc'[q] \in Undoing => faults' >= 1
    BY <1>4, <1>5 DEF Labelled, RollInv, DataInv
  <2> QED BY <1>1, <2>2, <2>3 DEF RollInv
<1>7. IdentityInv' /\ DataInv'
  BY <1>2, <1>4, IdentityFrame DEF identity, DataInv
<1> QED BY <1>4, <1>5, <1>6, <1>7

(* A roll back deletes the master. *)
LEMMA UndoStep ==
  ASSUME CustodyIInv, NEW p \in Procs, pc[p] # "idle", DeleteAny("master"),
         NEW next \in {"init_undo3", "rec_undo3"}, Return(p) \/ Goto(p, next), Calm,
         UNCHANGED <<identity, backups, fresh, written, acked>>,
         undone' \in {undone, running}, pc[p] \in Undoing
  PROVE  CustodyIInv'
<1> USE DEF CustodyIInv
<1>1. UNCHANGED <<running, todo>> /\ Up
  BY UpWhile DEF Calm
<1>2. StoreInv' /\ (faults' = faults \/ faults' = faults + 1)
  BY <1>1, DeleteCall, Strings
<1>3. /\ running = "file" => /\ os' = os /\ mem'.e["master"] = None
                             /\ \/ disk'.e["master"] = None
                                \/ disk' = disk /\ (faults' = faults + 1 \/ mem.e["master"] = None)
      /\ running # "file" => /\ mem' = mem /\ disk' = disk
                             /\ os'["master"] = None \/ (os' = os /\ faults' = faults + 1)
  <2>1. os \in [Accounts -> Entry] /\ mem.e \in [Accounts -> Entry]
    BY DEF StoreInv, IsStore
  <2>2. /\ running = "file" => /\ os' = os /\ mem'.e = [mem.e EXCEPT !["master"] = None]
                               /\ disk' = disk \/ disk'.e = [mem.e EXCEPT !["master"] = None]
        /\ running # "file" => /\ mem' = mem /\ disk' = disk
                               /\ \/ os' = [os EXCEPT !["master"] = None]
                                  \/ os' = os /\ faults' = faults + 1
    BY <1>1, DeleteCall, Strings
  <2>3. running = "file" =>
          mem.e["master"] = None \/ disk' = mem' \/ (disk' = disk /\ faults' = faults + 1)
    BY DEF DeleteAny, View, Persisted, PersistFails, Fault
  <2> QED BY <2>1, <2>2, <2>3, Strings
<1>4. JobInv' /\ Labelled
  <2>1. next \in Labels /\ next \notin Holding /\ next \notin Undoing
        /\ "idle" \notin Undoing
    BY DEF Labels, Undoing, Holding
  <2>2. JobInv' /\ \E l : l \notin Undoing /\ \A q \in Procs : pc'[q] = IF q = p THEN l ELSE pc[q]
    <3>1. CASE Return(p)
      BY <1>1, <2>1, <3>1, ReturnStep
    <3>2. CASE Goto(p, next)
      BY <1>1, <2>1, <3>2, GotoStep
    <3> QED BY <3>1, <3>2
  <2> QED BY <2>2 DEF Labelled
<1>5. RollInv'
  <2>1. faults \in Nat /\ faults' \in Nat /\ faults >= 1 /\ faults' >= 1
    BY <1>2 DEF DataInv, RollInv
  <2>2. faults' = 1 => faults' = faults /\ faults = 1
    BY <1>2, <2>1
  <2>3. ASSUME running = "file" PROVE RollInv'
    <3>1. faults' = faults + 1 => faults' >= 2
      BY <2>1
    <3>2. faults' = 1 => disk'.e["master"] = None
      BY <1>3, <2>2, <2>3 DEF RollInv
    <3>3. disk'.e["master"] # None => faults' >= 2
      BY <1>2, <1>3, <2>1, <2>3, <3>1 DEF RollInv
    <3> QED BY <1>1, <1>3, <2>1, <2>2, <2>3, <3>2, <3>3 DEF RollInv
  <2>4. ASSUME running # "file" PROVE RollInv'
    <3>1. running = "os"
      BY <1>1, <2>4 DEF Up
    <3>2. faults' = 1 => os'["master"] = None
      BY <1>3, <2>1, <2>2, <2>4
    <3> QED BY <1>1, <1>3, <2>1, <2>2, <2>4, <3>1, <3>2 DEF RollInv
  <2> QED BY <2>3, <2>4
<1>6. IdentityInv' /\ DataInv'
  BY <1>2, IdentityFrame, DataFrame DEF identity
<1> QED BY <1>2, <1>4, <1>5, <1>6

-----------------------------------------------------------------------------
(* One lemma per action. *)

LEMMA JobEntry ==
  ASSUME JobInv, NEW p \in Procs, pc[p] \in Holding
  PROVE  /\ [k |-> job[p].k, v |-> job[p].v] \in Entry /\ [k |-> job[p].k, v |-> job[p].v] # None
         /\ [k |-> 0, v |-> job[p].v] \in Entry /\ [k |-> 0, v |-> job[p].v] # None
         /\ [k |-> job[p].k, v |-> 0] \in Entry /\ [k |-> job[p].k, v |-> 0] # None
         /\ [k |-> job[p].k, v |-> job[p].k] \in Entry /\ [k |-> job[p].k, v |-> job[p].k] # None
BY JobKeys, EntryFacts

(* A step to a label that a failing call alone may make a roll back. *)
LEMMA GotoLabelled ==
  ASSUME JobInv, NEW p \in Procs, pc[p] # "idle", NEW l \in Labels, Goto(p, l), UNCHANGED running,
         l \in Holding => pc[p] \in Holding,
         l \in Undoing => faults' = faults + 1
  PROVE  JobInv' /\ Labelled
<1>1. Up /\ (l \in Holding => job[p].k # 0 /\ job[p].v # 0)
  BY UpWhile, JobKeys
<1>2. JobInv' /\ \A q \in Procs : pc'[q] = IF q = p THEN l ELSE pc[q]
  BY <1>1, GotoStep
<1> QED BY <1>2 DEF Labelled

LEMMA ReturnLabelled ==
  ASSUME JobInv, NEW p \in Procs, Return(p), UNCHANGED running
  PROVE  JobInv' /\ Labelled
<1>1. JobInv' /\ \A q \in Procs : pc'[q] = IF q = p THEN "idle" ELSE pc[q]
  BY ReturnStep
<1> QED BY <1>1 DEF Labelled, Undoing

LEMMA InitMasterStep == ASSUME CustodyIInv, NEW p \in Procs, InitMaster(p) PROVE CustodyIInv'
<1>1. fresh + 1 \in Keys /\ fresh + 1 # 0
  BY EntryFacts DEF InitMaster, CustodyIInv, DataInv, Keys
<1>2. acked' \in [{"os", "file"} -> Keys]
  BY DEF InitMaster, CustodyIInv, DataInv
<1> DEFINE x == [k |-> fresh + 1, v |-> 0]
<1>3. /\ Up /\ pc[p] = "idle" /\ fresh < MaxKeys /\ fresh' = fresh + 1 /\ undone' = "no"
      /\ Calm /\ UNCHANGED <<identity, backups, written>>
      /\ \/ /\ StoreOk("master", x)
            /\ Start(p, "init_vrkm", [k |-> fresh + 1, v |-> fresh + 1, via |-> "keychain"])
         \/ StoreFails("master", x) /\ UNCHANGED <<pc, job>>
  BY DEF InitMaster
<1>4. x = [k |-> fresh + 1, v |-> 0]
  OBVIOUS
<1> HIDE DEF x
<1> QED BY <1>1, <1>2, <1>3, <1>4, MasterStep

LEMMA RecoverMasterStep ==
  ASSUME CustodyIInv, NEW p \in Procs, NEW b \in backups, RecoverMaster(p, b.gives)
  PROVE  CustodyIInv'
<1>1. b.gives \in Keys /\ b.gives # 0
  BY DEF CustodyIInv, DataInv
<1>2. acked' \in [{"os", "file"} -> Keys]
  BY EntryFacts DEF RecoverMaster, CustodyIInv, DataInv
<1> DEFINE x == [k |-> fresh + 1, v |-> 0]
<1>3. /\ Up /\ pc[p] = "idle" /\ fresh < MaxKeys /\ fresh' = fresh + 1 /\ undone' = "no"
      /\ Calm /\ UNCHANGED <<identity, backups, written>>
      /\ \/ /\ StoreOk("master", x)
            /\ Start(p, "rec_vrkm", [k |-> fresh + 1, v |-> b.gives, via |-> "keychain"])
         \/ StoreFails("master", x) /\ UNCHANGED <<pc, job>>
  BY DEF RecoverMaster
<1>4. x = [k |-> fresh + 1, v |-> 0]
  OBVIOUS
<1> HIDE DEF x
<1> QED BY <1>1, <1>2, <1>3, <1>4, MasterStep

LEMMA VrkMasterStep ==
  ASSUME CustodyIInv, NEW p \in Procs, InitVrkMaster(p) \/ RecoverVrkMaster(p)
  PROVE  CustodyIInv'
<1> DEFINE x == [k |-> job[p].k, v |-> job[p].v]
<1>1. PICK good \in {"init_vrkr", "rec_vrkr"}, bad \in {"init_undo", "rec_undo"} :
        /\ pc[p] \in Holding /\ pc[p] # "idle" /\ Calm
        /\ UNCHANGED <<identity, backups, fresh, ghosts>>
        /\ \/ StoreOk("vrkm", x) /\ Goto(p, good)
           \/ StoreFails("vrkm", x) /\ Goto(p, bad)
  BY DEF InitVrkMaster, RecoverVrkMaster, Holding
<1>2. x \in Entry /\ x # None
  BY <1>1, JobEntry DEF CustodyIInv
<1> HIDE DEF x
<1>3. StoreOk("vrkm", x) \/ StoreFails("vrkm", x)
  BY <1>1
<1>4. StoreFails("vrkm", x) => faults' = faults + 1
  BY DEF StoreFails, PersistFails, Fault
<1>5. good \in Labels /\ bad \in Labels /\ good \notin Undoing /\ bad \notin Holding
  BY DEF Labels, Holding, Undoing
<1>6. UNCHANGED running
  BY <1>1 DEF Calm
<1>7. JobInv' /\ Labelled
  BY <1>1, <1>4, <1>5, <1>6, GotoLabelled DEF CustodyIInv
<1>8. acked' \in [{"os", "file"} -> Keys] /\ UNCHANGED <<identity, backups, fresh, written, undone>>
  BY <1>1 DEF ghosts, CustodyIInv, DataInv
<1>9. "vrkm" \in Accounts \ {"master"} /\ "vrkm" # "vrkr"
  BY DEF Accounts
<1> QED BY <1>1, <1>2, <1>3, <1>7, <1>8, <1>9, StoreStep

LEMMA VrkRecoveryStep ==
  ASSUME CustodyIInv, NEW p \in Procs, InitVrkRecovery(p) \/ RecoverVrkRecovery(p)
  PROVE  CustodyIInv'
<1> DEFINE x == [k |-> 0, v |-> job[p].v]
<1>1. PICK good \in {"init_audit", "rec_put"}, bad \in {"init_undo2", "rec_undo2"} :
        /\ pc[p] \in Holding /\ pc[p] # "idle" /\ Calm
        /\ UNCHANGED <<identity, backups, fresh, ghosts>>
        /\ \/ StoreOk("vrkr", x) /\ Goto(p, good)
           \/ StoreFails("vrkr", x) /\ Goto(p, bad)
  BY DEF InitVrkRecovery, RecoverVrkRecovery, Holding
<1>2. x \in Entry /\ x # None /\ x.k = 0
  BY <1>1, JobEntry DEF CustodyIInv
<1> HIDE DEF x
<1>3. StoreOk("vrkr", x) \/ StoreFails("vrkr", x)
  BY <1>1
<1>4. StoreFails("vrkr", x) => faults' = faults + 1
  BY DEF StoreFails, PersistFails, Fault
<1>5. good \in Labels /\ bad \in Labels /\ good \notin Undoing /\ bad \notin Holding
  BY DEF Labels, Holding, Undoing
<1>6. UNCHANGED running
  BY <1>1 DEF Calm
<1>7. JobInv' /\ Labelled
  BY <1>1, <1>4, <1>5, <1>6, GotoLabelled DEF CustodyIInv
<1>8. acked' \in [{"os", "file"} -> Keys] /\ UNCHANGED <<identity, backups, fresh, written, undone>>
  BY <1>1 DEF ghosts, CustodyIInv, DataInv
<1>9. "vrkr" \in Accounts \ {"master"}
  BY DEF Accounts
<1> QED BY <1>1, <1>2, <1>3, <1>7, <1>8, <1>9, StoreStep

(* The ceremony may report success: its key becomes the acknowledged one. *)
LEMMA AckStep ==
  ASSUME CustodyIInv, NEW p \in Procs, pc[p] \in Holding,
         acked' = acked \/ acked' = [acked EXCEPT ![running] = job[p].v]
  PROVE  acked' \in [{"os", "file"} -> Keys]
BY JobKeys DEF CustodyIInv, DataInv

LEMMA EnrolStep ==
  ASSUME CustodyIInv, NEW p \in Procs, InitParams(p) \/ InitWrap(p)
  PROVE  CustodyIInv'
<1>1. PICK a \in {"params", "wrap"}, x \in {[k |-> job[p].k, v |-> 0], [k |-> job[p].k, v |-> job[p].k]} :
        /\ pc[p] \in Holding /\ pc[p] # "idle" /\ Calm
        /\ UNCHANGED <<identity, backups, fresh, written, undone>>
        /\ StoreOk(a, x) \/ StoreFails(a, x)
        /\ Goto(p, "init_wrap") \/ Return(p)
        /\ acked' = acked \/ acked' = [acked EXCEPT ![running] = job[p].v]
  BY DEF InitParams, InitWrap, Holding
<1>2. x \in Entry /\ x # None
  BY <1>1, JobEntry DEF CustodyIInv
<1>3. UNCHANGED running
  BY <1>1 DEF Calm
<1>4. "init_wrap" \in Labels /\ "init_wrap" \notin Undoing
  BY DEF Labels, Undoing
<1>5. JobInv' /\ Labelled
  BY <1>1, <1>3, <1>4, GotoLabelled, ReturnLabelled DEF CustodyIInv
<1>6. a \in Accounts \ {"master"} /\ a # "vrkr"
  BY DEF Accounts
<1> QED BY <1>1, <1>2, <1>5, <1>6, AckStep, StoreStep

LEMMA UndoSteps ==
  ASSUME CustodyIInv, NEW p \in Procs, InitUndo(p) \/ InitUndoBoth(p) \/ RecoverUndo(p)
  PROVE  CustodyIInv'
<1>1. PICK next \in {"init_undo3", "rec_undo3"} : Return(p) \/ Goto(p, next)
  BY DEF InitUndo, InitUndoBoth, RecoverUndo
<1>2. /\ pc[p] # "idle" /\ DeleteAny("master")
      /\ Calm /\ UNCHANGED <<identity, backups, fresh, written, acked>>
  BY DEF InitUndo, InitUndoBoth, RecoverUndo, ghosts
<1>3. undone' \in {undone, running} /\ pc[p] \in Undoing
  BY DEF InitUndo, InitUndoBoth, RecoverUndo, ghosts, Undoing
<1> QED BY <1>1, <1>2, <1>3, UndoStep

LEMMA UndoVrkMasterStep == ASSUME CustodyIInv, NEW p \in Procs, UndoVrkMaster(p) PROVE CustodyIInv'
<1> USE DEF CustodyIInv
<1>1. UNCHANGED <<running, todo, identity, backups, fresh, written, acked, undone>>
      /\ DeleteAny("vrkm") /\ Return(p)
  BY DEF UndoVrkMaster, Calm, ghosts
<1>2. StoreInv' /\ (faults' = faults \/ faults' = faults + 1)
  BY <1>1, DeleteCall, Strings
<1>3. /\ os'["master"] = os["master"] /\ mem'.e["master"] = mem.e["master"]
      /\ \/ disk'.e["master"] = disk.e["master"]
         \/ running = "file" /\ disk'.e["master"] = mem.e["master"]
  <2>1. os \in [Accounts -> Entry] /\ mem.e \in [Accounts -> Entry]
    BY DEF StoreInv, IsStore
  <2>2. /\ running = "file" => /\ os' = os /\ mem'.e = [mem.e EXCEPT !["vrkm"] = None]
                               /\ disk' = disk \/ disk'.e = [mem.e EXCEPT !["vrkm"] = None]
        /\ running # "file" => /\ mem' = mem /\ disk' = disk
                               /\ os' = os \/ os' = [os EXCEPT !["vrkm"] = None]
    BY <1>1, DeleteCall, Strings
  <2> QED BY <2>1, <2>2, Strings
<1>4. JobInv' /\ Labelled
  BY <1>1, ReturnLabelled
<1>5. RollInv'
  BY <1>1, <1>2, <1>3, <1>4, RollKept DEF Labelled
<1>6. IdentityInv' /\ DataInv'
  BY <1>1, <1>2, IdentityFrame, DataFrame DEF identity
<1> QED BY <1>2, <1>4, <1>5, <1>6

LEMMA InitAuditStep == ASSUME CustodyIInv, NEW p \in Procs, InitAudit(p) PROVE CustodyIInv'
<1> USE DEF CustodyIInv
<1>1. /\ pc[p] \in Holding /\ pc[p] # "idle" /\ Calm /\ UNCHANGED <<os, disk, mem, identity, backups, fresh, undone>>
      /\ faults' = faults \/ faults' = faults + 1
      /\ Goto(p, "init_params") \/ Return(p)
      /\ written' = written \/ written' = written \cup {job[p].v}
      /\ acked' = acked \/ acked' = [acked EXCEPT ![running] = job[p].v]
  BY DEF InitAudit, Holding, NoKeychainCall, Fault
<1>2. UNCHANGED running /\ "init_params" \in Labels /\ "init_params" \notin Undoing
  BY <1>1 DEF Calm, Labels, Undoing
<1>3. JobInv' /\ Labelled
  BY <1>1, <1>2, GotoLabelled, ReturnLabelled
<1>4. acked' \in [{"os", "file"} -> Keys]
  BY <1>1, AckStep
<1>5. DataInv'
  BY <1>1, <1>4, JobKeys DEF DataInv
<1>6. IdentityInv'
  BY <1>1, IdentityFrame DEF identity
<1> QED BY <1>1, <1>3, <1>5, <1>6, QuietStep

LEMMA RecoverDataStep ==
  ASSUME CustodyIInv, NEW p \in Procs, RecoverPut(p) \/ RecoverAudit(p)
  PROVE  CustodyIInv'
<1> USE DEF CustodyIInv
<1>1. /\ pc[p] \in Holding /\ pc[p] # "idle" /\ Calm /\ UNCHANGED <<os, disk, mem, identity, backups, fresh, undone>>
      /\ faults' = faults \/ faults' = faults + 1
      /\ Goto(p, "rec_open") \/ Return(p)
      /\ written' = written \/ written' = written \cup {job[p].v}
      /\ acked' = acked \/ acked' = [acked EXCEPT ![running] = job[p].v]
  BY DEF RecoverPut, RecoverAudit, Holding, NoKeychainCall, Fault
<1>2. UNCHANGED running /\ "rec_open" \in Labels /\ "rec_open" \notin Undoing
  BY <1>1 DEF Calm, Labels, Undoing
<1>3. JobInv' /\ Labelled
  BY <1>1, <1>2, GotoLabelled, ReturnLabelled
<1>4. acked' \in [{"os", "file"} -> Keys]
  BY <1>1, AckStep
<1>5. DataInv'
  BY <1>1, <1>4, JobKeys DEF DataInv
<1>6. IdentityInv'
  BY <1>1, IdentityFrame DEF identity
<1> QED BY <1>1, <1>3, <1>5, <1>6, QuietStep

LEMMA RecoverOpenStep == ASSUME CustodyIInv, NEW p \in Procs, RecoverOpen(p) PROVE CustodyIInv'
<1> USE DEF CustodyIInv
<1>1. /\ pc[p] \in Holding /\ pc[p] # "idle" /\ Calm /\ UNCHANGED <<os, disk, mem, faults, backups, fresh, ghosts>>
      /\ Goto(p, "rec_audit") \/ Return(p)
      /\ hmac' = job[p].v
      /\ \/ state' = "unsealed" /\ vault' = job[p].v
         \/ UNCHANGED <<state, vault>>
  BY DEF RecoverOpen, Holding, NoKeychainCall
<1>2. UNCHANGED running /\ "rec_audit" \in Labels /\ "rec_audit" \notin Undoing
  BY <1>1 DEF Calm, Labels, Undoing
<1>3. JobInv' /\ Labelled
  BY <1>1, <1>2, GotoLabelled, ReturnLabelled
<1>4. IdentityInv'
  BY <1>1, JobKeys DEF IdentityInv
<1>5. DataInv' /\ undone' = undone
  BY <1>1, DataFrame DEF ghosts
<1> QED BY <1>1, <1>3, <1>4, <1>5, QuietStep

(* What the two ways to unseal find. *)
LEMMA UnwrapKeys ==
  ASSUME StoreInv
  PROVE  /\ \A via \in {"keychain", "passphrase"} : MasterBy(View, via) \in Keys
         /\ \A mk \in Keys : Unwrap(View, mk) \in Keys
<1>1. View \in [Accounts -> Entry]
  BY DEF View, StoreInv, IsStore
<1>2. View["master"].k \in Keys /\ View["wrap"].k \in Keys /\ View["vrkm"].v \in Keys /\ 0 \in Keys
  BY <1>1, EntryFacts, Strings
<1> QED BY <1>2 DEF MasterBy, Unwrap

LEMMA UnsealStep ==
  ASSUME CustodyIInv, NEW p \in Procs,
         \/ \E via \in {"keychain", "passphrase"} : UnsealBegin(p, via)
         \/ UnsealMaster(p) \/ UnsealVrk(p)
  PROVE  CustodyIInv'
<1> USE DEF CustodyIInv
<1>1. Calm /\ UNCHANGED <<os, disk, mem, faults, backups, fresh, acked, undone, running>>
  BY DEF UnsealBegin, UnsealMaster, UnsealVrk, NoKeychainCall, ghosts, Calm
<1>2. "fetch_master" \in Labels /\ "fetch_vrk" \in Labels
      /\ {"fetch_master", "fetch_vrk"} \cap (Undoing \cup Holding) = {}
  BY DEF Labels, Undoing, Holding
<1>3. CASE \E via \in {"keychain", "passphrase"} : UnsealBegin(p, via)
  <2>1. PICK via \in {"keychain", "passphrase"} : UnsealBegin(p, via)
    BY <1>3
  <2> DEFINE j == [NoJob EXCEPT !.via = via]
  <2>2. j \in [k : Keys, v : Keys, via : {"keychain", "passphrase"}]
    BY EntryFacts DEF NoJob
  <2>3. Up /\ Start(p, "fetch_master", j) /\ state = "sealed" /\ state' = "unsealing"
        /\ UNCHANGED <<vault, hmac, written>>
    BY <2>1 DEF UnsealBegin, ghosts
  <2> HIDE DEF j
  <2>4. JobInv' /\ \A q \in Procs : pc'[q] = IF q = p THEN "fetch_master" ELSE pc[q]
    BY <1>1, <1>2, <2>2, <2>3, StartStep
  <2>5. Labelled
    BY <1>2, <2>4 DEF Labelled
  <2>6. IdentityInv' /\ DataInv'
    BY <1>1, <2>3 DEF IdentityInv, DataInv
  <2> QED BY <1>1, <2>4, <2>5, <2>6, QuietStep
<1>4. CASE UnsealMaster(p)
  <2>1. DataInv'
    BY <1>1, <1>4, DataFrame DEF UnsealMaster, ghosts
  <2> DEFINE mk == MasterBy(View, job[p].via)
  <2>2. mk \in Keys
    BY UnwrapKeys DEF JobInv
  <2>3. CASE mk # 0
    <3> DEFINE j == [job[p] EXCEPT !.k = mk]
    <3>1. j \in [k : Keys, v : Keys, via : {"keychain", "passphrase"}]
      <4>1. job[p] \in [k : Keys, v : Keys, via : {"keychain", "passphrase"}]
        BY DEF JobInv
      <4> HIDE DEF mk
      <4> QED BY <2>2, <4>1
    <3>2. Start(p, "fetch_vrk", j) /\ UNCHANGED <<state, hmac, vault>> /\ Up
      BY <1>4, <2>3, UpWhile DEF UnsealMaster
    <3> HIDE DEF j
    <3>3. JobInv' /\ \A q \in Procs : pc'[q] = IF q = p THEN "fetch_vrk" ELSE pc[q]
      BY <1>1, <1>2, <3>1, <3>2, StartStep
    <3>4. Labelled
      BY <1>2, <3>3 DEF Labelled
    <3> QED BY <1>1, <2>1, <3>2, <3>3, <3>4, QuietStep, IdentityFrame
  <2>4. CASE mk = 0
    <3>1. RollbackToSealed(p) /\ UNCHANGED vault
      BY <1>4, <2>4 DEF UnsealMaster
    <3>2. JobInv' /\ Labelled
      BY <1>1, <3>1, ReturnLabelled DEF RollbackToSealed
    <3>3. IdentityInv'
      BY <3>1, EntryFacts DEF IdentityInv, RollbackToSealed
    <3> QED BY <1>1, <2>1, <3>2, <3>3, QuietStep
  <2> QED BY <2>3, <2>4
<1>5. CASE UnsealVrk(p)
  <2> DEFINE v == Unwrap(View, job[p].k)
  <2>1. v \in Keys
    BY UnwrapKeys DEF JobInv
  <2>2. Return(p)
    BY <1>5 DEF UnsealVrk, RollbackToSealed
  <2>3. JobInv' /\ Labelled
    BY <1>1, <2>2, ReturnLabelled
  <2>4. \/ v # 0 /\ state' = "unsealed" /\ vault' = v /\ hmac' = v /\ written' = written \cup {v}
        \/ state' = (IF state = "unsealing" THEN "sealed" ELSE state) /\ hmac' = 0 /\ UNCHANGED <<vault, written>>
    BY <1>5 DEF UnsealVrk, RollbackToSealed
  <2> HIDE DEF v
  <2>5. IdentityInv' /\ DataInv'
    BY <1>1, <2>1, <2>4, EntryFacts DEF IdentityInv, DataInv
  <2> QED BY <1>1, <2>3, <2>5, QuietStep
<1> QED BY <1>3, <1>4, <1>5

LEMMA SealStep == ASSUME CustodyIInv, NEW p \in Procs, Seal(p) PROVE CustodyIInv'
<1> USE DEF CustodyIInv
<1>1. Calm /\ UNCHANGED <<os, disk, mem, faults, backups, fresh, written, acked, undone, running, pc, job>>
      /\ state' = "sealed" /\ vault' = 0 /\ hmac' = 0
  BY DEF Seal, NoKeychainCall, ghosts, Calm
<1>2. JobInv' /\ Labelled /\ DataInv'
  BY <1>1, JobFrame, DataFrame DEF Labelled
<1>3. IdentityInv'
  BY <1>1, EntryFacts DEF IdentityInv
<1> QED BY <1>1, <1>2, <1>3, QuietStep

LEMMA TakeBackupStep == ASSUME CustodyIInv, NEW p \in Procs, TakeBackup(p) PROVE CustodyIInv'
<1> USE DEF CustodyIInv
<1>1. /\ Calm /\ UNCHANGED <<os, disk, mem, faults, identity, fresh, written, acked, undone, running, pc, job>>
      /\ View["vrkr"] # None
      /\ backups' = backups \cup {[gives |-> View["vrkr"].v, of |-> vault]}
  BY DEF TakeBackup, NoKeychainCall, ghosts, Calm
<1>2. JobInv' /\ Labelled /\ IdentityInv'
  BY <1>1, JobFrame, IdentityFrame DEF Labelled, identity
<1>3. View["vrkr"] \in Entry /\ View["vrkr"].k = 0
  BY Strings DEF View, StoreInv, IsStore
<1>4. View["vrkr"].v \in Keys /\ View["vrkr"].v # 0
  BY <1>1, <1>3, EntryFacts DEF None
<1>5. DataInv'
  BY <1>1, <1>4 DEF DataInv, IdentityInv
<1> QED BY <1>1, <1>2, <1>5, QuietStep

(* Boot, migration and stop. *)

LEMMA BootStep == ASSUME CustodyIInv, Boot PROVE CustodyIInv'
<1> USE DEF CustodyIInv
<1>1. running = "off" /\ UNCHANGED <<os, disk, identity, backups, pc, job, fresh, faults, written, acked, undone>>
  BY DEF Boot, durable, ghosts
<1>2. \/ running' = "boot" /\ mem' = NoFile /\ (todo' = <<>> \/ todo' = disk.ix)
      \/ running' = "file" /\ mem' = disk /\ todo' = todo
  BY DEF Boot, OpenOs, OpenFile
<1>3. StoreInv'
  <2>1. disk.ix \in Seq(Accounts) /\ <<>> \in Seq(Accounts) /\ todo \in Seq(Accounts)
    BY DEF StoreInv, IsStore
  <2> QED BY <1>1, <1>2, <2>1, EmptyStore DEF StoreInv
<1>4. ~Up /\ \A p \in Procs : pc[p] = "idle"
  BY <1>1 DEF JobInv, Up
<1>5. JobInv'
  BY <1>1, <1>4 DEF JobInv, Holding
<1>6. RollInv'
  <2>1. running' = "file" => mem' = disk
    BY <1>2
  <2> QED BY <1>1, <1>4, <2>1 DEF RollInv, Undoing
<1>7. IdentityInv' /\ DataInv'
  BY <1>1, IdentityFrame, DataFrame DEF identity
<1> QED BY <1>3, <1>5, <1>6, <1>7

LEMMA MigrateStep == ASSUME CustodyIInv, Migrate PROVE CustodyIInv'
<1> USE DEF CustodyIInv
<1>1. /\ running = "boot" /\ UNCHANGED <<disk, mem, identity, pc, job, backups, fresh, written, acked>>
      /\ undone' = IF undone = "os" /\ os'["master"] # None THEN "no" ELSE undone
  BY DEF Migrate
<1>2. faults' = faults \/ faults' = faults + 1
  BY DEF Migrate, NoFault, Fault
<1>3. running' \in {"boot", "os"}
  BY <1>1 DEF Migrate
<1>4. os' = os \/ \E a \in Accounts : os' = [os EXCEPT ![a] = disk.e[a]]
  <2>1. todo # <<>> => Head(todo) \in Accounts
    BY DEF StoreInv
  <2>2. todo = <<>> => os' = os
    BY DEF Migrate
  <2>3. todo # <<>> => os' = os \/ os' = [os EXCEPT ![Head(todo)] = disk.e[Head(todo)]]
    BY DEF Migrate
  <2> QED BY <2>1, <2>2, <2>3
<1>5. os' \in [Accounts -> Entry] /\ os'["vrkr"].k = 0
  BY <1>4, Strings DEF StoreInv, IsStore
<1>6. todo' \in Seq(Accounts)
  <2>1. todo' = todo \/ todo' = <<>> \/ (todo # <<>> /\ todo' = Tail(todo))
    BY DEF Migrate
  <2>2. todo \in Seq(Accounts) /\ <<>> \in Seq(Accounts)
    BY DEF StoreInv
  <2>3. todo # <<>> => Tail(todo) \in Seq(Accounts)
    BY <2>2, HeadTailProperties
  <2> QED BY <2>1, <2>2, <2>3
<1>7. StoreInv'
  BY <1>1, <1>3, <1>5, <1>6 DEF StoreInv
<1>8. ~Up /\ \A p \in Procs : pc[p] = "idle"
  BY <1>1 DEF JobInv, Up
<1>9. JobInv'
  BY <1>1, <1>8 DEF JobInv, Holding
<1>10. RollInv'
  <2>1. undone # "no" => faults >= 1 /\ faults' >= 1 /\ (faults' = 1 => faults = 1)
    BY <1>2 DEF RollInv, DataInv
  <2> QED BY <1>1, <1>3, <1>8, <2>1 DEF RollInv, Undoing
<1>11. IdentityInv' /\ DataInv'
  BY <1>1, <1>2, IdentityFrame, DataFrame DEF identity
<1> QED BY <1>7, <1>9, <1>10, <1>11

LEMMA StopStep == ASSUME CustodyIInv, Stop PROVE CustodyIInv'
<1> USE DEF CustodyIInv
<1>1. /\ UNCHANGED <<os, disk, backups, fresh, written, acked, undone>>
      /\ running' = "off" /\ mem' = NoFile /\ todo' = <<>>
      /\ state' = "sealed" /\ vault' = 0 /\ hmac' = 0
      /\ pc' = [p \in Procs |-> "idle"] /\ job' = [p \in Procs |-> NoJob]
      /\ faults' = faults \/ faults' = faults + 1
  BY DEF Stop, durable, ghosts, Idle, NoFault, Fault
<1>2. StoreInv'
  BY <1>1, EmptyStore DEF StoreInv
<1>3. JobInv'
  <2>1. NoJob \in [k : Keys, v : Keys, via : {"keychain", "passphrase"}]
        /\ "idle" \in Labels /\ "idle" \notin Holding
    BY EntryFacts DEF NoJob, Labels, Holding
  <2> HIDE DEF NoJob, Labels, Holding
  <2> QED BY <1>1, <2>1 DEF JobInv
<1>4. RollInv'
  <2>1. undone # "no" => faults >= 1 /\ faults' >= 1 /\ (faults' = 1 => faults = 1)
    BY <1>1 DEF RollInv, DataInv
  <2> QED BY <1>1, <2>1 DEF RollInv, Undoing
<1>5. IdentityInv' /\ DataInv'
  BY <1>1, DataFrame, EntryFacts DEF IdentityInv
<1> QED BY <1>2, <1>3, <1>4, <1>5

LEMMA CustodyInitIInv == CustodyInit => CustodyIInv
<1> SUFFICES ASSUME CustodyInit PROVE CustodyIInv
  OBVIOUS
<1>1. StoreInv
  BY EmptyStore DEF CustodyInit, StoreInv
<1>2. JobInv
  <2>1. NoJob \in [k : Keys, v : Keys, via : {"keychain", "passphrase"}]
        /\ "idle" \in Labels /\ "idle" \notin Holding
    BY EntryFacts DEF NoJob, Labels, Holding
  <2>2. pc = [p \in Procs |-> "idle"] /\ job = [p \in Procs |-> NoJob]
    BY DEF CustodyInit, Idle
  <2> HIDE DEF NoJob, Labels, Holding
  <2> QED BY <2>1, <2>2 DEF JobInv
<1>3. RollInv /\ IdentityInv /\ DataInv
  BY EntryFacts DEF CustodyInit, RollInv, IdentityInv, DataInv, Idle, NoFile, Undoing
<1> QED BY <1>1, <1>2, <1>3 DEF CustodyIInv

LEMMA CustodyStep == ASSUME CustodyIInv, [CustodyNext]_custodyVars PROVE CustodyIInv'
<1>1. CASE UNCHANGED custodyVars
  BY <1>1 DEF custodyVars, durable, identity, bounds, ghosts, CustodyIInv, StoreInv, IdentityInv,
     JobInv, DataInv, RollInv, View, Up
<1>2. CASE CustodyNext
  BY <1>2, BootStep, MigrateStep, StopStep, InitMasterStep, RecoverMasterStep, VrkMasterStep,
     VrkRecoveryStep, EnrolStep, UndoSteps, UndoVrkMasterStep, InitAuditStep, RecoverDataStep,
     RecoverOpenStep, UnsealStep, SealStep, TakeBackupStep DEF CustodyNext
<1> QED BY <1>1, <1>2

LEMMA CustodyInvariance == CustodySpec => []CustodyIInv
BY CustodyInitIInv, CustodyStep, PTL DEF CustodySpec

-----------------------------------------------------------------------------
(* init_vault.rs: with one failing call in all, an init that could not store    *)
(* its wrapped keys and rolled back leaves the master account free on disk,     *)
(* whatever other requests do meanwhile and after any number of restarts; and   *)
(* every reachable state is well typed, the indexes of the file keystore        *)
(* included, after any number of faults.                                        *)
THEOREM RollbackStaysSafe == CustodySpec => []RollbackSafe
<1>1. ASSUME CustodyIInv PROVE RollbackSafe
  <2> USE <1>1 DEF CustodyIInv
  <2>1. ASSUME NEW f, IsStore(f)
        PROVE  IsInjective(f.ix) /\ Range(f.ix) = {a \in Accounts : f.e[a] # None}
    <3>1. DOMAIN f.ix = Places(f) /\ \A i \in Places(f) : f.ix[i] \in Accounts
      BY <2>1 DEF IsStore, Places
    <3>2. IsInjective(f.ix)
      BY <2>1, <3>1 DEF IsInjective, IsStore
    <3>3. \A a \in Accounts : f.e[a] # None <=> \E i \in Places(f) : f.ix[i] = a
      BY <2>1 DEF IsStore
    <3> HIDE DEF IsStore
    <3>4. Range(f.ix) = {f.ix[i] : i \in Places(f)}
      BY <3>1 DEF Range
    <3> QED BY <3>1, <3>2, <3>3, <3>4
  <2>2. Range(todo) \subseteq Accounts
    BY DEF StoreInv, Range
  <2>3. CustodyTypeOK
    <3>1. \A f \in {disk, mem} : f.e \in [Accounts -> Entry] /\ IsInjective(f.ix)
                                 /\ Range(f.ix) = {a \in Accounts : f.e[a] # None}
      <4>1. IsStore(disk) /\ IsStore(mem)
        BY DEF StoreInv
      <4>2. \A f : IsStore(f) => f.e \in [Accounts -> Entry]
        BY DEF IsStore
      <4> QED BY <2>1, <4>1, <4>2, Zenon
    <3>2. backups \subseteq [gives : Keys, of : Keys] /\ written \subseteq Keys \ {0}
      BY DEF DataInv
    <3> QED BY <2>2, <3>1, <3>2 DEF CustodyTypeOK, StoreInv, IdentityInv, JobInv, DataInv, RollInv
  <2>4. RollbackFreesInit
    BY DEF RollInv, RollbackFreesInit, OnDisk
  <2> QED BY <2>3, <2>4 DEF RollbackSafe
<1> QED BY <1>1, CustodyInvariance, PTL

-----------------------------------------------------------------------------
(* What a ceremony that reported success left, while ceremonies do not        *)
(* overlap.                                                                   *)

Ceremony == Labels \ {"idle", "fetch_master", "fetch_vrk"}
Wrapped == Holding \ {"init_vrkm", "rec_vrkm"}

Opening(e, v) == e["master"].k # 0 /\ e["vrkm"].k = e["master"].k /\ e["vrkm"].v = v

(* The acknowledged key opens the keystore, and its loaded copy.              *)
AckedInv ==
  /\ acked["os"] # 0 => Opening(os, acked["os"])
  /\ acked["file"] # 0 => Opening(disk.e, acked["file"])
  /\ acked["file"] # 0 /\ running = "file" => Opening(mem.e, acked["file"])

(* A ceremony runs alone, on a keystore without an acknowledged key; what it   *)
(* stored is there and, in the file keystore, on disk.                        *)
Stored(e, l, j) ==
  /\ l \in Holding => e["master"].k = j.k
  /\ l \in Wrapped => e["vrkm"].k = j.k /\ e["vrkm"].v = j.v
CeremonyInv ==
  /\ \A p, q \in Procs : pc[p] \in Ceremony /\ pc[q] \in Ceremony => p = q
  /\ \A p \in Procs : pc[p] \in Ceremony => acked[running] = 0
  /\ \A p \in Procs : /\ Stored(View, pc[p], job[p])
                      /\ running = "file" => Stored(disk.e, pc[p], job[p])

AckIInv == CustodyIInv /\ AckedInv /\ CeremonyInv

(* No ceremony starts while another is under way; init_lock ensures it among   *)
(* inits, but disaster recovery takes no lock.                                *)
CeremoniesAlone ==
  \A p \in Procs : InitMaster(p) \/ (\E b \in backups : RecoverMaster(p, b.gives))
                     => \A q \in Procs : pc[q] \notin Ceremony

LEMMA CeremonyLabels ==
  /\ Holding \subseteq Ceremony /\ Wrapped \subseteq Holding /\ "idle" \notin Ceremony
  /\ {"init_undo", "init_undo2", "init_undo3", "rec_undo", "rec_undo2", "rec_undo3"} \subseteq Ceremony \ Holding
  /\ {"init_vrkm", "rec_vrkm"} \cap Wrapped = {}
  /\ {"fetch_master", "fetch_vrk"} \cap Ceremony = {}
BY DEF Holding, Ceremony, Wrapped, Labels

(* The master and its wrap are as they were.                                  *)
Same(e, f) == f["master"] = e["master"] /\ f["vrkm"] = e["vrkm"]
SameKeys ==
  /\ Same(os, os') /\ Same(mem.e, mem'.e)
  /\ Same(disk.e, disk'.e) \/ (running = "file" /\ Same(mem.e, disk'.e))

(* No request enters a ceremony, or gets further in one.                      *)
Onward ==
  \A q \in Procs :
    /\ pc'[q] \in Ceremony => pc[q] \in Ceremony
    /\ pc'[q] \in Holding => pc[q] \in Holding /\ job'[q] = job[q]
    /\ pc'[q] \in Wrapped => pc[q] \in Wrapped

LEMMA SameOpening == ASSUME NEW e, NEW f, Same(e, f), NEW v, Opening(e, v) PROVE Opening(f, v)
BY DEF Same, Opening

LEMMA AckFrame ==
  ASSUME AckIInv, CustodyIInv', UNCHANGED <<running, acked>>, SameKeys, Onward
  PROVE  AckIInv'
<1>1. AckedInv'
  <2>1. acked["os"] # 0 => Opening(os', acked["os"])
    BY SameOpening DEF AckIInv, AckedInv, SameKeys
  <2>2. acked["file"] # 0 => Opening(disk'.e, acked["file"])
    BY SameOpening DEF AckIInv, AckedInv, SameKeys
  <2>3. acked["file"] # 0 /\ running = "file" => Opening(mem'.e, acked["file"])
    BY SameOpening DEF AckIInv, AckedInv, SameKeys
  <2> QED BY <2>1, <2>2, <2>3 DEF AckedInv
<1>2. CeremonyInv'
  <2>1. \A p, q \in Procs : pc'[p] \in Ceremony /\ pc'[q] \in Ceremony => p = q
    BY DEF AckIInv, CeremonyInv, Onward
  <2>2. \A p \in Procs : pc'[p] \in Ceremony => acked'[running'] = 0
    BY DEF AckIInv, CeremonyInv, Onward
  <2>3. Same(View, View') /\ (running = "file" => Same(disk.e, disk'.e) \/ Same(View, disk'.e))
    BY DEF SameKeys, View
  <2>4. ASSUME NEW p \in Procs, NEW e, NEW f, Same(e, f), Stored(e, pc[p], job[p])
        PROVE  Stored(f, pc'[p], job'[p])
    BY <2>4, CeremonyLabels DEF Same, Stored, Onward
  <2>5. \A p \in Procs : /\ Stored(View', pc'[p], job'[p])
                         /\ running = "file" => Stored(disk'.e, pc'[p], job'[p])
    BY <2>3, <2>4 DEF CeremonyInv, AckIInv
  <2> QED BY <2>1, <2>2, <2>5 DEF CeremonyInv
<1> QED BY <1>1, <1>2 DEF AckIInv

(* A ceremony ends with success: its wrap is on disk, so its key opens.       *)
LEMMA AckNow ==
  ASSUME AckIInv, CustodyIInv', NEW p \in Procs, pc[p] \in Wrapped, pc'[p] = "idle",
         UNCHANGED running, acked' = [acked EXCEPT ![running] = job[p].v], SameKeys,
         \A q \in Procs : q # p => pc'[q] = pc[q]
  PROVE  AckIInv'
<1>1. Up /\ pc[p] \in Ceremony /\ pc[p] \in Holding /\ pc[p] # "idle"
  BY CeremonyLabels, UpWhile DEF AckIInv, CustodyIInv
<1>2. \A q \in Procs : pc'[q] \notin Ceremony
  BY <1>1, CeremonyLabels DEF AckIInv, CeremonyInv
<1>3. CeremonyInv'
  <2>1. \A q \in Procs : \A e : Stored(e, pc'[q], job'[q])
    BY <1>2, CeremonyLabels DEF Stored
  <2> QED BY <1>2, <2>1 DEF CeremonyInv
<1>4. job[p].k # 0
  BY <1>1, JobKeys DEF AckIInv, CustodyIInv
<1>5. Stored(View, pc[p], job[p]) /\ (running = "file" => Stored(disk.e, pc[p], job[p]))
  BY DEF AckIInv, CeremonyInv
<1>6. ASSUME NEW e, Stored(e, pc[p], job[p]) PROVE Opening(e, job[p].v)
  BY <1>1, <1>4, <1>6 DEF Stored, Opening
<1>7. acked \in [{"os", "file"} -> Keys]
  BY DEF AckIInv, CustodyIInv, DataInv
<1>8. CASE running = "os"
  <2>1. acked'["os"] = job[p].v /\ acked'["file"] = acked["file"]
    BY <1>7, <1>8
  <2>2. Opening(os', job[p].v)
    BY <1>5, <1>6, <1>8, SameOpening DEF SameKeys, View
  <2>3. acked["file"] # 0 => Opening(disk'.e, acked["file"])
    BY <1>8, SameOpening DEF AckIInv, AckedInv, SameKeys
  <2> QED BY <1>3, <1>8, <2>1, <2>2, <2>3 DEF AckedInv, AckIInv
<1>9. CASE running = "file"
  <2>1. acked'["file"] = job[p].v /\ acked'["os"] = acked["os"]
    BY <1>7, <1>9
  <2>2. Opening(disk'.e, job[p].v) /\ Opening(mem'.e, job[p].v)
    BY <1>5, <1>6, <1>9, SameOpening DEF SameKeys, View
  <2>3. acked["os"] # 0 => Opening(os', acked["os"])
    BY SameOpening DEF AckIInv, AckedInv, SameKeys
  <2> QED BY <1>3, <1>9, <2>1, <2>2, <2>3 DEF AckedInv, AckIInv
<1> QED BY <1>1, <1>8, <1>9 DEF Up

(* A ceremony changes the running keystore, which has no acknowledged key.    *)
LEMMA Unacked ==
  ASSUME AckIInv, Up, acked'[running] = 0, UNCHANGED running,
         running = "os" => acked'["file"] = acked["file"] /\ UNCHANGED <<mem, disk>>,
         running = "file" => acked'["os"] = acked["os"] /\ UNCHANGED os
  PROVE  AckedInv'
<1>1. CASE running = "os"
  BY <1>1 DEF AckIInv, AckedInv
<1>2. CASE running = "file"
  BY <1>2 DEF AckIInv, AckedInv
<1> QED BY <1>1, <1>2 DEF Up

(* It starts, alone. *)
LEMMA AckMaster ==
  ASSUME AckIInv, CustodyIInv', NEW p \in Procs, pc[p] = "idle", Up,
         \A q \in Procs : pc[q] \notin Ceremony,
         NEW l \in {"init_vrkm", "rec_vrkm"}, NEW n \in Keys, n # 0, NEW v,
         \/ /\ StoreOk("master", [k |-> n, v |-> 0])
            /\ Start(p, l, [k |-> n, v |-> v, via |-> "keychain"])
         \/ StoreFails("master", [k |-> n, v |-> 0]) /\ UNCHANGED <<pc, job>>,
         Calm, acked' = acked \/ acked' = [acked EXCEPT ![running] = 0],
         acked'[running] = 0
  PROVE  AckIInv'
<1> DEFINE x == [k |-> n, v |-> 0]
<1>1. UNCHANGED <<running, todo>>
  BY DEF Calm
<1>2. x \in Entry /\ x # None /\ x.k = n
  BY EntryFacts
<1>3. StoreOk("master", x) \/ StoreFails("master", x)
  OBVIOUS
<1>4. (StoreOk("master", x) /\ Start(p, l, [k |-> n, v |-> v, via |-> "keychain"])) \/ UNCHANGED <<pc, job>>
  OBVIOUS
<1> HIDE DEF x
<1>5. /\ running = "file" => os' = os /\ mem'.e = [mem.e EXCEPT !["master"] = x]
      /\ running # "file" => mem' = mem /\ disk' = disk
      /\ StoreOk("master", x) => /\ running = "file" => disk'.e = mem'.e
                                 /\ running # "file" => os' = [os EXCEPT !["master"] = x]
  BY <1>1, <1>2, <1>3, StoreCall, Strings DEF AckIInv, CustodyIInv
<1>6. acked \in [{"os", "file"} -> Keys]
  BY DEF AckIInv, CustodyIInv, DataInv
<1>7. AckedInv'
  BY <1>1, <1>5, <1>6, Unacked
<1>8. CASE UNCHANGED <<pc, job>>
  <2>1. \A q \in Procs : pc'[q] \notin Ceremony
    BY <1>8
  <2>2. \A q \in Procs : \A e : Stored(e, pc'[q], job'[q])
    BY <2>1, CeremonyLabels DEF Stored
  <2> QED BY <1>7, <2>1, <2>2 DEF CeremonyInv, AckIInv
<1>9. CASE StoreOk("master", x) /\ Start(p, l, [k |-> n, v |-> v, via |-> "keychain"])
  <2>1. pc \in [Procs -> Labels] /\ DOMAIN job = Procs
    BY DEF AckIInv, CustodyIInv, JobInv
  <2>2. \A q \in Procs : pc'[q] = IF q = p THEN l ELSE pc[q]
    BY <1>9, <2>1 DEF Start
  <2>3. job'[p].k = n
    BY <1>9, <2>1 DEF Start
  <2>4. \A q \in Procs : pc'[q] \in Ceremony => q = p
    BY <2>2
  <2>5. l \notin Wrapped
    BY DEF Wrapped
  <2>6. os \in [Accounts -> Entry] /\ mem.e \in [Accounts -> Entry]
    BY DEF AckIInv, CustodyIInv, StoreInv, IsStore
  <2>7. View'["master"] = x /\ (running = "file" => disk'.e["master"] = x)
    BY <1>1, <1>5, <1>9, <2>6, Strings DEF View
  <2>8. ASSUME NEW q \in Procs, NEW e, e["master"] = x PROVE Stored(e, pc'[q], job'[q])
    BY <1>2, <2>2, <2>3, <2>4, <2>5, <2>8, CeremonyLabels DEF Stored
  <2>9. \A q \in Procs : /\ Stored(View', pc'[q], job'[q])
                         /\ running = "file" => Stored(disk'.e, pc'[q], job'[q])
    BY <2>7, <2>8
  <2> QED BY <1>1, <1>7, <2>4, <2>9 DEF CeremonyInv, AckIInv
<1> QED BY <1>4, <1>8, <1>9

LEMMA QuietKeys == ASSUME UNCHANGED <<os, disk, mem>> PROVE SameKeys
BY DEF SameKeys, Same

LEMMA OtherKeys ==
  ASSUME StoreInv, NEW a \in Accounts \ {"master", "vrkm"}, NEW x \in Entry, x # None,
         a = "vrkr" => x.k = 0, StoreOk(a, x) \/ StoreFails(a, x), UNCHANGED <<running, todo>>
  PROVE  SameKeys
<1>1. /\ running = "file" => /\ os' = os /\ mem'.e = [mem.e EXCEPT ![a] = x]
                             /\ disk' = disk \/ disk'.e = [mem.e EXCEPT ![a] = x]
      /\ running # "file" => /\ mem' = mem /\ disk' = disk
                             /\ os' = os \/ os' = [os EXCEPT ![a] = x]
  BY StoreCall
<1>2. os \in [Accounts -> Entry] /\ mem.e \in [Accounts -> Entry]
  BY DEF StoreInv, IsStore
<1>3. \A e \in [Accounts -> Entry] : Same(e, [e EXCEPT ![a] = x]) /\ Same(e, e)
  BY Strings DEF Same
<1>4. Same(disk.e, disk.e)
  BY DEF Same
<1> QED BY <1>1, <1>2, <1>3, <1>4 DEF SameKeys

(* The labels of a step of p: to l, or back to idle. *)
LEMMA OnwardGoto ==
  ASSUME JobInv, NEW p \in Procs, NEW l, Goto(p, l), pc[p] \in Ceremony,
         l \in Holding => pc[p] \in Holding, l \in Wrapped => pc[p] \in Wrapped
  PROVE  Onward
<1>1. job' = job /\ \A q \in Procs : pc'[q] = IF q = p THEN l ELSE pc[q]
  BY DEF Goto, JobInv
<1> QED BY <1>1 DEF Onward

LEMMA OnwardReturn == ASSUME JobInv, NEW p \in Procs, Return(p) PROVE Onward
<1>1. \A q \in Procs : pc'[q] = IF q = p THEN "idle" ELSE pc[q]
  BY ReturnStep DEF Return, JobInv
<1>2. \A q \in Procs : q # p => job'[q] = job[q]
  BY DEF Return, JobInv
<1> QED BY <1>1, <1>2, CeremonyLabels DEF Onward

LEMMA AckInitMaster ==
  ASSUME AckIInv, CustodyIInv', NEW p \in Procs, InitMaster(p), CeremoniesAlone
  PROVE  AckIInv'
<1>1. \A q \in Procs : pc[q] \notin Ceremony
  BY DEF CeremoniesAlone
<1>2. fresh + 1 \in Keys /\ fresh + 1 # 0
  BY EntryFacts DEF InitMaster, AckIInv, CustodyIInv, DataInv, Keys
<1>3. /\ Up /\ pc[p] = "idle" /\ Calm /\ acked' = acked /\ View["master"] = None
      /\ \/ /\ StoreOk("master", [k |-> fresh + 1, v |-> 0])
            /\ Start(p, "init_vrkm", [k |-> fresh + 1, v |-> fresh + 1, via |-> "keychain"])
         \/ StoreFails("master", [k |-> fresh + 1, v |-> 0]) /\ UNCHANGED <<pc, job>>
  BY DEF InitMaster
<1>4. acked'[running] = 0
  <2>1. View["master"].k = 0
    BY <1>3 DEF None
  <2> QED BY <1>3, <2>1 DEF View, Up, AckIInv, AckedInv, Opening
<1> QED BY <1>1, <1>2, <1>3, <1>4, AckMaster

LEMMA AckRecoverMaster ==
  ASSUME AckIInv, CustodyIInv', NEW p \in Procs, NEW b \in backups, RecoverMaster(p, b.gives),
         CeremoniesAlone
  PROVE  AckIInv'
<1>1. \A q \in Procs : pc[q] \notin Ceremony
  BY DEF CeremoniesAlone
<1>2. fresh + 1 \in Keys /\ fresh + 1 # 0
  BY EntryFacts DEF RecoverMaster, AckIInv, CustodyIInv, DataInv, Keys
<1>3. /\ Up /\ pc[p] = "idle" /\ Calm /\ acked' = [acked EXCEPT ![running] = 0]
      /\ \/ /\ StoreOk("master", [k |-> fresh + 1, v |-> 0])
            /\ Start(p, "rec_vrkm", [k |-> fresh + 1, v |-> b.gives, via |-> "keychain"])
         \/ StoreFails("master", [k |-> fresh + 1, v |-> 0]) /\ UNCHANGED <<pc, job>>
  BY DEF RecoverMaster
<1>4. acked'[running] = 0
  BY <1>3 DEF AckIInv, CustodyIInv, DataInv, Up
<1> QED BY <1>1, <1>2, <1>3, <1>4, AckMaster

LEMMA AckVrkMaster ==
  ASSUME AckIInv, CustodyIInv', NEW p \in Procs, InitVrkMaster(p) \/ RecoverVrkMaster(p)
  PROVE  AckIInv'
<1> DEFINE x == [k |-> job[p].k, v |-> job[p].v]
<1>1. PICK good \in {"init_vrkr", "rec_vrkr"}, bad \in {"init_undo", "rec_undo"} :
        /\ pc[p] \in Holding /\ Calm /\ acked' = acked
        /\ \/ StoreOk("vrkm", x) /\ Goto(p, good)
           \/ StoreFails("vrkm", x) /\ Goto(p, bad)
  BY DEF InitVrkMaster, RecoverVrkMaster, Holding, ghosts
<1>2. x \in Entry /\ x # None /\ x.k = job[p].k /\ x.v = job[p].v
  BY <1>1, JobEntry DEF AckIInv, CustodyIInv
<1>3. UNCHANGED <<running, todo>>
  BY <1>1 DEF Calm
<1>4. Up /\ pc[p] \in Ceremony /\ acked[running] = 0
  BY <1>1, CeremonyLabels, UpWhile DEF AckIInv, CustodyIInv, CeremonyInv
<1> HIDE DEF x
<1>5. /\ running = "file" => os' = os /\ mem'.e = [mem.e EXCEPT !["vrkm"] = x]
      /\ running # "file" => mem' = mem /\ disk' = disk
      /\ StoreOk("vrkm", x) => /\ running = "file" => disk'.e = mem'.e
                               /\ running # "file" => os' = [os EXCEPT !["vrkm"] = x]
  <2>1. StoreOk("vrkm", x) \/ StoreFails("vrkm", x)
    BY <1>1
  <2>2. "vrkm" # "vrkr"
    OBVIOUS
  <2> QED BY <1>2, <1>3, <2>1, <2>2, StoreCall, Strings DEF AckIInv, CustodyIInv
<1>6. AckedInv'
  BY <1>1, <1>3, <1>4, <1>5, Unacked
<1>7. \A q \in Procs : q # p => pc[q] \notin Ceremony
  BY <1>4 DEF AckIInv, CeremonyInv
<1>8. PICK l \in {good, bad} : Goto(p, l) /\ (l = good => StoreOk("vrkm", x))
  <2>1. good # bad
    OBVIOUS
  <2> QED BY <1>1, <2>1
<1>9. job' = job /\ \A q \in Procs : pc'[q] = IF q = p THEN l ELSE pc[q]
  BY <1>8 DEF Goto, AckIInv, CustodyIInv, JobInv
<1>10. \A q \in Procs : pc'[q] \in Ceremony => q = p
  BY <1>7, <1>9
<1>11. CeremonyInv'
  <2>1. CASE l = bad
    <3>1. bad \notin Holding /\ bad \notin Wrapped
      BY CeremonyLabels
    <3>2. \A q \in Procs : pc'[q] \notin Holding /\ pc'[q] \notin Wrapped
      BY <1>9, <1>10, <2>1, <3>1, CeremonyLabels
    <3>3. \A q \in Procs : \A e : Stored(e, pc'[q], job'[q])
      BY <3>2 DEF Stored
    <3> QED BY <1>1, <1>3, <1>4, <1>10, <3>3 DEF CeremonyInv
  <2>2. CASE l = good
    <3>1. StoreOk("vrkm", x)
      BY <1>8, <2>2
    <3>2. os \in [Accounts -> Entry] /\ mem.e \in [Accounts -> Entry]
      BY DEF AckIInv, CustodyIInv, StoreInv, IsStore
    <3>3. Stored(View, pc[p], job[p])
      BY DEF AckIInv, CeremonyInv
    <3>4. View["master"].k = job[p].k
      BY <1>1, <3>3 DEF Stored
    <3>5. /\ View'["master"] = View["master"] /\ View'["vrkm"] = x
          /\ running = "file" => disk'.e = View'
      BY <1>3, <1>5, <3>1, <3>2, Strings DEF View
    <3>6. \A q \in Procs : Stored(View', pc'[q], job'[q])
      BY <1>2, <1>9, <1>10, <3>4, <3>5, CeremonyLabels DEF Stored
    <3>7. \A q \in Procs : running = "file" => Stored(disk'.e, pc'[q], job'[q])
      BY <3>5, <3>6
    <3> QED BY <1>1, <1>3, <1>4, <1>10, <3>6, <3>7 DEF CeremonyInv
  <2> QED BY <2>1, <2>2
<1> QED BY <1>6, <1>11 DEF AckIInv

LEMMA AckVrkRecovery ==
  ASSUME AckIInv, CustodyIInv', NEW p \in Procs, InitVrkRecovery(p) \/ RecoverVrkRecovery(p)
  PROVE  AckIInv'
<1> DEFINE x == [k |-> 0, v |-> job[p].v]
<1>1. PICK l \in {"init_audit", "rec_put", "init_undo2", "rec_undo2"} :
        /\ pc[p] \in {"init_vrkr", "rec_vrkr"} /\ Calm /\ acked' = acked /\ Goto(p, l)
        /\ StoreOk("vrkr", x) \/ StoreFails("vrkr", x)
  BY DEF InitVrkRecovery, RecoverVrkRecovery, ghosts
<1>2. pc[p] \in Wrapped /\ pc[p] \in Holding /\ pc[p] \in Ceremony
  BY <1>1, CeremonyLabels DEF Wrapped, Holding
<1>3. x \in Entry /\ x # None /\ x.k = 0
  BY <1>2, JobEntry DEF AckIInv, CustodyIInv
<1> HIDE DEF x
<1>4. UNCHANGED <<running, todo>>
  BY <1>1 DEF Calm
<1>5. SameKeys
  <2>1. "vrkr" \in Accounts \ {"master", "vrkm"}
    BY DEF Accounts
  <2> QED BY <1>1, <1>3, <1>4, <2>1, OtherKeys DEF AckIInv, CustodyIInv
<1>6. Onward
  BY <1>1, <1>2, OnwardGoto DEF AckIInv, CustodyIInv
<1> QED BY <1>1, <1>4, <1>5, <1>6, AckFrame

(* A step of a ceremony that keeps the keys and reports success or not. *)
LEMMA AckOrNot ==
  ASSUME AckIInv, CustodyIInv', NEW p \in Procs, pc[p] \in Wrapped, UNCHANGED running, SameKeys,
         NEW l \in Wrapped,
         \/ Goto(p, l) /\ acked' = acked
         \/ Return(p) /\ acked' = acked
         \/ Return(p) /\ acked' = [acked EXCEPT ![running] = job[p].v]
  PROVE  AckIInv'
<1>1. pc[p] \in Ceremony /\ pc[p] \in Holding
  BY CeremonyLabels
<1>2. CASE Goto(p, l) /\ acked' = acked
  BY <1>1, <1>2, OnwardGoto, AckFrame DEF AckIInv, CustodyIInv
<1>3. CASE Return(p) /\ acked' = acked
  BY <1>3, OnwardReturn, AckFrame DEF AckIInv, CustodyIInv
<1>4. CASE Return(p) /\ acked' = [acked EXCEPT ![running] = job[p].v]
  <2>1. \A q \in Procs : pc'[q] = IF q = p THEN "idle" ELSE pc[q]
    BY <1>4 DEF Return, AckIInv, CustodyIInv, JobInv
  <2> QED BY <1>4, <2>1, AckNow
<1> QED BY <1>2, <1>3, <1>4

LEMMA AckEnrol ==
  ASSUME AckIInv, CustodyIInv', NEW p \in Procs, InitParams(p) \/ InitWrap(p)
  PROVE  AckIInv'
<1>1. PICK a \in {"params", "wrap"}, x \in {[k |-> job[p].k, v |-> 0], [k |-> job[p].k, v |-> job[p].k]} :
        /\ pc[p] \in {"init_params", "init_wrap"} /\ Calm /\ (StoreOk(a, x) \/ StoreFails(a, x))
        /\ \/ Goto(p, "init_wrap") /\ acked' = acked
           \/ Return(p) /\ acked' = [acked EXCEPT ![running] = job[p].v]
  BY DEF InitParams, InitWrap
<1>2. pc[p] \in Wrapped /\ pc[p] \in Holding /\ "init_wrap" \in Wrapped
  BY <1>1 DEF Wrapped, Holding
<1>3. x \in Entry /\ x # None
  BY <1>2, JobEntry DEF AckIInv, CustodyIInv
<1>4. UNCHANGED <<running, todo>>
  BY <1>1 DEF Calm
<1>5. SameKeys
  <2>1. a \in Accounts \ {"master", "vrkm"} /\ a # "vrkr"
    BY DEF Accounts
  <2> QED BY <1>1, <1>3, <1>4, <2>1, OtherKeys DEF AckIInv, CustodyIInv
<1> QED BY <1>1, <1>2, <1>4, <1>5, AckOrNot

LEMMA AckQuiet ==
  ASSUME AckIInv, CustodyIInv', NEW p \in Procs,
         InitAudit(p) \/ RecoverPut(p) \/ RecoverOpen(p) \/ RecoverAudit(p)
  PROVE  AckIInv'
<1>1. PICK l \in {"init_params", "rec_open", "rec_audit"} :
        /\ pc[p] \in {"init_audit", "rec_put", "rec_open", "rec_audit"} /\ Calm /\ UNCHANGED <<os, disk, mem>>
        /\ \/ Goto(p, l) /\ acked' = acked
           \/ Return(p) /\ acked' = acked
           \/ Return(p) /\ acked' = [acked EXCEPT ![running] = job[p].v]
  BY DEF InitAudit, RecoverPut, RecoverOpen, RecoverAudit, NoKeychainCall, ghosts
<1>2. pc[p] \in Wrapped /\ l \in Wrapped
  BY <1>1 DEF Wrapped, Holding
<1>3. UNCHANGED running /\ SameKeys
  BY <1>1, QuietKeys DEF Calm
<1> QED BY <1>1, <1>2, <1>3, AckOrNot

LEMMA AckUndo ==
  ASSUME AckIInv, CustodyIInv', NEW p \in Procs,
         InitUndo(p) \/ InitUndoBoth(p) \/ RecoverUndo(p) \/ UndoVrkMaster(p)
  PROVE  AckIInv'
<1>1. PICK a \in {"master", "vrkm"} :
        /\ DeleteAny(a) /\ Calm /\ acked' = acked
        /\ pc[p] \in {"init_undo", "init_undo2", "init_undo3", "rec_undo", "rec_undo2", "rec_undo3"}
        /\ Goto(p, "init_undo3") \/ Goto(p, "rec_undo3") \/ Return(p)
  BY DEF InitUndo, InitUndoBoth, RecoverUndo, UndoVrkMaster, ghosts
<1>2. pc[p] \in Ceremony /\ pc[p] # "idle" /\ a \in Accounts
  BY <1>1, CeremonyLabels, Strings
<1>3. UNCHANGED <<running, todo>>
  BY <1>1 DEF Calm
<1>4. Up /\ acked[running] = 0
  BY <1>2, UpWhile DEF AckIInv, CustodyIInv, CeremonyInv
<1>5. (running = "file" => os' = os) /\ (running # "file" => mem' = mem /\ disk' = disk)
  BY <1>1, <1>2, <1>3, DeleteCall DEF AckIInv, CustodyIInv
<1>6. AckedInv'
  BY <1>1, <1>3, <1>4, <1>5, Unacked
<1>7. \A q \in Procs : q # p => pc[q] \notin Ceremony
  BY <1>2 DEF AckIInv, CeremonyInv
<1>8. PICK l \in {"idle", "init_undo3", "rec_undo3"} : \A q \in Procs : pc'[q] = IF q = p THEN l ELSE pc[q]
  BY <1>1 DEF Goto, Return, AckIInv, CustodyIInv, JobInv
<1>9. \A q \in Procs : /\ pc'[q] \in Ceremony => q = p
                       /\ pc'[q] \notin Holding /\ pc'[q] \notin Wrapped
  BY <1>7, <1>8, CeremonyLabels
<1>10. \A q \in Procs : \A e : Stored(e, pc'[q], job'[q])
  BY <1>9 DEF Stored
<1>11. CeremonyInv'
  BY <1>1, <1>3, <1>4, <1>9, <1>10 DEF CeremonyInv
<1> QED BY <1>6, <1>11 DEF AckIInv

LEMMA AckUnseal ==
  ASSUME AckIInv, CustodyIInv', NEW p \in Procs,
         \/ \E via \in {"keychain", "passphrase"} : UnsealBegin(p, via)
         \/ UnsealMaster(p) \/ UnsealVrk(p) \/ Seal(p) \/ TakeBackup(p)
  PROVE  AckIInv'
<1>1. UNCHANGED <<os, disk, mem, running, acked>>
  BY DEF UnsealBegin, UnsealMaster, UnsealVrk, Seal, TakeBackup, NoKeychainCall, ghosts, Calm
<1>2. SameKeys
  BY <1>1, QuietKeys
<1>3. \/ UNCHANGED <<pc, job>>
      \/ Return(p)
      \/ \E l \in {"fetch_master", "fetch_vrk"} : \E j : Start(p, l, j)
  BY DEF UnsealBegin, UnsealMaster, UnsealVrk, Seal, TakeBackup, RollbackToSealed
<1>4. Onward
  <2>1. CASE UNCHANGED <<pc, job>>
    BY <2>1 DEF Onward
  <2>2. CASE Return(p)
    BY <2>2, OnwardReturn DEF AckIInv, CustodyIInv
  <2>3. CASE \E l \in {"fetch_master", "fetch_vrk"} : \E j : Start(p, l, j)
    <3>1. PICK l \in {"fetch_master", "fetch_vrk"} : \E j : Start(p, l, j)
      BY <2>3
    <3>2. \A q \in Procs : pc'[q] = (IF q = p THEN l ELSE pc[q]) /\ (q # p => job'[q] = job[q])
      BY <3>1 DEF Start, AckIInv, CustodyIInv, JobInv
    <3> QED BY <3>2, CeremonyLabels DEF Onward
  <2> QED BY <1>3, <2>1, <2>2, <2>3
<1> QED BY <1>1, <1>2, <1>4, AckFrame

(* Outside a ceremony all that matters is what is stored. *)
LEMMA AckIdle ==
  ASSUME AckedInv', CustodyIInv', \A q \in Procs : pc'[q] = "idle"
  PROVE  AckIInv'
<1>1. \A q \in Procs : pc'[q] \notin Ceremony /\ pc'[q] \notin Holding /\ pc'[q] \notin Wrapped
  BY CeremonyLabels
<1>2. \A q \in Procs : \A e : Stored(e, pc'[q], job'[q])
  BY <1>1 DEF Stored
<1> QED BY <1>1, <1>2 DEF AckIInv, CeremonyInv

LEMMA AckBoot == ASSUME AckIInv, CustodyIInv', Boot \/ Migrate \/ Stop PROVE AckIInv'
<1>1. acked' = acked
  BY DEF Boot, Migrate, Stop, ghosts
<1>2. \A q \in Procs : pc'[q] = "idle"
  <2>1. CASE Stop
    BY <2>1 DEF Stop, Idle
  <2>2. CASE Boot \/ Migrate
    BY <2>2 DEF Boot, Migrate, AckIInv, CustodyIInv, JobInv, Up
  <2> QED BY <2>1, <2>2
<1>3. disk' = disk /\ (running' = "file" => mem' = disk)
  <2>1. CASE Boot
    BY <2>1 DEF Boot, durable, OpenOs, OpenFile
  <2>2. CASE Migrate
    BY <2>2 DEF Migrate
  <2>3. CASE Stop
    BY <2>3 DEF Stop, durable
  <2> QED BY <2>1, <2>2, <2>3
<1>4. acked["os"] # 0 => Opening(os', acked["os"])
  <2>1. CASE Boot \/ Stop
    BY <2>1 DEF Boot, Stop, durable, AckIInv, AckedInv
  <2>2. CASE Migrate
    <3>1. os' = os \/ \E a \in Accounts : os[a] = None /\ os' = [os EXCEPT ![a] = disk.e[a]]
      <4>1. todo # <<>> => Head(todo) \in Accounts
        BY DEF AckIInv, CustodyIInv, StoreInv
      <4>2. todo = <<>> => os' = os
        BY <2>2 DEF Migrate
      <4>3. todo # <<>> => \/ os' = os
                           \/ os[Head(todo)] = None /\ os' = [os EXCEPT ![Head(todo)] = disk.e[Head(todo)]]
        BY <2>2 DEF Migrate
      <4> QED BY <4>1, <4>2, <4>3
    <3>2. ASSUME acked["os"] # 0
          PROVE  Opening(os, acked["os"]) /\ os["master"] # None /\ os["vrkm"] # None
      BY <3>2 DEF AckIInv, AckedInv, Opening, None
    <3>3. os \in [Accounts -> Entry]
      BY DEF AckIInv, CustodyIInv, StoreInv
    <3>4. ASSUME acked["os"] # 0 PROVE Same(os, os')
      BY <3>1, <3>2, <3>3, <3>4, Strings DEF Same
    <3> QED BY <3>2, <3>4, SameOpening
  <2> QED BY <2>1, <2>2
<1>5. AckedInv'
  BY <1>1, <1>3, <1>4 DEF AckIInv, AckedInv
<1> QED BY <1>2, <1>5, AckIdle

LEMMA AckStepAll ==
  ASSUME AckIInv, [CustodyNext]_custodyVars, [CeremoniesAlone]_custodyVars
  PROVE  AckIInv'
<1>1. CustodyIInv'
  BY CustodyStep DEF AckIInv
<1>2. CASE UNCHANGED custodyVars
  <2>1. UNCHANGED <<os, disk, mem, running, acked, pc, job>>
    BY <1>2 DEF custodyVars, durable, ghosts
  <2>2. SameKeys /\ Onward
    BY <2>1, QuietKeys DEF Onward
  <2> QED BY <1>1, <2>1, <2>2, AckFrame
<1>3. CASE CustodyNext /\ CeremoniesAlone
  BY <1>1, <1>3, AckBoot, AckInitMaster, AckRecoverMaster, AckVrkMaster, AckVrkRecovery, AckEnrol,
     AckQuiet, AckUndo, AckUnseal DEF CustodyNext
<1> QED BY <1>2, <1>3

LEMMA AckInitial == CustodyInit => AckIInv
<1> SUFFICES ASSUME CustodyInit PROVE AckIInv
  OBVIOUS
<1>1. CustodyIInv
  BY CustodyInitIInv
<1>2. AckedInv
  BY DEF CustodyInit, AckedInv
<1>3. \A q \in Procs : pc[q] \notin Ceremony /\ pc[q] \notin Holding /\ pc[q] \notin Wrapped
  BY CeremonyLabels DEF CustodyInit, Idle
<1>4. \A q \in Procs : \A e : Stored(e, pc[q], job[q])
  BY <1>3 DEF Stored
<1> QED BY <1>1, <1>2, <1>3, <1>4 DEF AckIInv, CeremonyInv

(* init_vault.rs, disaster_recover.rs: after any failing calls, crashes,       *)
(* migrations and restarts, the key that the last ceremony on a keystore       *)
(* reported is the one the keychain unseal finds on disk, as long as no         *)
(* ceremony starts while another is under way.                                 *)
THEOREM AckedKeyStaysOpen ==
  CustodySpec /\ [][CeremoniesAlone]_custodyVars => []AckedKeyOpens
<1>1. ASSUME AckIInv PROVE AckedKeyOpens
  <2>1. ASSUME NEW e, NEW v, Opening(e, v) PROVE Unwrap(e, e["master"].k) = v
    BY <2>1 DEF Opening, Unwrap
  <2> QED BY <1>1, <2>1 DEF AckIInv, AckedInv, AckedKeyOpens
<1> QED BY <1>1, AckInitial, AckStepAll, PTL DEF CustodySpec

(* The same for requests served one at a time, as the run checks it: then      *)
(* every ceremony is alone.                                                    *)
COROLLARY AckedKeyStaysOpenAlone ==
  ASSUME \A p, q \in Procs : p = q
  PROVE  CustodySpec => []AckedKeyOpens
<1>1. CeremoniesAlone
  BY CeremonyLabels DEF CeremoniesAlone, InitMaster, RecoverMaster
<1> QED BY <1>1, AckedKeyStaysOpen, PTL

-----------------------------------------------------------------------------
(* The key that all the data depends on. It can only be lost through a backup  *)
(* that gives another key back, or through an unseal that overlaps an init:    *)
(* as long as there is no backup, every key in use opens a keystore on disk.   *)

Fetching == {"fetch_master", "fetch_vrk"}
Drawing == {"init_vrkm", "init_vrkr", "init_undo", "init_undo2", "init_undo3"}
Initing == Drawing \cup {"init_audit", "init_params", "init_wrap"}

(* No unseal and no init are under way at the same time; init_lock is taken    *)
(* by init only.                                                              *)
UnsealsApart ==
  \A p, q \in Procs :
    /\ InitMaster(p) => pc[q] \notin Fetching
    /\ (\E via \in {"keychain", "passphrase"} : UnsealBegin(p, via)) => ~ Initialising(q)

(* Data depends on the key the vault holds, on the one a recovery is about to  *)
(* hold, and on the one a backup was taken of.                                *)
UseInv ==
  /\ vault # 0 => vault \in written
  /\ \A p \in Procs : pc[p] \in {"rec_open", "rec_audit"} => job[p].v \in written
  /\ \A b \in backups : b.of \in written

(* Without a recovery, the entries of one init carry one number n; a wrap      *)
(* under the passphrase is only stored once the key is in use.                 *)
OneKey(e, w, n) ==
  /\ e["vrkm"].v = e["vrkm"].k
  /\ e["master"].k <= n /\ e["vrkm"].k <= n
  /\ e["wrap"].k # 0 => e["wrap"].k \in w
KeysInv ==
  /\ \A v \in written : v <= fresh
  /\ OneKey(os, written, fresh) /\ OneKey(disk.e, written, fresh) /\ OneKey(mem.e, written, fresh)

(* A key in use opens one of the keystores on disk. The loaded copy of the     *)
(* file keystore opens what the file opens; no init may then overwrite it.     *)
Opener(e, v) == e["master"].k = v /\ e["vrkm"].k = v
HeldInv ==
  /\ \A v \in written : Opener(os, v) \/ Opener(disk.e, v)
  /\ running = "file" => \A v \in written : Opener(disk.e, v) => Opener(mem.e, v)

(* What an unseal can open is on disk, except in an init that may roll back.   *)
DiskInv ==
  running = "file" /\ (\A p \in Procs : pc[p] \notin Drawing) =>
    \A v \in Keys \ {0} : Opener(mem.e, v) => Opener(disk.e, v)

(* Only inits and unseals are under way, and not together.                     *)
ApartInv ==
  /\ \A p \in Procs : pc[p] \in {"idle"} \cup Fetching \cup Initing
  /\ \A p, q \in Procs : pc[p] \in Initing => pc[q] \notin Fetching /\ (pc[q] \in Initing => p = q)

(* A request at l with its local keys j, and the keystore e it sees: an init    *)
(* has its own entries there, and nothing depends on its key before the genesis *)
(* entry; the master key an unseal fetched is still there.                     *)
RequestOk(e, w, n, l, j) ==
  /\ l \in Initing => j.k = j.v /\ j.k <= n
  /\ Stored(e, l, j)
  /\ l \in Drawing \cup {"init_audit"} => j.k \notin w /\ e["master"].k \in {0, j.k}
  /\ l \in {"init_params", "init_wrap"} => j.k \in w
  /\ l = "fetch_vrk" => j.k \in w \/ j.k = e["master"].k
RequestsInv == \A p \in Procs : RequestOk(View, written, fresh, pc[p], job[p])

NoBackupInv == KeysInv /\ HeldInv /\ DiskInv /\ ApartInv /\ RequestsInv
SoleIInv == CustodyIInv /\ UseInv /\ (backups = {} => NoBackupInv)

-----------------------------------------------------------------------------
(* What a keychain call may change: one account of the keystore in use.        *)
Touch(a, x) ==
  /\ running = "file" => /\ os' = os /\ mem'.e = [mem.e EXCEPT ![a] = x]
                         /\ disk' = disk \/ disk'.e = mem'.e
  /\ running # "file" => /\ mem' = mem /\ disk' = disk
                         /\ os' = os \/ os' = [os EXCEPT ![a] = x]

LEMMA StoreTouches ==
  ASSUME StoreInv, NEW a \in Accounts, NEW x \in Entry, x # None, a = "vrkr" => x.k = 0,
         StoreOk(a, x) \/ StoreFails(a, x), UNCHANGED <<running, todo>>
  PROVE  /\ Touch(a, x)
         /\ StoreOk(a, x) => View'[a] = x /\ (running = "file" => disk'.e = mem'.e)
<1>1. Touch(a, x)
  BY StoreCall DEF Touch
<1>2. ASSUME StoreOk(a, x) PROVE View'[a] = x /\ (running = "file" => disk'.e = mem'.e)
  <2>1. /\ running = "file" => mem'.e = [mem.e EXCEPT ![a] = x] /\ disk'.e = mem'.e
        /\ running # "file" => os' = [os EXCEPT ![a] = x]
    BY <1>2, StoreCall
  <2> QED BY <2>1 DEF View, StoreInv, IsStore
<1> QED BY <1>1, <1>2

LEMMA DeleteTouches ==
  ASSUME StoreInv, NEW a \in Accounts, DeleteAny(a), UNCHANGED <<running, todo>>
  PROVE  Touch(a, None)
BY DeleteCall DEF Touch

(* The keystores, entry by entry, before and after.                            *)
LEMMA Touched ==
  ASSUME StoreInv, NEW a \in Accounts, NEW x, Touch(a, x), UNCHANGED running
  PROVE  /\ \A b \in Accounts : b # a => os'[b] = os[b] /\ mem'.e[b] = mem.e[b] /\ View'[b] = View[b]
         /\ os'[a] \in {os[a], x} /\ mem'.e[a] \in {mem.e[a], x} /\ View'[a] \in {View[a], x}
         /\ running = "file" => mem'.e[a] = x
         /\ disk'.e = disk.e \/ (running = "file" /\ disk'.e = mem'.e)
BY DEF StoreInv, IsStore, Touch, View

LEMMA Typed ==
  ASSUME CustodyIInv
  PROVE  /\ \A a \in Accounts : /\ os[a].k \in Keys /\ disk.e[a].k \in Keys /\ mem.e[a].k \in Keys
                                /\ View[a].k \in Keys
         /\ fresh \in Int /\ \A v \in written : v \in Int /\ v # 0
         /\ Keys \subseteq Int /\ None.k = 0 /\ None.v = 0
<1>1. /\ os \in [Accounts -> Entry] /\ disk.e \in [Accounts -> Entry] /\ mem.e \in [Accounts -> Entry]
      /\ View \in [Accounts -> Entry]
  BY DEF CustodyIInv, StoreInv, IsStore, View
<1>2. \A x \in Entry : x.k \in Keys
  BY EntryFacts
<1>3. Keys \subseteq Int
  BY EntryFacts DEF Keys
<1>4. fresh \in Int /\ \A v \in written : v \in Int /\ v # 0
  BY <1>3 DEF CustodyIInv, DataInv
<1> QED BY <1>1, <1>2, <1>3, <1>4 DEF None

(* A call of an init keeps the entries of one key together.                    *)
LEMMA KeysTouched ==
  ASSUME CustodyIInv, KeysInv, NEW a \in Accounts, NEW x \in Entry, Touch(a, x), UNCHANGED running,
         written' = written, fresh' \in Int, fresh <= fresh',
         a = "master" => x.k <= fresh',
         a = "vrkm" => x.v = x.k /\ x.k <= fresh',
         a = "wrap" => x.k \in written
  PROVE  KeysInv'
<1>1. \A v \in written : v <= fresh'
  BY Typed DEF KeysInv
<1>2. ASSUME NEW e \in [Accounts -> Entry], OneKey(e, written, fresh), NEW f,
             \A b \in Accounts : b # a => f[b] = e[b], f[a] \in {e[a], x}
      PROVE  OneKey(f, written, fresh')
  <2>1. e["master"].k \in Int /\ e["vrkm"].k \in Int
    BY Strings, EntryFacts, Typed
  <2>2. e["master"].k <= fresh' /\ e["vrkm"].k <= fresh'
    BY <1>2, <2>1, Typed DEF OneKey
  <2> QED BY <1>2, <2>2, Strings DEF OneKey
<1>3. StoreInv /\ os \in [Accounts -> Entry] /\ mem.e \in [Accounts -> Entry] /\ disk.e \in [Accounts -> Entry]
  BY DEF CustodyIInv, StoreInv, IsStore
<1>4. OneKey(os', written, fresh')
  BY <1>2, <1>3, Touched DEF KeysInv
<1>5. OneKey(mem'.e, written, fresh')
  BY <1>2, <1>3, Touched DEF KeysInv
<1>6. OneKey(disk.e, written, fresh')
  BY <1>2, <1>3 DEF KeysInv
<1>7. OneKey(disk'.e, written, fresh')
  BY <1>3, <1>5, <1>6, Touched
<1> QED BY <1>1, <1>4, <1>5, <1>7 DEF KeysInv

(* A call that overwrites a key does so on a keystore that opens no key in use. *)
LEMMA HeldTouched ==
  ASSUME CustodyIInv, HeldInv, NEW a \in Accounts, NEW x, Touch(a, x), UNCHANGED running,
         written' = written,
         a \in {"master", "vrkm"} => \A v \in written : ~ Opener(View, v)
  PROVE  HeldInv'
<1> USE Strings
<1>1. StoreInv
  BY DEF CustodyIInv
<1>2. CASE a \notin {"master", "vrkm"}
  <2>1. /\ \A v : Opener(os', v) <=> Opener(os, v)
        /\ \A v : Opener(mem'.e, v) <=> Opener(mem.e, v)
    BY <1>1, <1>2, Touched DEF Opener
  <2>2. \A v \in written : Opener(disk.e, v) => Opener(disk'.e, v)
    BY <1>1, <2>1, Touched DEF HeldInv
  <2>3. running = "file" => \A v \in written : Opener(disk'.e, v) => Opener(mem'.e, v)
    BY <1>1, <2>1, Touched DEF HeldInv
  <2> QED BY <2>1, <2>2, <2>3 DEF HeldInv
<1>3. CASE \A v \in written : ~ Opener(View, v)
  <2>1. CASE running = "file"
    <3>1. \A v \in written : ~ Opener(mem.e, v) /\ ~ Opener(disk.e, v) /\ Opener(os, v)
      BY <1>3, <2>1 DEF View, HeldInv
    <3>2. os' = os
      BY <2>1 DEF Touch
    <3>3. \A v \in written : Opener(disk'.e, v) => Opener(mem'.e, v)
      BY <1>1, <3>1, Touched
    <3> QED BY <3>1, <3>2, <3>3 DEF HeldInv
  <2>2. CASE running # "file"
    <3>1. \A v \in written : Opener(disk.e, v)
      BY <1>3, <2>2 DEF View, HeldInv
    <3>2. disk' = disk
      BY <2>2 DEF Touch
    <3> QED BY <2>2, <3>1, <3>2 DEF HeldInv
  <2> QED BY <2>1, <2>2
<1> QED BY <1>2, <1>3

LEMMA SoleLabels ==
  /\ Initing \subseteq Labels \ {"idle"} /\ Fetching \cap Initing = {} /\ "idle" \notin Fetching
  /\ Drawing \subseteq Initing /\ "init_audit" \in Initing \ Drawing
  /\ "init_params" \in Initing \ Drawing /\ "init_wrap" \in Initing \ Drawing
  /\ \A p \in Procs : Initialising(p) <=> pc[p] \in Initing
BY DEF Labels, Initing, Drawing, Fetching, Initialising

LEMMA IdleRequest == \A e, w, n, j : RequestOk(e, w, n, "idle", j)
BY DEF RequestOk, Stored, Holding, Wrapped, Drawing, Initing

LEMMA OthersIdle ==
  ASSUME ApartInv, NEW p \in Procs, pc[p] \in Initing
  PROVE  \A q \in Procs : q # p => pc[q] = "idle"
BY DEF ApartInv

(* An init that is alone goes on to l.                                         *)
LEMMA InitMoves ==
  ASSUME NEW p \in Procs, \A q \in Procs : q # p => pc[q] = "idle", NEW l \in {"idle"} \cup Initing,
         \A q \in Procs : pc'[q] = IF q = p THEN l ELSE pc[q],
         RequestOk(View', written', fresh', l, job'[p])
  PROVE  ApartInv' /\ RequestsInv'
<1>1. ApartInv'
  BY SoleLabels DEF ApartInv
<1>2. \A q \in Procs : RequestOk(View', written', fresh', pc'[q], job'[q])
  BY IdleRequest
<1> QED BY <1>1, <1>2 DEF RequestsInv

(* pc and job after Goto and Return.                                           *)
LEMMA Moves ==
  ASSUME JobInv, NEW p \in Procs
  PROVE  /\ \A l : Goto(p, l) => job'[p] = job[p] /\ \A q \in Procs : pc'[q] = IF q = p THEN l ELSE pc[q]
         /\ Return(p) => \A q \in Procs : pc'[q] = IF q = p THEN "idle" ELSE pc[q]
BY DEF JobInv, Goto, Return

(* The steps of init.                                                          *)

LEMMA SoleInitMaster ==
  ASSUME CustodyIInv, NoBackupInv, NEW p \in Procs, InitMaster(p), UnsealsApart
  PROVE  NoBackupInv'
<1> USE DEF NoBackupInv
<1> DEFINE n == fresh + 1
           x == [k |-> n, v |-> 0]
<1>1. /\ View["master"] = None /\ fresh < MaxKeys /\ fresh' = n /\ written' = written
      /\ UNCHANGED <<running, todo>> /\ pc[p] = "idle"
      /\ \/ StoreOk("master", x) /\ Start(p, "init_vrkm", [k |-> n, v |-> n, via |-> "keychain"])
         \/ StoreFails("master", x) /\ UNCHANGED <<pc, job>>
  BY DEF InitMaster, Calm
<1>2. \A q \in Procs : pc[q] = "idle"
  BY SoleLabels DEF InitMaster, UnsealsApart, ApartInv
<1>3. fresh \in Int /\ n \in Keys /\ n # 0 /\ n \notin written
  BY <1>1, Typed, EntryFacts DEF KeysInv, CustodyIInv, DataInv, Keys
<1>4. x \in Entry /\ x # None /\ x.k = n /\ "master" \in Accounts
  BY <1>3, EntryFacts, Strings
<1> HIDE DEF x, n
<1>5. Touch("master", x) /\ (StoreOk("master", x) => View'["master"] = x)
  BY <1>1, <1>4, StoreTouches DEF CustodyIInv
<1>6. KeysInv'
  BY <1>1, <1>3, <1>4, <1>5, KeysTouched, Typed DEF n
<1>7. HeldInv'
  <2>1. \A v \in written : ~ Opener(View, v)
    BY <1>1, Typed DEF Opener
  <2> QED BY <1>1, <1>4, <1>5, <2>1, HeldTouched
<1>8. CASE StoreOk("master", x) /\ Start(p, "init_vrkm", [k |-> n, v |-> n, via |-> "keychain"])
  <2>1. /\ \A q \in Procs : pc'[q] = IF q = p THEN "init_vrkm" ELSE pc[q]
        /\ job'[p].k = n /\ job'[p].v = n
    BY <1>8 DEF Start, CustodyIInv, JobInv
  <2>2. RequestOk(View', written', fresh', "init_vrkm", job'[p])
    BY <1>1, <1>3, <1>4, <1>5, <1>8, <2>1 DEF RequestOk, Stored, Wrapped, Keys
  <2>3. ApartInv' /\ RequestsInv'
    BY <1>2, <2>1, <2>2, InitMoves DEF Initing, Drawing
  <2>4. DiskInv'
    BY <2>1 DEF DiskInv, Drawing
  <2> QED BY <1>6, <1>7, <2>3, <2>4
<1>9. CASE StoreFails("master", x) /\ UNCHANGED <<pc, job>>
  <2>1. ApartInv'
    BY <1>9 DEF ApartInv
  <2>2. RequestsInv'
    BY <1>2, <1>9, IdleRequest DEF RequestsInv
  <2>3. running = "file" => \A v : ~ Opener(mem'.e, v)
    <3>1. running = "file" => mem'.e["master"] = x /\ mem'.e["vrkm"] = mem.e["vrkm"]
      BY <1>1, <1>4, <1>5, Touched, Strings DEF CustodyIInv
    <3>2. mem.e["vrkm"].k <= fresh /\ mem.e["vrkm"].k \in Int
      BY Typed, Strings DEF KeysInv, OneKey
    <3> QED BY <1>3, <1>4, <3>1, <3>2 DEF Opener, n
  <2>4. DiskInv'
    BY <1>1, <2>3 DEF DiskInv
  <2> QED BY <1>6, <1>7, <2>1, <2>2, <2>4
<1> QED BY <1>1, <1>8, <1>9

(* An init whose key nothing depends on yet sees a keystore that opens no key   *)
(* in use.                                                                     *)
LEMMA OpensNone ==
  ASSUME CustodyIInv, NoBackupInv, NEW p \in Procs, pc[p] \in Drawing \cup {"init_audit"}
  PROVE  \A v \in written : ~ Opener(View, v)
BY Typed DEF NoBackupInv, RequestsInv, RequestOk, Opener

(* What a request at an init label knows.                                      *)
LEMMA InitKnows ==
  ASSUME CustodyIInv, NoBackupInv, NEW p \in Procs, pc[p] \in Initing
  PROVE  /\ job[p].k = job[p].v /\ job[p].k <= fresh /\ job[p].k \in Int
         /\ Stored(View, pc[p], job[p])
         /\ pc[p] \in Drawing \cup {"init_audit"} =>
              job[p].k \notin written /\ View["master"].k \in {0, job[p].k}
         /\ pc[p] \in {"init_params", "init_wrap"} => job[p].k \in written
         /\ \A q \in Procs : q # p => pc[q] = "idle"
<1>1. job[p].k \in Int
  BY Typed DEF CustodyIInv, JobInv
<1> QED BY <1>1, OthersIdle DEF NoBackupInv, RequestsInv, RequestOk

LEMMA SoleInitVrkMaster ==
  ASSUME CustodyIInv, NoBackupInv, NEW p \in Procs, InitVrkMaster(p)
  PROVE  NoBackupInv'
<1> USE DEF NoBackupInv
<1> DEFINE k == job[p].k
           x == [k |-> k, v |-> job[p].v]
<1>1. /\ pc[p] = "init_vrkm" /\ UNCHANGED <<running, todo, fresh, written>>
      /\ \/ StoreOk("vrkm", x) /\ Goto(p, "init_vrkr")
         \/ StoreFails("vrkm", x) /\ Goto(p, "init_undo")
  BY DEF InitVrkMaster, Calm, ghosts
<1>2. pc[p] \in Drawing /\ pc[p] \in Initing /\ pc[p] \in Holding
  BY <1>1 DEF Drawing, Initing, Holding
<1>3. /\ k = job[p].v /\ k <= fresh /\ k \notin written /\ View["master"].k = k
      /\ \A q \in Procs : q # p => pc[q] = "idle"
  BY <1>2, InitKnows DEF Stored
<1>4. x \in Entry /\ x # None /\ x.k = k /\ x.v = k /\ "vrkm" \in Accounts
  BY <1>2, <1>3, EntryFacts, JobKeys, Strings DEF CustodyIInv
<1> HIDE DEF x
<1>5. Touch("vrkm", x) /\ (StoreOk("vrkm", x) => View'["vrkm"] = x)
  BY <1>1, <1>4, StoreTouches DEF CustodyIInv
<1>6. View'["master"] = View["master"]
  BY <1>1, <1>4, <1>5, Touched, Strings DEF CustodyIInv
<1>7. KeysInv' /\ HeldInv'
  BY <1>1, <1>2, <1>3, <1>4, <1>5, KeysTouched, HeldTouched, OpensNone, Typed
<1>8. PICK l \in {"init_vrkr", "init_undo"} : Goto(p, l) /\ (l = "init_vrkr" => StoreOk("vrkm", x))
  BY <1>1
<1>9. job'[p] = job[p] /\ \A q \in Procs : pc'[q] = IF q = p THEN l ELSE pc[q]
  BY <1>8, Moves DEF CustodyIInv
<1>10. RequestOk(View', written', fresh', l, job'[p])
  BY <1>1, <1>3, <1>4, <1>5, <1>6, <1>8, <1>9 DEF RequestOk, Stored, Holding, Wrapped
<1>11. ApartInv' /\ RequestsInv'
  BY <1>3, <1>9, <1>10, InitMoves DEF Initing, Drawing
<1>12. DiskInv'
  BY <1>9 DEF DiskInv, Drawing
<1> QED BY <1>7, <1>11, <1>12

LEMMA SoleInitVrkRecovery ==
  ASSUME CustodyIInv, NoBackupInv, NEW p \in Procs, InitVrkRecovery(p)
  PROVE  NoBackupInv'
<1> USE DEF NoBackupInv
<1> DEFINE k == job[p].k
           x == [k |-> 0, v |-> job[p].v]
<1>1. /\ pc[p] = "init_vrkr" /\ UNCHANGED <<running, todo, fresh, written>>
      /\ \/ StoreOk("vrkr", x) /\ Goto(p, "init_audit")
         \/ StoreFails("vrkr", x) /\ Goto(p, "init_undo2")
  BY DEF InitVrkRecovery, Calm, ghosts
<1>2. pc[p] \in Drawing /\ pc[p] \in Initing /\ pc[p] \in Holding /\ pc[p] \in Wrapped
  BY <1>1 DEF Drawing, Initing, Holding, Wrapped
<1>3. /\ k = job[p].v /\ k <= fresh /\ k \notin written /\ View["master"].k = k
      /\ View["vrkm"].k = k /\ View["vrkm"].v = k
      /\ \A q \in Procs : q # p => pc[q] = "idle"
  BY <1>2, InitKnows DEF Stored
<1>4. x \in Entry /\ x # None /\ x.k = 0 /\ "vrkr" \in Accounts
  BY <1>2, <1>3, EntryFacts, JobKeys, Strings DEF CustodyIInv
<1> HIDE DEF x
<1>5. Touch("vrkr", x) /\ (StoreOk("vrkr", x) /\ running = "file" => disk'.e = mem'.e)
  BY <1>1, <1>4, StoreTouches DEF CustodyIInv
<1>6. View'["master"] = View["master"] /\ View'["vrkm"] = View["vrkm"]
  BY <1>1, <1>4, <1>5, Touched, Strings DEF CustodyIInv
<1>7. KeysInv' /\ HeldInv'
  BY <1>1, <1>4, <1>5, KeysTouched, HeldTouched, Typed
<1>8. PICK l \in {"init_audit", "init_undo2"} : Goto(p, l) /\ (l = "init_audit" => StoreOk("vrkr", x))
  BY <1>1
<1>9. job'[p] = job[p] /\ \A q \in Procs : pc'[q] = IF q = p THEN l ELSE pc[q]
  BY <1>8, Moves DEF CustodyIInv
<1>10. RequestOk(View', written', fresh', l, job'[p])
  BY <1>1, <1>3, <1>6, <1>8, <1>9 DEF RequestOk, Stored, Holding, Wrapped
<1>11. ApartInv' /\ RequestsInv'
  BY <1>3, <1>9, <1>10, InitMoves DEF Initing, Drawing
<1>12. DiskInv'
  <2>1. CASE l = "init_audit"
    BY <1>1, <1>5, <1>8, <2>1 DEF DiskInv
  <2>2. CASE l = "init_undo2"
    BY <1>9, <2>2 DEF DiskInv, Drawing
  <2> QED BY <2>1, <2>2
<1> QED BY <1>7, <1>11, <1>12

(* The roll back deletes the master, and the wrap when it had been stored.      *)
LEMMA SoleUndo ==
  ASSUME CustodyIInv, NoBackupInv, NEW p \in Procs, InitUndo(p) \/ InitUndoBoth(p)
  PROVE  NoBackupInv'
<1> USE DEF NoBackupInv
<1> DEFINE k == job[p].k
<1>1. PICK l \in {"idle", "init_undo3"} :
        /\ pc[p] \in Drawing /\ UNCHANGED <<running, todo, fresh, written>> /\ DeleteAny("master")
        /\ l = "idle" => Return(p)
        /\ l = "init_undo3" => Goto(p, l)
  BY DEF InitUndo, InitUndoBoth, Calm, Drawing
<1>2. pc[p] \in Initing /\ None \in Entry /\ None.k = 0 /\ "master" \in Accounts
  BY <1>1, SoleLabels, EntryFacts, Typed, Strings
<1>3. /\ k = job[p].v /\ k <= fresh /\ k \notin written /\ View["master"].k \in {0, k} /\ k \in Int
      /\ \A q \in Procs : q # p => pc[q] = "idle"
  BY <1>1, <1>2, InitKnows
<1>4. Touch("master", None)
  BY <1>1, <1>2, DeleteTouches DEF CustodyIInv
<1>5. View'["master"].k \in {0, k} /\ (running = "file" => mem'.e["master"].k = 0)
  BY <1>1, <1>2, <1>3, <1>4, Touched DEF CustodyIInv
<1>6. KeysInv'
  <2>1. None.k <= fresh
    BY <1>2 DEF CustodyIInv, DataInv, Keys
  <2> QED BY <1>1, <1>2, <1>4, <2>1, KeysTouched, Typed
<1>7. HeldInv'
  BY <1>1, <1>2, <1>4, HeldTouched, OpensNone
<1>8. /\ \A q \in Procs : pc'[q] = IF q = p THEN l ELSE pc[q]
      /\ l = "init_undo3" => job'[p] = job[p]
  BY <1>1, Moves DEF CustodyIInv
<1>9. RequestOk(View', written', fresh', l, job'[p])
  <2>1. CASE l = "idle"
    BY <2>1, IdleRequest
  <2>2. CASE l = "init_undo3"
    BY <1>1, <1>3, <1>5, <1>8, <2>2 DEF RequestOk, Stored, Holding, Wrapped
  <2> QED BY <2>1, <2>2
<1>10. ApartInv' /\ RequestsInv'
  BY <1>3, <1>8, <1>9, InitMoves DEF Initing, Drawing
<1>11. DiskInv'
  BY <1>1, <1>5 DEF DiskInv, Opener
<1> QED BY <1>6, <1>7, <1>10, <1>11

LEMMA SoleUndoVrk ==
  ASSUME CustodyIInv, NoBackupInv, NEW p \in Procs, UndoVrkMaster(p)
  PROVE  NoBackupInv'
<1> USE DEF NoBackupInv
<1>1. /\ pc[p] \in {"init_undo3", "rec_undo3"} /\ UNCHANGED <<running, todo, fresh, written>>
      /\ DeleteAny("vrkm") /\ Return(p)
  BY DEF UndoVrkMaster, Calm, ghosts
<1>2. pc[p] \in Drawing /\ pc[p] \in Initing
  BY <1>1 DEF ApartInv, Drawing, Initing, Fetching
<1>3. None \in Entry /\ None.k = 0 /\ None.v = 0 /\ "vrkm" \in Accounts /\ None.k <= fresh
  BY EntryFacts, Typed, Strings DEF CustodyIInv, DataInv, Keys
<1>4. Touch("vrkm", None)
  BY <1>1, <1>3, DeleteTouches DEF CustodyIInv
<1>5. KeysInv' /\ HeldInv'
  BY <1>1, <1>2, <1>3, <1>4, KeysTouched, HeldTouched, OpensNone, Typed
<1>6. running = "file" => mem'.e["vrkm"].k = 0
  BY <1>1, <1>3, <1>4, Touched DEF CustodyIInv
<1>7. DiskInv'
  BY <1>1, <1>6 DEF DiskInv, Opener
<1>8. \A q \in Procs : pc'[q] = IF q = p THEN "idle" ELSE pc[q]
  BY <1>1, Moves DEF CustodyIInv
<1>9. ApartInv' /\ RequestsInv'
  BY <1>2, <1>8, IdleRequest, InitMoves, OthersIdle
<1> QED BY <1>5, <1>7, <1>9

(* A key that some keystore opens comes into use.                              *)
LEMMA KeyComesIntoUse ==
  ASSUME CustodyIInv, KeysInv, HeldInv, UNCHANGED <<os, disk, mem, running, fresh>>,
         NEW v \in Keys, v <= fresh, written' = written \cup {v},
         v \in written \/ (Opener(View, v) /\ (running = "file" => Opener(disk.e, v)))
  PROVE  KeysInv' /\ HeldInv'
<1>1. KeysInv'
  <2>1. \A u \in written' : u <= fresh'
    BY Typed DEF KeysInv
  <2>2. \A e : OneKey(e, written, fresh) => OneKey(e, written', fresh')
    BY DEF OneKey
  <2> QED BY <2>1, <2>2 DEF KeysInv
<1>2. HeldInv'
  BY DEF HeldInv, View
<1> QED BY <1>1, <1>2

LEMMA SoleInitAudit ==
  ASSUME CustodyIInv, NoBackupInv, NEW p \in Procs, InitAudit(p)
  PROVE  NoBackupInv'
<1> USE DEF NoBackupInv
<1> DEFINE k == job[p].k
<1>1. /\ pc[p] = "init_audit" /\ UNCHANGED <<os, disk, mem, running, fresh>>
      /\ \/ written' = written \cup {job[p].v} /\ (Goto(p, "init_params") \/ Return(p))
         \/ written' = written /\ Return(p)
  BY DEF InitAudit, Calm, NoKeychainCall
<1>2. pc[p] \in Initing /\ pc[p] \in Holding /\ pc[p] \in Wrapped /\ pc[p] \notin Drawing
  BY <1>1 DEF Drawing, Initing, Holding, Wrapped
<1>3. /\ k = job[p].v /\ k <= fresh /\ View["master"].k = k
      /\ View["vrkm"].k = k /\ View["vrkm"].v = k
      /\ \A q \in Procs : q # p => pc[q] = "idle"
  BY <1>2, InitKnows DEF Stored
<1>4. k \in Keys \ {0} /\ Opener(View, k)
  BY <1>2, <1>3, JobKeys DEF Opener, CustodyIInv
<1>5. \A q \in Procs : pc[q] \notin Drawing
  BY <1>2, <1>3 DEF Drawing
<1>6. running = "file" => Opener(disk.e, k)
  BY <1>4, <1>5 DEF DiskInv, View
<1>7. View' = View
  BY <1>1 DEF View
<1>8. KeysInv' /\ HeldInv'
  <2>1. CASE written' = written
    BY <1>1, <2>1 DEF KeysInv, HeldInv
  <2>2. CASE written' = written \cup {k}
    BY <1>1, <1>3, <1>4, <1>6, <2>2, KeyComesIntoUse
  <2> QED BY <1>1, <1>3, <2>1, <2>2
<1>9. PICK l \in {"idle", "init_params"} :
        /\ l = "idle" => Return(p)
        /\ l = "init_params" => Goto(p, l) /\ written' = written \cup {k}
  BY <1>1, <1>3
<1>10. /\ \A q \in Procs : pc'[q] = IF q = p THEN l ELSE pc[q]
       /\ l = "init_params" => job'[p] = job[p]
  BY <1>9, Moves DEF CustodyIInv
<1>11. RequestOk(View', written', fresh', l, job'[p])
  <2>1. CASE l = "idle"
    BY <2>1, IdleRequest
  <2>2. CASE l = "init_params"
    BY <1>1, <1>3, <1>7, <1>9, <1>10, <2>2 DEF RequestOk, Stored, Drawing
  <2> QED BY <2>1, <2>2
<1>12. ApartInv' /\ RequestsInv'
  BY <1>3, <1>10, <1>11, InitMoves DEF Initing
<1>13. DiskInv'
  BY <1>1, <1>5 DEF DiskInv
<1> QED BY <1>8, <1>12, <1>13

LEMMA SoleEnrol ==
  ASSUME CustodyIInv, NoBackupInv, NEW p \in Procs, InitParams(p) \/ InitWrap(p)
  PROVE  NoBackupInv'
<1> USE DEF NoBackupInv
<1> DEFINE k == job[p].k
<1>1. PICK a \in {"params", "wrap"}, x \in {[k |-> k, v |-> 0], [k |-> k, v |-> k]},
           l \in {"idle", "init_wrap"} :
        /\ pc[p] \in {"init_params", "init_wrap"} /\ UNCHANGED <<running, todo, fresh, written>>
        /\ StoreOk(a, x) \/ StoreFails(a, x)
        /\ l = "idle" => Return(p)
        /\ l = "init_wrap" => Goto(p, l)
  <2>1. CASE InitParams(p)
    BY <2>1 DEF InitParams, Calm
  <2>2. CASE InitWrap(p)
    BY <2>2 DEF InitWrap, Calm
  <2> QED BY <2>1, <2>2
<1>2. pc[p] \in Initing /\ pc[p] \in Holding /\ pc[p] \in Wrapped /\ pc[p] \notin Drawing
  BY <1>1 DEF Drawing, Initing, Holding, Wrapped
<1>3. /\ k = job[p].v /\ k <= fresh /\ k \in written /\ View["master"].k = k
      /\ View["vrkm"].k = k /\ View["vrkm"].v = k
      /\ \A q \in Procs : q # p => pc[q] = "idle"
  BY <1>1, <1>2, InitKnows DEF Stored
<1>4. x \in Entry /\ x # None /\ x.k = k /\ a \in Accounts /\ a \notin {"master", "vrkm", "vrkr"}
  BY <1>1, <1>2, <1>3, EntryFacts, JobKeys, Strings DEF CustodyIInv
<1>5. Touch(a, x)
  BY <1>1, <1>4, StoreTouches DEF CustodyIInv
<1>6. KeysInv'
  BY <1>1, <1>3, <1>4, <1>5, KeysTouched, Typed
<1>7. HeldInv'
  BY <1>1, <1>4, <1>5, HeldTouched
<1>8. /\ View'["master"] = View["master"] /\ View'["vrkm"] = View["vrkm"]
      /\ mem'.e["master"] = mem.e["master"] /\ mem'.e["vrkm"] = mem.e["vrkm"]
      /\ disk'.e = disk.e \/ disk'.e = mem'.e
  BY <1>1, <1>4, <1>5, Touched, Strings DEF CustodyIInv
<1>9. /\ \A q \in Procs : pc'[q] = IF q = p THEN l ELSE pc[q]
      /\ l = "init_wrap" => job'[p] = job[p]
  BY <1>1, Moves DEF CustodyIInv
<1>10. RequestOk(View', written', fresh', l, job'[p])
  <2>1. CASE l = "idle"
    BY <2>1, IdleRequest
  <2>2. CASE l = "init_wrap"
    BY <1>1, <1>3, <1>8, <1>9, <2>2 DEF RequestOk, Stored, Drawing
  <2> QED BY <2>1, <2>2
<1>11. ApartInv' /\ RequestsInv'
  BY <1>3, <1>9, <1>10, InitMoves DEF Initing
<1>12. DiskInv'
  <2>1. \A q \in Procs : pc[q] \notin Drawing
    BY <1>2, <1>3 DEF Drawing
  <2>2. \A v : Opener(mem'.e, v) <=> Opener(mem.e, v)
    BY <1>8 DEF Opener
  <2> QED BY <1>1, <1>8, <2>1, <2>2 DEF DiskInv
<1> QED BY <1>6, <1>7, <1>11, <1>12

-----------------------------------------------------------------------------
(* Unseals, and the agent itself.                                              *)

LEMMA SoleUnsealBegin ==
  ASSUME CustodyIInv, NoBackupInv, UnsealsApart, NEW p \in Procs,
         \E via \in {"keychain", "passphrase"} : UnsealBegin(p, via)
  PROVE  NoBackupInv'
<1> USE DEF NoBackupInv
<1>1. /\ UNCHANGED <<os, disk, mem, running, fresh, written>>
      /\ \E j : Start(p, "fetch_master", j)
  BY DEF UnsealBegin, NoKeychainCall, Calm, ghosts
<1>2. \A q \in Procs : pc[q] \notin Initing
  BY SoleLabels DEF UnsealsApart
<1>3. \A q \in Procs : /\ pc'[q] = IF q = p THEN "fetch_master" ELSE pc[q]
                       /\ q # p => job'[q] = job[q]
  BY <1>1 DEF Start, CustodyIInv, JobInv
<1>4. View' = View /\ "fetch_master" \notin Initing
  BY <1>1 DEF View, Initing, Drawing
<1>5. KeysInv' /\ HeldInv'
  BY <1>1 DEF KeysInv, HeldInv
<1>6. ApartInv'
  BY <1>2, <1>3, <1>4 DEF ApartInv, Fetching
<1>7. \A e, w, n, j : RequestOk(e, w, n, "fetch_master", j)
  BY DEF RequestOk, Stored, Holding, Wrapped, Drawing, Initing
<1>8. RequestsInv'
  BY <1>1, <1>3, <1>4, <1>7 DEF RequestsInv
<1>9. DiskInv'
  BY <1>1, <1>2, <1>3, SoleLabels DEF DiskInv
<1> QED BY <1>5, <1>6, <1>8, <1>9

(* A request that fetches returns, or goes on with the master key it found;     *)
(* meanwhile no init is under way.                                             *)
LEMMA FetchMoves ==
  ASSUME CustodyIInv, NoBackupInv, NEW p \in Procs, pc[p] \in Fetching,
         UNCHANGED <<os, disk, mem, running, fresh>>, written \subseteq written',
         NEW l \in {"idle", "fetch_vrk"},
         \A q \in Procs : pc'[q] = IF q = p THEN l ELSE pc[q],
         \A q \in Procs : q # p => job'[q] = job[q],
         RequestOk(View', written', fresh', l, job'[p])
  PROVE  ApartInv' /\ RequestsInv' /\ DiskInv'
<1> USE DEF NoBackupInv
<1>1. View' = View
  BY DEF View
<1>2. \A q \in Procs : pc[q] \in {"idle"} \cup Fetching /\ pc[q] \notin Initing
  BY DEF ApartInv
<1>3. \A q \in Procs : pc'[q] \in {"idle"} \cup Fetching /\ pc'[q] \notin Initing
  BY <1>2, SoleLabels DEF Fetching
<1>4. ApartInv'
  BY <1>3 DEF ApartInv
<1>5. ASSUME NEW q \in Procs, q # p PROVE RequestOk(View', written', fresh', pc'[q], job'[q])
  <2>1. RequestOk(View, written, fresh, pc[q], job[q]) /\ pc[q] \notin Initing
    BY <1>2 DEF RequestsInv
  <2>2. pc[q] \notin {"init_params", "init_wrap"} \cup Drawing \cup {"init_audit"}
    BY <2>1, SoleLabels
  <2> QED BY <1>1, <1>5, <2>1, <2>2 DEF RequestOk
<1>6. RequestsInv'
  BY <1>5 DEF RequestsInv
<1>7. \A q \in Procs : pc[q] \notin Drawing
  BY <1>2, SoleLabels
<1>8. DiskInv'
  BY <1>7 DEF DiskInv
<1> QED BY <1>4, <1>6, <1>8

LEMMA SoleUnsealMaster ==
  ASSUME CustodyIInv, NoBackupInv, NEW p \in Procs, UnsealMaster(p)
  PROVE  NoBackupInv'
<1> USE DEF NoBackupInv
<1> DEFINE mk == MasterBy(View, job[p].via)
<1>1. /\ pc[p] = "fetch_master" /\ UNCHANGED <<os, disk, mem, running, fresh, written>>
      /\ \/ mk # 0 /\ Start(p, "fetch_vrk", [job[p] EXCEPT !.k = mk])
         \/ Return(p)
  BY DEF UnsealMaster, NoKeychainCall, Calm, ghosts, RollbackToSealed
<1>2. KeysInv' /\ HeldInv'
  BY <1>1 DEF KeysInv, HeldInv
<1>3. mk # 0 => mk \in written \/ mk = View["master"].k
  BY DEF KeysInv, OneKey, MasterBy, View
<1> HIDE DEF mk
<1>4. job[p] \in [k : Keys, v : Keys, via : {"keychain", "passphrase"}]
  BY DEF CustodyIInv, JobInv
<1>5. PICK l \in {"idle", "fetch_vrk"} :
        /\ \A q \in Procs : pc'[q] = IF q = p THEN l ELSE pc[q]
        /\ \A q \in Procs : q # p => job'[q] = job[q]
        /\ l = "fetch_vrk" => mk # 0 /\ job'[p].k = mk
  <2>1. CASE mk # 0 /\ Start(p, "fetch_vrk", [job[p] EXCEPT !.k = mk])
    BY <1>4, <2>1 DEF Start, CustodyIInv, JobInv
  <2>2. CASE Return(p)
    BY <2>2 DEF Return, CustodyIInv, JobInv
  <2> QED BY <1>1, <2>1, <2>2
<1>6. RequestOk(View', written', fresh', l, job'[p])
  <2>1. CASE l = "idle"
    BY <2>1, IdleRequest
  <2>2. CASE l = "fetch_vrk"
    BY <1>1, <1>3, <1>5, <2>2 DEF RequestOk, Stored, Holding, Wrapped, Drawing, Initing, View
  <2> QED BY <2>1, <2>2
<1>7. pc[p] \in Fetching
  BY <1>1 DEF Fetching
<1> QED BY <1>1, <1>2, <1>5, <1>6, <1>7, FetchMoves

LEMMA SoleUnsealVrk ==
  ASSUME CustodyIInv, NoBackupInv, NEW p \in Procs, UnsealVrk(p)
  PROVE  NoBackupInv'
<1> USE DEF NoBackupInv
<1> DEFINE v == Unwrap(View, job[p].k)
<1>1. /\ pc[p] = "fetch_vrk" /\ UNCHANGED <<os, disk, mem, running, fresh>> /\ Return(p)
      /\ written' = written \/ (v # 0 /\ written' = written \cup {v})
  BY DEF UnsealVrk, NoKeychainCall, Calm, RollbackToSealed
<1>2. pc[p] \in Fetching
  BY <1>1 DEF Fetching
<1>3. KeysInv' /\ HeldInv'
  <2>1. CASE written' = written
    BY <1>1, <2>1 DEF KeysInv, HeldInv
  <2>2. CASE v # 0 /\ written' = written \cup {v}
    <3>1. OneKey(View, written, fresh)
      BY DEF KeysInv, View
    <3>2. v = View["vrkm"].k /\ v = job[p].k /\ v <= fresh
      BY <2>2, <3>1 DEF Unwrap, OneKey
    <3>3. v \in Keys \ {0}
      BY <2>2, <3>2, Typed, Strings
    <3>4. v \in written \/ v = View["master"].k
      BY <1>1, <3>2 DEF RequestsInv, RequestOk
    <3>5. \A q \in Procs : pc[q] \notin Drawing
      BY <1>2, SoleLabels DEF ApartInv
    <3> HIDE DEF v
    <3>6. v \in written \/ (Opener(View, v) /\ (running = "file" => Opener(disk.e, v)))
      BY <3>2, <3>3, <3>4, <3>5 DEF Opener, DiskInv, View
    <3> QED BY <1>1, <2>2, <3>2, <3>3, <3>6, KeyComesIntoUse
  <2> QED BY <1>1, <2>1, <2>2
<1>4. /\ \A q \in Procs : pc'[q] = IF q = p THEN "idle" ELSE pc[q]
      /\ \A q \in Procs : q # p => job'[q] = job[q]
  BY <1>1 DEF Return, CustodyIInv, JobInv
<1>5. ApartInv' /\ RequestsInv' /\ DiskInv'
  BY <1>1, <1>2, <1>4, IdleRequest, FetchMoves
<1> QED BY <1>3, <1>5

LEMMA SoleQuiet ==
  ASSUME NoBackupInv, UNCHANGED <<os, disk, mem, running, fresh, written, pc, job>>
  PROVE  NoBackupInv'
<1>1. View' = View
  BY DEF View
<1> QED BY <1>1 DEF NoBackupInv, KeysInv, HeldInv, DiskInv, ApartInv, RequestsInv

(* While the agent starts or stops, no request is under way.                   *)
LEMMA NobodyRuns ==
  ASSUME \A p \in Procs : pc'[p] = "idle"
  PROVE  ApartInv' /\ RequestsInv'
<1>1. ApartInv'
  BY SoleLabels DEF ApartInv
<1>2. RequestsInv'
  BY IdleRequest DEF RequestsInv
<1> QED BY <1>1, <1>2

LEMMA SoleBoot == ASSUME CustodyIInv, NoBackupInv, Boot \/ Stop PROVE NoBackupInv'
<1> USE DEF NoBackupInv
<1>1. /\ UNCHANGED <<os, disk, fresh, written>>
      /\ \/ running' = "file" /\ mem' = disk
         \/ running' # "file" /\ mem' = NoFile
  BY DEF Boot, Stop, OpenFile, OpenOs, durable, ghosts
<1>2. \A p \in Procs : pc'[p] = "idle"
  BY DEF Boot, Stop, Idle, CustodyIInv, JobInv, Up
<1>3. OneKey(NoFile.e, written, fresh)
  <2>1. NoFile.e = Empty /\ \A a \in Accounts : Empty[a].k = 0 /\ Empty[a].v = 0
    BY DEF NoFile, Empty, None
  <2>2. 0 <= fresh
    BY DEF CustodyIInv, DataInv, Keys
  <2> QED BY <2>1, <2>2, Strings DEF OneKey
<1>4. KeysInv' /\ HeldInv' /\ DiskInv'
  BY <1>1, <1>3 DEF KeysInv, HeldInv, DiskInv
<1> QED BY <1>2, <1>4, NobodyRuns

(* The migration fills an account that the OS keychain has not.                *)
LEMMA SoleMigrate == ASSUME CustodyIInv, NoBackupInv, Migrate PROVE NoBackupInv'
<1> USE DEF NoBackupInv
<1>1. UNCHANGED <<disk, mem, fresh, written, pc>> /\ running = "boot" /\ running' \in {"boot", "os"}
  BY DEF Migrate, ghosts
<1>2. \A p \in Procs : pc'[p] = "idle"
  BY <1>1 DEF CustodyIInv, JobInv, Up
<1>3. os' = os \/ \E a \in Accounts : os[a] = None /\ os' = [os EXCEPT ![a] = disk.e[a]]
  <2>1. CASE todo = <<>>
    BY <2>1 DEF Migrate
  <2>2. CASE todo # <<>>
    <3>1. Head(todo) \in Accounts
      BY <2>2 DEF CustodyIInv, StoreInv
    <3> QED BY <2>2, <3>1 DEF Migrate
  <2> QED BY <2>1, <2>2
<1>4. CASE os' = os
  <2>1. KeysInv' /\ HeldInv' /\ DiskInv'
    BY <1>1, <1>4 DEF KeysInv, HeldInv, DiskInv
  <2> QED BY <1>2, <2>1, NobodyRuns
<1>5. ASSUME NEW a \in Accounts, os[a] = None, os' = [os EXCEPT ![a] = disk.e[a]] PROVE NoBackupInv'
  <2>1. \A b \in Accounts : os'[b] = IF b = a THEN disk.e[b] ELSE os[b]
    BY <1>5 DEF CustodyIInv, StoreInv
  <2>2. OneKey(os', written, fresh)
    BY <2>1, Strings DEF KeysInv, OneKey
  <2>3. \A v \in written : Opener(os, v) => Opener(os', v)
    BY <1>5, <2>1, Strings, Typed DEF Opener
  <2>4. KeysInv' /\ HeldInv' /\ DiskInv'
    BY <1>1, <2>2, <2>3 DEF KeysInv, HeldInv, DiskInv
  <2> QED BY <1>2, <2>4, NobodyRuns
<1> QED BY <1>3, <1>4, <1>5

-----------------------------------------------------------------------------
(* Every step keeps UseInv.                                                    *)
AboutToHold == {"rec_open", "rec_audit"}

LEMMA UseFrame ==
  ASSUME UseInv, written \subseteq written', vault' = vault \/ vault' = 0 \/ vault' \in written',
         \A b \in backups' : b \in backups \/ b.of \in written',
         \A q \in Procs : pc'[q] \in AboutToHold =>
           (pc[q] \in AboutToHold /\ job'[q] = job[q]) \/ job'[q].v \in written'
  PROVE  UseInv'
BY DEF UseInv, AboutToHold

(* One request moves to l, the others stay.                                    *)
LEMMA OneMoves ==
  ASSUME JobInv, NEW p \in Procs,
         \/ UNCHANGED <<pc, job>>
         \/ Return(p)
         \/ \E l \in Labels \ AboutToHold : Goto(p, l) \/ \E j : Start(p, l, j)
  PROVE  \A q \in Procs : pc'[q] \in AboutToHold => pc[q] \in AboutToHold /\ job'[q] = job[q]
BY DEF JobInv, Goto, Return, Start, AboutToHold

LEMMA UseRequest ==
  ASSUME CustodyIInv, UseInv, NEW p \in Procs,
         \/ InitMaster(p) \/ InitVrkMaster(p) \/ InitVrkRecovery(p)
         \/ InitUndo(p) \/ InitUndoBoth(p) \/ InitAudit(p) \/ InitParams(p) \/ InitWrap(p)
         \/ \E v : RecoverMaster(p, v)
         \/ RecoverVrkMaster(p) \/ RecoverVrkRecovery(p) \/ RecoverUndo(p)
         \/ UndoVrkMaster(p) \/ RecoverAudit(p)
  PROVE  UseInv'
<1>1. written \subseteq written' /\ vault' = vault /\ backups' = backups
  BY DEF InitMaster, InitVrkMaster, InitVrkRecovery, InitUndo, InitUndoBoth, InitAudit, InitParams,
         InitWrap, RecoverMaster, RecoverVrkMaster, RecoverVrkRecovery, RecoverUndo, UndoVrkMaster,
         RecoverAudit, identity, ghosts
<1>2. {"init_vrkm", "init_vrkr", "init_undo", "init_undo2", "init_undo3", "init_audit", "init_params",
       "init_wrap", "rec_vrkm", "rec_vrkr", "rec_undo", "rec_undo2", "rec_undo3", "rec_put"}
        \subseteq Labels \ AboutToHold
  BY DEF Labels, AboutToHold
<1>3. \/ UNCHANGED <<pc, job>>
      \/ Return(p)
      \/ \E l \in Labels \ AboutToHold : Goto(p, l) \/ \E j : Start(p, l, j)
  <2>1. CASE InitMaster(p) \/ \E v : RecoverMaster(p, v)
    BY <1>2, <2>1 DEF InitMaster, RecoverMaster
  <2>2. CASE InitVrkMaster(p) \/ InitVrkRecovery(p) \/ InitUndo(p) \/ InitUndoBoth(p)
    BY <1>2, <2>2 DEF InitVrkMaster, InitVrkRecovery, InitUndo, InitUndoBoth
  <2>3. CASE InitAudit(p) \/ InitParams(p) \/ InitWrap(p) \/ RecoverAudit(p)
    BY <1>2, <2>3 DEF InitAudit, InitParams, InitWrap, RecoverAudit
  <2>4. CASE RecoverVrkMaster(p) \/ RecoverVrkRecovery(p) \/ RecoverUndo(p) \/ UndoVrkMaster(p)
    BY <1>2, <2>4 DEF RecoverVrkMaster, RecoverVrkRecovery, RecoverUndo, UndoVrkMaster
  <2> QED BY <2>1, <2>2, <2>3, <2>4
<1> QED BY <1>1, <1>3, OneMoves, UseFrame DEF CustodyIInv

LEMMA UseUnseal ==
  ASSUME CustodyIInv, UseInv, NEW p \in Procs,
         \/ \E via \in {"keychain", "passphrase"} : UnsealBegin(p, via)
         \/ UnsealMaster(p) \/ UnsealVrk(p) \/ Seal(p) \/ TakeBackup(p)
  PROVE  UseInv'
<1>1. {"fetch_master", "fetch_vrk"} \subseteq Labels \ AboutToHold
  BY DEF Labels, AboutToHold
<1>2. \/ UNCHANGED <<pc, job>>
      \/ Return(p)
      \/ \E l \in Labels \ AboutToHold : Goto(p, l) \/ \E j : Start(p, l, j)
  <2>1. CASE \E via \in {"keychain", "passphrase"} : UnsealBegin(p, via)
    BY <1>1, <2>1 DEF UnsealBegin
  <2>2. CASE UnsealMaster(p)
    BY <1>1, <2>2 DEF UnsealMaster, RollbackToSealed
  <2>3. CASE UnsealVrk(p) \/ Seal(p) \/ TakeBackup(p)
    BY <2>3 DEF UnsealVrk, RollbackToSealed, Seal, TakeBackup
  <2> QED BY <2>1, <2>2, <2>3
<1>3. written \subseteq written' /\ (vault' = vault \/ vault' = 0 \/ vault' \in written')
  BY DEF UnsealBegin, UnsealMaster, UnsealVrk, Seal, TakeBackup, identity, ghosts
<1>4. \A b \in backups' : b \in backups \/ b.of \in written'
  <2>1. CASE TakeBackup(p)
    <3>1. vault \in written
      BY <2>1 DEF TakeBackup, CustodyIInv, IdentityInv, UseInv
    <3> QED BY <1>3, <2>1, <3>1 DEF TakeBackup
  <2>2. CASE ~ TakeBackup(p)
    BY <2>2 DEF UnsealBegin, UnsealMaster, UnsealVrk, Seal
  <2> QED BY <2>1, <2>2
<1> QED BY <1>2, <1>3, <1>4, OneMoves, UseFrame DEF CustodyIInv

LEMMA UseRecover ==
  ASSUME CustodyIInv, UseInv, NEW p \in Procs, RecoverPut(p) \/ RecoverOpen(p)
  PROVE  UseInv'
<1>1. backups' = backups
  BY DEF RecoverPut, RecoverOpen
<1>2. CASE RecoverPut(p)
  <2>1. written' = written \cup {job[p].v} /\ vault' = vault /\ (Goto(p, "rec_open") \/ Return(p))
    BY <1>2 DEF RecoverPut, identity
  <2>2. \A q \in Procs : pc'[q] \in AboutToHold =>
          (pc[q] \in AboutToHold /\ job'[q] = job[q]) \/ job'[q].v \in written'
    BY <2>1 DEF Goto, Return, AboutToHold, CustodyIInv, JobInv
  <2> QED BY <1>1, <2>1, <2>2, UseFrame
<1>3. CASE RecoverOpen(p)
  <2>1. /\ written' = written /\ job[p].v \in written
        /\ vault' = vault \/ vault' = job[p].v
        /\ Goto(p, "rec_audit") \/ Return(p)
        /\ pc[p] = "rec_open"
    BY <1>3 DEF RecoverOpen, ghosts, UseInv
  <2>2. \A q \in Procs : pc'[q] \in AboutToHold =>
          (pc[q] \in AboutToHold /\ job'[q] = job[q]) \/ job'[q].v \in written'
    BY <2>1 DEF Goto, Return, AboutToHold, CustodyIInv, JobInv
  <2> QED BY <1>1, <2>1, <2>2, UseFrame
<1> QED BY <1>2, <1>3

LEMMA UseStep == ASSUME CustodyIInv, UseInv, [CustodyNext]_custodyVars PROVE UseInv'
<1>1. CASE Boot \/ Migrate \/ UNCHANGED custodyVars
  BY <1>1 DEF Boot, Migrate, custodyVars, durable, identity, ghosts, UseInv
<1>2. CASE Stop
  <2>1. \A q \in Procs : pc'[q] = "idle"
    BY <1>2 DEF Stop, Idle
  <2> QED BY <1>2, <2>1 DEF Stop, durable, ghosts, UseInv
<1>3. CASE \E p \in Procs :
             \/ InitMaster(p) \/ InitVrkMaster(p) \/ InitVrkRecovery(p)
             \/ InitUndo(p) \/ InitUndoBoth(p) \/ InitAudit(p) \/ InitParams(p) \/ InitWrap(p)
             \/ \E v : RecoverMaster(p, v)
             \/ RecoverVrkMaster(p) \/ RecoverVrkRecovery(p) \/ RecoverUndo(p)
             \/ UndoVrkMaster(p) \/ RecoverAudit(p)
  BY <1>3, UseRequest
<1>4. CASE \E p \in Procs :
             \/ \E via \in {"keychain", "passphrase"} : UnsealBegin(p, via)
             \/ UnsealMaster(p) \/ UnsealVrk(p) \/ Seal(p) \/ TakeBackup(p)
             \/ RecoverPut(p) \/ RecoverOpen(p)
  BY <1>4, UseUnseal, UseRecover
<1> QED BY <1>1, <1>2, <1>3, <1>4, Zenon DEF CustodyNext

-----------------------------------------------------------------------------
(* Without a backup nobody recovers.                                           *)
LEMMA NoRecovery ==
  ASSUME NoBackupInv, backups = {}, NEW p \in Procs
  PROVE  /\ \A b \in backups : ~ RecoverMaster(p, b.gives)
         /\ ~ RecoverVrkMaster(p) /\ ~ RecoverVrkRecovery(p) /\ ~ RecoverUndo(p)
         /\ ~ RecoverPut(p) /\ ~ RecoverOpen(p) /\ ~ RecoverAudit(p)
<1>1. pc[p] \notin {"rec_vrkm", "rec_vrkr", "rec_undo", "rec_undo2", "rec_put", "rec_open", "rec_audit"}
  BY DEF NoBackupInv, ApartInv, Fetching, Initing, Drawing
<1> QED BY <1>1 DEF RecoverVrkMaster, RecoverVrkRecovery, RecoverUndo, RecoverPut, RecoverOpen,
                    RecoverAudit

LEMMA SoleStep ==
  ASSUME SoleIInv, [CustodyNext]_custodyVars, [UnsealsApart]_custodyVars
  PROVE  SoleIInv'
<1>1. CustodyIInv' /\ UseInv'
  BY CustodyStep, UseStep DEF SoleIInv
<1>2. ASSUME backups' = {} PROVE NoBackupInv'
  <2>1. backups = {} /\ \A p \in Procs : ~ TakeBackup(p)
    <3>1. \A p \in Procs : ~ TakeBackup(p)
      BY <1>2 DEF TakeBackup
    <3>2. backups \subseteq backups'
      <4>1. CASE UNCHANGED custodyVars
        BY <4>1 DEF custodyVars, durable
      <4>2. CASE Boot \/ Migrate \/ Stop
        BY <4>2 DEF Boot, Migrate, Stop, durable
      <4>3. CASE ~ (Boot \/ Migrate \/ Stop \/ UNCHANGED custodyVars)
        BY <4>3 DEF CustodyNext, InitMaster, InitVrkMaster, InitVrkRecovery, InitUndo, InitUndoBoth,
               InitAudit, InitParams, InitWrap, UnsealBegin, UnsealMaster, UnsealVrk, Seal, TakeBackup,
               RecoverMaster, RecoverVrkMaster, RecoverVrkRecovery, RecoverUndo, UndoVrkMaster,
               RecoverPut, RecoverOpen, RecoverAudit
      <4> QED BY <4>1, <4>2, <4>3
    <3> QED BY <1>2, <3>1, <3>2
  <2>2. CustodyIInv /\ NoBackupInv
    BY <2>1 DEF SoleIInv
  <2>3. CASE UNCHANGED custodyVars
    BY <2>2, <2>3, SoleQuiet DEF custodyVars, durable, bounds, ghosts
  <2>4. CASE Boot \/ Stop \/ Migrate
    BY <2>2, <2>4, SoleBoot, SoleMigrate
  <2>5. ASSUME NEW p \in Procs, UnsealsApart,
               InitMaster(p) \/ \E via \in {"keychain", "passphrase"} : UnsealBegin(p, via)
        PROVE  NoBackupInv'
    BY <2>2, <2>5, SoleInitMaster, SoleUnsealBegin
  <2>6. ASSUME NEW p \in Procs,
               \/ InitVrkMaster(p) \/ InitVrkRecovery(p) \/ InitUndo(p) \/ InitUndoBoth(p)
               \/ InitAudit(p) \/ InitParams(p) \/ InitWrap(p) \/ UndoVrkMaster(p)
        PROVE  NoBackupInv'
    BY <2>2, <2>6, SoleInitVrkMaster, SoleInitVrkRecovery, SoleUndo, SoleUndoVrk, SoleInitAudit, SoleEnrol
  <2>7. ASSUME NEW p \in Procs, UnsealMaster(p) \/ UnsealVrk(p) \/ Seal(p)
        PROVE  NoBackupInv'
    <3>1. CASE Seal(p)
      BY <2>2, <3>1, SoleQuiet DEF Seal, NoKeychainCall, Calm, ghosts
    <3> QED BY <2>2, <2>7, <3>1, SoleUnsealMaster, SoleUnsealVrk
  <2>8. ASSUME NEW p \in Procs, \E b \in backups : RecoverMaster(p, b.gives)
        PROVE  FALSE
    BY <2>1, <2>8
  <2>9. CASE UnsealsApart /\ CustodyNext
    BY <2>1, <2>2, <2>4, <2>5, <2>6, <2>7, <2>8, <2>9, NoRecovery, Zenon DEF CustodyNext
  <2> QED BY <2>3, <2>9
<1> QED BY <1>1, <1>2 DEF SoleIInv

LEMMA SoleInitial == CustodyInit => SoleIInv
<1> SUFFICES ASSUME CustodyInit PROVE SoleIInv
  OBVIOUS
<1>1. CustodyIInv
  BY CustodyInitIInv
<1>2. UseInv
  <2>1. \A p \in Procs : pc[p] = "idle"
    BY DEF CustodyInit, Idle
  <2> QED BY <2>1 DEF CustodyInit, UseInv
<1>3. \A p \in Procs : pc[p] = "idle"
  BY DEF CustodyInit, Idle
<1>4. \A a \in Accounts : Empty[a].k = 0 /\ Empty[a].v = 0
  BY DEF Empty, None
<1>5. NoFile.e = Empty
  BY DEF NoFile
<1>6. KeysInv
  BY <1>4, <1>5, Strings DEF CustodyInit, KeysInv, OneKey
<1>7. HeldInv /\ DiskInv
  BY DEF CustodyInit, HeldInv, DiskInv
<1>8. ApartInv
  BY <1>3, SoleLabels DEF ApartInv
<1>9. RequestsInv
  BY <1>3, IdleRequest DEF RequestsInv
<1> QED BY <1>1, <1>2, <1>6, <1>7, <1>8, <1>9 DEF SoleIInv, NoBackupInv

(* init_vault.rs, migrate.rs, disaster_recover.rs: as long as no unseal         *)
(* overlaps an init and every backup gives back the key its secrets are under,  *)
(* the one key that all data depends on is never lost, whatever calls fail and  *)
(* wherever the agent stops in init, migration and disaster recovery.           *)
THEOREM SoleKeyStaysHeld ==
  CustodySpec /\ [][UnsealsApart]_custodyVars => [](BackupCarriesItsKey => SoleKeyHeld)
<1>1. ASSUME SoleIInv, BackupCarriesItsKey PROVE SoleKeyHeld
  <2> SUFFICES ASSUME NEW v \in written, written = {v} PROVE Held(v)
    BY DEF SoleKeyHeld
  <2>1. CASE backups # {}
    <3>1. PICK b \in backups : b.gives = b.of /\ b.of \in written
      BY <1>1, <2>1 DEF BackupCarriesItsKey, SoleIInv, UseInv
    <3> QED BY <3>1 DEF Held
  <2>2. CASE backups = {}
    <3>1. CustodyIInv /\ KeysInv /\ HeldInv /\ v # 0
      BY <1>1, <2>2, Typed DEF SoleIInv, NoBackupInv
    <3>2. ASSUME NEW e, OneKey(e, written, fresh), Opener(e, v) PROVE v \in Opens(e)
      <4>1. MasterBy(e, "keychain") = v /\ Unwrap(e, v) = v
        BY <3>1, <3>2 DEF OneKey, Opener, MasterBy, Unwrap
      <4> QED BY <4>1 DEF Opens
    <3> QED BY <3>1, <3>2 DEF KeysInv, HeldInv, Held
  <2> QED BY <2>1, <2>2
<1>2. SoleIInv => (BackupCarriesItsKey => SoleKeyHeld)
  BY <1>1
<1> QED BY <1>2, SoleInitial, SoleStep, PTL DEF CustodySpec

(* The same for requests served one at a time, as the run checks it.           *)
COROLLARY SoleKeyStaysHeldAlone ==
  ASSUME \A p, q \in Procs : p = q
  PROVE  CustodySpec => [](BackupCarriesItsKey => SoleKeyHeld)
<1>1. UnsealsApart
  BY SoleLabels DEF UnsealsApart, InitMaster, UnsealBegin, Fetching, Initialising
<1> QED BY <1>1, SoleKeyStaysHeld, PTL
=============================================================================
