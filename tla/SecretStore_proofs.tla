------------------------- MODULE SecretStore_proofs -------------------------
(***************************************************************************)
(* Theorems about SecretStore for any number of clients and commands and   *)
(* all faults: the tables stay consistent, what was acknowledged is kept,  *)
(* a reader gets a current value and a version is only ever deprecated.    *)
(***************************************************************************)
EXTENDS SecretStore, TLAPS, FiniteSetTheorems, FunctionTheorems, WellFoundedInduction

Bounded(vs) == \E b \in Nat : \A v \in vs : v.no <= b

-----------------------------------------------------------------------------
\* The inductive invariant.

Busy == {"load_versions", "persist"}

\* The tables: identifiers are drawn once, and as long as the secret was never
\* deleted its numbers have no gap, so a free number above a copy's highest says
\* that nothing was added since the copy was made.
NoGap == \A v \in versions : \A k \in 1..v.no : \E w \in versions : w.no = k
StoreInv ==
    /\ NoOrphans /\ NumbersUnique /\ CurrentIsNewest
    /\ \A v, w \in versions : v.id = w.id => v = w
    /\ \A v \in versions : v.id \in 1..issued /\ v.sid \in 1..issued
    /\ secret # NoSecret => secret.sid \in 1..issued
    /\ deleted \subseteq 1..issued
    /\ Bounded(versions)
    /\ secret.sid \notin deleted => NoGap

\* A command that is about to write: its number is still unused, its copy was
\* once the whole history of one secret and, unless that was deleted, is still
\* part of it.
FreshInv(c) == pc[c] \in Busy =>
    /\ cmd[c] \in 1..issued
    /\ \A v \in versions : v.id # cmd[c]
    /\ \A d \in Clients : pc[d] \in Busy /\ cmd[d] = cmd[c] => d = c
    /\ \A d \in Clients : pc[d] = "persist" => \A v \in loaded[d] : v.id # cmd[c]
RowInv(c) == pc[c] \in Busy =>
    /\ row[c].sid \in 1..issued
    /\ row[c].sid \notin deleted => secret.sid = row[c].sid
CopyInv(c) == pc[c] = "persist" =>
    /\ \A v \in loaded[c] : v.sid = row[c].sid /\ v.id \in 1..issued
    /\ \A v, w \in loaded[c] : v.id = w.id \/ v.no = w.no => v = w
    /\ Bounded(loaded[c])
    /\ row[c].sid \notin deleted =>
         \A v \in loaded[c] : \E w \in versions : w.id = v.id /\ w.no = v.no

\* A version that was written stays until its secret is deleted.
Kept(id, sid) == sid \in deleted \/ \E v \in versions : v.id = id /\ v.sid = sid
AckInv ==
    /\ \A a \in acked : Kept(a.id, a.sid)
    /\ \A c \in Clients : pc[c] = "audit" =>
         /\ op[c] # "Read"
         /\ op[c] = "Put" => Kept(cmd[c], cmd[c])
         /\ op[c] \in {"Rotate", "Rollback"} => Kept(cmd[c], row[c].sid)

\* The number of a version that is being acknowledged.
SlotInv == \A c \in Clients : pc[c] = "audit" /\ op[c] \in {"Rotate", "Rollback"} =>
    MaxNo(loaded[c]) \in Nat

IInv ==
    /\ TypeOK /\ StoreInv /\ AckInv /\ SlotInv
    /\ \A c \in Clients : FreshInv(c) /\ RowInv(c) /\ CopyInv(c)

-----------------------------------------------------------------------------
\* What the operators of the module compute.

\* MaxNo is the highest number in use.
LEMMA MaxNoIsMax ==
    ASSUME NEW vs, vs \subseteq Version, vs # {}, Bounded(vs)
    PROVE  /\ MaxNo(vs) \in Nat \ {0}
           /\ \E v \in vs : v.no = MaxNo(vs)
           /\ \A v \in vs : v.no <= MaxNo(vs)
<1>1. PICK b \in Nat : \A v \in vs : v.no <= b
  BY DEF Bounded
<1> DEFINE T == {b - v.no : v \in vs}
<1>2. T \subseteq Nat /\ T # {}
  BY <1>1 DEF Version
<1> DEFINE R == {ss \in Nat \X Nat : ss[1] < ss[2]}
<1>3. IsWellFoundedOn(R, Nat)
  <2>1. OpToRel(<, Nat) = R
    BY Zenon DEF OpToRel
  <2> QED
    BY <2>1, NatLessThanWellFounded, Zenon
<1>4. PICK x \in T : \A y \in T : x <= y
  <2>1. PICK x \in T : \A y \in T : ~(<<y, x>> \in R)
    BY <1>2, <1>3, WFMin
  <2>2. ASSUME NEW y \in T PROVE x <= y
    <3>1. x \in Nat /\ y \in Nat
      BY <1>2
    <3>2. <<y, x>> \notin R
      BY <2>1
    <3> HIDE DEF T
    <3> QED
      BY <3>1, <3>2
  <2> QED
    BY <2>2
<1>5. PICK m \in vs : x = b - m.no
  OBVIOUS
<1>6. \A v \in vs : v.no <= m.no
  <2> SUFFICES ASSUME NEW v \in vs PROVE v.no <= m.no
    OBVIOUS
  <2>1. b - v.no \in T
    OBVIOUS
  <2> QED
    BY <1>4, <1>5, <2>1 DEF Version
<1> DEFINE N == {v.no : v \in vs}
<1>7. m.no \in N /\ \A v \in vs : v.no <= m.no
  BY <1>6
<1>8. MaxNo(vs) = CHOOSE n \in N : \A v \in vs : v.no <= n
  BY DEF MaxNo
<1>9. MaxNo(vs) \in N /\ \A v \in vs : v.no <= MaxNo(vs)
  BY <1>7, <1>8
<1> QED
  BY <1>9 DEF Version

\* An upsert keeps every stored row but for its deprecation, and adds the rows
\* of the copy whose id is not stored.
Same(u, w) == u.id = w.id /\ u.sid = w.sid /\ u.no = w.no /\ u.value = w.value

LEMMA UpsertFacts ==
    ASSUME NEW vs, vs \subseteq Version, versions \subseteq Version
    PROVE  /\ Upsert(vs) \subseteq Version
           /\ \A w \in versions : \E u \in Upsert(vs) : Same(u, w)
           /\ \A u \in Upsert(vs) :
                \/ \E w \in versions : Same(u, w)
                \/ u \in vs /\ \A w \in versions : u.id # w.id
           /\ \A v \in vs : (\A w \in versions : v.id # w.id) => v \in Upsert(vs)
<1> DEFINE old == {w \in versions : \A v \in vs : v.id # w.id}
           new == {v \in vs : \A w \in versions : v.id # w.id}
           both == UNION {{[w EXCEPT !.active = v.active] : v \in {u \in vs : u.id = w.id}} : w \in versions}
<1>1. Upsert(vs) = old \cup new \cup both
  BY DEF Upsert
<1>2. ASSUME NEW w \in versions, NEW v \in vs
      PROVE  LET u == [w EXCEPT !.active = v.active] IN u \in Version /\ Same(u, w)
  BY DEF Version, Same
<1>3. ASSUME NEW u \in both PROVE u \in Version /\ \E w \in versions : Same(u, w)
  <2>1. PICK w \in versions, v \in vs : v.id = w.id /\ u = [w EXCEPT !.active = v.active]
    OBVIOUS
  <2> QED
    BY <1>2, <2>1
<1>4. ASSUME NEW w \in versions PROVE \E u \in old \cup both : Same(u, w)
  <2>1. CASE \A v \in vs : v.id # w.id
    BY <2>1 DEF Same
  <2>2. CASE \E v \in vs : v.id = w.id
    <3>1. PICK v \in vs : v.id = w.id
      BY <2>2
    <3>2. [w EXCEPT !.active = v.active] \in both
      BY <3>1
    <3> QED
      BY <1>2, <3>2
  <2> QED
    BY <2>1, <2>2
<1>5. \A u \in old : u \in versions /\ Same(u, u)
  BY DEF Same
<1> HIDE DEF old, both
<1> QED
  BY <1>1, <1>3, <1>4, <1>5 DEF old

\* With unique ids on both sides the ids stay unique.
LEMMA UpsertUnique ==
    ASSUME NEW vs, vs \subseteq Version, versions \subseteq Version,
           \A v, w \in versions : v.id = w.id => v = w,
           \A v, w \in vs : v.id = w.id => v = w,
           NEW x \in Upsert(vs), NEW y \in Upsert(vs), x.id = y.id
    PROVE  x = y
<1> DEFINE Kind(u) ==
      \/ u \in versions /\ \A v \in vs : v.id # u.id
      \/ u \in vs /\ \A w \in versions : u.id # w.id
      \/ \E w \in versions, v \in vs : v.id = w.id /\ u.id = w.id /\ u = [w EXCEPT !.active = v.active]
<1>1. ASSUME NEW u \in Upsert(vs) PROVE Kind(u)
  <2>1. CASE \E w \in versions, v \in vs : v.id = w.id /\ u = [w EXCEPT !.active = v.active]
    <3>1. PICK w \in versions, v \in vs : v.id = w.id /\ u = [w EXCEPT !.active = v.active]
      BY <2>1
    <3>2. u.id = w.id
      BY <3>1 DEF Version
    <3> QED
      BY <3>1, <3>2
  <2> QED
    BY <1>1, <2>1 DEF Upsert
<1>2. Kind(x) /\ Kind(y)
  BY <1>1
<1> QED
  BY <1>2

\* What Secret::rotate and Secret::rollback_to make of a copy: a new version
\* with the next number, and the newest of the others.
New(c, value) == [id |-> cmd[c], sid |-> row[c].sid, no |-> MaxNo(loaded[c]) + 1,
                  value |-> value, active |-> TRUE]

LEMMA RotatedFacts ==
    ASSUME TypeOK, NEW c \in Clients, pc[c] = "persist", FreshInv(c), CopyInv(c), HasCurrent(c),
           NEW value \in Nat
    PROVE  /\ Rotated(c, value) \subseteq Version
           /\ New(c, value) \in Rotated(c, value)
           /\ \A v \in Rotated(c, value) : v = New(c, value) \/ \E l \in loaded[c] : Same(v, l)
           /\ \A v, w \in Rotated(c, value) : v.id = w.id \/ v.no = w.no => v = w
           /\ \E l \in loaded[c] : l.no = MaxNo(loaded[c])
           /\ \A l \in loaded[c] : l.no <= MaxNo(loaded[c])
           /\ MaxNo(loaded[c]) \in Nat \ {0}
<1> DEFINE new == New(c, value)
           dep == Deprecate(loaded[c], row[c].current)
           all == dep \cup {new}
<1>1. loaded[c] \subseteq Version /\ loaded[c] # {} /\ Bounded(loaded[c])
  BY DEF TypeOK, HasCurrent, CopyInv
<1>2. /\ MaxNo(loaded[c]) \in Nat \ {0}
      /\ \E l \in loaded[c] : l.no = MaxNo(loaded[c])
      /\ \A l \in loaded[c] : l.no <= MaxNo(loaded[c])
  BY <1>1, MaxNoIsMax
<1>3. new \in Version /\ new.id = cmd[c] /\ new.no = MaxNo(loaded[c]) + 1
  BY <1>2 DEF New, Version, TypeOK
<1>4. ASSUME NEW v \in dep PROVE v \in Version /\ \E l \in loaded[c] : Same(v, l)
  BY <1>1 DEF Deprecate, Version, Same
<1>5. ASSUME NEW v \in dep, NEW w \in dep, v.id = w.id \/ v.no = w.no PROVE v = w
  <2>1. PICK k \in loaded[c] : v = IF k.id = row[c].current THEN [k EXCEPT !.active = FALSE] ELSE k
    BY DEF Deprecate
  <2>2. PICK l \in loaded[c] : w = IF l.id = row[c].current THEN [l EXCEPT !.active = FALSE] ELSE l
    BY DEF Deprecate
  <2>3. k.id = l.id \/ k.no = l.no
    BY <1>1, <1>5, <2>1, <2>2 DEF Version
  <2> QED
    BY <2>1, <2>2, <2>3 DEF CopyInv
<1>6. ASSUME NEW v \in dep PROVE v.id # new.id /\ v.no < new.no
  BY <1>1, <1>2, <1>3, <1>4 DEF Same, FreshInv, Busy, Version
<1>7. Rotated(c, value) = Prune(all)
  BY DEF Rotated, New
<1>8. new \in Prune(all)
  <2>1. {w \in all : w.no > new.no} = {}
    BY <1>2, <1>3, <1>4, <1>6 DEF Version
  <2>2. Cardinality({w \in all : w.no > new.no}) = 0
    BY <2>1, FS_EmptySet
  <2>3. 0 < Retain
    BY SecretStoreAssumption
  <2> HIDE DEF new, dep
  <2> QED
    BY <2>2, <2>3 DEF Prune
<1>9. Prune(all) \subseteq all
  BY DEF Prune
<1> HIDE DEF new, dep
<1>10. \A v, w \in all : v.id = w.id \/ v.no = w.no => v = w
  BY <1>3, <1>4, <1>5, <1>6 DEF Version
<1> QED
  BY <1>2, <1>3, <1>4, <1>7, <1>8, <1>9, <1>10 DEF new

-----------------------------------------------------------------------------
\* Initial state and steps.

LEMMA InitIInv == Init => IInv
<1> SUFFICES ASSUME Init PROVE IInv
  OBVIOUS
<1>1. TypeOK
  BY DEF Init, TypeOK, NoSecret, Labels, Commands
<1>2. StoreInv
  BY DEF Init, StoreInv, NoOrphans, NumbersUnique, CurrentIsNewest, NoGap, Bounded, NoSecret
<1>3. AckInv /\ SlotInv /\ \A c \in Clients : FreshInv(c) /\ RowInv(c) /\ CopyInv(c)
  BY DEF Init, AckInv, SlotInv, FreshInv, RowInv, CopyInv, Busy
<1> QED
  BY <1>1, <1>2, <1>3 DEF IInv

\* A command arrives.
LEMMA ReceiveType ==
    ASSUME TypeOK, NEW c \in Clients, NEW o \in Commands, Receive(c, o)
    PROVE  /\ issued' \in Nat /\ op' \in [Clients -> Commands] /\ cmd' \in [Clients -> Nat]
BY DEF TypeOK, Receive

LEMMA WitnessType ==
    ASSUME TypeOK, versions' \subseteq Version, Witness
    PROVE  live' \in [Clients -> SUBSET Nat]
BY DEF TypeOK, Witness, Version

LEMMA TypeStep == ASSUME IInv, [Next]_vars PROVE TypeOK'
<1> USE DEF TypeOK, Labels, At, Goto, store, ghost
<1>0. TypeOK
  BY DEF IInv
<1>1. ASSUME NEW c \in Clients, PutPersist(c) PROVE TypeOK'
  <2>1. FirstVersion(issued + 1) \in Version
    BY <1>0 DEF FirstVersion, Version
  <2>2. versions' \subseteq Version
    BY <1>0, <1>1, <2>1 DEF PutPersist
  <2>3. live' \in [Clients -> SUBSET Nat]
    BY <1>0, <1>1, <2>2, WitnessType DEF PutPersist
  <2>4. issued' \in Nat /\ op' \in [Clients -> Commands] /\ cmd' \in [Clients -> Nat]
    BY <1>0, <1>1, ReceiveType DEF PutPersist, Commands
  <2>5. secret' \in [sid : Nat, current : Nat] /\ applied' \subseteq Nat
    BY <1>0, <1>1 DEF PutPersist
  <2> QED
    BY <1>0, <1>1, <2>2, <2>3, <2>4, <2>5 DEF PutPersist
<1>2. ASSUME NEW c \in Clients, PutRefused(c) PROVE TypeOK'
  BY <1>0, <1>2 DEF PutRefused, Receive, Commands
<1>3. ASSUME NEW c \in Clients, LoadRow(c) PROVE TypeOK'
  BY <1>0, <1>3 DEF LoadRow, Receive, Commands
<1>4. ASSUME NEW c \in Clients, NotFound(c) PROVE TypeOK'
  BY <1>0, <1>4 DEF NotFound, Receive, Commands
<1>5. ASSUME NEW c \in Clients, LoadVersions(c) PROVE TypeOK'
  BY <1>0, <1>5 DEF LoadVersions, VersionsOf
<1>6. ASSUME NEW c \in Clients, PersistVersions(c) PROVE TypeOK'
  <2>1. PICK value \in NewValues(c) : versions' = Upsert(Rotated(c, value))
    BY <1>6 DEF PersistVersions
  <2>2. value \in Nat
    BY <1>0, <2>1 DEF NewValues, Version
  <2>3. Rotated(c, value) \subseteq Version
    BY <1>0, <1>6, <2>2, RotatedFacts DEF PersistVersions, IInv
  <2>4. versions' \subseteq Version
    BY <1>0, <2>1, <2>3, UpsertFacts
  <2>5. live' \in [Clients -> SUBSET Nat]
    BY <1>0, <1>6, <2>4, WitnessType DEF PersistVersions
  <2> QED
    BY <1>0, <1>6, <2>4, <2>5 DEF PersistVersions, UpsertRow
<1>7. ASSUME NEW c \in Clients, PersistDelete(c) PROVE TypeOK'
  <2>1. versions' \subseteq Version
    BY <1>0, <1>7 DEF PersistDelete, Cascade
  <2>2. live' \in [Clients -> SUBSET Nat]
    BY <1>0, <1>7, <2>1, WitnessType DEF PersistDelete
  <2> QED
    BY <1>0, <1>7, <2>1, <2>2 DEF PersistDelete, NoSecret
<1>8. ASSUME NEW c \in Clients, PersistFails(c) \/ AuditFails(c) \/ Cancel(c) PROVE TypeOK'
  BY <1>0, <1>8 DEF PersistFails, AuditFails, Cancel
<1>9. ASSUME NEW c \in Clients, AuditOk(c) PROVE TypeOK'
  <2>1. op[c] \in {"Put", "Delete", "Rotate", "Rollback"}
    BY <1>0, <1>9 DEF AuditOk, IInv, AckInv, Commands
  <2>2. op[c] \in {"Rotate", "Rollback"} => MaxNo(loaded[c]) \in Nat
    BY <1>9 DEF AuditOk, IInv, SlotInv
  <2>3. acked' \subseteq [id : Nat, sid : Nat, no : Nat \ {0}]
    BY <1>0, <1>9, <2>1, <2>2 DEF AuditOk
  <2> QED
    BY <1>0, <1>9, <2>3 DEF AuditOk
<1>10. ASSUME NEW c \in Clients, ReadRow(c) PROVE TypeOK'
  <2>1. CurrentValues \subseteq Nat
    BY <1>0 DEF CurrentValues, Version
  <2> QED
    BY <1>0, <1>10, <2>1 DEF ReadRow, Receive, Commands
<1>11. ASSUME NEW c \in Clients, ReadVersions(c) PROVE TypeOK'
  <2> DEFINE found == FirstActive(VersionsOf(row[c].sid))
             got == IF found = {} THEN 0 ELSE (CHOOSE v \in found : TRUE).value
  <2>1. found \subseteq Version
    BY <1>0 DEF FirstActive, VersionsOf
  <2>2. got \in Nat
    BY <2>1 DEF Version
  <2>3. answer' = [answer EXCEPT ![c] = got]
    BY <1>11 DEF ReadVersions
  <2> HIDE DEF got
  <2> QED
    BY <1>0, <1>11, <2>2, <2>3 DEF ReadVersions
<1>12. CASE Restart
  BY <1>0, <1>12 DEF Restart
<1>13. CASE Finished \/ UNCHANGED vars
  BY <1>0, <1>13 DEF Finished, vars, local
<1> QED
  BY <1>1, <1>2, <1>3, <1>4, <1>5, <1>6, <1>7, <1>8, <1>9, <1>10, <1>11, <1>12, <1>13
     DEF Next, Write, Reader

-----------------------------------------------------------------------------
\* The rows that a successful rotation or rollback leaves.
LEMMA PersistFacts ==
    ASSUME IInv, NEW c \in Clients, PersistVersions(c)
    PROVE  \E value \in Nat :
             LET new == New(c, value)
                 top == MaxNo(loaded[c])
             IN  /\ new \in versions' /\ new \in Version
                 /\ new.id = cmd[c] /\ new.sid = row[c].sid /\ new.no = top + 1 /\ new.active
                 /\ top \in Nat \ {0} /\ \E l \in loaded[c] : l.no = top
                 /\ \A l \in loaded[c] : l.no <= top
                 /\ \A w \in versions : w.sid = row[c].sid => w.no # top + 1
                 /\ \A w \in versions : \E u \in versions' : Same(u, w)
                 /\ \A u \in versions' :
                      \/ \E w \in versions : Same(u, w)
                      \/ u = new
                      \/ /\ \E l \in loaded[c] : Same(u, l)
                         /\ \A w \in versions : u.id # w.id
                 /\ \A u, v \in versions' : u.id = v.id => u = v
                 /\ \A u, v \in versions' : u.sid = v.sid /\ u.no = v.no => u = v
<1>1. PICK value \in NewValues(c) :
        /\ ~SlotTaken(Rotated(c, value))
        /\ versions' = Upsert(Rotated(c, value))
  BY DEF PersistVersions
<1>2. TypeOK /\ FreshInv(c) /\ CopyInv(c) /\ StoreInv /\ HasCurrent(c) /\ pc[c] = "persist"
  BY DEF IInv, PersistVersions, At
<1>3. value \in Nat
  BY <1>1, <1>2 DEF NewValues, Version, TypeOK
<1> DEFINE new == New(c, value)
           top == MaxNo(loaded[c])
           vs == Rotated(c, value)
<1>4. /\ vs \subseteq Version /\ new \in vs
      /\ \A v \in vs : v = new \/ \E l \in loaded[c] : Same(v, l)
      /\ \A v, w \in vs : v.id = w.id \/ v.no = w.no => v = w
      /\ \E l \in loaded[c] : l.no = top
      /\ \A l \in loaded[c] : l.no <= top
      /\ top \in Nat \ {0}
  BY <1>2, <1>3, RotatedFacts
<1>5. new.id = cmd[c] /\ new.sid = row[c].sid /\ new.no = top + 1 /\ new.active
  BY DEF New
<1>6. \A v \in vs : \A w \in versions : w.sid = v.sid /\ w.no = v.no => w.id = v.id
  BY <1>1 DEF SlotTaken
<1>7. \A w \in versions : w.id # new.id
  BY <1>2, <1>5 DEF FreshInv, Busy
<1> HIDE DEF new, top, vs
<1>8. versions \subseteq Version /\ versions' = Upsert(vs)
  BY <1>1, <1>2 DEF TypeOK, vs
<1>9. /\ \A w \in versions : \E u \in versions' : Same(u, w)
      /\ \A u \in versions' :
           \/ \E w \in versions : Same(u, w)
           \/ u \in vs /\ \A w \in versions : u.id # w.id
      /\ \A v \in vs : (\A w \in versions : v.id # w.id) => v \in versions'
  BY <1>4, <1>8, UpsertFacts
<1>10. \A u, v \in versions' : u.id = v.id => u = v
  BY <1>2, <1>4, <1>8, UpsertUnique DEF StoreInv
<1>11. ASSUME NEW u \in versions', NEW v \in versions', u.sid = v.sid, u.no = v.no PROVE u = v
  <2>1. CASE \E w \in versions : Same(u, w)
    <3>1. PICK w \in versions : Same(u, w)
      BY <2>1
    <3>2. CASE \E x \in versions : Same(v, x)
      BY <1>2, <1>10, <1>11, <3>1, <3>2 DEF Same, StoreInv, NumbersUnique
    <3>3. CASE v \in vs
      BY <1>6, <1>10, <1>11, <3>1, <3>3 DEF Same
    <3> QED
      BY <1>9, <3>2, <3>3
  <2>2. CASE u \in vs
    <3>1. CASE \E x \in versions : Same(v, x)
      BY <1>6, <1>10, <1>11, <2>2, <3>1 DEF Same
    <3>2. CASE v \in vs
      BY <1>4, <1>11, <2>2, <3>2
    <3> QED
      BY <1>9, <3>1, <3>2
  <2> QED
    BY <1>9, <2>1, <2>2
<1>12. new \in versions' /\ new \in Version
  BY <1>4, <1>7, <1>9
<1>13. \A w \in versions : w.sid = row[c].sid => w.no # top + 1
  BY <1>4, <1>5, <1>6, <1>7
<1>14. \A u \in versions' :
         \/ \E w \in versions : Same(u, w)
         \/ u = new
         \/ (\E l \in loaded[c] : Same(u, l)) /\ \A w \in versions : u.id # w.id
  BY <1>4, <1>9
<1> QED
  BY <1>3, <1>4, <1>5, <1>9, <1>10, <1>11, <1>12, <1>13, <1>14 DEF new, top

LEMMA EmptyWithoutSecret == ASSUME IInv, secret = NoSecret PROVE versions = {}
BY DEF IInv, TypeOK, StoreInv, NoOrphans, NoSecret

LEMMA StoreFrame ==
    ASSUME IInv, UNCHANGED <<secret, versions, deleted>>, issued' \in Nat, issued' >= issued
    PROVE  StoreInv'
<1>1. 1..issued \subseteq 1..issued'
  BY DEF IInv, TypeOK
<1> QED
  BY <1>1 DEF IInv, StoreInv, NoOrphans, NumbersUnique, CurrentIsNewest, VersionsOf, Bounded, NoGap

\* The tables stay consistent.
LEMMA StoreStep == ASSUME IInv, [Next]_vars PROVE StoreInv'
<1> USE DEF store, ghost
<1>0. issued \in Nat /\ issued + 1 \in Nat /\ issued + 1 >= issued /\ issued >= issued
  BY DEF IInv, TypeOK
<1>1. ASSUME NEW c \in Clients, PutPersist(c) PROVE StoreInv'
  <2> DEFINE n == issued + 1
  <2>1. /\ versions' = {FirstVersion(n)} /\ secret' = [sid |-> n, current |-> n]
        /\ issued' = n /\ deleted' = deleted
    BY <1>1, EmptyWithoutSecret DEF PutPersist, Receive
  <2>2. n \notin deleted /\ deleted \subseteq 1..n /\ n \in 1..n
    BY <1>0 DEF IInv, StoreInv
  <2>3. Bounded(versions')
    BY <2>1 DEF Bounded, FirstVersion
  <2>4. NoGap'
    BY <2>1 DEF NoGap, FirstVersion
  <2>5. CurrentIsNewest'
    <3> DEFINE v == FirstVersion(n)
    <3>1. v.id = n /\ v.sid = n /\ v.no = 1 /\ v.active
      BY DEF FirstVersion
    <3> HIDE DEF v
    <3>2. versions' = {v} /\ secret'.sid = n /\ secret'.current = n
      BY <2>1 DEF v
    <3> QED
      BY <3>1, <3>2 DEF CurrentIsNewest, VersionsOf
  <2> QED
    BY <2>1, <2>2, <2>3, <2>4, <2>5 DEF StoreInv, NoOrphans, NumbersUnique, FirstVersion, Bounded
<1>2. ASSUME NEW c \in Clients, PutRefused(c) \/ LoadRow(c) \/ NotFound(c) \/ ReadRow(c) PROVE StoreInv'
  BY <1>0, <1>2, StoreFrame DEF PutRefused, LoadRow, NotFound, ReadRow, Receive
<1>3. ASSUME NEW c \in Clients,
             LoadVersions(c) \/ PersistFails(c) \/ AuditOk(c) \/ AuditFails(c) \/ ReadVersions(c) \/ Cancel(c)
      PROVE  StoreInv'
  BY <1>0, <1>3, StoreFrame DEF LoadVersions, PersistFails, AuditOk, AuditFails, ReadVersions, Cancel
<1>4. ASSUME NEW c \in Clients, PersistVersions(c) PROVE StoreInv'
  <2>1. PICK value \in Nat :
          LET new == New(c, value)
              top == MaxNo(loaded[c])
          IN  /\ new \in versions' /\ new \in Version
              /\ new.id = cmd[c] /\ new.sid = row[c].sid /\ new.no = top + 1 /\ new.active
              /\ top \in Nat \ {0} /\ \E l \in loaded[c] : l.no = top
              /\ \A l \in loaded[c] : l.no <= top
              /\ \A w \in versions : w.sid = row[c].sid => w.no # top + 1
              /\ \A w \in versions : \E u \in versions' : Same(u, w)
              /\ \A u \in versions' :
                   \/ \E w \in versions : Same(u, w)
                   \/ u = new
                   \/ /\ \E l \in loaded[c] : Same(u, l)
                      /\ \A w \in versions : u.id # w.id
              /\ \A u, v \in versions' : u.id = v.id => u = v
              /\ \A u, v \in versions' : u.sid = v.sid /\ u.no = v.no => u = v
    BY <1>4, PersistFacts
  <2> DEFINE new == New(c, value)
             top == MaxNo(loaded[c])
             sid == row[c].sid
  <2> HIDE DEF new, top
  <2>2. /\ TypeOK /\ StoreInv /\ FreshInv(c) /\ RowInv(c) /\ CopyInv(c) /\ pc[c] = "persist"
    BY <1>4 DEF IInv, PersistVersions, At
  <2>3. /\ secret' = [sid |-> sid, current |-> cmd[c]] /\ issued' = issued /\ deleted' = deleted
        /\ secret # NoSecret => secret.sid = sid
    BY <1>4 DEF PersistVersions, UpsertRow, HandleTaken
  <2>4. sid \in 1..issued /\ cmd[c] \in 1..issued
    BY <2>2 DEF RowInv, FreshInv, Busy
  <2>5. \A w \in versions : w.sid = sid
    BY <2>2, <2>3, EmptyWithoutSecret DEF StoreInv, NoOrphans
  <2>6. ASSUME NEW u \in versions' PROVE u.sid = sid /\ u.id \in 1..issued
    BY <2>1, <2>2, <2>4, <2>5 DEF Same, StoreInv, CopyInv, new
  <2>7. Bounded(versions')
    <3>1. PICK b \in Nat : \A v \in versions : v.no <= b
      BY <2>2 DEF StoreInv, Bounded
    <3> DEFINE m == IF b > top + 1 THEN b ELSE top + 1
    <3>2. m \in Nat /\ m >= b /\ m >= top + 1
      BY <2>1 DEF top
    <3>3. \A u \in versions' : u.no <= m
      <4> SUFFICES ASSUME NEW u \in versions' PROVE u.no <= m
        OBVIOUS
      <4>1. u.no <= b \/ u.no = top + 1 \/ u.no <= top
        BY <2>1, <3>1 DEF Same, top, new
      <4>2. u.no \in Nat
        BY TypeStep, <1>4 DEF TypeOK, Version, Next, Write
      <4> HIDE DEF m
      <4> QED
        BY <2>1, <3>2, <4>1, <4>2 DEF top
    <3> QED
      BY <3>2, <3>3 DEF Bounded
  <2>8. ASSUME sid \notin deleted PROVE NoGap' /\ \A u \in versions' : u.no <= top + 1
    <3>1. NoGap /\ secret.sid = sid
      BY <2>2, <2>8 DEF StoreInv, RowInv, Busy
    <3>2. \A l \in loaded[c] : \E w \in versions : w.id = l.id /\ w.no = l.no
      BY <2>2, <2>8 DEF CopyInv
    <3>3. PICK t \in versions : t.no = top
      BY <2>1, <3>2 DEF top
    <3>4. \A w \in versions : w.no \in Nat /\ w.no <= top
      <4> SUFFICES ASSUME NEW w \in versions, ~(w.no <= top) PROVE FALSE
        BY <2>2 DEF TypeOK, Version
      <4>1. top + 1 \in 1..w.no
        BY <2>1, <2>2 DEF TypeOK, Version, top
      <4>2. PICK x \in versions : x.no = top + 1
        BY <3>1, <4>1 DEF NoGap
      <4> QED
        BY <2>1, <2>5, <4>2 DEF top
    <3>5. \A u \in versions' : u = new \/ \E w \in versions : Same(u, w)
      BY <2>1, <3>2 DEF Same, new
    <3>6. \A u \in versions' : u.no <= top + 1
      BY <2>1, <3>4, <3>5 DEF Same, new, top
    <3>7. ASSUME NEW u \in versions', NEW k \in 1..u.no PROVE \E x \in versions' : x.no = k
      <4>1. CASE k = top + 1
        BY <2>1, <4>1 DEF new, top
      <4>2. CASE k # top + 1
        <5>1. k \in 1..top
          <6>1. u.no \in Nat /\ u.no <= top + 1
            BY <3>6, TypeStep, <1>4 DEF TypeOK, Version, Next, Write
          <6>2. top \in Nat
            BY <2>1 DEF top
          <6> QED
            BY <3>7, <4>2, <6>1, <6>2
        <5>2. PICK w \in versions : w.no = k
          BY <3>1, <3>3, <5>1 DEF NoGap
        <5> QED
          BY <2>1, <5>2 DEF Same
      <4> QED
        BY <4>1, <4>2
    <3> QED
      BY <3>6, <3>7 DEF NoGap
  <2>9. CurrentIsNewest'
    BY <2>1, <2>3, <2>6, <2>8 DEF CurrentIsNewest, VersionsOf, new, top
  <2>10. NumbersUnique' /\ NoOrphans' /\ \A u, v \in versions' : u.id = v.id => u = v
    BY <2>1, <2>3, <2>6 DEF NumbersUnique, NoOrphans
  <2> QED
    BY <2>2, <2>3, <2>4, <2>6, <2>7, <2>8, <2>9, <2>10 DEF StoreInv, Bounded
<1>5. ASSUME NEW c \in Clients, PersistDelete(c) PROVE StoreInv'
  <2>1. row[c].sid \in 1..issued
    BY <1>5 DEF IInv, RowInv, Busy, PersistDelete, At
  <2>2. /\ versions' = {} /\ secret' = NoSecret /\ issued' = issued
        /\ deleted' = deleted \cup {row[c].sid}
    BY <1>5 DEF IInv, StoreInv, NoOrphans, PersistDelete, Cascade
  <2> QED
    BY <2>1, <2>2 DEF IInv, StoreInv, NoOrphans, NumbersUnique, CurrentIsNewest, Bounded, NoGap
<1>6. CASE Restart
  BY <1>0, <1>6, StoreFrame DEF Restart
<1>7. CASE Finished \/ UNCHANGED vars
  BY <1>0, <1>7, StoreFrame DEF Finished, vars, local
<1> QED
  BY <1>1, <1>2, <1>3, <1>4, <1>5, <1>6, <1>7 DEF Next, Write, Reader

\* Commands that are about to write stay in step with the tables.
LEMMA CopyStep ==
    ASSUME IInv, [Next]_vars, NEW d \in Clients
    PROVE  FreshInv(d)' /\ RowInv(d)' /\ CopyInv(d)'
<1> USE DEF store, ghost, At, Goto
<1>0. TypeOK /\ StoreInv /\ issued \in Nat
  BY DEF IInv, TypeOK
<1>a. \A c \in Clients : FreshInv(c) /\ RowInv(c) /\ CopyInv(c)
  BY DEF IInv
\* Nothing stored changes and no command becomes busy.
<1>b. ASSUME UNCHANGED <<secret, versions, deleted>>, issued' \in Nat, issued' >= issued,
             \A e \in Clients : pc'[e] \in Busy =>
               pc'[e] = pc[e] /\ cmd'[e] = cmd[e] /\ row'[e] = row[e] /\ loaded'[e] = loaded[e]
      PROVE  FreshInv(d)' /\ RowInv(d)' /\ CopyInv(d)'
  <2>1. 1..issued \subseteq 1..issued'
    BY <1>0, <1>b
  <2> QED
    BY <1>a, <1>b, <2>1 DEF FreshInv, RowInv, CopyInv, Busy, Bounded
<1>1. ASSUME NEW c \in Clients, PutPersist(c) PROVE FreshInv(d)' /\ RowInv(d)' /\ CopyInv(d)'
  <2> DEFINE n == issued + 1
  <2>1. /\ versions = {} /\ versions' = {FirstVersion(n)} /\ secret' = [sid |-> n, current |-> n]
        /\ secret.sid = 0
        /\ issued' = n /\ UNCHANGED <<deleted, row, loaded>>
    BY <1>1, EmptyWithoutSecret DEF PutPersist, Receive, NoSecret
  <2>2. /\ pc'[c] = "audit" /\ \A e \in Clients \ {c} : pc'[e] = pc[e] /\ cmd'[e] = cmd[e]
    BY <1>0, <1>1 DEF PutPersist, Receive, TypeOK
  <2>3. 1..issued \subseteq 1..n /\ n \notin 1..issued /\ 0 \notin 1..issued
    BY <1>0
  <2>4. FirstVersion(n).id = n
    BY DEF FirstVersion
  <2>5. pc'[d] \in Busy => d # c /\ pc[d] = pc'[d] /\ row[d].sid \in deleted
    BY <1>a, <2>1, <2>2, <2>3 DEF RowInv, Busy
  <2> HIDE DEF n
  <2> QED
    BY <1>a, <2>1, <2>2, <2>3, <2>4, <2>5 DEF FreshInv, RowInv, CopyInv, Busy, Bounded
<1>2. ASSUME NEW c \in Clients, PutRefused(c) \/ NotFound(c) \/ ReadRow(c)
      PROVE  FreshInv(d)' /\ RowInv(d)' /\ CopyInv(d)'
  BY <1>0, <1>b, <1>2 DEF PutRefused, NotFound, ReadRow, Receive, TypeOK, Busy
<1>3. ASSUME NEW c \in Clients, LoadRow(c) PROVE FreshInv(d)' /\ RowInv(d)' /\ CopyInv(d)'
  <2>1. /\ pc'[c] = "load_versions" /\ cmd'[c] = issued + 1 /\ issued' = issued + 1
        /\ row'[c] = secret /\ UNCHANGED <<secret, versions, deleted, loaded>>
        /\ \A e \in Clients \ {c} : pc'[e] = pc[e] /\ cmd'[e] = cmd[e] /\ row'[e] = row[e]
    BY <1>0, <1>3 DEF LoadRow, Receive, TypeOK
  <2>2. secret.sid \in 1..issued
    BY <1>0, <1>3 DEF LoadRow, StoreInv
  <2>3. 1..issued \subseteq 1..(issued + 1) /\ issued + 1 \notin 1..issued /\ issued + 1 \in 1..(issued + 1)
    BY <1>0
  <2>4. \A v \in versions : v.id # issued + 1
    BY <1>0, <2>3 DEF StoreInv
  <2>5. \A e \in Clients : pc[e] = "persist" => \A v \in loaded[e] : v.id # issued + 1
    BY <1>a, <2>3 DEF CopyInv
  <2>6. \A e \in Clients : pc[e] \in Busy => cmd[e] # issued + 1
    BY <1>a, <2>3 DEF FreshInv
  <2>7. FreshInv(d)'
    BY <1>a, <2>1, <2>3, <2>4, <2>5, <2>6 DEF FreshInv, Busy
  <2>8. RowInv(d)' /\ CopyInv(d)'
    BY <1>a, <2>1, <2>2, <2>3 DEF RowInv, CopyInv, Busy, Bounded
  <2> QED
    BY <2>7, <2>8
<1>4. ASSUME NEW c \in Clients, LoadVersions(c) PROVE FreshInv(d)' /\ RowInv(d)' /\ CopyInv(d)'
  <2>1. /\ pc[c] = "load_versions" /\ pc'[c] = "persist" /\ loaded'[c] = VersionsOf(row[c].sid)
        /\ UNCHANGED <<secret, versions, deleted, issued, cmd, row>>
        /\ \A e \in Clients \ {c} : pc'[e] = pc[e] /\ loaded'[e] = loaded[e]
    BY <1>0, <1>4 DEF LoadVersions, TypeOK
  <2>2. loaded'[c] \subseteq versions /\ \A v \in loaded'[c] : v.sid = row[c].sid
    BY <2>1 DEF VersionsOf
  <2>3. FreshInv(d)' /\ RowInv(d)'
    BY <1>a, <2>1, <2>2 DEF FreshInv, RowInv, Busy
  <2>4. Bounded(loaded'[c])
    BY <1>0, <2>2 DEF StoreInv, Bounded
  <2>5. CopyInv(c)'
    BY <1>0, <2>1, <2>2, <2>4 DEF CopyInv, StoreInv, NumbersUnique, Bounded
  <2>6. CASE d # c
    BY <1>a, <2>1, <2>3, <2>6 DEF CopyInv, Bounded
  <2> QED
    BY <2>3, <2>5, <2>6
<1>5. ASSUME NEW c \in Clients, PersistVersions(c) PROVE FreshInv(d)' /\ RowInv(d)' /\ CopyInv(d)'
  <2>1. /\ \A w \in versions : \E u \in versions' : Same(u, w)
        /\ \A u \in versions' : \/ \E w \in versions : u.id = w.id
                                \/ u.id = cmd[c]
                                \/ \E l \in loaded[c] : u.id = l.id
    BY <1>5, PersistFacts DEF Same
  <2>2. /\ pc[c] = "persist" /\ pc'[c] = "audit"
        /\ \A e \in Clients \ {c} : pc'[e] = pc[e]
        /\ UNCHANGED <<cmd, row, loaded, issued, deleted>>
        /\ secret'.sid = row[c].sid /\ (secret # NoSecret => secret.sid = row[c].sid)
    BY <1>0, <1>5 DEF PersistVersions, UpsertRow, HandleTaken, TypeOK
  <2>3. pc'[d] \in Busy => d # c /\ pc[d] = pc'[d]
    BY <2>2 DEF Busy
  <2>4. FreshInv(d)'
    BY <1>a, <2>1, <2>2, <2>3 DEF FreshInv, Busy
  <2>5. RowInv(d)'
    <3>1. 0 \notin 1..issued
      BY <1>0
    <3> QED
      BY <1>a, <2>2, <2>3, <3>1 DEF RowInv, NoSecret
  <2>6. CopyInv(d)'
    BY <1>a, <2>1, <2>2, <2>3 DEF CopyInv, Bounded, Same, Busy
  <2> QED
    BY <2>4, <2>5, <2>6
<1>6. ASSUME NEW c \in Clients, PersistDelete(c) PROVE FreshInv(d)' /\ RowInv(d)' /\ CopyInv(d)'
  <2>1. /\ pc[c] = "persist" /\ pc'[c] = "audit"
        /\ \A e \in Clients \ {c} : pc'[e] = pc[e]
        /\ UNCHANGED <<cmd, row, loaded, issued>>
        /\ versions' \subseteq versions /\ deleted' = deleted \cup {row[c].sid} /\ secret.sid = row[c].sid
    BY <1>0, <1>6 DEF PersistDelete, Cascade, TypeOK
  <2>2. pc'[d] \in Busy => d # c /\ pc[d] = pc'[d] /\ row[d].sid \in deleted'
    BY <1>a, <2>1 DEF RowInv, Busy
  <2> QED
    BY <1>a, <2>1, <2>2 DEF FreshInv, RowInv, CopyInv, Busy, Bounded
<1>7. ASSUME NEW c \in Clients,
             PersistFails(c) \/ AuditOk(c) \/ AuditFails(c) \/ ReadVersions(c) \/ Cancel(c)
      PROVE  FreshInv(d)' /\ RowInv(d)' /\ CopyInv(d)'
  BY <1>0, <1>b, <1>7 DEF PersistFails, AuditOk, AuditFails, ReadVersions, Cancel, TypeOK, Busy
<1>8. CASE Restart
  BY <1>0, <1>b, <1>8 DEF Restart, Busy
<1>9. CASE Finished \/ UNCHANGED vars
  BY <1>0, <1>b, <1>9 DEF Finished, vars, local
<1> QED
  BY <1>1, <1>2, <1>3, <1>4, <1>5, <1>6, <1>7, <1>8, <1>9 DEF Next, Write, Reader

\* What was acknowledged, or is about to be, stays.
LEMMA AckStep == ASSUME IInv, [Next]_vars PROVE AckInv'
<1> USE DEF store, ghost, At, Goto
<1>0. TypeOK /\ AckInv /\ StoreInv
  BY DEF IInv
<1>a. ASSUME \A i, s \in Nat : Kept(i, s) => Kept(i, s)',  acked' = acked,
             \A e \in Clients : pc'[e] = "audit" =>
               pc[e] = "audit" /\ op'[e] = op[e] /\ cmd'[e] = cmd[e] /\ row'[e] = row[e]
      PROVE  AckInv'
  BY <1>0, <1>a DEF AckInv, TypeOK
<1>b. ASSUME UNCHANGED <<versions, deleted>> PROVE \A i, s \in Nat : Kept(i, s) => Kept(i, s)'
  BY <1>b DEF Kept
<1>1. ASSUME NEW c \in Clients, PutPersist(c) PROVE AckInv'
  <2> DEFINE n == issued + 1
  <2>1. /\ versions \subseteq versions' /\ FirstVersion(n) \in versions' /\ UNCHANGED <<deleted, acked, row>>
        /\ pc'[c] = "audit" /\ op'[c] = "Put" /\ cmd'[c] = n
        /\ \A e \in Clients \ {c} : pc'[e] = pc[e] /\ op'[e] = op[e] /\ cmd'[e] = cmd[e]
    BY <1>0, <1>1 DEF PutPersist, Receive, TypeOK
  <2>2. FirstVersion(n).id = n /\ FirstVersion(n).sid = n
    BY DEF FirstVersion
  <2> HIDE DEF n
  <2> QED
    BY <1>0, <2>1, <2>2 DEF AckInv, Kept
<1>2. ASSUME NEW c \in Clients, PutRefused(c) \/ NotFound(c) \/ ReadRow(c) \/ LoadRow(c) PROVE AckInv'
  BY <1>0, <1>a, <1>b, <1>2 DEF PutRefused, NotFound, ReadRow, LoadRow, Receive, TypeOK
<1>3. ASSUME NEW c \in Clients,
             LoadVersions(c) \/ PersistFails(c) \/ AuditFails(c) \/ ReadVersions(c) \/ Cancel(c)
      PROVE  AckInv'
  BY <1>0, <1>a, <1>b, <1>3 DEF LoadVersions, PersistFails, AuditFails, ReadVersions, Cancel, TypeOK
<1>4. ASSUME NEW c \in Clients, PersistVersions(c) PROVE AckInv'
  <2>1. /\ \A w \in versions : \E u \in versions' : Same(u, w)
        /\ \E u \in versions' : u.id = cmd[c] /\ u.sid = row[c].sid
    BY <1>4, PersistFacts
  <2>2. /\ UNCHANGED <<deleted, acked, row, cmd, op>> /\ op[c] \in {"Rotate", "Rollback"}
        /\ \A e \in Clients \ {c} : pc'[e] = pc[e]
    BY <1>0, <1>4 DEF PersistVersions, TypeOK
  <2>3. \A i, s \in Nat : Kept(i, s) => Kept(i, s)'
    BY <2>1, <2>2 DEF Kept, Same
  <2>4. \A a \in acked' : Kept(a.id, a.sid)'
    <3>1. \A a \in acked : a.id \in Nat /\ a.sid \in Nat
      BY <1>0 DEF TypeOK
    <3> QED
      BY <1>0, <2>2, <2>3, <3>1 DEF AckInv
  <2>5. Kept(cmd[c], row[c].sid)'
    BY <2>1, <2>2 DEF Kept
  <2>6. ASSUME NEW e \in Clients \ {c}, pc'[e] = "audit"
        PROVE  /\ op'[e] # "Read"
               /\ op'[e] = "Put" => Kept(cmd[e], cmd[e])'
               /\ op'[e] \in {"Rotate", "Rollback"} => Kept(cmd[e], row[e].sid)'
    <3>1. cmd[e] \in Nat /\ row[e].sid \in Nat
      BY <1>0 DEF TypeOK
    <3>2. /\ op[e] # "Read"
          /\ op[e] = "Put" => Kept(cmd[e], cmd[e])
          /\ op[e] \in {"Rotate", "Rollback"} => Kept(cmd[e], row[e].sid)
      BY <1>0, <2>2, <2>6 DEF AckInv
    <3> QED
      BY <2>2, <2>3, <3>1, <3>2
  <2> QED
    BY <2>2, <2>4, <2>5, <2>6 DEF AckInv
<1>5. ASSUME NEW c \in Clients, PersistDelete(c) PROVE AckInv'
  <2>1. /\ UNCHANGED <<acked, row, cmd, op>> /\ op[c] = "Delete"
        /\ \A e \in Clients \ {c} : pc'[e] = pc[e]
        /\ versions' = {v \in versions : v.sid # row[c].sid} /\ deleted' = deleted \cup {row[c].sid}
    BY <1>0, <1>5 DEF PersistDelete, Cascade, TypeOK
  <2>2. \A i, s \in Nat : Kept(i, s) => Kept(i, s)'
    BY <2>1 DEF Kept
  <2> QED
    BY <1>0, <2>1, <2>2 DEF AckInv, TypeOK
<1>6. ASSUME NEW c \in Clients, AuditOk(c) PROVE AckInv'
  <2>1. /\ pc[c] = "audit" /\ pc'[c] = "idle" /\ UNCHANGED <<versions, deleted, row, cmd, op>>
        /\ \A e \in Clients \ {c} : pc'[e] = pc[e]
    BY <1>0, <1>6 DEF AuditOk, TypeOK
  <2>2. op[c] \in {"Put", "Rotate", "Rollback", "Delete"}
    BY <1>0, <2>1 DEF AckInv, TypeOK, Commands
  <2>3. ASSUME NEW a \in acked' PROVE Kept(a.id, a.sid)
    BY <1>0, <1>6, <2>1, <2>2 DEF AuditOk, AckInv
  <2> QED
    BY <1>0, <2>1, <2>3 DEF AckInv, Kept
<1>7. CASE Restart
  BY <1>a, <1>b, <1>7 DEF Restart
<1>8. CASE Finished \/ UNCHANGED vars
  BY <1>a, <1>b, <1>8 DEF Finished, vars, local
<1> QED
  BY <1>1, <1>2, <1>3, <1>4, <1>5, <1>6, <1>7, <1>8 DEF Next, Write, Reader

LEMMA SlotStep == ASSUME IInv, [Next]_vars PROVE SlotInv'
<1> USE DEF SlotInv, At, Goto
<1>0. TypeOK /\ SlotInv
  BY DEF IInv
<1>1. ASSUME NEW c \in Clients, PersistVersions(c) PROVE SlotInv'
  <2>1. PICK value \in NewValues(c) : TRUE
    BY <1>1 DEF PersistVersions
  <2>2. value \in Nat
    BY <1>0, <2>1 DEF NewValues, Version, TypeOK
  <2>3. MaxNo(loaded[c]) \in Nat
    BY <1>0, <1>1, <2>2, RotatedFacts DEF PersistVersions, IInv
  <2> QED
    BY <1>0, <1>1, <2>3 DEF PersistVersions, TypeOK
<1>2. ASSUME NEW c \in Clients, LoadVersions(c) PROVE SlotInv'
  BY <1>0, <1>2 DEF LoadVersions, TypeOK
<1>3. ASSUME NEW c \in Clients, PutPersist(c) \/ PutRefused(c) \/ LoadRow(c) \/ NotFound(c) \/ ReadRow(c)
      PROVE SlotInv'
  BY <1>0, <1>3 DEF PutPersist, PutRefused, LoadRow, NotFound, ReadRow, Receive, TypeOK
<1>4. ASSUME NEW c \in Clients,
             \/ PersistDelete(c) \/ PersistFails(c) \/ AuditOk(c) \/ AuditFails(c)
             \/ ReadVersions(c) \/ Cancel(c)
      PROVE SlotInv'
  BY <1>0, <1>4 DEF PersistDelete, PersistFails, AuditOk, AuditFails, ReadVersions, Cancel, TypeOK
<1>5. CASE Restart \/ Finished \/ UNCHANGED vars
  BY <1>0, <1>5 DEF Restart, Finished, vars, local
<1> QED
  BY <1>1, <1>2, <1>3, <1>4, <1>5 DEF Next, Write, Reader

LEMMA IInvHolds == Spec => []IInv
<1>1. IInv /\ [Next]_vars => IInv'
  BY TypeStep, StoreStep, AckStep, SlotStep, CopyStep DEF IInv
<1> QED
  BY InitIInv, <1>1, PTL DEF Spec

-----------------------------------------------------------------------------
\* sqlite/secrets.rs, secret.rs: for any number of writers that overlap, fail,
\* hang up or crash, no version row is orphaned, no number of a secret is used
\* twice, and current_version_id names its newest version, which is active.
THEOREM StoreStaysConsistent == Spec => []StoreConsistent
<1>1. IInv => StoreConsistent
  BY DEF IInv, StoreInv, StoreConsistent
<1> QED
  BY <1>1, IInvHolds, PTL

\* rotate_secret.rs, rollback_secret.rs, put_secret.rs: a version whose command
\* returned Ok stays until its secret is deleted or retention may drop it,
\* whatever stale copies are written back later.
THEOREM AckedIsKept == Spec => []AckedKept
<1>1. IInv => AckedKept
  BY DEF IInv, AckInv, Kept, AckedKept
<1> QED
  BY <1>1, IInvHolds, PTL

-----------------------------------------------------------------------------
\* Readers.

\* The current version is stored and active (also in a secret that a late writer
\* brought back), and a reader between its two queries has noted every value that
\* was current since the first one.
ReadInv ==
    /\ secret # NoSecret => \E v \in versions : v.id = secret.current /\ v.active
    /\ \A c \in Clients : pc[c] = "read_versions" =>
         answer[c] = 0 /\ CurrentValues \subseteq live[c]

LEMMA ReadFrame ==
    ASSUME ReadInv, UNCHANGED <<secret, versions, live>>,
           \A c \in Clients : pc'[c] = "read_versions" =>
             pc[c] = "read_versions" /\ answer'[c] = answer[c]
    PROVE  ReadInv'
BY DEF ReadInv, CurrentValues

\* A write: every reader in flight takes note.
LEMMA ReadWrite ==
    ASSUME TypeOK, ReadInv, Witness, UNCHANGED answer,
           secret' # NoSecret => \E v \in versions' : v.id = secret'.current /\ v.active,
           \A c \in Clients : pc'[c] = "read_versions" => pc[c] = "read_versions"
    PROVE  ReadInv'
<1>1. \A c \in Clients : pc'[c] = "read_versions" => CurrentValues' \subseteq live'[c]
  BY DEF Witness, CurrentValues
<1> QED
  BY <1>1 DEF ReadInv

LEMMA ReadStep == ASSUME IInv, ReadInv, [Next]_vars PROVE ReadInv'
<1> USE DEF store, ghost, At, Goto
<1>0. TypeOK
  BY DEF IInv
<1>1. ASSUME NEW c \in Clients, PutPersist(c) PROVE ReadInv'
  <2> DEFINE v == FirstVersion(issued + 1)
  <2>1. v.id = issued + 1 /\ v.active
    BY DEF FirstVersion
  <2>2. v \in versions' /\ secret'.current = issued + 1 /\ Witness /\ UNCHANGED answer
    BY <1>1 DEF PutPersist
  <2>3. \A d \in Clients : pc'[d] = "read_versions" => pc[d] = "read_versions"
    BY <1>0, <1>1 DEF PutPersist, TypeOK
  <2> HIDE DEF v
  <2> QED
    BY <1>0, <2>1, <2>2, <2>3, ReadWrite
<1>2. ASSUME NEW c \in Clients,
             PutRefused(c) \/ LoadRow(c) \/ NotFound(c) \/ LoadVersions(c) \/ PersistFails(c)
             \/ AuditOk(c) \/ AuditFails(c) \/ Cancel(c)
      PROVE  ReadInv'
  BY <1>0, <1>2, ReadFrame DEF PutRefused, LoadRow, NotFound, LoadVersions, PersistFails,
     AuditOk, AuditFails, Cancel, TypeOK
<1>3. ASSUME NEW c \in Clients, PersistVersions(c) PROVE ReadInv'
  <2>1. \E v \in versions' : v.id = cmd[c] /\ v.active
    BY <1>3, PersistFacts
  <2>2. secret'.current = cmd[c] /\ Witness /\ UNCHANGED answer
    BY <1>3 DEF PersistVersions, UpsertRow
  <2>3. \A d \in Clients : pc'[d] = "read_versions" => pc[d] = "read_versions"
    BY <1>0, <1>3 DEF PersistVersions, TypeOK
  <2> QED
    BY <1>0, <2>1, <2>2, <2>3, ReadWrite
<1>4. ASSUME NEW c \in Clients, PersistDelete(c) PROVE ReadInv'
  <2>1. secret' = NoSecret /\ Witness /\ UNCHANGED answer
    BY <1>4 DEF PersistDelete
  <2>2. \A d \in Clients : pc'[d] = "read_versions" => pc[d] = "read_versions"
    BY <1>0, <1>4 DEF PersistDelete, TypeOK
  <2> QED
    BY <1>0, <2>1, <2>2, ReadWrite
<1>5. ASSUME NEW c \in Clients, ReadRow(c) PROVE ReadInv'
  <2>1. /\ UNCHANGED <<secret, versions>>
        /\ live'[c] = CurrentValues /\ answer'[c] = 0
        /\ \A d \in Clients \ {c} : /\ pc'[d] = pc[d] /\ live'[d] = live[d]
                                    /\ answer'[d] = answer[d]
    BY <1>0, <1>5 DEF ReadRow, TypeOK
  <2>2. CurrentValues' = CurrentValues
    BY <2>1 DEF CurrentValues
  <2> QED
    BY <2>1, <2>2 DEF ReadInv
<1>6. ASSUME NEW c \in Clients, ReadVersions(c) PROVE ReadInv'
  <2>1. /\ UNCHANGED <<secret, versions, live>> /\ pc'[c] = "idle"
        /\ \A d \in Clients \ {c} : pc'[d] = pc[d] /\ answer'[d] = answer[d]
    BY <1>0, <1>6 DEF ReadVersions, TypeOK
  <2> QED
    BY <2>1, ReadFrame
<1>7. CASE Restart
  BY <1>7, ReadFrame DEF Restart
<1>8. CASE Finished \/ UNCHANGED vars
  BY <1>8, ReadFrame DEF Finished, vars, local
<1> QED
  BY <1>1, <1>2, <1>3, <1>4, <1>5, <1>6, <1>7, <1>8 DEF Next, Write, Reader

\* secrets.rs get_secret_by_handle and versions().find(is_active): two queries
\* that tear around any writes return a value that was current during the read,
\* or none, as long as one version is active.
THEOREM ReadersGetCurrent == Spec => ReadsCurrent
<1>1. Init => ReadInv
  BY DEF Init, ReadInv
<1>2. IInv /\ ReadInv /\ [Next]_vars => ReadInv'
  BY ReadStep
<1>3. ASSUME IInv, ReadInv, [Next]_vars, NEW c \in Clients,
             At(c, "read_versions"), answer'[c] # 0, OneActive
      PROVE  answer'[c] \in live[c]
  <2>0. TypeOK /\ StoreInv
    BY <1>3 DEF IInv
  <2>1. answer[c] = 0 /\ CurrentValues \subseteq live[c] /\ pc[c] = "read_versions"
    BY <1>3 DEF ReadInv, At
  <2>2. CASE ReadVersions(c)
    <3> DEFINE found == FirstActive(VersionsOf(row[c].sid))
               v == CHOOSE x \in found : TRUE
    <3>1. answer'[c] = IF found = {} THEN 0 ELSE v.value
      BY <2>0, <2>2 DEF ReadVersions, TypeOK
    <3>2. found # {} /\ v \in found /\ answer'[c] = v.value
      BY <1>3, <3>1
    <3>3. v \in versions /\ v.active
      BY <3>2 DEF FirstActive, VersionsOf
    <3>4. secret # NoSecret
      BY <1>3, <3>3, EmptyWithoutSecret
    <3>5. PICK w \in versions : w.id = secret.current /\ w.active
      BY <1>3, <3>4 DEF ReadInv
    <3>6. w.sid = v.sid
      BY <2>0, <3>3, <3>5 DEF StoreInv, NoOrphans
    <3> HIDE DEF v, found
    <3>7. v = w
      BY <1>3, <3>3, <3>5, <3>6 DEF OneActive
    <3> QED
      BY <2>1, <3>2, <3>5, <3>7 DEF CurrentValues
  <2>3. CASE ~ReadVersions(c)
    <3>1. answer'[c] = answer[c]
      BY <1>3, <2>0, <2>1, <2>3 DEF Next, Write, Reader, PutPersist, PutRefused, LoadRow, NotFound,
             LoadVersions,
         PersistVersions, PersistDelete, PersistFails, AuditOk, AuditFails, ReadRow, ReadVersions,
         Cancel, Restart, Finished, vars, ghost, Receive, At, TypeOK
    <3> QED
      BY <1>3, <2>1, <3>1
  <2> QED
    BY <2>2, <2>3
<1>4. IInv /\ ReadInv /\ [Next]_vars =>
        [\A c \in Clients : At(c, "read_versions") /\ answer'[c] # 0 /\ OneActive
           => answer'[c] \in live[c]]_vars
  BY <1>3
<1> QED
  BY <1>1, <1>2, <1>4, IInvHolds, PTL DEF Spec, ReadsCurrent

-----------------------------------------------------------------------------
\* History: stale copies.

\* The numbers in use have gaps only below the Retain highest (rows that were
\* pruned from the copy of a writer that brought a deleted secret back).
Dense(vs) == \A v \in vs : \A k \in 1..v.no :
    (\E w \in vs : w.no = k) \/ (\E w \in vs : w.no >= k + Retain)

\* A row unknown to the copy of c has a number the copy would write from v on.
Blocked(c, v) == \E x \in versions :
    /\ v.no <= x.no /\ x.no <= MaxNo(loaded[c]) + 1
    /\ \A u \in loaded[c] : u.id # x.id

\* Copies and the table agree on what a version is, and a copy that is behind the
\* table on whether v is active can no longer be written.
HistInv ==
    /\ Dense(versions)
    /\ \A c \in Clients : pc[c] = "persist" =>
         /\ Dense(loaded[c])
         /\ \A v \in loaded[c], w \in versions : v.id = w.id =>
              Same(v, w) /\ (v.active = w.active \/ Blocked(c, v))
         /\ \A d \in Clients : pc[d] = "persist" =>
              \A v \in loaded[c], w \in loaded[d] : v.id = w.id => Same(v, w)

Above(vs, n) == {w \in vs : w.no > n}

\* How many rows lie above a number, counted by the numbers themselves.
LEMMA CountAbove ==
    ASSUME NEW vs, vs \subseteq Version, \A v, w \in vs : v.no = w.no => v = w,
           NEW m \in vs, \A v \in vs : v.no <= m.no, NEW n \in Nat
    PROVE  /\ IsFiniteSet(Above(vs, n)) /\ Cardinality(Above(vs, n)) \in Nat
           /\ n <= m.no => Cardinality(Above(vs, n)) <= m.no - n
           /\ \A a \in Nat : n <= a /\ a <= m.no /\ (\A j \in (a + 1)..m.no : \E w \in vs : w.no = j)
                => Cardinality(Above(vs, n)) >= m.no - a
<1> DEFINE above == Above(vs, n)
           ran == (n + 1)..m.no
           f == [w \in above |-> w.no]
<1>1. \A w \in vs : w.no \in Nat
  BY DEF Version
<1>2. m.no \in Nat
  BY <1>1
<1>3. /\ IsFiniteSet(ran)
      /\ n <= m.no => Cardinality(ran) = m.no - n
  <2>1. n + 1 \in Int /\ m.no \in Int
    BY <1>2
  <2>2. IsFiniteSet(ran) /\ Cardinality(ran) = IF n + 1 > m.no THEN 0 ELSE m.no - (n + 1) + 1
    BY <2>1, FS_Interval
  <2> HIDE DEF ran
  <2> QED
    BY <1>2, <2>2
<1>4. \A w \in above : w.no \in ran
  BY <1>1, <1>2 DEF Above
<1>5. f \in Injection(above, ran)
  <2>1. f \in [above -> ran] /\ \A v, w \in above : f[v] = f[w] => v = w
    BY <1>4 DEF Above
  <2> HIDE DEF f, above, ran
  <2> QED
    BY <2>1, Fun_IsInj
<1>6. IsFiniteSet(above) /\ Cardinality(above) <= Cardinality(ran)
  BY <1>3, <1>5, FS_Injection
<1>7. Cardinality(above) \in Nat
  BY <1>6, FS_CardinalityType
<1>8. ASSUME NEW a \in Nat, n <= a, a <= m.no, \A j \in (a + 1)..m.no : \E w \in vs : w.no = j
      PROVE  Cardinality(above) >= m.no - a
  <2> DEFINE top == (a + 1)..m.no
             g == [j \in top |-> CHOOSE w \in vs : w.no = j]
  <2>1. IsFiniteSet(top) /\ Cardinality(top) = m.no - a
    <3>1. a + 1 \in Int /\ m.no \in Int
      BY <1>2
    <3>2. IsFiniteSet(top) /\ Cardinality(top) = IF a + 1 > m.no THEN 0 ELSE m.no - (a + 1) + 1
      BY <3>1, FS_Interval
    <3> HIDE DEF top
    <3> QED
      BY <1>2, <1>8, <3>2
  <2>2. \A j \in top : g[j] \in vs /\ g[j].no = j
    BY <1>8
  <2>3. \A j \in top : j > n
    BY <1>2, <1>8
  <2> HIDE DEF g, top
  <2>4. g \in [top -> above]
    BY <2>2, <2>3 DEF g, Above
  <2>5. g \in Injection(top, above)
    <3>1. \A i, j \in top : g[i] = g[j] => i = j
      BY <2>2
    <3> HIDE DEF above
    <3> QED
      BY <2>4, <3>1, Fun_IsInj
  <2>6. Cardinality(top) <= Cardinality(above)
    BY <1>6, <2>5, FS_Injection
  <2> QED
    BY <1>2, <1>7, <2>1, <2>6
<1> HIDE DEF above, ran
<1> QED
  BY <1>2, <1>3, <1>6, <1>7, <1>8 DEF above

\* RetentionPolicy::apply on a dense copy leaves an unbroken run of numbers up to
\* the highest, and what it leaves is dense.
LEMMA PruneRun ==
    ASSUME NEW vs, vs \subseteq Version, \A v, w \in vs : v.no = w.no => v = w, Dense(vs),
           NEW m \in vs, \A v \in vs : v.no <= m.no
    PROVE  /\ m \in Prune(vs)
           /\ \A v \in Prune(vs) : \A k \in v.no..m.no : \E y \in Prune(vs) : y.no = k
           /\ Dense(Prune(vs))
<1>0. Retain \in Nat \ {0}
  BY SecretStoreAssumption
<1>1. \A w \in vs : w.no \in Nat \ {0}
  BY DEF Version
<1>2. \A y \in vs : y \in Prune(vs) <=> Cardinality(Above(vs, y.no)) < Retain
  BY DEF Prune, Above
<1>3. Prune(vs) \subseteq vs
  BY DEF Prune
<1>4. ASSUME NEW n \in Nat
      PROVE  /\ IsFiniteSet(Above(vs, n)) /\ Cardinality(Above(vs, n)) \in Nat
             /\ n <= m.no => Cardinality(Above(vs, n)) <= m.no - n
             /\ \A a \in Nat : n <= a /\ a <= m.no /\ (\A j \in (a + 1)..m.no : \E w \in vs : w.no = j)
                  => Cardinality(Above(vs, n)) >= m.no - a
  BY CountAbove
<1>5. m \in Prune(vs)
  <2>1. m.no \in Nat
    BY <1>1
  <2>2. Cardinality(Above(vs, m.no)) <= 0 /\ Cardinality(Above(vs, m.no)) \in Nat
    BY <1>4, <2>1
  <2> QED
    BY <1>0, <1>2, <2>2
<1>6. ASSUME NEW v \in Prune(vs), NEW k \in v.no..m.no PROVE \E y \in Prune(vs) : y.no = k
  <2>1. v \in vs /\ v.no \in Nat \ {0} /\ m.no \in Nat \ {0} /\ k \in Nat \ {0} /\ v.no <= k /\ k <= m.no
    BY <1>1, <1>3
  <2>2. PICK y \in vs : y.no = k
    <3> SUFFICES ASSUME ~\E y \in vs : y.no = k PROVE FALSE
      OBVIOUS
    <3>1. k \in 1..m.no
      BY <2>1
    <3>2. PICK w \in vs : w.no >= k + Retain
      BY <3>1 DEF Dense
    <3>3. m.no >= k + Retain
      BY <1>0, <1>1, <2>1, <3>2
    <3> DEFINE a == m.no - Retain
    <3>4. a \in Nat /\ v.no <= a /\ a <= m.no /\ a + Retain = m.no
      BY <1>0, <2>1, <3>3
    <3>5. ASSUME NEW j \in (a + 1)..m.no PROVE \E x \in vs : x.no = j
      <4>1. j \in 1..m.no
        BY <3>4, <2>1
      <4>2. \A x \in vs : ~(x.no >= j + Retain)
        BY <1>0, <1>1, <2>1, <3>4
      <4> QED
        BY <4>1, <4>2 DEF Dense
    <3>6. Cardinality(Above(vs, v.no)) >= m.no - a
      BY <1>4, <2>1, <3>4, <3>5
    <3>7. Cardinality(Above(vs, v.no)) < Retain /\ Cardinality(Above(vs, v.no)) \in Nat
      BY <1>2, <1>4, <2>1
    <3> QED
      BY <1>0, <2>1, <3>6, <3>7
  <2>3. Above(vs, y.no) \subseteq Above(vs, v.no)
    BY <1>1, <2>1, <2>2 DEF Above
  <2>4. Cardinality(Above(vs, y.no)) <= Cardinality(Above(vs, v.no))
    BY <1>4, <2>1, <2>3, FS_Subset
  <2>5. Cardinality(Above(vs, y.no)) \in Nat /\ Cardinality(Above(vs, v.no)) \in Nat
        /\ Cardinality(Above(vs, v.no)) < Retain
    BY <1>2, <1>4, <2>1, <2>2
  <2>6. y \in Prune(vs)
    <3> QED
      BY <1>0, <1>2, <2>4, <2>5
  <2> QED
    BY <2>2, <2>6
<1>7. ASSUME NEW v \in Prune(vs), NEW k \in 1..v.no
      PROVE  (\E w \in Prune(vs) : w.no = k) \/ (\E w \in Prune(vs) : w.no >= k + Retain)
  <2>1. v \in vs /\ v.no \in Nat \ {0} /\ m.no \in Nat \ {0} /\ k \in Nat \ {0} /\ k <= m.no
    BY <1>1, <1>3
  <2>2. CASE \E w \in vs : w.no >= k + Retain
    BY <1>0, <1>1, <1>5, <2>1, <2>2
  <2>3. CASE \E w \in vs : w.no = k
    <3>1. PICK y \in vs : y.no = k
      BY <2>3
    <3>2. CASE y \notin Prune(vs)
      <4>1. Cardinality(Above(vs, k)) >= Retain /\ Cardinality(Above(vs, k)) <= m.no - k
            /\ Cardinality(Above(vs, k)) \in Nat
        BY <1>0, <1>2, <1>4, <2>1, <3>1, <3>2
      <4>2. m.no >= k + Retain
        <5> QED
          BY <1>0, <2>1, <4>1
      <4> QED
        BY <1>5, <4>2
    <3> QED
      BY <3>1, <3>2
  <2> QED
    BY <2>1, <2>2, <2>3 DEF Dense
<1> QED
  BY <1>5, <1>6, <1>7 DEF Dense

\* What a rotation or a rollback of c is about to write: an unbroken run of
\* numbers up to the new version's, in which no row of the copy is re-activated.
Written(c, vs, new) ==
    /\ vs \subseteq Version /\ new \in vs
    /\ new.id = cmd[c] /\ new.no = MaxNo(loaded[c]) + 1
    /\ MaxNo(loaded[c]) \in Nat \ {0}
    /\ \A v \in vs : v.sid = row[c].sid
    /\ \A v \in vs : v = new \/ \E l \in loaded[c] : Same(v, l) /\ (v.active => l.active)
    /\ \A v, w \in vs : v.id = w.id \/ v.no = w.no => v = w
    /\ \A v \in vs : \A k \in v.no..new.no : \E y \in vs : y.no = k
    /\ Dense(vs)

LEMMA RotatedRun ==
    ASSUME IInv, NEW c \in Clients, pc[c] = "persist", HasCurrent(c), Dense(loaded[c]),
           NEW value \in Nat
    PROVE  Written(c, Rotated(c, value), New(c, value))
<1> DEFINE new == New(c, value)
           dep == Deprecate(loaded[c], row[c].current)
           all == dep \cup {new}
           top == MaxNo(loaded[c])
<1>1. TypeOK /\ FreshInv(c) /\ CopyInv(c)
  BY DEF IInv
<1>2. /\ Rotated(c, value) \subseteq Version /\ new \in Rotated(c, value)
      /\ \A v, w \in Rotated(c, value) : v.id = w.id \/ v.no = w.no => v = w
      /\ \A l \in loaded[c] : l.no <= top
      /\ \E l \in loaded[c] : l.no = top
      /\ top \in Nat \ {0}
  BY <1>1, RotatedFacts
<1>3. loaded[c] \subseteq Version
  BY <1>1 DEF TypeOK
<1>4. ASSUME NEW v \in dep
      PROVE  v \in Version /\ \E l \in loaded[c] : Same(v, l) /\ (v.active => l.active)
  <2>1. PICK l \in loaded[c] : v = IF l.id = row[c].current THEN [l EXCEPT !.active = FALSE] ELSE l
    BY DEF Deprecate
  <2>2. l \in Version
    BY <1>3
  <2>3. v \in Version /\ Same(v, l)
    BY <2>1, <2>2 DEF Version, Same
  <2>4. CASE l.id = row[c].current
    <3>1. v.active = FALSE
      BY <2>1, <2>2, <2>4 DEF Version
    <3> QED
      BY <2>3, <3>1
  <2> QED
    BY <2>1, <2>3, <2>4
<1>5. new \in Version /\ new.id = cmd[c] /\ new.no = top + 1 /\ new.sid = row[c].sid
  BY <1>2 DEF New
<1>6. ASSUME NEW l \in loaded[c] PROVE \E v \in dep : v.no = l.no
  <2> DEFINE v == IF l.id = row[c].current THEN [l EXCEPT !.active = FALSE] ELSE l
  <2>1. v \in dep
    BY DEF Deprecate
  <2>2. v.no = l.no
    BY <1>3 DEF Version
  <2> QED
    BY <2>1, <2>2
<1>7. ASSUME NEW v \in dep, NEW w \in dep, v.no = w.no PROVE v = w
  <2>1. PICK k \in loaded[c] : v = IF k.id = row[c].current THEN [k EXCEPT !.active = FALSE] ELSE k
    BY DEF Deprecate
  <2>2. PICK l \in loaded[c] : w = IF l.id = row[c].current THEN [l EXCEPT !.active = FALSE] ELSE l
    BY DEF Deprecate
  <2>3. k.no = l.no
    BY <1>3, <1>7, <2>1, <2>2 DEF Version
  <2> QED
    BY <1>1, <2>1, <2>2, <2>3 DEF CopyInv
<1>8. Rotated(c, value) = Prune(all)
  BY DEF Rotated, New
<1> HIDE DEF new, dep, top
<1>9. \A v \in dep : v.no <= top /\ v.no \in Nat \ {0}
  BY <1>2, <1>4 DEF Same, Version
<1>10. all \subseteq Version /\ \A v, w \in all : v.no = w.no => v = w
  BY <1>2, <1>4, <1>5, <1>7, <1>9
<1>11. new \in all /\ \A v \in all : v.no <= new.no
  BY <1>2, <1>5, <1>9
<1>12. Dense(all)
  <2> SUFFICES ASSUME NEW v \in all, NEW k \in 1..v.no, ~\E w \in all : w.no = k
               PROVE  \E w \in all : w.no >= k + Retain
    BY DEF Dense
  <2>1. k # top + 1 /\ k \in Nat \ {0}
    BY <1>5, <1>2
  <2>2. k \in 1..top
    BY <1>2, <1>5, <1>9, <2>1
  <2>3. PICK m \in loaded[c] : m.no = top
    BY <1>2
  <2>4. k \in 1..m.no
    BY <2>2, <2>3
  <2>5. (\E w \in loaded[c] : w.no = k) \/ (\E w \in loaded[c] : w.no >= k + Retain)
    BY <2>3, <2>4 DEF Dense
  <2>6. \E w \in loaded[c] : w.no >= k + Retain
    BY <1>6, <2>5
  <2> QED
    BY <1>6, <2>6
<1>13. /\ \A v \in Prune(all) : \A k \in v.no..new.no : \E y \in Prune(all) : y.no = k
       /\ Dense(Prune(all))
  BY <1>10, <1>11, <1>12, PruneRun
<1>14. ASSUME NEW v \in Prune(all)
       PROVE  v = new \/ \E l \in loaded[c] : Same(v, l) /\ (v.active => l.active)
  BY <1>4 DEF Prune
<1>15. ASSUME NEW v \in Prune(all) PROVE v.sid = row[c].sid
  BY <1>1, <1>5, <1>14 DEF Same, CopyInv
<1> QED
  BY <1>2, <1>5, <1>8, <1>13, <1>14, <1>15 DEF Written, new, top

LEMMA PersistWritten ==
    ASSUME IInv, HistInv, NEW c \in Clients, PersistVersions(c)
    PROVE  \E vs : \E new \in vs :
             Written(c, vs, new) /\ versions' = Upsert(vs) /\ ~SlotTaken(vs)
<1>1. PICK value \in NewValues(c) :
        /\ ~SlotTaken(Rotated(c, value))
        /\ versions' = Upsert(Rotated(c, value))
  BY DEF PersistVersions
<1>2. TypeOK /\ HasCurrent(c) /\ pc[c] = "persist"
  BY DEF IInv, PersistVersions, At
<1>3. value \in Nat
  BY <1>1, <1>2 DEF NewValues, Version, TypeOK
<1>4. Dense(loaded[c])
  BY <1>2 DEF HistInv
<1>5. Written(c, Rotated(c, value), New(c, value))
  BY <1>2, <1>3, <1>4, RotatedRun
<1>6. New(c, value) \in Rotated(c, value)
  BY <1>5 DEF Written
<1> QED
  BY <1>1, <1>5, <1>6

\* The store takes no note of a step that leaves versions and the copies in use.
LEMMA HistFrame ==
    ASSUME HistInv, UNCHANGED versions,
           \A c \in Clients : pc'[c] = "persist" => pc[c] = "persist" /\ loaded'[c] = loaded[c]
    PROVE  HistInv'
<1>1. ASSUME NEW c \in Clients, pc'[c] = "persist", NEW v, Blocked(c, v) PROVE Blocked(c, v)'
  BY <1>1 DEF Blocked
<1>2. Dense(versions)'
  BY DEF HistInv, Dense
<1>3. ASSUME NEW c \in Clients, pc'[c] = "persist"
      PROVE  /\ Dense(loaded[c])'
             /\ \A v \in loaded'[c], w \in versions' : v.id = w.id =>
                  Same(v, w) /\ (v.active = w.active \/ Blocked(c, v)')
             /\ \A d \in Clients : pc'[d] = "persist" =>
                  \A v \in loaded'[c], w \in loaded'[d] : v.id = w.id => Same(v, w)
  <2>1. pc[c] = "persist" /\ loaded'[c] = loaded[c]
    BY <1>3
  <2>2. Dense(loaded[c])'
    BY <2>1 DEF HistInv, Dense
  <2> QED
    BY <1>1, <1>3, <2>1, <2>2 DEF HistInv
<1> QED
  BY <1>2, <1>3 DEF HistInv

\* A rotation or rollback of c goes through.
LEMMA HistPersist ==
    ASSUME IInv, HistInv, NEW c \in Clients, PersistVersions(c)
    PROVE  HistInv'
<1>0. /\ TypeOK /\ StoreInv /\ FreshInv(c)
      /\ \A d \in Clients : CopyInv(d)
  BY DEF IInv
<1>1. /\ pc[c] = "persist" /\ pc'[c] = "audit"
      /\ \A e \in Clients \ {c} : pc'[e] = pc[e]
      /\ UNCHANGED <<cmd, row, loaded>>
  BY <1>0 DEF PersistVersions, At, Goto, TypeOK
<1>2. PICK vs : \E new \in vs : Written(c, vs, new) /\ versions' = Upsert(vs) /\ ~SlotTaken(vs)
  BY PersistWritten
<1>3. PICK new \in vs : Written(c, vs, new) /\ versions' = Upsert(vs) /\ ~SlotTaken(vs)
  BY <1>2
<1>4. /\ vs \subseteq Version /\ new \in vs
      /\ new.id = cmd[c] /\ new.no = MaxNo(loaded[c]) + 1 /\ MaxNo(loaded[c]) \in Nat \ {0}
      /\ \A v \in vs : v = new \/ \E l \in loaded[c] : Same(v, l)
      /\ \A v, w \in vs : v.id = w.id \/ v.no = w.no => v = w
      /\ \A v \in vs : \A k \in v.no..new.no : \E y \in vs : y.no = k
      /\ Dense(vs)
  BY <1>3 DEF Written
<1>5. versions \subseteq Version
  BY <1>0 DEF TypeOK
<1>6. /\ \A w \in versions : \E u \in versions' : Same(u, w)
      /\ \A u \in versions' :
           \/ \E w \in versions : Same(u, w)
           \/ u \in vs /\ \A w \in versions : u.id # w.id
      /\ \A v \in vs : (\A w \in versions : v.id # w.id) => v \in versions'
  BY <1>3, <1>4, <1>5, UpsertFacts
<1>7. \A w \in versions : w.id # cmd[c]
  BY <1>0, <1>1 DEF FreshInv, Busy
<1>8. \A v \in loaded[c], w \in versions : v.id = w.id => Same(v, w)
  BY <1>1 DEF HistInv
\* Every row of vs is in the table afterwards.
<1>9. ASSUME NEW y \in vs PROVE \E u \in versions' : Same(y, u)
  <2>1. CASE \A w \in versions : y.id # w.id
    BY <1>6, <2>1 DEF Same
  <2>2. CASE \E w \in versions : y.id = w.id
    <3>1. PICK w \in versions : y.id = w.id
      BY <2>2
    <3>2. PICK l \in loaded[c] : Same(y, l)
      BY <1>4, <1>7, <3>1
    <3>3. Same(l, w)
      BY <1>8, <3>1, <3>2 DEF Same
    <3> QED
      BY <1>6, <3>2, <3>3 DEF Same
  <2> QED
    BY <2>1, <2>2
<1>10. Dense(versions)'
  <2> SUFFICES ASSUME NEW v \in versions', NEW k \in 1..v.no
               PROVE  (\E w \in versions' : w.no = k) \/ (\E w \in versions' : w.no >= k + Retain)
    BY DEF Dense
  <2>1. CASE \E w \in versions : Same(v, w)
    <3>1. PICK w \in versions : v.no = w.no
      BY <2>1 DEF Same
    <3>2. (\E x \in versions : x.no = k) \/ (\E x \in versions : x.no >= k + Retain)
      BY <3>1 DEF HistInv, Dense
    <3> QED
      BY <1>6, <3>2 DEF Same
  <2>2. CASE v \in vs
    <3>1. (\E x \in vs : x.no = k) \/ (\E x \in vs : x.no >= k + Retain)
      BY <1>4, <2>2 DEF Dense
    <3> QED
      BY <1>9, <3>1 DEF Same
  <2> QED
    BY <1>6, <2>1, <2>2
<1>11. ASSUME NEW d \in Clients, pc'[d] = "persist" PROVE d # c /\ pc[d] = "persist"
  BY <1>1, <1>11
<1>12. ASSUME NEW d \in Clients, pc'[d] = "persist", NEW v \in loaded[d], NEW u \in versions', v.id = u.id
       PROVE  Same(v, u) /\ (v.active = u.active \/ Blocked(d, v)')
  <2>1. d # c /\ pc[d] = "persist"
    BY <1>11, <1>12
  <2>2. \A q \in loaded[d] : q.id # cmd[c]
    BY <1>0, <1>1, <2>1 DEF FreshInv, Busy
  <2>3. \A l \in loaded[c], q \in loaded[d] : l.id = q.id => Same(l, q)
    BY <1>1, <2>1 DEF HistInv
  <2>4. \A w \in versions : v.id = w.id => Same(v, w) /\ (v.active = w.active \/ Blocked(d, v))
    BY <2>1 DEF HistInv
  <2>5. Same(v, u)
    <3>1. CASE \E w \in versions : Same(u, w)
      BY <1>12, <2>4, <3>1 DEF Same
    <3>2. CASE u \in vs
      BY <1>4, <1>12, <2>2, <2>3, <3>2 DEF Same
    <3> QED
      BY <1>6, <3>1, <3>2
  <2>6. ASSUME Blocked(d, v) PROVE Blocked(d, v)'
    <3>1. PICK x \in versions : /\ v.no <= x.no /\ x.no <= MaxNo(loaded[d]) + 1
                                /\ \A q \in loaded[d] : q.id # x.id
      BY <2>6 DEF Blocked
    <3>2. PICK z \in versions' : z.no = x.no /\ z.id = x.id
      BY <1>6 DEF Same
    <3> QED
      BY <1>1, <3>1, <3>2 DEF Blocked
  <2>7. CASE u \in versions
    BY <1>12, <2>4, <2>5, <2>6, <2>7
  <2>8. CASE u \notin versions
    <3>1. PICK y \in vs : y.id = u.id
      BY <1>3, <1>5, <2>8 DEF Upsert, Version
    <3>2. y.no = v.no
      BY <1>4, <1>12, <2>2, <2>3, <3>1 DEF Same
    <3> DEFINE top == MaxNo(loaded[d])
    <3>3. loaded[d] \subseteq Version /\ Bounded(loaded[d])
      BY <1>0, <2>1 DEF TypeOK, CopyInv
    <3>4. top \in Nat \ {0} /\ \A q \in loaded[d] : q.no <= top
      BY <3>3, MaxNoIsMax
    <3> HIDE DEF top
    <3>5. v.no \in Nat /\ v.no <= top /\ y.no <= new.no /\ new.no \in Nat
      <4>1. v.no \in Nat /\ v.no <= top /\ new.no \in Nat
        BY <1>4, <3>3, <3>4 DEF Version
      <4>2. y.no <= new.no
        <5>1. CASE y = new
          BY <4>1, <5>1
        <5>2. CASE \E l \in loaded[c] : Same(y, l)
          <6>1. loaded[c] \subseteq Version /\ loaded[c] # {} /\ Bounded(loaded[c])
            BY <1>0, <1>1, <5>2 DEF TypeOK, CopyInv
          <6>2. \A l \in loaded[c] : l.no <= MaxNo(loaded[c])
            BY <6>1, MaxNoIsMax
          <6>3. y.no <= MaxNo(loaded[c]) /\ y.no \in Nat
            BY <5>2, <6>1, <6>2 DEF Same, Version
          <6> QED
            BY <1>4, <6>3
        <5> QED
          BY <1>4, <5>1, <5>2
      <4> QED
        BY <4>1, <4>2
    <3>6. PICK z \in vs : v.no <= z.no /\ z.no <= top + 1 /\ (z = new \/ z.no = top + 1)
      <4>1. CASE new.no <= top + 1
        BY <1>4, <3>2, <3>5, <4>1
      <4>2. CASE top + 1 < new.no
        <5>1. top + 1 \in y.no..new.no
          BY <3>2, <3>4, <3>5, <4>2
        <5>2. PICK z \in vs : z.no = top + 1
          BY <1>4, <5>1
        <5> QED
          BY <3>4, <3>5, <5>2
      <4> QED
        BY <3>4, <3>5, <4>1, <4>2
    <3>7. ASSUME NEW q \in loaded[d] PROVE q.id # z.id
      <4>1. CASE z = new
        BY <1>4, <2>2, <4>1
      <4>2. CASE z # new
        <5>1. PICK l \in loaded[c] : Same(z, l)
          BY <1>4, <4>2
        <5>2. q.no <= top /\ z.no = top + 1
          BY <3>4, <3>6, <4>2
        <5>3. q.no # z.no
          BY <3>4, <3>3, <5>2 DEF Version
        <5> QED
          BY <2>3, <5>1, <5>3 DEF Same
      <4> QED
        BY <4>1, <4>2
    <3>8. PICK x \in versions' : Same(z, x)
      BY <1>9
    <3>9. v.no <= x.no /\ x.no <= top + 1 /\ \A q \in loaded[d] : q.id # x.id
      BY <3>6, <3>7, <3>8 DEF Same
    <3>10. Blocked(d, v)'
      BY <1>1, <3>9 DEF Blocked, top
    <3> QED
      BY <2>5, <3>10
  <2> QED
    BY <2>7, <2>8
<1>13. ASSUME NEW d \in Clients, pc'[d] = "persist"
       PROVE  /\ Dense(loaded[d])'
              /\ \A v \in loaded'[d], u \in versions' : v.id = u.id =>
                   Same(v, u) /\ (v.active = u.active \/ Blocked(d, v)')
              /\ \A e \in Clients : pc'[e] = "persist" =>
                   \A v \in loaded'[d], w \in loaded'[e] : v.id = w.id => Same(v, w)
  <2>1. Dense(loaded[d])'
    BY <1>1, <1>11, <1>13 DEF HistInv, Dense
  <2>2. \A v \in loaded'[d], u \in versions' : v.id = u.id =>
          Same(v, u) /\ (v.active = u.active \/ Blocked(d, v)')
    BY <1>1, <1>12, <1>13
  <2> QED
    BY <1>1, <1>11, <1>13, <2>1, <2>2 DEF HistInv
<1> QED
  BY <1>10, <1>13 DEF HistInv

\* HistInv is inductive.
LEMMA HistStep == ASSUME IInv, HistInv, [Next]_vars PROVE HistInv'
<1> USE DEF store, ghost, At, Goto
<1>0. TypeOK /\ StoreInv
  BY DEF IInv
<1>a. \A d \in Clients : CopyInv(d)
  BY DEF IInv
<1>1. ASSUME NEW c \in Clients, PutPersist(c) PROVE HistInv'
  <2> DEFINE n == issued + 1
             x == FirstVersion(n)
  <2>1. versions = {}
    BY <1>1, EmptyWithoutSecret DEF PutPersist
  <2>2. x.id = n /\ x.no = 1
    BY DEF FirstVersion
  <2>3. /\ versions' = {x} /\ UNCHANGED loaded
        /\ \A d \in Clients : pc'[d] = "persist" => pc[d] = "persist"
    BY <1>0, <1>1, <2>1 DEF PutPersist, TypeOK
  <2>4. \A d \in Clients : pc[d] = "persist" => \A v \in loaded[d] : v.id # n
    <3>1. n \notin 1..issued
      BY <1>0 DEF TypeOK
    <3> QED
      BY <1>a, <3>1 DEF CopyInv
  <2> HIDE DEF n, x
  <2>5. Dense(versions)'
    BY <2>2, <2>3 DEF Dense
  <2>6. \A d \in Clients : pc'[d] = "persist" => Dense(loaded[d])'
    BY <2>3 DEF HistInv, Dense
  <2> QED
    BY <2>2, <2>3, <2>4, <2>5, <2>6 DEF HistInv
<1>2. ASSUME NEW c \in Clients,
             PutRefused(c) \/ LoadRow(c) \/ NotFound(c) \/ PersistFails(c) \/ AuditOk(c)
             \/ AuditFails(c) \/ ReadRow(c) \/ ReadVersions(c) \/ Cancel(c)
      PROVE  HistInv'
  <2>1. UNCHANGED versions
    BY <1>2 DEF PutRefused, LoadRow, NotFound, PersistFails, AuditOk, AuditFails, ReadRow,
           ReadVersions, Cancel
  <2>2. UNCHANGED loaded
    BY <1>2 DEF PutRefused, LoadRow, NotFound, PersistFails, AuditOk, AuditFails, ReadRow,
           ReadVersions, Cancel
  <2>3. \A d \in Clients : pc'[d] = "persist" => pc[d] = "persist"
    BY <1>0, <1>2 DEF PutRefused, LoadRow, NotFound, PersistFails, AuditOk, AuditFails, ReadRow,
           ReadVersions, Cancel, TypeOK
  <2> QED
    BY <2>1, <2>2, <2>3, HistFrame
<1>3. ASSUME NEW c \in Clients, LoadVersions(c) PROVE HistInv'
  <2>1. /\ pc[c] = "load_versions" /\ UNCHANGED versions
        /\ loaded'[c] = VersionsOf(row[c].sid)
        /\ \A d \in Clients \ {c} : pc'[d] = pc[d] /\ loaded'[d] = loaded[d]
    BY <1>0, <1>3 DEF LoadVersions, TypeOK
  <2>2. loaded'[c] = versions \/ loaded'[c] = {}
    BY <1>0, <2>1 DEF VersionsOf, StoreInv, NoOrphans
  <2>3. Dense(versions)' /\ Dense(loaded[c])'
    BY <2>1, <2>2 DEF HistInv, Dense
  <2>4. \A v, w \in versions : v.id = w.id => v = w
    BY <1>0 DEF StoreInv
  <2>5. \A v : Same(v, v)
    BY DEF Same
  <2>6. ASSUME NEW d \in Clients \ {c}, pc'[d] = "persist"
        PROVE  /\ Dense(loaded[d])'
               /\ \A v \in loaded'[d], w \in versions' : v.id = w.id =>
                    Same(v, w) /\ (v.active = w.active \/ Blocked(d, v)')
    <3>1. pc[d] = "persist" /\ loaded'[d] = loaded[d]
      BY <2>1, <2>6
    <3>2. \A v : Blocked(d, v) => Blocked(d, v)'
      BY <2>1, <3>1 DEF Blocked
    <3> QED
      BY <2>1, <3>1, <3>2 DEF HistInv, Dense
  <2>7. ASSUME NEW d \in Clients, pc'[d] = "persist", NEW e \in Clients, pc'[e] = "persist",
               NEW v \in loaded'[d], NEW w \in loaded'[e], v.id = w.id
        PROVE  Same(v, w)
    <3>1. CASE d = c /\ e = c
      BY <2>2, <2>4, <2>5, <2>7, <3>1
    <3>2. CASE d # c /\ e = c
      BY <2>1, <2>2, <2>7, <3>2 DEF HistInv
    <3>3. CASE d = c /\ e # c
      BY <2>1, <2>2, <2>7, <3>3 DEF HistInv, Same
    <3>4. CASE d # c /\ e # c
      BY <2>1, <2>7, <3>4 DEF HistInv
    <3> QED
      BY <3>1, <3>2, <3>3, <3>4
  <2>8. \A v \in loaded'[c], w \in versions' : v.id = w.id => Same(v, w) /\ v.active = w.active
    BY <2>1, <2>2, <2>4, <2>5
  <2> QED
    BY <2>3, <2>6, <2>7, <2>8 DEF HistInv
<1>4. ASSUME NEW c \in Clients, PersistVersions(c) PROVE HistInv'
  BY <1>4, HistPersist
<1>5. ASSUME NEW c \in Clients, PersistDelete(c) PROVE HistInv'
  <2>1. /\ versions' = {} /\ UNCHANGED loaded
        /\ \A d \in Clients : pc'[d] = "persist" => pc[d] = "persist"
    BY <1>0, <1>5 DEF PersistDelete, Cascade, TypeOK, StoreInv, NoOrphans
  <2>2. \A d \in Clients : pc'[d] = "persist" => Dense(loaded[d])'
    BY <2>1 DEF HistInv, Dense
  <2> QED
    BY <2>1, <2>2 DEF HistInv, Dense
<1>6. CASE Restart
  BY <1>6, HistFrame DEF Restart
<1>7. CASE Finished \/ UNCHANGED vars
  BY <1>7, HistFrame DEF Finished, vars, local
<1> QED
  BY <1>1, <1>2, <1>3, <1>4, <1>5, <1>6, <1>7 DEF Next, Write, Reader

\* What becomes of a stored row x.
HistAct == \A x \in versions, w \in versions' :
    w.id = x.id => w \in {x, [x EXCEPT !.active = FALSE]}

LEMMA HistPersistAct ==
    ASSUME IInv, HistInv, NEW c \in Clients, PersistVersions(c) PROVE HistAct
<1> SUFFICES ASSUME NEW x \in versions, NEW w \in versions', w.id = x.id
             PROVE  w \in {x, [x EXCEPT !.active = FALSE]}
  BY DEF HistAct
<1>0. TypeOK /\ StoreInv /\ FreshInv(c) /\ CopyInv(c)
  BY DEF IInv
<1>1. pc[c] = "persist" /\ ~HandleTaken(row[c].sid)
  BY DEF PersistVersions, At
<1>2. PICK vs : \E new \in vs : Written(c, vs, new) /\ versions' = Upsert(vs) /\ ~SlotTaken(vs)
  BY PersistWritten
<1>3. PICK new \in vs : Written(c, vs, new) /\ versions' = Upsert(vs) /\ ~SlotTaken(vs)
  BY <1>2
<1>4. \A q \in versions : q.id = x.id => q = x
  BY <1>0 DEF StoreInv
<1>5. versions \subseteq Version
  BY <1>0 DEF TypeOK
<1>6. CASE w \in versions
  BY <1>4, <1>6
<1>7. CASE w \notin versions
  <2>1. PICK y \in vs : y.id = x.id /\ w = [x EXCEPT !.active = y.active]
    <3>1. PICK q \in versions, y \in vs : y.id = q.id /\ w = [q EXCEPT !.active = y.active]
      BY <1>3, <1>7 DEF Upsert
    <3>2. w.id = q.id
      BY <1>5, <3>1 DEF Version
    <3> QED
      BY <1>4, <3>1, <3>2
  <2>2. y.active \in BOOLEAN /\ x \in Version
    BY <1>3, <1>5 DEF Written, Version
  <2>3. CASE y.active
    <3>1. \A q \in versions : q.id # cmd[c]
      BY <1>0, <1>1 DEF FreshInv, Busy
    <3>2. PICK l \in loaded[c] : Same(y, l) /\ (y.active => l.active)
      BY <1>3, <2>1, <3>1 DEF Written
    <3>3. ~Blocked(c, l)
      <4> SUFFICES ASSUME Blocked(c, l) PROVE FALSE
        OBVIOUS
      <4>1. PICK z \in versions : /\ l.no <= z.no /\ z.no <= MaxNo(loaded[c]) + 1
                                  /\ \A u \in loaded[c] : u.id # z.id
        BY DEF Blocked
      <4>2. z.no \in y.no..new.no
        BY <1>3, <1>5, <3>2, <4>1 DEF Written, Same, Version
      <4>3. PICK t \in vs : t.no = z.no
        BY <1>3, <4>2 DEF Written
      <4>4. t.id # z.id
        BY <1>3, <3>1, <4>1 DEF Written, Same
      <4>5. secret # NoSecret
        BY <4>1, EmptyWithoutSecret
      <4>6. z.sid = t.sid
        BY <1>0, <1>1, <1>3, <4>5 DEF Written, HandleTaken, StoreInv, NoOrphans
      <4> QED
        BY <1>3, <4>3, <4>4, <4>6 DEF SlotTaken
    <3>4. l.active = x.active
      BY <1>1, <2>1, <3>2, <3>3 DEF HistInv, Same
    <3>5. x.active = TRUE /\ y.active = TRUE
      BY <2>2, <2>3, <3>2, <3>4 DEF Version
    <3>6. w = x
      BY <2>1, <2>2, <3>5 DEF Version
    <3> QED
      BY <3>6
  <2>4. CASE ~y.active
    <3>1. y.active = FALSE
      BY <2>2, <2>4
    <3> QED
      BY <2>1, <3>1
  <2> QED
    BY <2>3, <2>4
<1> QED
  BY <1>6, <1>7

\* sqlite/secrets.rs put_secret, secret_version.rs invariant 3: for any number of
\* overlapping writers a stored version only ever changes by being deprecated; a
\* writer with an older copy neither overwrites nor re-activates it, because a
\* copy that is behind would have to write a number that is taken.
THEOREM HistoryIsKept == Spec => HistoryKept
<1>1. Init => HistInv
  BY DEF Init, HistInv, Dense
<1>2. IInv /\ HistInv /\ [Next]_vars => HistInv'
  BY HistStep
<1>3. ASSUME IInv, HistInv, [Next]_vars PROVE [HistAct]_versions
  <2>0. TypeOK /\ StoreInv
    BY <1>3 DEF IInv
  <2>1. ASSUME NEW c \in Clients, PutPersist(c) PROVE HistAct
    <3>1. versions = {}
      BY <1>3, <2>1, EmptyWithoutSecret DEF PutPersist
    <3> QED
      BY <3>1 DEF HistAct
  <2>2. ASSUME NEW c \in Clients, PersistVersions(c) PROVE HistAct
    BY <1>3, <2>2, HistPersistAct
  <2>3. ASSUME NEW c \in Clients, PersistDelete(c) PROVE HistAct
    <3>1. versions' = {}
      BY <2>0, <2>3 DEF PersistDelete, Cascade, StoreInv, NoOrphans
    <3> QED
      BY <3>1 DEF HistAct
  <2>4. ASSUME NEW c \in Clients,
             PutRefused(c) \/ LoadRow(c) \/ NotFound(c) \/ LoadVersions(c) \/ PersistFails(c) \/ AuditOk(c)
             \/ AuditFails(c) \/ ReadRow(c) \/ ReadVersions(c) \/ Cancel(c)
      PROVE  UNCHANGED versions
    BY <2>4 DEF PutRefused, LoadRow, NotFound, LoadVersions, PersistFails, AuditOk, AuditFails, ReadRow,
       ReadVersions, Cancel, store
  <2>5. CASE Restart \/ Finished \/ UNCHANGED vars
    BY <2>5 DEF Restart, Finished, vars, store
  <2> QED
    BY <1>3, <2>1, <2>2, <2>3, <2>4, <2>5 DEF Next, Write, Reader
<1>4. IInv /\ HistInv /\ [Next]_vars =>
        [\A v \in versions, w \in versions' :
           w.id = v.id => w \in {v, [v EXCEPT !.active = FALSE]}]_versions
  BY <1>3 DEF HistAct
<1> QED
  BY <1>1, <1>2, <1>4, IInvHolds, PTL DEF Spec, HistoryKept
=============================================================================
