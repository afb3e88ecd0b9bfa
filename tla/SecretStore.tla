---------------------------- MODULE SecretStore ----------------------------
(***************************************************************************)
(* One handle of the secret store under concurrent clients: put, rotate,   *)
(* roll back, delete and read (reveal, tempfile, proxy, sign, ...), each   *)
(* cut at its .await points.  There is no lock around a command: it loads  *)
(* the aggregate with two separate queries (the secrets row, then its      *)
(* versions), changes its private copy, and writes it back in one          *)
(* transaction; what keeps writers apart is UNIQUE(handle) and             *)
(* UNIQUE(secret_id, version_no).                                          *)
(*                                                                         *)
(* A command is numbered when it arrives and the number stands for every   *)
(* identifier it creates (secret id, version id) and for the value it      *)
(* encrypts.  Encryption, tags and metadata are left out: the value of a   *)
(* version never changes and the properties are about which one is read.   *)
(***************************************************************************)
EXTENDS Integers, FiniteSets

CONSTANTS
    Clients,      \* connections of the companion socket
    Issues,       \* Issues[c]: the commands client c sends
    Faults,       \* which faults the environment may inject
    Retain,       \* RetentionPolicy.retain_count (3 in the commands)
    MaxCommands   \* bound on the number of commands issued

Commands == {"Put", "Rotate", "Rollback", "Delete", "Read"}
FaultKinds == {"storage", "audit", "crash", "cancel"}

ASSUME SecretStoreAssumption ==
    /\ Issues \in [Clients -> SUBSET Commands]
    /\ Faults \subseteq FaultKinds
    /\ Retain \in Nat \ {0}
    /\ MaxCommands \in Nat

VARIABLES
    secret,      \* the row of table secrets with this handle
    versions,    \* table secret_versions, every secret id
    pc, op, cmd, \* where each client is, in which command, its number
    row,         \* row[c]: the secrets row client c loaded
    loaded,      \* loaded[c]: the version rows client c loaded
    issued,      \* commands issued so far
    acked,       \* versions whose write returned Ok, with secret and number
    audited,     \* numbers of the writes that have an audit entry
    applied,     \* numbers of the writes that reached the store
    deleted,     \* secret ids that were deleted
    live,        \* live[c]: values that were current since c's read began
    answer       \* answer[c]: the value c's last read returned, 0 if none

store == <<secret, versions>>
local == <<pc, op, cmd, row, loaded, issued>>
ghost == <<acked, audited, applied, deleted, live, answer>>
vars == <<store, local, ghost>>

NoSecret == [sid |-> 0, current |-> 0]
Version == [id : Nat, sid : Nat, no : Nat \ {0}, value : Nat, active : BOOLEAN]
Labels == {"idle", "load_versions", "read_versions", "persist", "audit"}

TypeOK ==
    /\ secret \in [sid : Nat, current : Nat]
    /\ versions \subseteq Version
    /\ pc \in [Clients -> Labels]
    /\ op \in [Clients -> Commands]
    /\ cmd \in [Clients -> Nat]
    /\ row \in [Clients -> [sid : Nat, current : Nat]]
    /\ loaded \in [Clients -> SUBSET Version]
    /\ issued \in Nat
    /\ acked \subseteq [id : Nat, sid : Nat, no : Nat \ {0}] /\ audited \subseteq Nat
    /\ applied \subseteq Nat /\ deleted \subseteq Nat
    /\ live \in [Clients -> SUBSET Nat]
    /\ answer \in [Clients -> Nat]

Init ==
    /\ secret = NoSecret /\ versions = {}
    /\ pc = [c \in Clients |-> "idle"]
    /\ op = [c \in Clients |-> "Read"]
    /\ cmd = [c \in Clients |-> 0]
    /\ row = [c \in Clients |-> NoSecret]
    /\ loaded = [c \in Clients |-> {}]
    /\ issued = 0
    /\ acked = {} /\ audited = {} /\ applied = {} /\ deleted = {}
    /\ live = [c \in Clients |-> {}]
    /\ answer = [c \in Clients |-> 0]

-----------------------------------------------------------------------------
\* Helpers

At(c, l) == pc[c] = l
Goto(c, l) == pc' = [pc EXCEPT ![c] = l]

\* A request arrives and its command's first step runs.
Receive(c, o) ==
    /\ At(c, "idle") /\ o \in Issues[c] /\ issued < MaxCommands
    /\ issued' = issued + 1
    /\ op' = [op EXCEPT ![c] = o]
    /\ cmd' = [cmd EXCEPT ![c] = issued + 1]

\* The value behind current_version_id.
CurrentValues == {v.value : v \in {w \in versions : w.id = secret.current}}

\* Every reader in flight notes what is current after this step.
Witness == live' = [c \in Clients |->
    IF pc[c] = "read_versions"
      THEN live[c] \cup {v.value : v \in {w \in versions' : w.id = secret'.current}}
      ELSE live[c]]

-----------------------------------------------------------------------------
\* PutSecretCommand: Secret::new with version 1; UNIQUE(handle) refuses a
\* second secret under the same handle.

FirstVersion(n) ==
    [id |-> n, sid |-> n, no |-> 1, value |-> n, active |-> TRUE]

PutPersist(c) ==
    /\ Receive(c, "Put") /\ secret = NoSecret
    /\ secret' = [sid |-> issued + 1, current |-> issued + 1]
    /\ versions' = versions \cup {FirstVersion(issued + 1)}
    /\ applied' = applied \cup {issued + 1}
    /\ Goto(c, "audit") /\ Witness
    /\ UNCHANGED <<row, loaded, acked, audited, deleted, answer>>

PutRefused(c) ==
    /\ Receive(c, "Put") /\ (secret # NoSecret \/ "storage" \in Faults)
    /\ UNCHANGED <<store, pc, row, loaded, ghost>>

-----------------------------------------------------------------------------
\* get_secret_by_handle: the row, then, in a second query, its versions.

LoadRow(c) ==
    /\ \E o \in {"Rotate", "Rollback", "Delete"} : Receive(c, o)
    /\ secret # NoSecret
    /\ row' = [row EXCEPT ![c] = secret]
    /\ Goto(c, "load_versions")
    /\ UNCHANGED <<store, loaded, ghost>>

NotFound(c) ==
    /\ \E o \in {"Rotate", "Rollback", "Delete", "Read"} : Receive(c, o)
    /\ secret = NoSecret
    /\ UNCHANGED <<store, pc, row, loaded, ghost>>

VersionsOf(sid) == {v \in versions : v.sid = sid}

LoadVersions(c) ==
    /\ At(c, "load_versions")
    /\ loaded' = [loaded EXCEPT ![c] = VersionsOf(row[c].sid)]
    /\ Goto(c, "persist")
    /\ UNCHANGED <<store, op, cmd, row, issued, ghost>>

-----------------------------------------------------------------------------
\* Secret::rotate and Secret::rollback_to on the private copy

MaxNo(vs) == IF vs = {} THEN 0
             ELSE CHOOSE n \in {v.no : v \in vs} : \A v \in vs : v.no <= n

\* Deprecate the version current_version_id names.
Deprecate(vs, id) ==
    {IF v.id = id THEN [v EXCEPT !.active = FALSE] ELSE v : v \in vs}

\* RetentionPolicy::apply keeps the Retain highest version numbers, in memory.
Prune(vs) ==
    {v \in vs : Cardinality({w \in vs : w.no > v.no}) < Retain}

Rotated(c, value) ==
    LET new == [id |-> cmd[c], sid |-> row[c].sid, no |-> MaxNo(loaded[c]) + 1,
                value |-> value, active |-> TRUE]
    IN Prune(Deprecate(loaded[c], row[c].current) \cup {new})

HasCurrent(c) == \E v \in loaded[c] : v.id = row[c].current

\* rotate encrypts a new value; rollback copies the value of a loaded version.
NewValues(c) ==
    IF op[c] = "Rotate" THEN {cmd[c]} ELSE {v.value : v \in loaded[c]}

\* storage.put_secret: upsert the row by id, upsert each version by id.  An
\* existing version row only takes the new deprecated_at; rows that are not in
\* the aggregate stay; a clash of handle or (secret_id, version_no) rolls the
\* transaction back.
SlotTaken_NoIndex(vs) == FALSE

SlotTaken(vs) == \E v \in vs, w \in versions :
    w.sid = v.sid /\ w.no = v.no /\ w.id # v.id

HandleTaken(sid) == secret # NoSecret /\ secret.sid # sid

\* Deletes the rows retention dropped, as RetentionPolicy::apply expects of the
\* port, but one too many.
Upsert_PrunesOneTooMany(vs) ==
    LET all == vs \cup {w \in versions : \A v \in vs : v.id # w.id}
    IN {v \in all : Cardinality({w \in all : w.no > v.no}) < Retain - 1}

Upsert(vs) ==
    {w \in versions : \A v \in vs : v.id # w.id}
    \cup {v \in vs : \A w \in versions : v.id # w.id}
    \cup UNION {{[w EXCEPT !.active = v.active] : v \in {u \in vs : u.id = w.id}} :
                   w \in versions}

UpsertRow(c) == [sid |-> row[c].sid, current |-> cmd[c]]

PersistVersions(c) ==
    /\ At(c, "persist") /\ op[c] \in {"Rotate", "Rollback"} /\ HasCurrent(c)
    /\ \E value \in NewValues(c) :
         LET vs == Rotated(c, value)
         IN /\ ~SlotTaken(vs) /\ ~HandleTaken(row[c].sid)
            /\ versions' = Upsert(vs)
    /\ secret' = UpsertRow(c)
    /\ applied' = applied \cup {cmd[c]}
    /\ Goto(c, "audit") /\ Witness
    /\ UNCHANGED <<op, cmd, row, loaded, issued, acked, audited, deleted, answer>>

\* storage.delete_secret: by id, versions follow by ON DELETE CASCADE.
Cascade(sid) == {v \in versions : v.sid # sid}

PersistDelete(c) ==
    /\ At(c, "persist") /\ op[c] = "Delete"
    /\ secret.sid = row[c].sid
    /\ secret' = NoSecret
    /\ versions' = Cascade(row[c].sid)
    /\ applied' = applied \cup {cmd[c]}
    /\ deleted' = deleted \cup {row[c].sid}
    /\ Goto(c, "audit") /\ Witness
    /\ UNCHANGED <<op, cmd, row, loaded, issued, acked, audited, answer>>

\* CurrentVersionNotFound, a UNIQUE clash, zero rows deleted, or I/O.
PersistFails(c) ==
    /\ At(c, "persist")
    /\ \/ "storage" \in Faults
       \/ op[c] = "Delete" /\ secret.sid # row[c].sid
       \/ op[c] # "Delete" /\ ~HasCurrent(c)
       \/ /\ op[c] # "Delete" /\ HasCurrent(c)
          /\ \E value \in NewValues(c) : SlotTaken(Rotated(c, value))
       \/ op[c] # "Delete" /\ HandleTaken(row[c].sid)
    /\ Goto(c, "idle")
    /\ UNCHANGED <<store, op, cmd, row, loaded, issued, ghost>>

-----------------------------------------------------------------------------
\* audit_commit comes after the store (its own steps are in VaultLifecycle)

AuditOk(c) ==
    /\ At(c, "audit")
    /\ audited' = audited \cup {cmd[c]}
    /\ acked' = acked \cup
         CASE op[c] = "Put" -> {[id |-> cmd[c], sid |-> cmd[c], no |-> 1]}
           [] op[c] = "Delete" -> {}
           [] OTHER -> {[id |-> cmd[c], sid |-> row[c].sid,
                         no |-> MaxNo(loaded[c]) + 1]}
    /\ Goto(c, "idle")
    /\ UNCHANGED <<store, op, cmd, row, loaded, issued, applied, deleted, live, answer>>

\* The vault was sealed meanwhile (no HMAC key) or the entry was refused.
AuditFails(c) ==
    /\ At(c, "audit") /\ "audit" \in Faults
    /\ Goto(c, "idle")
    /\ UNCHANGED <<store, op, cmd, row, loaded, issued, ghost>>

-----------------------------------------------------------------------------
\* Every reader: get_secret_by_handle, then versions().find(is_active), which
\* is the active version with the lowest number (ORDER BY version_no).

ReadRow(c) ==
    /\ Receive(c, "Read") /\ secret # NoSecret
    /\ row' = [row EXCEPT ![c] = secret]
    /\ live' = [live EXCEPT ![c] = CurrentValues]
    /\ answer' = [answer EXCEPT ![c] = 0]
    /\ Goto(c, "read_versions")
    /\ UNCHANGED <<store, loaded, acked, audited, applied, deleted>>

FirstActive_Any(vs) == {v \in vs : \A w \in vs : v.no <= w.no}

FirstActive(vs) ==
    {v \in vs : v.active /\ \A w \in vs : w.active => v.no <= w.no}

ReadVersions(c) ==
    /\ At(c, "read_versions")
    /\ LET found == FirstActive(VersionsOf(row[c].sid))
       IN answer' = [answer EXCEPT ![c] =
                        IF found = {} THEN 0 ELSE (CHOOSE v \in found : TRUE).value]
    /\ Goto(c, "idle")
    /\ UNCHANGED <<store, op, cmd, row, loaded, issued,
                   acked, audited, applied, deleted, live>>

-----------------------------------------------------------------------------
\* Faults of the environment

Restart ==
    /\ "crash" \in Faults
    /\ pc' = [c \in Clients |-> "idle"]
    /\ UNCHANGED <<store, op, cmd, row, loaded, issued, ghost>>

\* The peer hangs up: the command stops at the .await it is suspended in.
Cancel(c) ==
    /\ "cancel" \in Faults /\ ~At(c, "idle")
    /\ Goto(c, "idle")
    /\ UNCHANGED <<store, op, cmd, row, loaded, issued, ghost>>

-----------------------------------------------------------------------------
Write(c) ==
    \/ PutPersist(c) \/ PutRefused(c) \/ LoadRow(c) \/ NotFound(c)
    \/ LoadVersions(c) \/ PersistVersions(c) \/ PersistDelete(c)
    \/ PersistFails(c) \/ AuditOk(c) \/ AuditFails(c)

Reader(c) == ReadRow(c) \/ ReadVersions(c)

Finished ==
    /\ issued = MaxCommands /\ \A c \in Clients : At(c, "idle")
    /\ UNCHANGED vars

Next ==
    \/ \E c \in Clients : Write(c) \/ Reader(c) \/ Cancel(c)
    \/ Restart
    \/ Finished

Spec == Init /\ [][Next]_vars

-----------------------------------------------------------------------------
\* Properties

\* Invariant 3 of Secret, on disk: current_version_id names a version of the
\* same secret that is not deprecated, and it is the newest one, whatever
\* commands overlapped or stopped half-way.  (A secret that a late writer
\* brought back after its deletion is excepted: see DeletedStaysDeleted.)
CurrentIsNewest ==
    secret # NoSecret /\ secret.sid \notin deleted =>
        \E v \in VersionsOf(secret.sid) :
            /\ v.id = secret.current /\ v.active
            /\ \A w \in VersionsOf(secret.sid) : w.no <= v.no

\* Invariant 1 of SecretVersion: "Version numbers are monotonically increasing
\* and never reused within a Secret" - two rotations from the same copy cannot
\* both succeed.
NumbersUnique ==
    \A v, w \in versions : v.sid = w.sid /\ v.no = w.no => v = w

\* No version row outlives its secret.
NoOrphans == \A v \in versions : v.sid = secret.sid

\* The rows of the store agree with each other and with the types after any
\* overlap of writers, faults and disconnects.
StoreConsistent == TypeOK /\ CurrentIsNewest /\ NumbersUnique /\ NoOrphans

\* Invariant 3 of SecretVersion, on disk: a version cannot be mutated after
\* creation.  It may be deprecated, and is never re-activated or overwritten by
\* a writer holding an older copy.
HistoryKept ==
    [][\A v \in versions, w \in versions' :
          w.id = v.id => w \in {v, [v EXCEPT !.active = FALSE]}]_versions

\* What put, rotate and roll back acknowledged survives later writers, stale
\* copies and faults included: the version is stored until its secret is deleted
\* or retention may have dropped it, which takes Retain newer stored versions
\* (retention_policy.rs: "oldest-first").
AckedKept ==
    \A a \in acked : a.sid \notin deleted =>
        \/ \E v \in versions : v.id = a.id
        \/ Cardinality({v \in VersionsOf(a.sid) : v.no > a.no}) >= Retain

\* retention_policy.rs: the storage port persists the pruned slice "deleting the
\* dropped rows from the database atomically".
ExcessPruned == Cardinality(versions) <= Retain

\* secret.rs, invariant 4: "At most one version has `deprecated_at == None`".
OneActive ==
    \A v, w \in versions : v.sid = w.sid /\ v.active /\ w.active => v = w

\* A reader whose two queries tear around the transactions of writers gets a
\* value that was the current one at some moment of its read, or nothing: never
\* one that had been rotated out before it started.  Only a second active
\* version, which two overlapping rotations can leave, misleads it.
ReadsCurrent ==
    [][\A c \in Clients : At(c, "read_versions") /\ answer'[c] # 0 /\ OneActive
          => answer'[c] \in live[c]]_vars

\* README: delete is permanent.
DeletedStaysDeleted == secret.sid \notin deleted

\* ADR-0009: "Every operation on a Secret" is recorded: once the commands have
\* returned, every change of the store has its audit entry.
Quiet == \A c \in Clients : At(c, "idle")
ChangesAudited == Quiet => applied \subseteq audited
=============================================================================
