---------------------------- MODULE KeyCustody ----------------------------
(***************************************************************************)
(* Where the keys of the vault live and how they get there: the choice of  *)
(* a keystore at boot and the migration from the file keystore to the OS   *)
(* keychain, the init ceremony, unseal by keychain or by passphrase, and   *)
(* disaster recovery from a backup.  Every keychain call is one step, and  *)
(* one may fail; the agent may crash between any two.                      *)
(*                                                                         *)
(* Keys are numbers.  The n-th ceremony draws the n-th key of each kind,   *)
(* so an entry is a pair: k names the master key (or the salt) and v the   *)
(* vault root key (VRK) it carries, 0 when there is none.  AEAD and age    *)
(* are perfect: an unwrap with another key fails.                          *)
(***************************************************************************)
EXTENDS Integers, Sequences, FiniteSets, SequencesExt

CONSTANTS
    Procs,        \* concurrent requests of the companion socket
    Backend,      \* [keystore] backend: "os", "file" or "auto"
    Passphrase,   \* whether MERKLE_MASTER_PASSPHRASE is set at init
    MaxKeys,      \* bound: ceremonies that draw keys
    MaxFaults,    \* bound: calls that fail and crashes in a ceremony
    MaxBoots      \* bound: starts of the agent

ASSUME CustodyAssumption ==
    /\ Backend \in {"os", "file", "auto"}
    /\ Passphrase \in BOOLEAN
    /\ {MaxKeys, MaxFaults, MaxBoots} \subseteq Nat

VARIABLES
    os,           \* the OS keychain: account -> entry
    disk,         \* the file keystore on disk: [e: entries, ix: index order]
    mem,          \* the in-memory snapshot of the file keystore
    running,      \* "off", "boot", or the keystore in use: "os", "file"
    todo,         \* accounts the migration has still to copy
    state,        \* VaultIdentity: "sealed", "unsealing", "unsealed"
    vault,        \* the VRK the identity holds, 0 when none
    hmac,         \* AppContext.hmac_key, named by the VRK it derives from
    pc, job,      \* where each request is, and its local keys
    backups,      \* v2 backups on disk: the VRK each gives back, and of which
                  \* VRK its secrets are
    fresh,        \* keys drawn so far
    faults, boots,
    written,      \* history: VRKs some stored secret or audit entry depends on
    acked,        \* history: acked[b], the VRK the last ceremony on b reported
    undone        \* history: the keystore the last init rolled back on, or "no"

durable == <<os, disk, backups>>
identity == <<state, vault, hmac>>
bounds == <<fresh, faults, boots>>
ghosts == <<written, acked, undone>>
custodyVars == <<durable, mem, running, todo, identity, pc, job, bounds, ghosts>>

Accounts == {"master", "vrkm", "vrkr", "params", "wrap"}
Keys == 0..MaxKeys
Entry == [k : Keys, v : Keys]
None == [k |-> 0, v |-> 0]
Empty == [a \in Accounts |-> None]
NoFile == [e |-> Empty, ix |-> <<>>]
NoJob == [k |-> 0, v |-> 0, via |-> "keychain"]
Idle == [p \in Procs |-> "idle"]
Labels == {"idle", "init_vrkm", "init_vrkr", "init_undo", "init_undo2",
           "init_undo3", "init_audit", "init_params", "init_wrap", "fetch_master",
           "fetch_vrk", "rec_vrkm", "rec_vrkr", "rec_undo", "rec_undo2", "rec_undo3",
           "rec_put", "rec_open", "rec_audit"}

CustodyInit ==
    /\ os = Empty /\ disk = NoFile /\ mem = NoFile
    /\ running = "off" /\ todo = <<>>
    /\ state = "sealed" /\ vault = 0 /\ hmac = 0
    /\ pc = Idle /\ job = [p \in Procs |-> NoJob]
    /\ backups = {}
    /\ fresh = 0 /\ faults = 0 /\ boots = 0
    /\ written = {} /\ acked = [b \in {"os", "file"} |-> 0] /\ undone = "no"

-----------------------------------------------------------------------------
\* The keychain port.  A failing call is counted in `faults`.

Put(ks, a, x) == [e |-> [ks.e EXCEPT ![a] = x],
                  ix |-> IF Contains(ks.ix, a) THEN ks.ix ELSE Append(ks.ix, a)]

\* index_remove retains the others; an account is listed at most once.
Without(ks, a) == [e |-> [ks.e EXCEPT ![a] = None],
                  ix |-> RemoveAt(ks.ix, CHOOSE i \in 1..Len(ks.ix) : ks.ix[i] = a)]

\* What `retrieve` sees: the snapshot of the file keystore, or the OS.
View == IF running = "file" THEN mem.e ELSE os

Fault == faults < MaxFaults /\ faults' = faults + 1
NoFault == UNCHANGED faults

\* FileKeystoreAdapter.store and .delete: the snapshot first, then the file.
Persisted_Skipped(ks) == mem' = ks /\ UNCHANGED disk /\ NoFault

Persisted(ks) == mem' = ks /\ disk' = ks /\ NoFault

PersistFails(ks) == mem' = ks /\ UNCHANGED disk /\ Fault

StoreOk(a, x) ==
    \/ running = "file" /\ Persisted(Put(mem, a, x)) /\ UNCHANGED os
    \/ /\ running # "file"
       /\ os' = [os EXCEPT ![a] = x] /\ NoFault /\ UNCHANGED <<mem, disk>>

\* OsKeychainAdapter.store writes, indexes and reads back: an error leaves
\* the entry written or not.
StoreFails(a, x) ==
    \/ running = "file" /\ PersistFails(Put(mem, a, x)) /\ UNCHANGED os
    \/ /\ running # "file" /\ Fault
       /\ os' \in {os, [os EXCEPT ![a] = x]} /\ UNCHANGED <<mem, disk>>

\* `let _ = delete(..)`: the callers ignore the answer, NotFound included.
DeleteAny(a) ==
    IF running = "file"
    THEN /\ UNCHANGED os
         /\ IF View[a] = None THEN UNCHANGED <<mem, disk>> /\ NoFault
            ELSE Persisted(Without(mem, a)) \/ PersistFails(Without(mem, a))
    ELSE /\ UNCHANGED <<mem, disk>>
         /\ \/ os' = [os EXCEPT ![a] = None] /\ NoFault
            \/ UNCHANGED os /\ Fault

NoKeychainCall == UNCHANGED <<os, disk, mem, faults>>

-----------------------------------------------------------------------------
\* Boot: build_keychain, and the migration that runs before the socket opens.

\* The file keystore is opened: its snapshot is loaded.
OpenFile ==
    /\ running' = "file" /\ mem' = disk
    /\ UNCHANGED todo

\* maybe_migrate_file_keystore: nothing to do once the OS has the wrapped VRK.
OpenOs ==
    /\ running' = "boot" /\ mem' = NoFile
    /\ todo' = IF os["vrkm"] # None THEN <<>> ELSE disk.ix

\* "auto" asks the OS keychain with a probe entry and takes the file when
\* the probe fails for any reason.
Boot ==
    /\ running = "off" /\ boots < MaxBoots
    /\ boots' = boots + 1
    /\ \/ Backend \in {"os", "auto"} /\ OpenOs
       \/ Backend \in {"file", "auto"} /\ OpenFile
    /\ UNCHANGED <<durable, identity, pc, job, fresh, faults, ghosts>>

\* migrate_accounts copies in index order, never overwrites, and stops at
\* the first error; the boot goes on whatever happens.
Migrate ==
    /\ running = "boot"
    /\ UNCHANGED <<disk, mem, identity, pc, job, backups, fresh, boots, written, acked>>
    /\ IF todo = <<>>
       THEN running' = "os" /\ UNCHANGED <<os, todo, faults>>
       ELSE LET a == Head(todo) IN
            \/ /\ todo' = Tail(todo) /\ NoFault
               /\ os' = IF os[a] # None THEN os
                        ELSE [os EXCEPT ![a] = disk.e[a]]
               /\ UNCHANGED running
            \/ /\ os[a] = None /\ Fault
               /\ running' = "os" /\ todo' = <<>>
               /\ os' \in {os, [os EXCEPT ![a] = disk.e[a]]}
    /\ undone' = IF undone = "os" /\ os'["master"] # None THEN "no" ELSE undone

Up == running \in {"os", "file"}

\* The agent stops.  In the middle of a ceremony that is a crash, which
\* counts as a fault.
Stop ==
    /\ running # "off" /\ boots < MaxBoots
    /\ IF Up /\ pc = Idle THEN NoFault ELSE Fault
    /\ running' = "off" /\ mem' = NoFile /\ todo' = <<>>
    /\ state' = "sealed" /\ vault' = 0 /\ hmac' = 0
    /\ pc' = Idle /\ job' = [p \in Procs |-> NoJob]
    /\ UNCHANGED <<durable, fresh, boots, ghosts>>

Goto(p, l) == pc' = [pc EXCEPT ![p] = l] /\ UNCHANGED job
Return(p) == pc' = [pc EXCEPT ![p] = "idle"] /\ job' = [job EXCEPT ![p] = NoJob]
Start(p, l, j) == pc' = [pc EXCEPT ![p] = l] /\ job' = [job EXCEPT ![p] = j]
Calm == UNCHANGED <<running, todo, boots>>

-----------------------------------------------------------------------------
\* InitVaultCommand, under init_lock.

Initialising(p) == pc[p] \in {"init_vrkm", "init_vrkr", "init_undo",
    "init_undo2", "init_undo3", "init_audit", "init_params", "init_wrap"}

\* Steps 1-3: the master account must be absent; draw a master key, store it.
\* A failing store ends the ceremony with nothing undone.
InitMaster(p) ==
    /\ Up /\ pc[p] = "idle" /\ \A q \in Procs : ~ Initialising(q)
    /\ View["master"] = None /\ fresh < MaxKeys
    /\ fresh' = fresh + 1
    /\ LET n == fresh + 1
           x == [k |-> n, v |-> 0]
       IN \/ /\ StoreOk("master", x)
             /\ Start(p, "init_vrkm", [k |-> n, v |-> n, via |-> "keychain"])
          \/ StoreFails("master", x) /\ UNCHANGED <<pc, job>>
    /\ undone' = "no"
    /\ Calm /\ UNCHANGED <<identity, backups, written, acked>>

\* Steps 4-7: the wrap under the master key (the wraps are computed in memory
\* before it is stored; a failing one is undone the same way).
InitVrkMaster(p) ==
    /\ pc[p] = "init_vrkm"
    /\ LET x == [k |-> job[p].k, v |-> job[p].v]
       IN \/ StoreOk("vrkm", x) /\ Goto(p, "init_vrkr")
          \/ StoreFails("vrkm", x) /\ Goto(p, "init_undo")
    /\ Calm /\ UNCHANGED <<identity, backups, fresh, ghosts>>

InitVrkRecovery(p) ==
    /\ pc[p] = "init_vrkr"
    /\ LET x == [k |-> 0, v |-> job[p].v]
       IN \/ StoreOk("vrkr", x) /\ Goto(p, "init_audit")
          \/ StoreFails("vrkr", x) /\ Goto(p, "init_undo2")
    /\ Calm /\ UNCHANGED <<identity, backups, fresh, ghosts>>

InitUndo_Lost(p) ==
    /\ pc[p] = "init_undo"
    /\ NoKeychainCall /\ Return(p)
    /\ undone' = running
    /\ Calm /\ UNCHANGED <<identity, backups, fresh, written, acked>>

\* The rollback: the master first, then the wrap when it had been stored.
InitUndo(p) ==
    /\ pc[p] = "init_undo"
    /\ DeleteAny("master") /\ Return(p)
    /\ undone' = running
    /\ Calm /\ UNCHANGED <<identity, backups, fresh, written, acked>>

InitUndoBoth(p) ==
    /\ pc[p] = "init_undo2" /\ DeleteAny("master") /\ Goto(p, "init_undo3")
    /\ undone' = running
    /\ Calm /\ UNCHANGED <<identity, backups, fresh, written, acked>>

\* Step 8: the genesis entry.  When it cannot be written the keys stay.
InitAudit(p) ==
    /\ pc[p] = "init_audit"
    /\ \/ /\ NoKeychainCall /\ written' = written \cup {job[p].v}
          /\ IF Passphrase THEN Goto(p, "init_params") /\ UNCHANGED acked
             ELSE /\ Return(p)
                  /\ acked' = [acked EXCEPT ![running] = job[p].v]
       \/ Fault /\ Return(p) /\ UNCHANGED <<os, disk, mem, written, acked>>
    /\ Calm /\ UNCHANGED <<identity, backups, fresh, undone>>

\* enroll_passphrase_fallback, whose failure init only logs.
InitParams(p) ==
    /\ pc[p] = "init_params"
    /\ LET x == [k |-> job[p].k, v |-> 0]
       IN \/ StoreOk("params", x) /\ Goto(p, "init_wrap") /\ UNCHANGED acked
          \/ /\ StoreFails("params", x) /\ Return(p)
             /\ acked' = [acked EXCEPT ![running] = job[p].v]
    /\ Calm /\ UNCHANGED <<identity, backups, fresh, written, undone>>

\* The wrap is sealed under the salt of the same enrolment, named by v.
InitWrap(p) ==
    /\ pc[p] = "init_wrap"
    /\ LET x == [k |-> job[p].k, v |-> job[p].k]
       IN StoreOk("wrap", x) \/ StoreFails("wrap", x)
    /\ Return(p)
    /\ acked' = [acked EXCEPT ![running] = job[p].v]
    /\ Calm /\ UNCHANGED <<identity, backups, fresh, written, undone>>

-----------------------------------------------------------------------------
\* UnsealVaultCommand

\* The master key each method loads, 0 when it cannot.
MasterBy(e, via) ==
    IF via = "keychain" THEN e["master"].k
    ELSE IF e["params"] # None /\ e["wrap"].v = e["params"].k
         THEN e["wrap"].k ELSE 0

\* The VRK that master key mk opens, 0 when it opens none.
Unwrap(e, mk) == IF mk # 0 /\ e["vrkm"].k = mk THEN e["vrkm"].v ELSE 0

UnsealBegin(p, via) ==
    /\ Up /\ pc[p] = "idle" /\ state = "sealed"
    /\ state' = "unsealing"
    /\ Start(p, "fetch_master", [NoJob EXCEPT !.via = via])
    /\ NoKeychainCall /\ Calm
    /\ UNCHANGED <<vault, hmac, backups, fresh, ghosts>>

RollbackToSealed(p) ==
    /\ state' = IF state = "unsealing" THEN "sealed" ELSE state
    /\ hmac' = 0
    /\ Return(p)

UnsealMaster(p) ==
    /\ pc[p] = "fetch_master"
    /\ LET mk == MasterBy(View, job[p].via)
       IN \/ /\ mk # 0 /\ Start(p, "fetch_vrk", [job[p] EXCEPT !.k = mk])
             /\ UNCHANGED <<state, hmac>>
          \/ mk = 0 /\ RollbackToSealed(p)
    /\ NoKeychainCall /\ Calm
    /\ UNCHANGED <<vault, backups, fresh, ghosts>>

\* Unwrap, publish the HMAC key, complete the state machine, audit.
UnsealVrk(p) ==
    /\ pc[p] = "fetch_vrk"
    /\ LET v == Unwrap(View, job[p].k)
       IN \/ /\ v # 0
             /\ state' = "unsealed" /\ vault' = v /\ hmac' = v
             /\ Return(p)
             /\ written' = written \cup {v}
          \/ /\ v = 0 /\ RollbackToSealed(p) /\ UNCHANGED <<vault, written>>
    /\ NoKeychainCall /\ Calm
    /\ UNCHANGED <<backups, fresh, acked, undone>>

Seal(p) ==
    /\ Up /\ pc[p] = "idle" /\ state = "unsealed"
    /\ state' = "sealed" /\ vault' = 0 /\ hmac' = 0
    /\ NoKeychainCall /\ Calm
    /\ UNCHANGED <<pc, job, backups, fresh, ghosts>>

\* The recovery-wrapped VRK travels with the backup; without it the artifact
\* is a v1 list of secrets, which disaster recovery refuses.
TakeBackup(p) ==
    /\ Up /\ pc[p] = "idle" /\ state = "unsealed"
    /\ View["vrkr"] # None
    /\ backups' = backups \cup {[gives |-> View["vrkr"].v, of |-> vault]}
    /\ NoKeychainCall /\ Calm
    /\ UNCHANGED <<identity, pc, job, fresh, ghosts>>

-----------------------------------------------------------------------------
\* DisasterRecoverCommand: any request may run it, and it takes no lock.

\* The recovery identity is the vault's and the backup gives VRK v back (the
\* refusals before that touch no key); a new master key goes over the old.
RecoverMaster(p, v) ==
    /\ Up /\ pc[p] = "idle" /\ fresh < MaxKeys
    /\ fresh' = fresh + 1
    /\ LET x == [k |-> fresh + 1, v |-> 0]
       IN \/ /\ StoreOk("master", x)
             /\ Start(p, "rec_vrkm", [k |-> fresh + 1, v |-> v, via |-> "keychain"])
          \/ StoreFails("master", x) /\ UNCHANGED <<pc, job>>
    /\ acked' = [acked EXCEPT ![running] = 0]
    /\ undone' = "no"
    /\ Calm /\ UNCHANGED <<identity, backups, written>>

RecoverVrkMaster(p) ==
    /\ pc[p] = "rec_vrkm"
    /\ LET x == [k |-> job[p].k, v |-> job[p].v]
       IN \/ StoreOk("vrkm", x) /\ Goto(p, "rec_vrkr")
          \/ StoreFails("vrkm", x) /\ Goto(p, "rec_undo")
    /\ Calm /\ UNCHANGED <<identity, backups, fresh, ghosts>>

RecoverVrkRecovery(p) ==
    /\ pc[p] = "rec_vrkr"
    /\ LET x == [k |-> 0, v |-> job[p].v]
       IN \/ StoreOk("vrkr", x) /\ Goto(p, "rec_put")
          \/ StoreFails("vrkr", x) /\ Goto(p, "rec_undo2")
    /\ Calm /\ UNCHANGED <<identity, backups, fresh, ghosts>>

\* The rollback deletes the new master key; the one it replaced is gone.
RecoverUndo(p) ==
    /\ \/ pc[p] = "rec_undo" /\ Return(p)
       \/ pc[p] = "rec_undo2" /\ Goto(p, "rec_undo3")
    /\ DeleteAny("master")
    /\ Calm /\ UNCHANGED <<identity, backups, fresh, ghosts>>

UndoVrkMaster(p) ==
    /\ pc[p] \in {"init_undo3", "rec_undo3"} /\ DeleteAny("vrkm") /\ Return(p)
    /\ Calm /\ UNCHANGED <<identity, backups, fresh, ghosts>>

\* put_secret for every secret of the backup; the first error ends it.
RecoverPut(p) ==
    /\ pc[p] = "rec_put"
    /\ written' = written \cup {job[p].v}
    /\ \/ NoKeychainCall /\ Goto(p, "rec_open")
       \/ Fault /\ Return(p) /\ UNCHANGED <<os, disk, mem>>
    /\ Calm /\ UNCHANGED <<identity, backups, fresh, acked, undone>>

\* The HMAC key is set before the state machine is asked: a vault that is
\* Unsealing refuses.
RecoverOpen(p) ==
    /\ pc[p] = "rec_open"
    /\ hmac' = job[p].v
    /\ \/ /\ state # "unsealing" /\ Goto(p, "rec_audit")
          /\ state' = "unsealed" /\ vault' = job[p].v
       \/ state = "unsealing" /\ Return(p) /\ UNCHANGED <<state, vault>>
    /\ NoKeychainCall /\ Calm
    /\ UNCHANGED <<backups, fresh, ghosts>>

RecoverAudit(p) ==
    /\ pc[p] = "rec_audit"
    /\ Return(p)
    /\ \/ NoKeychainCall /\ acked' = [acked EXCEPT ![running] = job[p].v]
       \/ Fault /\ UNCHANGED <<os, disk, mem, acked>>
    /\ Calm /\ UNCHANGED <<identity, backups, fresh, written, undone>>

CustodyNext ==
    \/ Boot \/ Migrate \/ Stop
    \/ \E p \in Procs :
        \/ InitMaster(p) \/ InitVrkMaster(p) \/ InitVrkRecovery(p)
        \/ InitUndo(p) \/ InitUndoBoth(p) \/ InitAudit(p)
        \/ InitParams(p) \/ InitWrap(p)
        \/ \E via \in {"keychain", "passphrase"} : UnsealBegin(p, via)
        \/ UnsealMaster(p) \/ UnsealVrk(p) \/ Seal(p) \/ TakeBackup(p)
        \/ \E b \in backups : RecoverMaster(p, b.gives)
        \/ RecoverVrkMaster(p) \/ RecoverVrkRecovery(p) \/ RecoverUndo(p)
        \/ UndoVrkMaster(p) \/ RecoverPut(p) \/ RecoverOpen(p)
        \/ RecoverAudit(p)

CustodySpec == CustodyInit /\ [][CustodyNext]_custodyVars

-----------------------------------------------------------------------------
\* Properties

Store == [e : [Accounts -> Entry], ix : Seq(Accounts)]

\* Types of the keystores, the identity and the requests; an index never
\* lists an account twice, and the snapshot of the file keystore is only
\* loaded while the file keystore is in use.
CustodyTypeOK ==
    /\ os \in [Accounts -> Entry]
    /\ \A f \in {disk, mem} :
        /\ f.e \in [Accounts -> Entry]
        /\ IsInjective(f.ix)
        /\ Range(f.ix) = {a \in Accounts : f.e[a] # None}
    /\ running \in {"off", "boot", "os", "file"}
    /\ Range(todo) \subseteq Accounts
    /\ running # "file" => mem = NoFile
    /\ state \in {"sealed", "unsealing", "unsealed"}
    /\ {vault, hmac} \subseteq Keys
    /\ state = "unsealed" <=> vault # 0
    /\ pc \in [Procs -> Labels]
    /\ job \in [Procs -> [k : Keys, v : Keys, via : {"keychain", "passphrase"}]]
    /\ backups \subseteq [gives : Keys, of : Keys] /\ written \subseteq Keys \ {0}
    /\ acked \in [{"os", "file"} -> Keys]
    /\ undone \in {"no", "os", "file"}

Opens(e) == {Unwrap(e, MasterBy(e, via)) : via \in {"keychain", "passphrase"}}

\* Some copy the code can use gives VRK v back: an unseal on one of the two
\* keystores as they are on disk, or disaster recovery from a backup.
Held(v) == v \in Opens(os) \cup Opens(disk.e) \cup {b.gives : b \in backups}

\* A key that data depends on is never lost: as long as all that was stored
\* depends on one VRK, that VRK can be had again after a restart, whatever
\* call failed or crash struck in init, migration or disaster recovery.
SoleKeyHeld == \A v \in written : written = {v} => Held(v)

\* What the last ceremony that reported success announced is what the
\* keychain unseal gives after a restart on the same keystore, until disaster
\* recovery replaces it: nothing is reported before it is on disk.
AckedKeyOpens ==
    \A b \in {"os", "file"} : acked[b] # 0 =>
        LET e == IF b = "os" THEN os ELSE disk.e
        IN Unwrap(e, e["master"].k) = acked[b]

\* What is on disk of keystore b.
OnDisk(b) == IF b = "os" THEN os ELSE disk.e

\* init_vault.rs rolls back "so a retry is not permanently blocked by the step-1
\* idempotency check on a half-initialized vault": once an init that could not
\* store its wrapped keys is rolled back, the master account is free on disk,
\* also after restarts and whatever else is stored, until a migration or the
\* next ceremony fills it.  (The roll back itself must not fail; a failing
\* genesis entry and a crash are not rolled back: see NeverHalfInitialised.)
RollbackFreesInit ==
    undone # "no" /\ faults = 1 => OnDisk(undone)["master"] = None

\* The same, on well-typed keystores: the invariant of the roll back.
RollbackSafe == CustodyTypeOK /\ RollbackFreesInit

\* ADR-0021: one endpoint "eliminates partial-completion windows": between
\* ceremonies a keystore has no master key, or one that opens.
NeverHalfInitialised ==
    Up /\ pc = Idle /\ View["master"] # None => Unwrap(View, View["master"].k) # 0

\* A v2 backup gives back the VRK its secrets are under, so that disaster
\* recovery on a wiped keychain reads them (backup_payload.rs).
BackupCarriesItsKey == \A b \in backups : b.gives = b.of
=============================================================================
