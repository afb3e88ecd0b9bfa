--------------------------- MODULE VaultLifecycle ---------------------------
(***************************************************************************)
(* The shared core of the agent: the sealed/unsealed lifecycle of          *)
(* VaultIdentity, the audit HMAC key beside it, the in-memory audit-chain  *)
(* head and the durable chain in SQLite, under any number of socket        *)
(* clients that unseal, seal, run an audited command or re-baseline.       *)
(*                                                                         *)
(* Every command is cut at its .await points: a label of pc is a point     *)
(* where the task may be suspended, and one action runs from one such      *)
(* point to the next.  identity, hmac_key and audit_log are three          *)
(* different tokio locks; only audit_log is ever held across an .await,    *)
(* so it alone appears as a lock (logGuard).                               *)
(*                                                                         *)
(* An audit entry's hash is abstracted to the ordinal of the command that  *)
(* wrote it: entries carry a fresh UUIDv7, so no two hashes are equal.     *)
(***************************************************************************)
EXTENDS Integers

CONSTANTS
    Clients,      \* connections of the companion socket and daemon tasks
    NoClient,     \* "nobody holds the audit_log write guard"
    Issues,       \* Issues[c]: the commands client c sends
    Faults,       \* which faults the environment may inject
    Hangups,      \* clients that may drop their connection mid-request
    MaxCommands   \* bound on the number of commands issued

Commands == {"Unseal", "Seal", "Use", "Rebaseline"}
FaultKinds == {"storage", "keychain", "crash"}

ASSUME LifecycleAssumption ==
    /\ NoClient \notin Clients
    /\ Issues \in [Clients -> SUBSET Commands]
    /\ Faults \subseteq FaultKinds
    /\ Hangups \subseteq Clients
    /\ MaxCommands \in Nat

VARIABLES
    identity,     \* VaultIdentity.state
    hmacKey,      \* AppContext.hmac_key is Some
    auditLog,     \* head of the in-memory AuditLog
    logGuard,     \* holder of the audit_log write guard
    entries,      \* table audit_entries
    pinnedHead,   \* table pinned_head (singleton)
    baseline,     \* table audit_baseline (singleton)
    pc, op, cmd,  \* where each client is, in which command, its ordinal
    snap,         \* the chain head a client copied into a local
    issued,       \* commands issued so far
    acked,        \* commands that returned Ok and promised an audit entry
    torn,         \* heads whose insert was cut by a hang-up before it committed
    deserted      \* the unseal that moved the state to Unsealing was hung up on

mem == <<identity, hmacKey, auditLog, logGuard>>
disk == <<entries, pinnedHead, baseline>>
task == <<pc, op, cmd, snap, issued, acked>>
cuts == <<torn, deserted>>
vars == <<mem, disk, task, cuts>>

Labels == {"idle", "fetch", "publish", "flip", "revert", "clear",
           "key", "append", "persist",
           "seal_key", "seal_take", "seal_read", "seal_restore", "seal_flip",
           "base_read", "base_set"}

\* A chain position.  The empty log is position -1 with the genesis hash -1,
\* so the next entry is always (seq + 1, prev = hash).
EmptyHead == [seq |-> -1, hash |-> -1]
Heads == [seq : Int, hash : Int]
Entries == [seq : Nat, prev : Int, hash : Int, op : Commands \cup {"Init"}]
HeadOf(e) == [seq |-> e.seq, hash |-> e.hash]
GenesisEntry == [seq |-> 0, prev |-> -1, hash |-> 0, op |-> "Init"]

TypeOK ==
    /\ identity \in {"Sealed", "Unsealing", "Unsealed"}
    /\ hmacKey \in BOOLEAN
    /\ auditLog \in Heads
    /\ logGuard \in Clients \cup {NoClient}
    /\ entries \subseteq Entries
    /\ pinnedHead \in Heads
    /\ baseline \in Heads
    /\ pc \in [Clients -> Labels]
    /\ op \in [Clients -> Commands]
    /\ cmd \in [Clients -> Nat]
    /\ snap \in [Clients -> Heads]
    /\ issued \in Nat
    /\ acked \subseteq Nat
    /\ torn \subseteq Heads
    /\ deserted \in BOOLEAN

\* Boot: restore_audit_chain has run.  The chain holds the genesis entry of
\* init_vault, or nothing when init's own audit write failed.
Init ==
    /\ identity = "Sealed" /\ hmacKey = FALSE /\ logGuard = NoClient
    /\ entries \in {{}, {GenesisEntry}}
    /\ pinnedHead = IF entries = {} THEN EmptyHead ELSE HeadOf(GenesisEntry)
    /\ auditLog = pinnedHead
    /\ baseline = EmptyHead
    /\ pc = [c \in Clients |-> "idle"]
    /\ op = [c \in Clients |-> "Use"]
    /\ cmd = [c \in Clients |-> 0]
    /\ snap = [c \in Clients |-> EmptyHead]
    /\ issued = 0 /\ acked = {} /\ torn = {} /\ deserted = FALSE

-----------------------------------------------------------------------------
\* Helpers

At(c, l) == pc[c] = l
Goto(c, l) == pc' = [pc EXCEPT ![c] = l]

\* A handler's locals are gone when it returns.
Locals(c, l) ==
    /\ op' = IF l = "idle" THEN [op EXCEPT ![c] = "Use"] ELSE op
    /\ cmd' = IF l = "idle" THEN [cmd EXCEPT ![c] = 0] ELSE cmd
    /\ snap' = IF l = "idle" THEN [snap EXCEPT ![c] = EmptyHead] ELSE snap

\* A request arrives; the handler's first step runs with it.
Receive(c, o) ==
    /\ At(c, "idle") /\ o \in Issues[c] /\ issued < MaxCommands
    /\ issued' = issued + 1
    /\ op' = [op EXCEPT ![c] = o]
    /\ cmd' = [cmd EXCEPT ![c] = issued + 1]
    /\ UNCHANGED <<snap, acked, cuts>>

\* The client's unseal holds the state Unsealing.
InWindow(c) == pc[c] \in {"fetch", "publish", "flip", "revert"}

Local(c, l) == Goto(c, l) /\ Locals(c, l) /\ UNCHANGED <<issued, acked, cuts>>

OnChain(h) == h = EmptyHead \/ \E e \in entries : h = HeadOf(e)

-----------------------------------------------------------------------------
\* UnsealVaultCommand

\* begin: no-op when already Unsealed, InvalidStateTransition when another
\* unseal is in flight, otherwise Sealed -> Unsealing.
UnsealBegin(c) ==
    /\ Receive(c, "Unseal")
    /\ IF identity = "Sealed"
         THEN identity' = "Unsealing" /\ Goto(c, "fetch")
         ELSE UNCHANGED <<identity, pc>>
    /\ UNCHANGED <<hmacKey, auditLog, logGuard, disk>>

\* fetch_key_material: keychain and AEAD round trips, no lock held.
FetchOk(c) ==
    /\ At(c, "fetch") /\ Local(c, "publish")
    /\ UNCHANGED <<mem, disk>>

FetchFails(c) ==
    /\ At(c, "fetch") /\ "keychain" \in Faults
    /\ Local(c, "revert")
    /\ UNCHANGED <<mem, disk>>

\* commit_unseal, first window: the key is published before the state flips.
PublishKey(c) ==
    /\ At(c, "publish") /\ Local(c, "flip")
    /\ hmacKey' = TRUE
    /\ UNCHANGED <<identity, auditLog, logGuard, disk>>

\* commit_unseal, second window: complete_unseal needs Unsealing; on its
\* error revert_to_sealed cannot apply either and only the key is cleared.
CompleteUnseal(c) ==
    /\ At(c, "flip")
    /\ IF identity = "Unsealing"
         THEN identity' = "Unsealed" /\ Local(c, "append")
         ELSE UNCHANGED identity /\ Local(c, "clear")
    /\ UNCHANGED <<hmacKey, auditLog, logGuard, disk>>

\* rollback_to_sealed: identity first, then, under another lock, the key.
RollbackState(c) ==
    /\ At(c, "revert") /\ Local(c, "clear")
    /\ identity' = IF identity = "Unsealing" THEN "Sealed" ELSE identity
    /\ UNCHANGED <<hmacKey, auditLog, logGuard, disk>>

RollbackKey(c) ==
    /\ At(c, "clear") /\ Local(c, "idle")
    /\ hmacKey' = FALSE
    /\ UNCHANGED <<identity, auditLog, logGuard, disk>>

-----------------------------------------------------------------------------
\* Every audited command: require_unsealed, require_hmac_key, audit_commit.

RequireUnsealed(c) ==
    /\ \E o \in {"Use", "Rebaseline"} : Receive(c, o)
    /\ IF identity = "Unsealed" THEN Goto(c, "key") ELSE UNCHANGED pc
    /\ UNCHANGED <<mem, disk>>

RequireHmacKey(c) ==
    /\ At(c, "key")
    /\ Local(c, IF hmacKey THEN "append" ELSE "idle")
    /\ UNCHANGED <<mem, disk>>

-----------------------------------------------------------------------------
\* audit_commit

\* Take the audit_log write guard and advance the in-memory head.
AppendEntry_NoGuard(c) ==
    /\ At(c, "append")
    /\ logGuard' = c
    /\ auditLog' = [seq |-> auditLog.seq + 1, hash |-> cmd[c]]
    /\ snap' = [snap EXCEPT ![c] = auditLog]
    /\ Goto(c, "persist")
    /\ UNCHANGED <<identity, hmacKey, disk, op, cmd, issued, acked, cuts>>

AppendEntry(c) ==
    /\ At(c, "append") /\ logGuard = NoClient
    /\ logGuard' = c
    /\ auditLog' = [seq |-> auditLog.seq + 1, hash |-> cmd[c]]
    /\ snap' = [snap EXCEPT ![c] = auditLog]
    /\ Goto(c, "persist")
    /\ UNCHANGED <<identity, hmacKey, disk, op, cmd, issued, acked, cuts>>

Pending(c) == [seq |-> snap[c].seq + 1, prev |-> snap[c].hash,
               hash |-> cmd[c], op |-> op[c]]

\* UNIQUE(seq) of audit_entries.
Collides(c) == \E e \in entries : e.seq = Pending(c).seq

\* One transaction: the row and the pinned head together.
Store(c) ==
    /\ ~Collides(c)
    /\ entries' = entries \cup {Pending(c)}
    /\ pinnedHead' = HeadOf(Pending(c))
    /\ UNCHANGED baseline

\* Where a command continues after audit_commit returned Ok, or an error.
AfterAudit(o, ok) ==
    CASE o = "Seal" -> "seal_take"
      [] o = "Rebaseline" /\ ok -> "base_read"
      [] OTHER -> "idle"

CommitEntry(c) ==
    /\ At(c, "persist") /\ Store(c)
    /\ logGuard' = NoClient
    /\ Goto(c, AfterAudit(op[c], TRUE)) /\ Locals(c, AfterAudit(op[c], TRUE))
    /\ acked' = IF op[c] \in {"Unseal", "Use"} THEN acked \cup {cmd[c]} ELSE acked
    /\ UNCHANGED <<identity, hmacKey, auditLog, issued, cuts>>

RejectEntry_KeepHead(c) ==
    /\ At(c, "persist") /\ (Collides(c) \/ "storage" \in Faults)
    /\ UNCHANGED auditLog
    /\ logGuard' = NoClient
    /\ Local(c, AfterAudit(op[c], FALSE))
    /\ UNCHANGED <<identity, hmacKey, disk>>

RejectEntry_AckAnyway(c) ==
    /\ At(c, "persist") /\ (Collides(c) \/ "storage" \in Faults)
    /\ auditLog' = snap[c]
    /\ logGuard' = NoClient
    /\ Goto(c, AfterAudit(op[c], TRUE)) /\ Locals(c, AfterAudit(op[c], TRUE))
    /\ acked' = IF op[c] = "Use" THEN acked \cup {cmd[c]} ELSE acked
    /\ UNCHANGED <<identity, hmacKey, disk, issued, cuts>>

RejectEntry_KeepGuard(c) ==
    /\ At(c, "persist") /\ (Collides(c) \/ "storage" \in Faults)
    /\ auditLog' = snap[c]
    /\ Local(c, AfterAudit(op[c], FALSE))
    /\ UNCHANGED <<identity, hmacKey, logGuard, disk>>

\* The insert failed: rebuild_log puts the in-memory head back.
RejectEntry(c) ==
    /\ At(c, "persist") /\ (Collides(c) \/ "storage" \in Faults)
    /\ auditLog' = snap[c]
    /\ logGuard' = NoClient
    /\ Local(c, AfterAudit(op[c], FALSE))
    /\ UNCHANGED <<identity, hmacKey, disk>>
-----------------------------------------------------------------------------
\* SealVaultCommand (an operator's POST /v1/agent/seal or the idle relock)

SealCheck(c) ==
    /\ Receive(c, "Seal")
    /\ IF identity = "Unsealed" THEN Goto(c, "seal_key") ELSE UNCHANGED pc
    /\ UNCHANGED <<mem, disk>>

\* The Seal entry is written only while a key is present.
SealReadKey(c) ==
    /\ At(c, "seal_key")
    /\ Local(c, IF hmacKey THEN "append" ELSE "seal_take")
    /\ UNCHANGED <<mem, disk>>

SealTakeKey(c) ==
    /\ At(c, "seal_take") /\ Local(c, "seal_read")
    /\ hmacKey' = FALSE
    /\ UNCHANGED <<identity, auditLog, logGuard, disk>>

\* storage.pinned_head() is read before the audit_log guard is taken.
SealReadHead(c) ==
    /\ At(c, "seal_read")
    /\ snap' = [snap EXCEPT ![c] = pinnedHead]
    /\ Goto(c, "seal_restore")
    /\ UNCHANGED <<mem, disk, op, cmd, issued, acked, cuts>>

SealReadHeadFails(c) ==
    /\ At(c, "seal_read") /\ "storage" \in Faults
    /\ Local(c, "idle")
    /\ UNCHANGED <<mem, disk>>

SealRestoreLog(c) ==
    /\ At(c, "seal_restore") /\ logGuard = NoClient
    /\ auditLog' = snap[c]
    /\ Local(c, "seal_flip")
    /\ UNCHANGED <<identity, hmacKey, logGuard, disk>>

SealFlip_FromUnsealing(c) ==
    /\ At(c, "seal_flip") /\ Local(c, "idle")
    /\ identity' = "Sealed"
    /\ UNCHANGED <<hmacKey, auditLog, logGuard, disk>>

SealFlip_StopHalfway(c) ==
    /\ At(c, "seal_flip") /\ Local(c, "idle")
    /\ identity' = IF identity = "Unsealed" THEN "ShuttingDown" ELSE identity
    /\ UNCHANGED <<hmacKey, auditLog, logGuard, disk>>

\* VaultIdentity::seal accepts Unsealed only; Unsealing and Sealed are errors.
SealFlip(c) ==
    /\ At(c, "seal_flip") /\ Local(c, "idle")
    /\ identity' = IF identity = "Unsealed" THEN "Sealed" ELSE identity
    /\ UNCHANGED <<hmacKey, auditLog, logGuard, disk>>

-----------------------------------------------------------------------------
\* SetAuditBaselineCommand, after its marker entry was committed

BaselineReadHead(c) ==
    /\ At(c, "base_read")
    /\ snap' = [snap EXCEPT ![c] = pinnedHead]
    /\ Goto(c, "base_set")
    /\ UNCHANGED <<mem, disk, op, cmd, issued, acked, cuts>>

SetBaseline(c) ==
    /\ At(c, "base_set")
    /\ baseline' = snap[c]
    /\ acked' = acked \cup {cmd[c]}
    /\ Goto(c, "idle") /\ Locals(c, "idle")
    /\ UNCHANGED <<mem, entries, pinnedHead, issued, cuts>>

BaselineFails(c) ==
    /\ (At(c, "base_read") \/ At(c, "base_set")) /\ "storage" \in Faults
    /\ Local(c, "idle")
    /\ UNCHANGED <<mem, disk>>

-----------------------------------------------------------------------------
\* Faults of the environment

\* The process dies and boots again: tokio state is gone, SQLite is not, and
\* restore_audit_chain rebuilds the in-memory head from the pinned head.
Restart ==
    /\ "crash" \in Faults
    /\ identity' = "Sealed" /\ hmacKey' = FALSE
    /\ logGuard' = NoClient /\ auditLog' = pinnedHead
    /\ pc' = [c \in Clients |-> "idle"]
    /\ snap' = [c \in Clients |-> EmptyHead]
    /\ deserted' = FALSE
    /\ UNCHANGED <<disk, op, cmd, issued, acked, torn>>

\* The peer hangs up: hyper drops the handler's future at whatever .await it
\* is suspended in.  Guards are released by Drop; a transaction already handed
\* to the SQLite worker may or may not have committed.
Cancel(c) ==
    /\ c \in Hangups /\ ~At(c, "idle")
    /\ Goto(c, "idle") /\ Locals(c, "idle") /\ UNCHANGED <<issued, acked>>
    /\ logGuard' = IF logGuard = c THEN NoClient ELSE logGuard
    /\ \/ /\ torn' = IF At(c, "persist") THEN torn \cup {auditLog} ELSE torn
          /\ UNCHANGED disk
       \/ At(c, "persist") /\ Store(c) /\ UNCHANGED torn
    /\ deserted' = (deserted \/ InWindow(c))
    /\ UNCHANGED <<identity, hmacKey, auditLog>>

-----------------------------------------------------------------------------
Arrive(c) == UnsealBegin(c) \/ RequireUnsealed(c) \/ SealCheck(c)

Unseal(c) ==
    \/ FetchOk(c) \/ FetchFails(c) \/ PublishKey(c) \/ CompleteUnseal(c)
    \/ RollbackState(c) \/ RollbackKey(c)

AuditCommit(c) ==
    RequireHmacKey(c) \/ AppendEntry(c) \/ CommitEntry(c) \/ RejectEntry(c)

Seal(c) ==
    \/ SealReadKey(c) \/ SealTakeKey(c) \/ SealReadHead(c)
    \/ SealReadHeadFails(c) \/ SealRestoreLog(c) \/ SealFlip(c)

Rebaseline(c) == BaselineReadHead(c) \/ SetBaseline(c) \/ BaselineFails(c)

\* The steps of a command that is already running.
Run(c) == Unseal(c) \/ AuditCommit(c) \/ Seal(c) \/ Rebaseline(c)

\* Every command that may be issued was, and has returned.
Finished ==
    /\ issued = MaxCommands /\ \A c \in Clients : At(c, "idle")
    /\ UNCHANGED vars

Next ==
    \/ \E c \in Clients : Arrive(c) \/ Run(c) \/ Cancel(c)
    \/ Restart
    \/ Finished

Spec == Init /\ [][Next]_vars

\* tokio polls every woken task and the keychain and SQLite calls return: a
\* running command keeps running.  Nothing forces a request, a fault, a crash.
FairSpec == Spec /\ \A c \in Clients : WF_vars(Run(c))

-----------------------------------------------------------------------------
\* Properties

\* The durable chain (audit_commit, commit_audit_entry, seal_vault): no two rows
\* carry the same seq; every row links to the row before it, or to a head whose
\* insert was cut by a hang-up - a storage error, a crash, a stale head restored
\* by a seal or a racing command never breaks a link; the pinned head is a row,
\* and the last one as long as no insert was cut.
Tails == {HeadOf(e) : e \in entries} \cup torn
SeqUnique == \A e, f \in entries : e.seq = f.seq => e = f
Linked == \A e \in entries :
    IF e.seq = 0 THEN e.prev = EmptyHead.hash
    ELSE \E h \in Tails : h.seq = e.seq - 1 /\ h.hash = e.prev
PinnedIsTip ==
    /\ OnChain(pinnedHead)
    /\ torn = {} => \A e \in entries : e.seq <= pinnedHead.seq
ChainIntact == SeqUnique /\ Linked /\ PinnedIsTip

\* The comment on audit_commit: "the next append never builds on a
\* non-durable tail" - whenever the audit_log guard is free, the in-memory
\* head is a row of the durable chain, unless it is the one of a cut insert,
\* which nothing puts back.
DurableTail == logGuard = NoClient => OnChain(auditLog) \/ auditLog \in torn

\* The baseline a later verification starts from is always a row of the
\* chain, so quarantining the prefix never makes the chain unverifiable.
BaselineOnChain == OnChain(baseline)

\* Both heads that are trusted later - the one the next entry builds on and the
\* one a verification starts from - are positions of the durable chain; only a
\* hang-up during an insert takes the first one off it.
HeadsDurable == DurableTail /\ BaselineOnChain

\* A command that returned Ok left its entry in the durable chain, through
\* every rollback, seal, collision, crash and disconnect.
AckedDurable == \A n \in acked : \E e \in entries : e.hash = n

\* Unsealing belongs to exactly one unseal in flight, or to one whose client hung
\* up: nobody else can abort it or complete it (the reason VaultIdentity::seal
\* refuses Unsealing), and no second unseal starts beside either.
Owners == {c \in Clients : InWindow(c)}
UnsealingOwned ==
    /\ identity = "Unsealing" <=> Owners # {} \/ deserted
    /\ \A c, d \in Owners : c = d
    /\ deserted => Owners = {}

\* context.rs:88: the key is "`Some([u8; 32])` while unsealed; `None` while sealed
\* or mid-unseal" - with nothing running, it is there exactly while the vault is
\* Unsealed.
Quiet == \A c \in Clients : At(c, "idle")
KeyMatchesState == Quiet => (hmacKey <=> identity = "Unsealed")

\* The other half of the same comment, at every instant: a sealed vault has no
\* key in memory.  It holds as long as no unseal or seal (an idle re-lock is one)
\* starts while another is under way.
SealedHasNoKey == identity = "Sealed" => ~hmacKey
InLifecycle(c) == ~At(c, "idle") /\ op[c] \in {"Unseal", "Seal"}
LifecycleApart == \A c \in Clients :
    At(c, "idle") /\ InLifecycle(c)' => \A d \in Clients \ {c} : ~InLifecycle(d)

\* context.rs: after every seal the next append is "never colliding with a
\* persisted row".
NeverCollides == \A c \in Clients : At(c, "persist") => ~Collides(c)

\* audit_commit: "the next append never builds on a non-durable tail", under
\* hang-ups too.
NeverOnLostTail == logGuard = NoClient => OnChain(auditLog)

\* Every command returns: no guard is left held, nobody waits on anybody.
CommandsReturn == \A c \in Clients : ~At(c, "idle") ~> At(c, "idle")

\* unseal_vault.rs: an unseal that does not succeed leaves Unsealing behind.
UnsealingResolves == identity = "Unsealing" ~> identity # "Unsealing"
=============================================================================
