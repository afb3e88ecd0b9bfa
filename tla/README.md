# TLA+ verification of merkle

merkle is a local secret vault: an agent (`bin/merkle-agent`) keeps encrypted
secrets in SQLite and the root key in a keystore, and serves a Unix socket to
the CLI and to the MCP server. Operations on secrets are recorded in a
hash-chained, keyed audit log.

This directory holds TLA+ models of the parts of the program whose correctness
depends on order: which task runs between two `.await` points, what a crash, a
failed call or a dropped connection leaves behind, when an operator answers,
what a verifier can conclude from a damaged file. The models are checked with
TLC on small instances (the `.cfg` files), and the results that matter most are
proved with TLAPS for all instances (`*_proofs.tla`). `PROJECT.json` maps every
definition to the lines it models and lists the hazards at the lines where they
bite, each with the properties that would catch it.

    tlc -config store.cfg MCSecretStore      # one run
    tlapm SecretStore_proofs.tla             # one proof module

## The system

### Concurrency model

One tokio runtime runs one task per connection and six background tasks (backup
scheduler, chain verifier, reaper, idle re-lock, metrics server, accept loop).
There is one shared `AppContext`, whose fields are protected one by one by tokio
locks; no lock spans a command. A command is therefore a sequence of atomic
stretches between `.await` points, and anything may run in between. `hyper`
drops a request's future when its peer disconnects, so a command may also simply
stop at an `.await`. SQLite transactions are atomic; a crash of the process
loses the memory and keeps the database, the keystores and the temporary files.

The clients (one MCP server per session, the CLI) are processes of their own.
They check, send one or two requests, wait at most for a deadline, and turn the
answer into an error code or an exit code.

### Components

| Component | State | Operations | Interacts with | What is hard | What makes it correct |
|---|---|---|---|---|---|
| Vault lifecycle | `identity`, `hmac_key` | unseal, seal, gates | keystore, audit chain | state and key are two locks; roll back; disconnects | Unsealing has one owner; a sealed vault has no key |
| Audit chain, write path | in-memory head, rows, pinned head, baseline | append, roll back, re-baseline, restore | every command | append before persist; two copies of the head | rows stay gap-free and linked; an Ok is backed by a row |
| Chain verifier | none | verify all, a range, from a baseline | rows, pinned head | boundaries, changed keys, truncated logs | verdict right in both directions |
| Secret store | `secrets`, `secret_versions` | put, rotate, rollback, delete, read | audit chain | two-query loads; a stale copy written back whole | numbers unique, history kept, readers get a current value |
| Ephemeral access | token and file registries, files on disk, FIFO threads | issue, materialise, revoke, close session, reap, sweep | audit chain | plaintext on disk between steps | a token buys one file; nothing outlives its bound |
| Reveal and out-of-band confirmation | pending challenges, rate window, pages, terminal readers | reveal, confirm, deny, time out | policy, store, audit chain | late, duplicate and foreign answers; second load | plaintext only for a confirmed request, and on record |
| Policy | policy rows | evaluate, decide | reveal, consumer gate | precedence; two decision procedures | they agree where both grant |
| Key custody: init, keystores, migration, disaster recovery | OS keychain, file keystore and its copy in memory | init, enrol, boot, migrate, recover | lifecycle, backups | entry-by-entry writes; crash and failure anywhere | the key that data depends on is never lost |
| Backup and restore | anacron state, artifacts, rows, plans | poll, back up, plan, execute | store, audit chain | counters reset while changes come in; two executions of a plan | changes get backed up; a plan applies once |
| Namespaces and binding | namespace and policy rows, MCP session | bind | every scoped request | cut between two writes | a bound namespace has a policy |
| Companion socket, MCP server, CLI | session, calls in flight | every tool and command | the agent | deadlines, lost answers, confirmation by the client | answers are truthful; calls return |
| Proxy operations | child processes, identity files, tunnels | ssh, HTTP, spawn, port forward | store, external services | children that outlive commands; names that resolve twice | tunnels are owned; credentials stay out of special-purpose networks |
| Agent process | tasks, cancellation, drain | start, idle re-lock, verify, shut down | all | tasks that hang; reads beside commits | it ends; an unused vault gets sealed; no false alarm |
| Devices | device rows | pair, list, revoke | reveal | - | only as requests |
| Cryptography, configuration, metrics registry, value types | - | - | - | - | not modelled |

## Modules

| Module | Models | Run |
|---|---|---|
| `VaultLifecycle` | unseal, seal, the skeleton of audited commands, `audit_commit`, re-baseline | `lifecycle_safety`, `viol_seal_stale_head`, `viol_key_state` |
| `AuditChain` | the three verification modes over a chain the agent writes and the environment damages | `chain_verdict` |
| `SecretStore` | put, rotate, rollback, delete and read of one handle | `store` |
| `EphemeralAccess` | use-tokens, tempfiles, FIFOs, sessions, the reaper | `ephemeral` |
| `Policy` | `PolicyEvaluator`, profile defaults, the reveal command's own decision | used by `Reveal` |
| `RevealRequest` | the domain aggregate: the abstract specification of one reveal | - |
| `Reveal` | the handler, the command and the out-of-band channels | `reveal` |
| `KeyCustody` | keystores, boot and migration, init, unseal by keychain or passphrase, disaster recovery | `custody` |
| `BackupRestore` | scheduler, manual backups, restore plans | `backup` |
| `Tools`, `Handlers` | what a client checks and sends; what the agent checks, does and records per request | used by `Gateway` |
| `Gateway` | a call from client to agent and back; binding | `gateway` |
| `Egress` | the destination policy as predicates on addresses | used by `Proxy` |
| `Proxy` | ssh, HTTP, spawn, port forwarding | `proxy` |
| `AgentProcess` | start-up, tasks, connections, shutdown | `agent` |
| `*_proofs` | theorems about the module of that name (`Reveal_proofs`: also about `Policy`) | - |
| `Agent_proofs` | theorems about `AuditChain`, `AgentProcess` and `KeyCustody`, whose names are kept apart for it (`AgentSpec`, `CustodySpec`) | - |
| `MC*` | instances for TLC | |

### How they fit together

`VaultLifecycle` shows that what reaches the database is a chain (a hang-up during
an insert apart, which makes the next link a real break), and that for
its caller `audit_commit` is one step that succeeds or fails. The other modules
use it as such a step. `AuditChain` starts from a chain and asks what a verdict
on it means. `KeyCustody` shows which key an unseal finds; `VaultLifecycle`
takes "the keychain answers or fails" from it. `Reveal` EXTENDS `Policy`.
`Gateway` EXTENDS `Tools` and `Handlers` and composes both sides of the socket;
what a request does in depth is in the module of its component, and in `Gateway`
it leaves a mark. `Proxy` EXTENDS `Egress`. `AgentProcess` runs the tasks side by
side; the passes of the reaper and of the scheduler are `EphemeralAccess` and
`BackupRestore`.

### State and actions against the code

**VaultLifecycle.** `identity`, `hmacKey`, `auditLog` are fields of
`AppContext`; `entries`, `pinnedHead`, `baseline` are tables. `pc[c]` is the
`.await` at which client `c`'s command is suspended; an action runs to the next.
`logGuard` is the `audit_log` write guard, the only lock held across an
`.await`. A hash is the ordinal of the command that wrote the entry (entries
carry a fresh UUIDv7). `snap[c]` is a head copied into a local: the one to roll
back to, the one a seal will restore, the one a baseline will pin. `Faults` are
failing inserts and head reads, a failing keychain and crashes; clients in
`Hangups` may disconnect at any `.await`, also during the insert, whose
transaction then may or may not have committed: `torn` records the heads of
inserts that were cut, which nothing rolls back. Commands other than unseal, seal
and re-baseline are `Use`: gate, key, `audit_commit`.

**AuditChain.** A hash is the tuple of what is hashed and a MAC the tuple of key
and message: free constructors. Damage comes from the environment and needs no
key: rows lost, edited, renumbered or consistently rewritten with their links
(`RelinkRow`), pinned head or baseline lost, replaced by an older one or by
fields of another row. `AppendLegacy` writes entries under an earlier key, which
is what re-baselining (ADR-0029) is for. `authored`, `vouched`, `lastHead` record
what the agent really did. The verifier's loop walks a range of seqs in order and
stops at the first failing check; `Walk` says this without recursion, as the
checks at the least seq where one of them fails, so that a verdict can be reasoned
about for logs of any length. `NoKey` is the hash-only mode.

**SecretStore.** One handle, any number of secret ids over time. A command's
number stands for the ids it creates and the value it encrypts. `row` and
`loaded` are the copy a command loaded with two queries; writing back is
`Upsert`: rows in the copy are inserted or take its `deprecated_at`, other rows
stay. The two UNIQUE indexes are `HandleTaken` and `SlotTaken`. Retention prunes
the private copy only, as the code does.

**EphemeralAccess.** Registries are functions from identifier to entry. Time is
counted in ticks that are left. The reaper's timer is urgent (a tick waits for a
due reaper); a client's command may take any time. `idle[f]` counts the ticks a
file has been on disk in this run of the agent without a command working on it.
The sweep sees every path present when it opened the directory and any subset of
those created since. Random values are never drawn twice.

**Reveal.** A request makes its own challenge id, so challenges are named by
requests. `pending` is the `PendingChallengeRegistry`, `inbox` the one-shot
receiver, `reader` and `forwarder` the terminal's thread and task, `pages` the
localhost pages, `fixture` the test notifier's file. The operator may answer
early, late, twice, never, or at another request's prompt. The secret may be
deleted and put again, the policy bound, a device revoked, the vault sealed
between any two steps.

**KeyCustody.** Keys are numbers: the n-th ceremony draws the n-th key of each
kind; an entry names the master key and the vault root key it carries. `disk` and
`mem` are the file keystore and its copy in memory, which differ after a failed
persist. `written` records which root keys data depends on, `acked` what the
last successful ceremony reported. `init_lock` is held by an init to the end of its
roll back (`Initialising`); recovery and unseal take no lock.

**BackupRestore.** A secret is its content version and its creation moment.
`anacron` is the in-memory scheduler state; `quiet` abstracts the idle window.
`Poll` decides, then `Gather`, `Persist`, `Row` and `AuditBackup` run per
namespace; `Completed` resets the state. A write counts itself after its audit
entry; one whose entry failed, or that a seal overtook, is stored and never
counted (`Uncounted`). `miss` records, per secret, why the scheduler may not know
of its latest change. `MakePlan`, `ExecuteRestore`, `RestoreOne`, `Applied`,
`AuditRestore` are the two restore commands.

**Gateway.** `Tools` has one record per MCP tool and CLI command: its checks in
order, then its requests. `Handlers` has one per route: checks in order, the
change, when it is audited. `call` is the client's side of a call, `agent` the
handler's. Binding is modelled step by step, with the normalisation of labels.
An MCP call knows whether the operator's confirmation marker was there
(`confirm`, the `_meta` field the client sets) and, apart from it, what the model
passed as the argument of that name (`agree`). An answer arrives in two parts, as
in the client: the head under a deadline (`Receive`), the body without one
(`Deliver` is the agent's step); what arrives may not decode (`Garbled`).

**Proxy.** `file` is the identity file (guarded by the command, kept for the
tunnel), `child` the subprocess, `forwards` the registry of tunnels, `watcher`
the cleanup task that polls it. A URL names an address or a host; a host is
looked up when it is validated and again when it is connected to, with
independent answers. `left` records files whose owner vanished in ways the code
does not handle (the agent stops or crashes; a client hangs up while waiting for
the registry), `orphans` the children a crash leaves running. `Egress` has the
predicates of the code and, as the reference, the IANA registries of
special-purpose blocks with multicast and the deprecated ranges; `Unscreened4`
and `Unscreened6` are the blocks of the reference that the code does not test.

**AgentProcess.** `task` is the place of each background task, `conn` of each
connection. The two tasks that act on the vault are modelled step by step (idle
re-lock, periodic verification); the others work for some time, possibly for
ever. A seal may fail at its read of the pinned head and leave the vault open.
After the drain `run()` returns and the process ends once its blocking threads
(`threads`: a FIFO writer, a terminal prompt) are done, as dropping a tokio
runtime waits for them. `cut` records what was at work when the drain ended.

## What the runs check

| Run | Instance | Properties |
|---|---|---|
| `lifecycle_safety` | 2 clients, 4 commands of any kind, one client hangs up anywhere; storage and keychain errors, crashes | `TypeOK`, `ChainIntact`, `HeadsDurable`, `AckedDurable`, `UnsealingOwned`; `CommandsReturn` |
| `chain_verdict` | at most one entry of an earlier key, three appends or re-baselines, restarts, two damage steps | `NoFalseAlarm`, `IntactIsAuthored`, `IntactIsAnchored`, `ModesSound`, `TailLossNamed` |
| `store` | two writers and a reader, 5 commands, retention 2; storage and audit errors, crashes, disconnects | `StoreConsistent`, `AckedKept`; `HistoryKept`, `ReadsCurrent` |
| `ephemeral` | 2 clients, 2 tokens, 2 files, lifetimes of one tick; audit errors, crashes, disconnects, seals | `TokensSafe`, `NothingLeftBehind`, `RetentionBound` |
| `reveal` | 2 requests, five notifiers, 2 successive secrets, 3 policies, one storage fault, seals, disconnects | `ConfirmedByOperator`, `AuditAgrees`; `ImplementsAggregate` |
| `custody` | one request at a time, backend `auto`, passphrase, 4 ceremonies, 4 starts, one failing call | `SoleKeyHeld`, `AckedKeyOpens`, `RollbackSafe` |
| `backup` | a writer, a second client that restores, the scheduler, one namespace, 2 writes, one fault, restarts | `BackupsSound`, `RestoreOnce`; `ChangesGetBackedUp` |
| `gateway` | any tool or command beside a bind or a seal; lost, cut and garbled answers, one crash | `BindingSound`, `ConfirmedOnly`, `AnswerIsTruthful`; `CallsReturn` |
| `proxy` | any operation beside a tunnel; addresses on both sides of every block's bounds | `TunnelsSound`, `DialsScreened`, `IdentityWhileNeeded`; `IdentityRevoked` |
| `agent` | 1 connection, idle, verifier, metrics and one opaque task, one blocking thread, one failing read, 2 entries | `NoTornAlarm`; `IdleSeals`, `ShutdownEnds` |
| `viol_seal_stale_head`, `viol_key_state` | 2 clients, 4 commands of any kind | `NeverCollides`, `KeyMatchesState` (both violated) |

What they show:

* Lifecycle: in every state the durable chain has unique seqs and is pinned at its
  last row, and each row links to the row before it or to an entry whose insert a
  hang-up cut (a gap only a hang-up makes); whenever the guard is free, the
  in-memory head is a row or such an entry, and the baseline always is a row; an
  Ok is backed by a row; Unsealing belongs to one unseal, in flight or hung up on;
  every command returns.
* Chain: an undamaged chain raises no alarm; Intact means authored, anchored at
  the baseline and complete; hash-only and range modes are sound within their
  limits; a lost tail is named.
* Store: no orphaned version, no number used twice, the current version is the
  newest and active; an acknowledged version stays until a delete, or until as
  many newer ones are stored as retention keeps; versions are only ever
  deprecated. A torn read returns a value that was current during the
  read, or nothing - as long as a single version is active, which two
  overlapping rotations can break (below).
* Ephemeral: a token buys at most one file, of its own handle; an error leaves no
  plaintext; every file is gone one lifetime and one reaper period after the
  last command left it.
* Reveal: a gated reveal returns plaintext only if the operator approved that
  very challenge (on the terminal, where a key may reach another prompt's
  reader: some challenge); the answer agrees with the audit log; and, per
  request, the detailed model implements the aggregate (next section).
* Custody: the root key all data depends on can always be had again; what a
  ceremony reported opens after a restart; an init that was rolled back leaves the
  master account free on disk. A failing genesis entry, or a crash, is not rolled
  back and does block the next init (`viol_custody`).
* Backup: a listed backup has its artifact; two applications of one plan never
  both report success; once the vault stays unsealed and nothing fails any more,
  a secret whose change was counted while no pass ran is in a listed backup in its
  latest version in the end, whatever seals, faults and failed passes came before.
  `backup_spaces` shows the same with two namespaces and no restores.
* Gateway: a bound session's namespace has a row and a policy, also after a bind
  that was cut; nothing is deleted, rolled back or re-baselined - and through MCP
  nothing revealed - without the operator's confirmation; a refusal means nothing
  durable changed, OK means everything was done and recorded; every call returns,
  unless the agent is wedged for ever between the head and the body of its answer.
  A restore through MCP is confirmed by an argument of the model only
  (`viol_gateway`).
* Proxy: a credential goes to no address in a special-purpose block that the
  policy tests, whichever of the two look-ups says what; a running tunnel is held
  by its command or the registry, and only a crash lets one go; its identity file is there while it runs and is
  removed afterwards.
* Agent: commits beside the periodic verification raise no alarm; an unused vault
  gets sealed by a later poll, also when a seal fails; a shutdown ends, unless a
  blocking thread is never released.

Why the bounds are enough. The defects looked for are of the form: read, another
actor changes what was read, use, a further step is hurt. That takes two actors
and one or two steps more: hence two or three clients and four or five commands
(a put, one version more than retention keeps, and a delete or a racing writer).
The verifier compares neighbours and the two ends, so four entries have every
kind of position, and two damage steps allow an edit and its cover-up. A single
fault is enough where the code claims to survive one (`custody`, `backup`,
`reveal`); four starts let a crash hit the recovery from a crash.
In `gateway` the second call is one of those that change what the first depends
on: it binds or seals. `agent` has one start, as only audit entries outlive a
process. `backup` has one namespace; `backup_spaces` has two. Larger instances were not run to completion within a few minutes; the proofs
remove the bounds where they exist (any number of files and any lifetimes in
`ephemeral`, any number of calls in `gateway`).
`CHECK_DEADLOCK FALSE` is set where the system may stop: bounds used up
(`chain_verdict`, `custody`, `backup`), the agent down for good (`agent`).

Every property is broken by a mutation of the modelled code (`mutants`); the
mutated forms stand before the originals, with a suffix. Several properties
include the types of their module's state, so that a state outside them is a
violation as well.

### The refinement

`RevealRequest` is the aggregate of `reveal_request.rs`: Pending, a challenge,
then Approved, Denied or Expired, with a resolution that answers the challenge
that was issued. `Reveal!Aggregate(r)` is `INSTANCE RevealRequest` with the
state of request `r` derived from the handler's position and verdict, and
`ImplementsAggregate` states its specification for every request. The command
drives the aggregate through several awaits while other requests, late answers
and disconnects go on; the run shows that no step of anybody moves a request
along an edge the aggregate does not have, and `RefinesAggregate` proves it for
any number of requests.

### Fairness

| Specification | Weak fairness of | Because |
|---|---|---|
| `VaultLifecycle!FairSpec` | the steps of a running command, per client | tokio polls every woken task, its `RwLock` is fair, keychain and SQLite calls return or fail |
| `BackupRestore!Spec` | the scheduler, time, the end of a write (`RecordChange` or `Uncounted`) | the poll timer; a handler that runs goes on to count its change or to fail |
| `Gateway!Spec` | the client's own steps, its deadline among them | the client's `timeout` around the head of every answer; nothing is assumed of the agent, the body of an answer included |
| `Proxy!Spec` | the cleanup task, the exit of a killed child | a polling loop; SIGKILL |
| `AgentProcess!AgentSpec` | the idle timer and its pass, the drain's deadline, the end of a finished drain, the exit once no blocking thread is left | timers of the runtime; passes of other tasks, requests, scrapes and blocking threads may take for ever |

No request is ever forced to come, no fault forced to happen, and the other
modules assume no fairness.

## What is proved

For any number of clients, calls, requests, tokens, files and commands, from the
`ASSUME`s of each module (`tlapm` with SMT, Zenon and LS4). An `ASSUME` only says
of what kind the constants are: of `Proxy`, that URLs and answers of a look-up
carry addresses of four octets or eight segments; of `Gateway`, that a call is of
tools there are, that the CLI is not an MCP server, and that the markers for "no
value" and "a handle that does not parse" are not labels.

| Theorem | Statement | Assumes |
|---|---|---|
| `VaultLifecycle_proofs!TypeCorrect` | `Spec => []TypeOK` | - |
| `AckedIsDurable` | `Spec => []AckedDurable` | - (all faults) |
| `ChainStaysIntact` | `Spec => [](ChainIntact /\ DurableTail /\ BaselineOnChain)` | - (all faults, hang-ups anywhere) |
| `HeadsStayDurable` | `Spec => []HeadsDurable` | - (the same) |
| `UnsealingHasOneOwner` | `Spec => []UnsealingOwned` | - (the same) |
| `SealedVaultHasNoKey` | `Spec => []SealedHasNoKey` | no unseal or seal starts while another is under way (`LifecycleApart`) |
| `SecretStore_proofs!StoreStaysConsistent` | `Spec => []StoreConsistent` | - |
| `AckedIsKept` | `Spec => []AckedKept` | - |
| `HistoryIsKept` | `Spec => HistoryKept` | - |
| `ReadersGetCurrent` | `Spec => ReadsCurrent` | - |
| `EphemeralAccess_proofs!TokensStaySafe` | `Spec => []TokensSafe` | - |
| `NothingStaysBehind` | `Spec => []NothingLeftBehind` | - |
| `RetentionIsBounded` | `Spec => []RetentionBound` | - |
| `Reveal_proofs!ConsentSafety` | `Spec => []ConfirmedByOperator` | - |
| `AuditSafety` | `Spec => []AuditAgrees` | - |
| `RefinesAggregate` | `Spec => ImplementsAggregate` | - |
| `HighNeedsAck` | a granted reveal of a high secret has an acknowledgment | any policy row |
| `SealedPassesOnlyUnseal` | a sealed vault passes only unseal, a stopping one nothing | any policy row and input |
| `CommandGrantsWhatPolicyGrants` | the command's decision grants what the evaluator grants | profile defaults, slash command |
| `Gateway_proofs!BindingIsSound` | `Spec => []BindingSound` | - |
| `ConfirmedOnlySafety` | `Spec => []ConfirmedOnly` | - |
| `AnswersAreTruthful` | `Spec => []AnswerIsTruthful` | - |
| `Proxy_proofs!TunnelsStaySound` | `Spec => []TunnelsSound` | - |
| `IdentityStaysWhileNeeded` | `Spec => []IdentityWhileNeeded` | - |
| `PermittedIsScreened` | an address `is_forbidden_ip` permits is `Public` or `Unscreened` | any IPv4 or IPv6 address |
| `CredentialsGoToScreened` | `Spec => []DialsScreened` | - |
| `BackupRestore_proofs!BackupsStaySound` | `Spec => []BackupsSound` | - |
| `RestoresOnce` | `Spec => []RestoreOnce` | - |
| `Agent_proofs!IntactChainIsAuthored` | `Spec => []IntactIsAuthored` | - |
| `IntactChainIsAnchored` | `Spec => []IntactIsAnchored` | - |
| `WeakerModesAreSound` | `Spec => []ModesSound` | - |
| `NeverAFalseAlarm` | `Spec => []NoFalseAlarm` | - |
| `TailLossIsNamed` | `Spec => []TailLossNamed` | - |
| `NoTornAlarmEver` | `AgentSpec => []NoTornAlarm` | - |
| `RollbackStaysSafe` | `CustodySpec => []RollbackSafe` | - |
| `AckedKeyStaysOpen` | `CustodySpec => []AckedKeyOpens` | no init or recovery starts while one is under way (`CeremoniesAlone`) |
| `SoleKeyStaysHeld` | `CustodySpec => [](BackupCarriesItsKey => SoleKeyHeld)` | no unseal and init at the same time (`UnsealsApart`) |

`LifecycleApart` is needed: two seals around an unseal, one of them possibly the
idle re-lock, leave a sealed vault with its key (`viol_key_state`). So are the
hypotheses on `KeyCustody`: disaster recovery takes no lock and unseal does not take
`init_lock`, so a recovery that races another ceremony breaks `AckedKeyOpens`, an
unseal that uses the key of an init which then rolls back breaks `SoleKeyHeld`,
and with a backup that gives back another key than its secrets are under
(`viol_custody`) two faults lose the sole key. Requests served one at
a time satisfy `CeremoniesAlone` and `UnsealsApart`, which the corollaries
`AckedKeyStaysOpenAlone` and `SoleKeyStaysHeldAlone` state; the number of faults,
ceremonies and starts is unbounded in all three theorems.

The arguments:

* `AckedDurable` needs that a baseline command past its marker already has its
  row (`AckInv`): it is acknowledged two steps after the row was written.
* `ChainIntact` needs `ChainInv`. The tails, which are the rows and the cut inserts
  (`Tails`), have every seq from 0 up to each of them (`NoGap`); a holder of the
  guard carries in `snap` the head that the in-memory log had, which is a tail
  (`GuardInv`); every other copied head is a row (`HeadsOnChain`). The stale head
  of a seal is covered by this: it is an older row, so an append on it collides and
  is rolled back, and the chain is unharmed. That is why `ChainIntact` holds
  although `NeverCollides` does not. The head of a cut insert is the one head
  nothing rolls back; a row written on it is the only kind of row without its
  predecessor.
* `SealedHasNoKey` needs `KeyInv`: at most one unseal or seal is under way, and at the
  steps of it before the key is published, or after it was taken, there is no key.
* `SecretStore`: a writer holds a copy that may be stale. The invariant says that
  the numbers of an undeleted secret have no gap (`StoreInv`), that the copy was
  once the whole history and is still part of it unless the secret was deleted
  (`CopyInv`), and that the number of a command that has not written is unused
  everywhere (`FreshInv`). So a free slot above the copy's highest number, which
  the UNIQUE index checks, means nothing was added since, and writing the copy
  back loses nothing. An acknowledged version is followed from the write to the
  answer by `AckInv`.
* `HistoryKept` is about a copy that is behind on `deprecated_at`. Such a copy may
  stay around for long, so `HistInv` says why it can no longer be written: some
  row it does not know has a number it would have to write, and the UNIQUE index
  refuses it. What a rotation writes is an unbroken run of numbers up to the new
  one, also after retention pruned the copy, so it cannot step over that row. The
  runs can have gaps (a deleted secret that a late writer brings back, pruned);
  the invariant bounds where.
* `ReadsCurrent` needs `ReadInv`: a reader between its two queries has noted every
  value that was current since the first (`live`), and the current version is
  stored and active.
* `EphemeralAccess`: a token that can still be consumed, or is about to be
  registered, is unspent; a spent one has one owner (`TokenInv`). This needs that
  everything handed out was drawn, and is not drawn again (`DrawnInv`).
  `RetentionBound` needs `RetentionInv`, which measures idleness against the
  reaper's timer: a registered file is no longer idle than it is registered, or
  expired since the last pass; a file no registry knows has been idle since the
  last pass at most; and a pass under way forgets nothing that was there when it
  began.
* `Reveal`: consent is followed through everything that carries it: the fixture,
  the inbox, the acknowledgment in the handler's frame, the decision, the
  plaintext (`ChannelInv`, `AckInv`). No channel forges it, because an answer is
  delivered only to the receiver registered for its challenge. `AuditInv` says
  that the entry is the last thing a request writes before it answers. For the
  refinement, `LifeInv` says that a request's challenge is issued on the way from
  dispatch to await, that every answer names it, and that a verdict is final;
  each action is then a step of the aggregate or a stutter, and so is each step
  of the operator, the channels and the other requests. The aggregate's
  specification states no fairness, so this is the whole refinement.
* `Gateway`: first the tables. Each request has one handler (`RequestLookup`,
  `ServedSoundly`); each tool that reaches a handler which deletes, rolls back,
  re-baselines - over MCP also one that reveals - has the confirmation
  among its checks, and only the last request of a tool does something that lasts
  (`AtRequest`). These are facts about client and agent together that neither
  states. Then `IInv`, for each call by itself: which checks it has passed
  (`Passed`), that a mark is one its handler leaves (`Marked`), what the handler
  has done when it is at a given stage (`Handling`), what a status promises
  (`Reply`) and what the caller was told (`Told`). A refusal by the consumer list
  at the end of a bind is the delicate case: it may come after a namespace was
  stored. `BindHandling` says that a bind that stored its namespace finds a policy
  that is not closed, and no step closes a policy or takes a namespace away
  (`VaultGrows`), so other calls keep what they found.
* `Proxy`: `TunnelInv` says for each position of a command what it owns - no child
  before the launch, no registry entry or cleanup task before the registration,
  which finds the file kept - and that a cleanup task only finishes an exited
  tunnel. For `DialsScreened`, `PermittedIsScreened` compares the predicates of
  `is_forbidden_ip`, which test octets and segments, with the special-purpose
  blocks of the registries given as prefixes, for every address, those that embed
  an IPv4 address included: each block but the eleven listed as unscreened is
  refused as a whole. `DialInv` then follows the two look-ups: whatever the first answered,
  the address dialled passed the screening resolver.
* `BackupRestore`: between the file and the row the artifact is there, and only
  its own worker can take it away (`FileInv`). A plan that is marked was marked by
  one restore, which has still to report or has reported, and nothing unmarks it
  (`PlanInv`): the conditional UPDATE decides between two that race.
* `AuditChain`: hashes and tags are free constructors, so a row whose own hash and
  tag check is, column by column, an entry the agent wrote (`AuthoredInv`: every
  entry is `WellMade`; `RowInv`: damage cannot make a tag, only move, drop or keep
  one). That is all `IntactIsAuthored` needs of a single row; that no two rows show
  the same entry, and that none is missing between the baseline and the head, comes
  from the order of seqs and from the count that the MACs of head and baseline
  commit to (`HeadInv`, `BaselineInv`, `CountInv`). `ModesSound` drops the tags or
  one end of the range and keeps what the remaining checks give. `NoFalseAlarm` and
  `TailLossNamed` are about what the verifier answers on a chain that is whole, or
  whole up to a point: `CleanInv` says what a table is before any damage, through
  appends, re-baselines, restarts and the change of key.
* `AgentProcess`: no task works in a process that is down (`ProcessInv`), and rows
  and head of a snapshot are of one moment (`SnapshotInv`).
* `KeyCustody`, `RollbackSafe` (`CustodyIInv`): the keystores are well formed
  (`StoreInv`; that an index lists an account once is what deletion relies on), a
  ceremony holds the keys it drew (`JobInv`), and a roll back follows a failing
  call, so that with one fault in all its own delete succeeded, and the copy in
  memory has no master that a later persist could bring back (`RollInv`).
* `KeyCustody`, `AckedKeyOpens` (`AckIInv`): what a ceremony has stored is what the
  keystore shows and, in the file keystore, what is on disk (`CeremonyInv`); an
  acknowledged key opens the keystore and its copy in memory (`AckedInv`), and from
  the moment a recovery overwrites the master nothing is acknowledged there.
* `KeyCustody`, `SoleKeyHeld` (`SoleIInv`): a backup is taken of a key in use
  (`UseInv`), so the first one that carries its own key settles the matter: backups
  are never deleted. Until then nobody can have recovered, entries of one init
  belong together (`KeysInv`) and each key in use opens a keystore on disk
  (`HeldInv`). What could overwrite it is an init; it starts only without a master
  in the copy it sees, and that copy opens whatever the file opens. What could put
  a key in use that is not on disk is an unseal from a copy the disk does not match;
  outside an init that may roll back, the disk opens what the copy opens
  (`DiskInv`). An init's own key is not in use before its genesis entry
  (`RequestsInv`), so its roll back loses nothing. TLC checked this invariant with
  two requests and three faults.
* `Policy`: the checks are a sequence; passing `Evaluate` means passing each of
  them (`AllChecksPass`).

The proofs by induction have one step per action and one case per conjunct that
the action can disturb; frame lemmas dispose of the rest. The inductive
invariants were checked with TLC on the instances above first.

Only model-checked:

* liveness (`CommandsReturn`, `ChangesGetBackedUp`, `CallsReturn`, `IdleSeals`,
  `ShutdownEnds`, `IdentityRevoked`): the prover does not reason about fairness;
* `SoleKeyHeld` when a backup gives back another key than its secrets are under:
  it then holds for one fault and not for two, and the run shows the case of one.

## Where code and documentation disagree

Two runs are findings of `PROJECT.json`. `viol_seal_stale_head`: seal reads the
pinned head before it takes the `audit_log` guard; an entry committed in between
makes the next append collide, and every append after it until the next seal or
restart, although `context.rs` says it never collides. `viol_key_state`: state and
key change under two locks, one after the other. The roll back of a failed unseal
wipes the key of one that ran in between, and the vault is Unsealed without a key;
with `Faults = {}`, two seals around an unseal leave it Sealed with the key.
`context.rs` says the key is there while unsealed and gone otherwise.

The following configurations reproduce further disagreements (TLC reports a
violation of the property named; `viol_store`, `viol_gateway` and `viol_custody`
hold several, which `tlc -continue` reports one after the other):

| Configuration (module) | Property | What happens |
|---|---|---|
| `viol_cancel_unsealing` (`MCVaultLifecycle`) | `UnsealingResolves` | a client that hangs up during unseal leaves the vault in Unsealing; neither unseal nor seal leaves it |
| `viol_hangup_gap` (`MCVaultLifecycle`) | `NeverOnLostTail` | a client that hangs up during the insert of its entry leaves the in-memory head ahead of the rows; the next entry links to a row that is not there, although `audit_commit` says "the next append never builds on a non-durable tail" |
| `viol_store` (`MCSecretStore`) | `OneActive` | a rotation whose two loads tear around another leaves two active versions; readers may pick the older |
| `viol_store` (`MCSecretStore`) | `DeletedStaysDeleted` | a rotation in flight writes a deleted secret back |
| `viol_store` (`MCSecretStore`) | `ChangesAudited` | store first, audit second: an error in between leaves a change without an entry |
| `viol_store` (`MCSecretStore`) | `ExcessPruned` | a rotation prunes its own copy and upserts the rest: excess versions stay stored, although `retention_policy.rs:53-55`, `secret-storage.md` and ADR-0014 have them deleted with the rotation |
| `viol_reveal_swap` (`MCReveal`) | `HighNeedsApproval` | the secret is loaded again after the decision: a high one put in place of a low one is returned without acknowledgment |
| `viol_custody` (`MCKeyCustody`) | `BackupCarriesItsKey` | a recovery wrap left by a failed ceremony goes into a backup whose secrets are under another key |
| `viol_custody` (`MCKeyCustody`) | `NeverHalfInitialised` | a genesis entry that fails, or a crash, leaves a master key that opens nothing and refuses the next init, although ADR-0021 says the ceremony "eliminates partial-completion windows" |
| `viol_pending_lost` (`MCBackupRestore`) | `PendingCounted` | the reset after a backup pass forgets a change made during it |
| `viol_gateway` (`MCGateway`) | `OwnKey` | a rotation under another namespace encrypts with that namespace's key |
| `viol_gateway` (`MCGateway`) | `RestoreConfirmed` | `vault_restore` takes an argument of the tool as the confirmation (`tools/backup.rs:118`, "the MCP operator gate (MERK-001)" at 143), which `lib.rs:80-85` says a model can forge |
| `viol_wedged_body` (`MCGateway`) | `CallsAlwaysReturn` | the body of an answer is read without a deadline, although `client.rs:125` says "a wedged daemon can never hang the caller indefinitely" |
| `viol_special_use` (`MCProxy`) | `DialsPublic` | 6to4, IPv4-compatible, documentation, local NAT64 and other special-purpose IPv6 addresses, and 192.88.99.0/24, are dialled, although `destination_policy.rs:13` asks for a public address and `:135` names "any non-public / internal / special-use address" |
| `viol_shutdown_hangs` (`MCAgentProcess`) | `ShutdownIsBounded` | a FIFO nobody reads, or a terminal prompt, keeps the process alive after the drain, although the README says "drain complete (30s hard timeout)" |
| `viol_shutdown_cuts` (`MCAgentProcess`) | `RequestsDrained` | a graceful shutdown does not wait for requests in flight, although `lifecycle.md` says so |

Other behaviour the models exhibit, for which no configuration is kept:

* Lifecycle: a seal that cannot read the pinned head leaves the vault Unsealed
  without a key; a re-baseline may pin another command's entry instead of its
  marker.
* Store: put on an existing handle is refused, although the README says overwrite.
* Files: the orphan sweep may remove a file whose command is about to return Ok; a
  FIFO's writer thread stays blocked once its path is unlinked; a tunnel's
  identity file stays on disk when the agent stops or crashes, or the client hangs
  up while waiting for the registry (ADR-0023).
* Keys: two concurrent disaster recoveries, or one racing an init, break
  `AckedKeyOpens`; an unseal racing a failing init breaks `SoleKeyHeld`; a failure
  at the recovery wrap leaves the wrap behind; the in-memory copy of the file
  keystore differs from the file after a failed persist; `auto` may choose another
  backend at the next boot.
* Backups: the anacron state is documented as persisted and lives in memory only;
  restore and disaster recovery do not count as changes; newest-wins compares
  creation times, which a rotation keeps; a plan made earlier overwrites secrets
  written since; a backup falls back to the v1 format silently; a change whose audit
  entry failed is not counted.
* Policy: `PolicyEvaluator`, which every operation "MUST pass through", is never
  called; the consumer gate is open for a namespace without a policy row; denials
  of the gate and of the kill switch are not audited; a bind, documented as
  deny-all, stores the Balanced profile, and two concurrent binds of one session
  both succeed.
* Clients: `merkle verify-recovery-key` posts to a route the router lacks; a sealed
  vault is answered with 412 while the clients expect 503, so it reaches them as a
  server error; `vault_ssh_shell` reports an unimplemented tool after ssh has run;
  the client's 30 s deadline ends reveals that wait for an operator.
* Proxy: `ssh_copy` ignores its direction; the lifetime of a port forward is
  ignored and closing any session kills all tunnels; a tunnel is live but unaudited
  when the vault is sealed in between; ssh is not killed on timeout or hang-up.
* Process: a seal between the verifier's check and its query sets the
  chain-integrity gauge to 0; an open scrape may hold the drain to its deadline; a
  second agent removes a live agent's socket.

## Not modelled

Cryptography (free constructors or fresh numbers); parsing of configuration and
requests beyond what decides a branch; the fields of DTOs, problem documents,
logs and the metrics; the audit webhook, which is fire and forget; FTS search,
listings, tags and bulk operations; unseal preconditions and JWT attestation,
which no caller in the agent reaches; platform keychain and SQLite beyond success
and failure; framing and peer credentials of the socket; the device table beyond
pair, list, revoke and the class a reveal asks for. No property is claimed for
the two races without a repair in the code (sweep against registration, blocked
FIFO thread).

## Plan

Done: every component with state of its own has a module and a run, and every
invariant, action property and refinement that a run checks is proved, under the
hypotheses named above. Liveness is left to TLC.
Worth doing next:

1. `SoleKeyHeld` for one fault without the hypothesis on backups.
2. An abstract append-only log, with `VaultLifecycle` shown to implement it from
   `ChainInv`.
3. Larger instances: two requests in `custody`, unequal lifetimes in `ephemeral`.
4. Bulk rotate and bulk copy on top of `SecretStore`.
