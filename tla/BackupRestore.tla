--------------------------- MODULE BackupRestore ---------------------------
(***************************************************************************)
(* Backups and restores.  The scheduler polls, decides from the anacron    *)
(* state whether a backup is due and backs the namespaces up one by one;   *)
(* clients write secrets, take manual backups, preview a restore as a      *)
(* durable plan and apply it.  All of it is cut at the .await points, the  *)
(* agent may restart anywhere and a storage or file operation may fail.    *)
(*                                                                         *)
(* A secret is its content version and the moment it was created, both     *)
(* numbered by one counter; a rotation keeps the moment.  Time runs in     *)
(* ticks that saturate at the limits the code compares with.  An artifact  *)
(* is named by its writer and the data it holds; nobody tampers with it.   *)
(***************************************************************************)
EXTENDS Integers, FiniteSets

CONSTANTS
    Clients,      \* requests of the companion socket
    Writers,      \* the ones that write secrets and take backups
    Spaces,       \* namespaces
    Default,      \* the first one, which manual backups and restores use
    Handles,      \* secrets
    Home,         \* Home[h]: the namespace of h
    Writable,     \* the handles clients write
    Suffixed,     \* Suffixed[h]: the handle "h-restored", or None
    Plans,        \* pool of restore plan ids
    Modes,        \* restore modes clients ask for
    Threshold,    \* change_threshold
    IdleTicks,    \* idle_timeout_minutes, in ticks
    Interval,     \* max_interval_hours, in ticks
    PlanTTL,      \* PLAN_EXPIRY_MINUTES, in ticks
    MaxVer,       \* bound: writes
    MaxFaults,    \* bound: operations that fail, and restarts
    None

ASSUME BackupAssumption ==
    /\ Writers \subseteq Clients /\ Default \in Spaces /\ Home \in [Handles -> Spaces]
    /\ Writable \subseteq Handles /\ None \notin Handles \cup Plans \cup Spaces
    /\ Suffixed \in [Handles -> Handles \cup {None}]
    /\ Modes \subseteq {"overwrite", "newest_wins", "merge"}
    /\ {Threshold, IdleTicks, Interval, PlanTTL} \subseteq Nat \ {0}
    /\ {MaxVer, MaxFaults} \subseteq Nat

Scheduler == "scheduler"
Workers == Clients \cup {Scheduler}

VARIABLES
    live,         \* secrets in the database: handle -> secret
    now,          \* versions handed out
    unsealed,
    anacron,      \* AppContext.anacron, kept in memory
    quiet,        \* last_activity is at least one poll ago
    todo,         \* namespaces the running check has still to back up
    done,         \* namespaces it has backed up; any_ok is done # {}
    files,        \* artifacts in the backup directory
    rows,         \* the backups table
    plans,        \* the restore_plans table
    pc, job,      \* each worker's place and locals
    faults,
    acks,         \* history: restores of each plan that reported success
    miss          \* history: why no pass need know of the last change of a handle

mem == <<unsealed, anacron, quiet, todo, done>>
db == <<live, now, rows, plans>>
vars == <<mem, db, files, pc, job, faults, acks, miss>>

Absent == [ver |-> 0, born |-> 0]
Secret == [ver : 0..MaxVer, born : 0..MaxVer]
Artifact == [space : Spaces, data : [Handles -> Secret], by : Workers]
Resolutions == {"none", "existing", "backup", "both"}
Plan == [data : [Handles -> Secret], res : [Handles -> Resolutions],
         left : 0..PlanTTL, applied : BOOLEAN]

ASSUME NoneAssumption == None \notin Plan /\ Scheduler \notin Clients

\* AnacronState: `since` is the time since last_backup_at, Interval when
\* there is none or it is overdue; `idle` is -1 when no window is open.
Fresh == [since |-> Interval, changes |-> 0, idle |-> -1]
NoData == [h \in Handles |-> Absent]
NoJob == [space |-> None, data |-> NoData, plan |-> None, left |-> {},
          seen |-> {}]

Init ==
    /\ live = NoData /\ now = 0 /\ unsealed = TRUE
    /\ anacron = Fresh /\ quiet = FALSE /\ todo = {} /\ done = {}
    /\ files = {} /\ rows = {}
    /\ plans = [p \in Plans |-> None]
    /\ pc = [w \in Workers |-> "idle"] /\ job = [w \in Workers |-> NoJob]
    /\ faults = 0
    /\ acks = [p \in Plans |-> 0] /\ miss = [h \in Handles |-> "none"]

Held(s) == {h \in Handles : live[h] # Absent /\ Home[h] = s}
Fault == faults < MaxFaults /\ faults' = faults + 1
Goto(w, l) == pc' = [pc EXCEPT ![w] = l] /\ UNCHANGED job
Start(w, l, j) == pc' = [pc EXCEPT ![w] = l] /\ job' = [job EXCEPT ![w] = j]
Return(w) == Start(w, "idle", NoJob)

\* touch_activity, which every request runs before its handler.
Touched(a) == [a EXCEPT !.idle = -1]
Touch == anacron' = Touched(anacron) /\ quiet' = FALSE

-----------------------------------------------------------------------------
\* Secret writes, and the change counter they bump at their end.

\* Why the scheduler may never learn of the change a secret is from: it was made
\* "during" a pass, or it is "lost": never counted, counted before a restart, or
\* before a pass that failed for its namespace and reset the counter.
Reasons == {"none", "during", "lost"}
Missed(hs, why) ==
    miss' = [h \in Handles |-> IF live'[h] = Absent THEN "none" ELSE IF h \in hs THEN why ELSE miss[h]]

Write(c, h) ==
    /\ pc[c] = "idle" /\ unsealed /\ now < MaxVer /\ h \in Writable
    /\ now' = now + 1
    /\ live' \in {[live EXCEPT ![h] =
                      [ver |-> now + 1,
                       born |-> IF live[h] = Absent THEN now + 1 ELSE live[h].born]],
                  [live EXCEPT ![h] = Absent]} \ {live}
    /\ Start(c, "count", [NoJob EXCEPT !.left = {h}]) /\ Touch
    /\ Missed({h}, IF pc[Scheduler] = "idle" THEN "none" ELSE "during")
    /\ UNCHANGED <<unsealed, todo, done, files, rows, plans, faults, acks>>

RecordChange(c) ==
    /\ pc[c] = "count"
    /\ anacron' = [anacron EXCEPT
           !.changes = IF @ < Threshold THEN @ + 1 ELSE @]
    /\ Return(c)
    /\ UNCHANGED <<unsealed, quiet, todo, done, db, files, faults, acks, miss>>

\* The vault was sealed after the write, the audit entry failed, or the client
\* hung up: the command ends before it counts the change.
Uncounted(c) ==
    /\ pc[c] = "count" /\ Return(c)
    /\ UNCHANGED <<mem, db, files, faults, acks>>
    /\ Missed(job[c].left, "lost")

\* Any other request: it only shows that somebody is there.
Request(c) ==
    /\ pc[c] = "idle" /\ Touch
    /\ UNCHANGED <<unsealed, todo, done, db, files, pc, job, faults, acks, miss>>

-----------------------------------------------------------------------------
\* The scheduler: run_backup_check

OpenWindow(a) == IF quiet /\ a.idle = -1 THEN [a EXCEPT !.idle = 0] ELSE a

ShouldTrigger(a) ==
    \/ a.changes >= Threshold
    \/ a.idle >= IdleTicks /\ a.changes > 0
    \/ a.since >= Interval /\ a.changes > 0

Poll ==
    /\ pc[Scheduler] = "idle" /\ unsealed
    /\ LET a == OpenWindow(anacron) IN
       /\ anacron' = a
       /\ IF ShouldTrigger(a)
          THEN /\ Goto(Scheduler, "next") /\ todo' = Spaces /\ done' = {}
          ELSE UNCHANGED <<pc, job, todo, done>>
    /\ UNCHANGED <<unsealed, quiet, db, files, faults, acks, miss>>

\* One namespace after the other; an empty one, or a failure, is skipped.
NextSpace ==
    /\ pc[Scheduler] = "next" /\ todo # {}
    /\ \E s \in todo :
        /\ todo' = todo \ {s}
        /\ IF Held(s) = {} THEN UNCHANGED <<pc, job>>
           ELSE Start(Scheduler, "gather", [NoJob EXCEPT !.space = s])
    /\ UNCHANGED <<unsealed, anacron, quiet, done, db, files, faults, acks, miss>>

Completed_Always ==
    /\ pc[Scheduler] = "next" /\ todo = {}
    /\ anacron' = [since |-> 0, changes |-> 0, idle |-> -1]
    /\ Return(Scheduler)
    /\ UNCHANGED <<unsealed, quiet, todo, done, db, files, faults, acks>>
    /\ Missed(IF done = {} THEN {} ELSE {h \in Handles : Home[h] \notin done}, "lost")

\* One namespace that was backed up resets the counter of all.
Completed ==
    /\ pc[Scheduler] = "next" /\ todo = {}
    /\ anacron' = IF done # {} THEN [since |-> 0, changes |-> 0, idle |-> -1] ELSE anacron
    /\ Return(Scheduler)
    /\ UNCHANGED <<unsealed, quiet, todo, done, db, files, faults, acks>>
    /\ Missed(IF done = {} THEN {} ELSE {h \in Handles : Home[h] \notin done}, "lost")

-----------------------------------------------------------------------------
\* TriggerBackupCommand, run by the scheduler and by POST /v1/backup

Manual(c) ==
    /\ pc[c] = "idle" /\ Held(Default) # {}
    /\ Start(c, "gather", [NoJob EXCEPT !.space = Default]) /\ Touch
    /\ UNCHANGED <<unsealed, todo, done, db, files, faults, acks, miss>>

Leave(w) == Start(w, IF w = Scheduler THEN "next" ELSE "idle", NoJob)

\* The secrets are read; what follows works on that copy.
Gather(w) ==
    /\ pc[w] = "gather"
    /\ \/ /\ unsealed /\ Held(job[w].space) # {}
          /\ Start(w, "persist", [job[w] EXCEPT !.data =
                 [h \in Handles |-> IF h \in Held(job[w].space)
                                    THEN live[h] ELSE Absent]])
       \/ (~ unsealed \/ Held(job[w].space) = {}) /\ Leave(w)
    /\ UNCHANGED <<mem, db, files, faults, acks, miss>>

TheArtifact(w) == [space |-> job[w].space, data |-> job[w].data, by |-> w]

Persist_Late(w) ==
    /\ pc[w] = "persist"
    /\ \/ unsealed /\ Goto(w, "row") /\ UNCHANGED <<files, faults>>
       \/ ~ unsealed /\ Leave(w) /\ UNCHANGED <<files, faults>>
       \/ unsealed /\ Fault /\ Leave(w) /\ UNCHANGED files
    /\ UNCHANGED <<mem, db, acks, miss>>

\* Sealing in between takes the HMAC key away; the write is tmp + rename.
Persist(w) ==
    /\ pc[w] = "persist"
    /\ \/ /\ unsealed /\ files' = files \cup {TheArtifact(w)}
          /\ Goto(w, "row") /\ UNCHANGED faults
       \/ ~ unsealed /\ Leave(w) /\ UNCHANGED <<files, faults>>
       \/ unsealed /\ Fault /\ Leave(w) /\ UNCHANGED files
    /\ UNCHANGED <<mem, db, acks, miss>>

\* put_backup; when it fails the artifact is removed again (not one that
\* the same worker made earlier of the same data, which is another file).
Row(w) ==
    /\ pc[w] = "row"
    /\ \/ /\ rows' = rows \cup {TheArtifact(w)} /\ Goto(w, "audit")
          /\ UNCHANGED <<files, faults>>
       \/ /\ Fault /\ Leave(w)
          /\ files' = files \ ({TheArtifact(w)} \ rows) /\ UNCHANGED rows
    /\ UNCHANGED <<mem, live, now, plans, acks, miss>>

AuditBackup(w) ==
    /\ pc[w] = "audit"
    /\ Leave(w)
    /\ \/ /\ done' = IF w = Scheduler THEN done \cup {job[w].space} ELSE done
          /\ UNCHANGED faults
       \/ Fault /\ UNCHANGED done
    /\ UNCHANGED <<unsealed, anacron, quiet, todo, db, files, acks, miss>>

-----------------------------------------------------------------------------
\* RestorePlanCommand: the plan compares creation times of what is live now.

Resolve(mode, backup, existing) ==
    CASE mode = "merge" -> "both"
      [] mode = "overwrite" ->
             IF backup.born >= existing.born THEN "backup" ELSE "existing"
      [] mode = "newest_wins" ->
             IF existing.born >= backup.born THEN "existing" ELSE "backup"

MakePlan(c, p, b, mode) ==
    /\ pc[c] = "idle" /\ unsealed
    /\ plans[p] = None /\ b \in files /\ b.space = Default
    /\ plans' = [plans EXCEPT ![p] =
           [data |-> b.data, left |-> PlanTTL, applied |-> FALSE,
            res |-> [h \in Handles |->
                IF b.data[h] # Absent /\ live[h] # Absent
                THEN Resolve(mode, b.data[h], live[h]) ELSE "none"]]]
    /\ Touch
    /\ UNCHANGED <<unsealed, todo, done, live, now, rows, files, pc, job,
                   faults, acks, miss>>

-----------------------------------------------------------------------------
\* ExecuteRestoreCommand

\* Expired and applied plans are refused; then the backup is opened and the
\* live handles are listed.
ExecuteRestore(c, p) ==
    /\ pc[c] = "idle" /\ unsealed
    /\ plans[p] # None /\ plans[p].left > 0 /\ ~ plans[p].applied
    /\ Start(c, "restore", [NoJob EXCEPT !.plan = p,
           !.left = {h \in Handles : plans[p].data[h] # Absent},
           !.seen = Held(Default)])
    /\ Touch
    /\ UNCHANGED <<unsealed, todo, done, db, files, faults, acks, miss>>

\* Where the copy of handle h goes, None when it is not written.
Target(j, h) ==
    LET r == plans[j.plan].res[h] IN
    CASE r \in {"none", "backup"} -> h
      [] r = "existing" -> None
      [] r = "both" -> IF Suffixed[h] \in j.seen THEN None ELSE Suffixed[h]

\* put_secret, one secret at a time; the first error ends the restore. What it
\* writes is not counted as a change.
RestoreOne(c) ==
    /\ pc[c] = "restore"
    /\ \E h \in job[c].left :
        LET t == Target(job[c], h) IN
        \/ /\ Start(c, "restore", [job[c] EXCEPT !.left = @ \ {h}])
           /\ live' = IF t = None THEN live
                      ELSE [live EXCEPT ![t] = plans[job[c].plan].data[h]]
           /\ Missed({t}, "lost") /\ UNCHANGED faults
        \/ t # None /\ Fault /\ Return(c) /\ UNCHANGED <<live, miss>>
    /\ UNCHANGED <<mem, now, rows, plans, files, acks>>

Applied_Blind(c) ==
    /\ pc[c] = "restore" /\ job[c].left = {}
    /\ plans' = [plans EXCEPT ![job[c].plan].applied = TRUE]
    /\ Goto(c, "restored")
    /\ UNCHANGED <<mem, live, now, rows, files, faults, acks, miss>>

\* mark_restore_plan_applied: one UPDATE, which finds the plan not applied; it
\* may fail.
Applied(c) ==
    /\ pc[c] = "restore" /\ job[c].left = {}
    /\ IF plans[job[c].plan].applied
       THEN Return(c) /\ UNCHANGED <<plans, faults>>
       ELSE \/ /\ plans' = [plans EXCEPT ![job[c].plan].applied = TRUE]
               /\ Goto(c, "restored") /\ UNCHANGED faults
            \/ Fault /\ Return(c) /\ UNCHANGED plans
    /\ UNCHANGED <<mem, live, now, rows, files, acks, miss>>

AuditRestore(c) ==
    /\ pc[c] = "restored"
    /\ Return(c)
    /\ \/ acks' = [acks EXCEPT ![job[c].plan] = @ + 1] /\ UNCHANGED faults
       \/ Fault /\ UNCHANGED acks
    /\ UNCHANGED <<mem, db, files, miss>>

-----------------------------------------------------------------------------
\* Time, sealing, restarts

Older(p) == IF p = None \/ p.left = 0 THEN p ELSE [p EXCEPT !.left = @ - 1]

Tick ==
    /\ anacron' = [anacron EXCEPT
           !.since = IF @ < Interval THEN @ + 1 ELSE @,
           !.idle = IF @ \in 0..(IdleTicks - 1) THEN @ + 1 ELSE @]
    /\ quiet' = TRUE
    /\ plans' = [p \in Plans |-> Older(plans[p])]
    /\ UNCHANGED <<unsealed, todo, done, live, now, rows, files, pc, job,
                   faults, acks, miss>>

SealOrUnseal ==
    /\ unsealed' = ~ unsealed
    /\ UNCHANGED <<anacron, quiet, todo, done, db, files, pc, job, faults, acks, miss>>

\* The anacron state is not read back: a restart starts it afresh.
Restart ==
    /\ Fault
    /\ unsealed' = FALSE /\ anacron' = Fresh /\ quiet' = FALSE
    /\ todo' = {} /\ done' = {}
    /\ pc' = [w \in Workers |-> "idle"] /\ job' = [w \in Workers |-> NoJob]
    /\ UNCHANGED <<db, files, acks>>
    /\ Missed(Handles, "lost")

Backup(w) == Gather(w) \/ Persist(w) \/ Row(w) \/ AuditBackup(w)
Schedule == Poll \/ NextSpace \/ Completed \/ Backup(Scheduler)

Next ==
    \/ Schedule \/ Tick \/ SealOrUnseal \/ Restart
    \/ \E c \in Clients :
        \/ c \in Writers /\ (Manual(c) \/ \E h \in Handles : Write(c, h))
        \/ RecordChange(c) \/ Uncounted(c) \/ Request(c) \/ Backup(c)
        \/ \E p \in Plans :
            \/ \E b \in rows, mode \in Modes : MakePlan(c, p, b, mode)
            \/ ExecuteRestore(c, p)
        \/ RestoreOne(c) \/ Applied(c) \/ AuditRestore(c)

\* The scheduler task polls for ever and time passes; a handler that runs
\* is not abandoned.
Fairness ==
    /\ WF_vars(Schedule) /\ WF_vars(Tick)
    /\ \A c \in Clients : WF_vars(RecordChange(c) \/ Uncounted(c))

Spec == Init /\ [][Next]_vars /\ Fairness

-----------------------------------------------------------------------------
\* Properties

\* Types; only the scheduler walks the namespaces, only clients restore.
TypeOK ==
    /\ live \in [Handles -> Secret] /\ now \in 0..MaxVer
    /\ unsealed \in BOOLEAN /\ quiet \in BOOLEAN
    /\ anacron \in [since : 0..Interval, changes : 0..Threshold, idle : -1..IdleTicks]
    /\ todo \subseteq Spaces /\ done \subseteq Spaces
    /\ files \subseteq Artifact /\ rows \subseteq Artifact
    /\ plans \in [Plans -> Plan \cup {None}]
    /\ pc[Scheduler] \in {"idle", "next", "gather", "persist", "row", "audit"}
    /\ \A c \in Clients : pc[c] \in {"idle", "count", "gather", "persist",
                                     "row", "audit", "restore", "restored"}
    /\ \A w \in Workers :
        /\ pc[w] \in {"idle", "next"} => job[w] = NoJob
        /\ pc[w] \in {"persist", "row", "audit"} =>
             \E h \in Handles : job[w].data[h] # Absent
        /\ pc[w] \in {"restore", "restored"} => plans[job[w].plan] # None
    /\ faults \in 0..MaxFaults /\ miss \in [Handles -> Reasons]

\* Every backup the database lists has its artifact in the directory, so a
\* restore can open what it is offered, whatever failed or crashed between
\* the file and the row.
RowsHaveArtifacts == rows \subseteq files

\* The same, on a well-typed state: what the table lists can be restored.
BackupsSound == TypeOK /\ RowsHaveArtifacts

\* Two applications of one plan, racing or retried after an error or a
\* restart, never both report success.
RestoreOnce == \A p \in Plans : acks[p] <= 1

\* Some listed backup holds the secret as it is now.
Saved(h) == \E b \in rows : b.data[h] = live[h]
Owed(h) == live[h] # Absent /\ ~ Saved(h)

\* A change is in a backup in the end: while the vault stays unsealed and
\* nothing fails any more, a secret that was changed and counted while no pass
\* was running reaches a listed backup in its latest version, or is deleted.
\* Requests that keep the vault busy, a pass that failed and seals and faults
\* before do not lose it. (What the scheduler may miss is in Reasons.)
ChangesGetBackedUp ==
    <>[](unsealed /\ faults = MaxFaults) =>
        \A h \in Handles : (Owed(h) /\ miss[h] = "none") ~> (~ Owed(h) \/ miss[h] # "none")

\* The counter tells what is not backed up: with no change pending, every live
\* secret whose change was counted is in some backup.
PendingCounted ==
    (anacron.changes = 0 /\ \A c \in Clients : pc[c] # "count") =>
        \A h \in Writable : miss[h] \in {"none", "during"} => ~ Owed(h)
=============================================================================
