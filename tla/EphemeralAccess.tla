-------------------------- MODULE EphemeralAccess --------------------------
(***************************************************************************)
(* What the agent hands out for a short time: use-tokens in memory, and    *)
(* the tempfiles and FIFOs they buy, which live in memory (the registry)   *)
(* and on disk.  Clients issue tokens, materialize secrets, revoke files   *)
(* and close sessions; the reaper wakes up, removes what expired and       *)
(* sweeps the directory for files nobody registered.  All of it is cut at  *)
(* the .await points.                                                      *)
(*                                                                         *)
(* Time runs in ticks: a lifetime is the number of ticks that are left of  *)
(* it, 0 when it is over.  Random identifiers (use-tokens, opaque tokens)  *)
(* are drawn from finite pools and never drawn twice.  The handle of a     *)
(* request is abstracted to whether it is the one its token is bound to.   *)
(***************************************************************************)
EXTENDS Integers, FiniteSets

CONSTANTS
    Clients,      \* connections of the companion socket
    Tokens,       \* pool of use-token values
    Files,        \* pool of opaque tokens, each naming one path
    TokenTTL,     \* USE_TOKEN_TTL_SECS, in ticks
    FileTTL,      \* TEMPFILE_TTL_SECS and FIFO_TTL_SECS, in ticks
    Interval,     \* REAPER_INTERVAL, in ticks
    Kinds,        \* which of write_tempfile ("tmp"), write_fifo ("fifo") is used
    Faults,       \* which faults the environment may inject
    None          \* no token, no file

FaultKinds == {"audit", "crash", "cancel"}

ASSUME EphemeralAssumption ==
    /\ TokenTTL \in Nat \ {0} /\ FileTTL \in Nat \ {0} /\ Interval \in Nat \ {0}
    /\ None \notin Tokens \cup Files
    /\ Kinds \subseteq {"tmp", "fifo"}
    /\ Faults \subseteq FaultKinds

VARIABLES
    unsealed,     \* the vault is Unsealed and the HMAC key present
    tokens,       \* AppContext.use_tokens: token -> entry
    registry,     \* AppContext.tempfiles: opaque token -> ticks left
    disk,         \* paths under the temp dir
    writer,       \* writer[f]: the blocking thread that feeds FIFO f
    pc,           \* where each client is
    job,          \* job[c]: what its command works on
    reaper,       \* the reaper task
    drawn,        \* random values drawn so far
    grant,        \* history: grant[f], the request behind file f
    returned,     \* history: files whose command returned Ok
    failed,       \* history: files whose command returned an error
    idle          \* idle[f]: ticks f has been on disk with no command on it

mem == <<unsealed, tokens, registry>>
history == <<grant, returned, failed, idle>>
vars == <<mem, disk, writer, pc, job, reaper, drawn, history>>

Entry == [left : 0..TokenTTL, consumed : BOOLEAN]
Job == [token : Tokens \cup {None}, bound : BOOLEAN, kind : {"tmp", "fifo"},
        file : Files \cup {None}, left : 0..TokenTTL]
NoJob == [token |-> None, bound |-> FALSE,
          kind |-> "tmp", file |-> None, left |-> 0]
Labels == {"idle", "issue", "consume", "load", "audit", "unlink", "register",
           "unregister", "close"}
Asleep == [pc |-> "sleep", left |-> Interval, todo |-> {}, seen |-> {}]

Init ==
    /\ unsealed = TRUE
    /\ tokens = <<>> /\ registry = <<>>
    /\ disk = {}
    /\ writer = [f \in Files |-> "none"]
    /\ pc = [c \in Clients |-> "idle"]
    /\ job = [c \in Clients |-> NoJob]
    /\ reaper = Asleep
    /\ drawn = {}
    /\ grant = <<>> /\ returned = {} /\ failed = {}
    /\ idle = [f \in Files |-> 0]

-----------------------------------------------------------------------------
\* Helpers

At(c, l) == pc[c] = l
Goto(c, l) == pc' = [pc EXCEPT ![c] = l]
Return(c) == Goto(c, "idle") /\ job' = [job EXCEPT ![c] = NoJob]
Put(fn, k, v) == [x \in DOMAIN fn \cup {k} |-> IF x = k THEN v ELSE fn[x]]
Drop(fn, ks) == [x \in DOMAIN fn \ ks |-> fn[x]]

\* A command is working on file f and will register or unlink it.
InFlight(f) == \E c \in Clients :
    job[c].file = f /\ pc[c] \in {"audit", "unlink", "register"}

-----------------------------------------------------------------------------
\* UseTokenCommand: the lifetime starts before the audit entry is written,
\* the token is usable only after.

Issue(c) ==
    /\ At(c, "idle") /\ unsealed
    /\ \E t \in Tokens \ drawn :
         /\ job' = [job EXCEPT ![c] = [NoJob EXCEPT !.token = t, !.left = TokenTTL]]
         /\ drawn' = drawn \cup {t}
    /\ Goto(c, "issue")
    /\ UNCHANGED <<mem, disk, writer, reaper, history>>

RegisterUseToken(c) ==
    /\ At(c, "issue") /\ unsealed
    /\ tokens' = Put(tokens, job[c].token, [left |-> job[c].left, consumed |-> FALSE])
    /\ Return(c)
    /\ UNCHANGED <<unsealed, registry, disk, writer, reaper, drawn, history>>

\* No HMAC key any more, or the audit entry was refused.
IssueFails(c) ==
    /\ At(c, "issue") /\ (~unsealed \/ "audit" \in Faults)
    /\ Return(c)
    /\ UNCHANGED <<mem, disk, writer, reaper, drawn, history>>

-----------------------------------------------------------------------------
\* WriteTempfileCommand and WriteFifoCommand, which differ from the creation
\* of the path on (kind)

Materialize(c) ==
    /\ At(c, "idle") /\ unsealed
    /\ \E t \in drawn \cap Tokens, b \in BOOLEAN :
         job' = [job EXCEPT ![c] = [NoJob EXCEPT !.token = t, !.bound = b]]
    /\ Goto(c, "consume")
    /\ UNCHANGED <<mem, disk, writer, reaper, drawn, history>>

\* consume_use_token: known, bound to this handle, not expired, not consumed;
\* all under one write guard.
Consumable(t, bound) ==
    /\ t \in DOMAIN tokens /\ bound
    /\ tokens[t].left > 0 /\ ~tokens[t].consumed

ConsumeUseToken_NoMark(c) ==
    /\ At(c, "consume")
    /\ Consumable(job[c].token, job[c].bound)
    /\ Goto(c, "load")
    /\ UNCHANGED <<unsealed, tokens, registry, disk, writer, job, reaper, drawn, history>>

ConsumeUseToken(c) ==
    /\ At(c, "consume")
    /\ IF Consumable(job[c].token, job[c].bound)
         THEN /\ tokens' = [tokens EXCEPT ![job[c].token].consumed = TRUE]
              /\ Goto(c, "load") /\ UNCHANGED job
         ELSE UNCHANGED tokens /\ Return(c)
    /\ UNCHANGED <<unsealed, registry, disk, writer, reaper, drawn, history>>

\* The secret is gone, or the file cannot be created.
LoadFails(c) ==
    /\ At(c, "load") /\ "audit" \in Faults
    /\ Return(c)
    /\ UNCHANGED <<mem, disk, writer, reaper, drawn, history>>

CreateFile(c) ==
    /\ At(c, "load")
    /\ \E f \in Files \ drawn, k \in Kinds :
         /\ disk' = disk \cup {f}
         /\ drawn' = drawn \cup {f}
         /\ job' = [job EXCEPT ![c].file = f, ![c].kind = k]
         /\ grant' = Put(grant, f, [token |-> job[c].token, bound |-> job[c].bound])
    /\ Goto(c, "audit")
    /\ UNCHANGED <<mem, writer, reaper, returned, failed, idle>>

AuditFails_Return(c) ==
    /\ At(c, "audit") /\ (~unsealed \/ "audit" \in Faults)
    /\ failed' = failed \cup {job[c].file}
    /\ Return(c)
    /\ UNCHANGED <<mem, disk, writer, reaper, drawn, grant, returned, idle>>

\* A failed write, a missing key or a refused entry: the file is removed
\* before the error is returned.
AuditFails(c) ==
    /\ At(c, "audit") /\ (~unsealed \/ "audit" \in Faults)
    /\ Goto(c, "unlink")
    /\ UNCHANGED <<mem, disk, writer, job, reaper, drawn, history>>

UnlinkFile(c) ==
    /\ At(c, "unlink")
    /\ disk' = disk \ {job[c].file}
    /\ failed' = failed \cup {job[c].file}
    /\ Return(c)
    /\ UNCHANGED <<mem, writer, reaper, drawn, grant, returned, idle>>

\* The entry is durable.  A FIFO gets its writer thread in the same step.
AuditOk(c) ==
    /\ At(c, "audit") /\ unsealed
    /\ writer' = IF job[c].kind = "fifo" THEN [writer EXCEPT ![job[c].file] = "spawned"]
                 ELSE writer
    /\ Goto(c, "register")
    /\ UNCHANGED <<mem, disk, job, reaper, drawn, history>>

RegisterTempfile(c) ==
    /\ At(c, "register")
    /\ registry' = Put(registry, job[c].file, FileTTL)
    /\ returned' = returned \cup {job[c].file}
    /\ Return(c)
    /\ UNCHANGED <<unsealed, tokens, disk, writer, reaper, drawn,
                   grant, failed, idle>>

-----------------------------------------------------------------------------
\* The FIFO's writer thread: open for writing (fails when the path is gone),
\* wait for a reader, write, remove the path.  It cannot be aborted.

WriterOpens(f) ==
    /\ writer[f] = "spawned"
    /\ writer' = [writer EXCEPT ![f] = IF f \in disk THEN "blocked" ELSE "none"]
    /\ UNCHANGED <<mem, disk, pc, job, reaper, drawn, history>>

\* A consumer opens the FIFO by its path; the thread writes, unlinks and ends.
WriterDelivers(f) ==
    /\ writer[f] = "blocked" /\ f \in disk
    /\ writer' = [writer EXCEPT ![f] = "none"]
    /\ disk' = disk \ {f}
    /\ UNCHANGED <<mem, pc, job, reaper, drawn, history>>

-----------------------------------------------------------------------------
\* RevokeTempfileCommand (its audit entry comes last and changes nothing here)

RevokeUnlink(c) ==
    /\ At(c, "idle") /\ unsealed
    /\ \E f \in returned :
         /\ disk' = disk \ {f}
         /\ job' = [job EXCEPT ![c] = [NoJob EXCEPT !.file = f]]
    /\ Goto(c, "unregister")
    /\ UNCHANGED <<mem, writer, reaper, drawn, history>>

UnregisterTempfile(c) ==
    /\ At(c, "unregister")
    /\ registry' = Drop(registry, {job[c].file})
    /\ Return(c)
    /\ UNCHANGED <<unsealed, tokens, disk, writer, reaper, drawn, history>>

\* close_session_state: the tokens under one guard, then the registry and its
\* files under another.  Every session's, in the one-client phase (ADR-0042).
CloseTokens(c) ==
    /\ At(c, "idle")
    /\ tokens' = <<>>
    /\ job' = [job EXCEPT ![c] = NoJob]
    /\ Goto(c, "close")
    /\ UNCHANGED <<unsealed, registry, disk, writer, reaper, drawn, history>>

CloseTempfiles(c) ==
    /\ At(c, "close")
    /\ disk' = disk \ DOMAIN registry
    /\ registry' = <<>>
    /\ Return(c)
    /\ UNCHANGED <<unsealed, tokens, writer, reaper, drawn, history>>

-----------------------------------------------------------------------------
\* tempfile_reaper_task: sleep, reap_expired_tempfiles, sweep_orphan_tempfiles

Expired == {f \in DOMAIN registry : registry[f] = 0}

ReapStart ==
    /\ reaper.pc = "sleep" /\ reaper.left = 0
    /\ reaper' = [reaper EXCEPT !.pc = "reap", !.todo = Expired]
    /\ UNCHANGED <<mem, disk, writer, pc, job, drawn, history>>

ReapUnlink ==
    /\ reaper.pc = "reap"
    /\ \E f \in reaper.todo :
         /\ disk' = disk \ {f}
         /\ registry' = Drop(registry, {f})
         /\ reaper' = [reaper EXCEPT !.todo = @ \ {f}]
    /\ UNCHANGED <<unsealed, tokens, writer, pc, job, drawn, history>>

SweepStart_SeenIsDisk ==
    /\ reaper.pc = "reap" /\ reaper.todo = {}
    /\ reaper' = [reaper EXCEPT !.pc = "sweep", !.todo = disk, !.seen = disk]
    /\ UNCHANGED <<mem, disk, writer, pc, job, drawn, history>>

\* The directory is opened, then the registered paths are copied.
SweepStart ==
    /\ reaper.pc = "reap" /\ reaper.todo = {}
    /\ reaper' = [reaper EXCEPT !.pc = "sweep", !.todo = disk, !.seen = DOMAIN registry]
    /\ UNCHANGED <<mem, disk, writer, pc, job, drawn, history>>

\* next_entry yields every path that was there when the directory was opened
\* and possibly some created since; it is removed unless in the copy.
SweepEntry ==
    /\ reaper.pc = "sweep"
    /\ \E f \in reaper.todo \cup disk :
         /\ disk' = IF f \in reaper.seen THEN disk ELSE disk \ {f}
         /\ reaper' = [reaper EXCEPT !.todo = @ \ {f}]
    /\ UNCHANGED <<mem, writer, pc, job, drawn, history>>

SweepDone ==
    /\ reaper.pc = "sweep" /\ reaper.todo = {}
    /\ reaper' = Asleep
    /\ UNCHANGED <<mem, disk, writer, pc, job, drawn, history>>

-----------------------------------------------------------------------------
\* The lifecycle (VaultLifecycle) leaves tokens and files alone.
Seal == unsealed /\ unsealed' = FALSE
        /\ UNCHANGED <<tokens, registry, disk, writer, pc, job, reaper, drawn, history>>
Unseal == ~unsealed /\ unsealed' = TRUE
        /\ UNCHANGED <<tokens, registry, disk, writer, pc, job, reaper, drawn, history>>

\* The process dies and boots again: the files stay, all else is gone, and the
\* reaper starts with a full sleep.
Restart ==
    /\ "crash" \in Faults
    /\ unsealed' = FALSE /\ tokens' = <<>> /\ registry' = <<>>
    /\ writer' = [f \in Files |-> "none"]
    /\ pc' = [c \in Clients |-> "idle"]
    /\ job' = [c \in Clients |-> NoJob]
    /\ reaper' = Asleep
    /\ idle' = [f \in Files |-> 0]
    /\ UNCHANGED <<disk, drawn, grant, returned, failed>>

\* The peer hangs up: the command stops where it is.
Cancel(c) ==
    /\ "cancel" \in Faults /\ ~At(c, "idle")
    /\ Return(c)
    /\ UNCHANGED <<mem, disk, writer, reaper, drawn, history>>

\* A tick passes.  The reaper's timer fires when due and its pass takes less
\* than a tick; a client's command may take any number of them.
Less(n) == IF n = 0 THEN 0 ELSE n - 1
Tick ==
    /\ reaper.pc = "sleep" /\ reaper.left > 0
    /\ reaper' = [reaper EXCEPT !.left = @ - 1]
    /\ tokens' = [t \in DOMAIN tokens |-> [tokens[t] EXCEPT !.left = Less(@)]]
    /\ registry' = [f \in DOMAIN registry |-> Less(registry[f])]
    /\ job' = [c \in Clients |-> [job[c] EXCEPT !.left = Less(@)]]
    /\ idle' = [f \in Files |-> IF f \in disk /\ ~InFlight(f) THEN idle[f] + 1 ELSE 0]
    /\ UNCHANGED <<unsealed, disk, writer, pc, drawn, grant, returned, failed>>

-----------------------------------------------------------------------------
Request(c) == Issue(c) \/ Materialize(c) \/ RevokeUnlink(c) \/ CloseTokens(c)

Run(c) ==
    \/ RegisterUseToken(c) \/ IssueFails(c)
    \/ ConsumeUseToken(c) \/ LoadFails(c) \/ CreateFile(c)
    \/ AuditFails(c) \/ UnlinkFile(c) \/ AuditOk(c) \/ RegisterTempfile(c)
    \/ UnregisterTempfile(c) \/ CloseTempfiles(c)

Reaper == ReapStart \/ ReapUnlink \/ SweepStart \/ SweepEntry \/ SweepDone

Next ==
    \/ \E c \in Clients : Request(c) \/ Run(c) \/ Cancel(c)
    \/ \E f \in Files : WriterOpens(f) \/ WriterDelivers(f)
    \/ Reaper \/ Tick
    \/ Seal \/ Unseal \/ Restart

Spec == Init /\ [][Next]_vars

-----------------------------------------------------------------------------
\* Properties

\* Types of the registries, of the files on disk and of the commands' steps.
TypeOK ==
    /\ unsealed \in BOOLEAN
    /\ DOMAIN tokens \subseteq Tokens /\ \A t \in DOMAIN tokens : tokens[t] \in Entry
    /\ DOMAIN registry \subseteq Files /\ \A f \in DOMAIN registry : registry[f] \in 0..FileTTL
    /\ disk \subseteq Files
    /\ writer \in [Files -> {"none", "spawned", "blocked"}]
    /\ pc \in [Clients -> Labels]
    /\ job \in [Clients -> Job]
    /\ reaper \in [pc : {"sleep", "reap", "sweep"}, left : 0..Interval,
                   todo : SUBSET Files, seen : SUBSET Files]
    /\ drawn \subseteq Tokens \cup Files
    /\ DOMAIN grant \subseteq Files
    /\ returned \subseteq Files /\ failed \subseteq Files
    /\ idle \in [Files -> Nat]

\* One token buys at most one file, of the handle it was issued for, however
\* many commands present it at the same time (BUG-01 of the security audit).
SingleUse ==
    /\ \A f, g \in DOMAIN grant : grant[f].token = grant[g].token => f = g
    /\ \A f \in DOMAIN grant : grant[f].bound

\* The same on well-typed registries: the invariant of the token path.
TokensSafe == TypeOK /\ SingleUse

\* A command that returned an error has left no plaintext behind, whichever of
\* its steps failed and whatever sealed the vault meanwhile (BUG-07, BUG-09).
NothingLeftBehind == failed \cap disk = {}

\* However a file was lost track of, it is off the disk within one lifetime
\* and one reaper period of agent uptime once no command works on it.
RetentionBound == \A f \in disk : idle[f] <= FileTTL + Interval
=============================================================================
