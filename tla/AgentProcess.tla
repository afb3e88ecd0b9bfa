---------------------------- MODULE AgentProcess ----------------------------
(***************************************************************************)
(* The merkle-agent daemon: start-up, the companion socket and the           *)
(* connections it accepts, the background tasks that share its state, and    *)
(* the shutdown that cancels them and drains for a limited time. Two of the  *)
(* tasks act on the vault and are modelled step by step: the idle re-lock    *)
(* and the hourly verification of the audit chain. The passes of the others  *)
(* are EphemeralAccess (reaper) and BackupRestore (scheduler); here they     *)
(* work for some time, possibly for ever.                                    *)
(***************************************************************************)
EXTENDS Integers, FiniteSets

CONSTANTS Conns,        \* client connections
          Others,       \* background tasks whose passes are opaque
          MaxStarts,    \* bound on starts of the agent
          MaxEntries,   \* bound on audit entries
          MaxFailed,    \* bound on reads of the store that fail
          MaxThreads    \* bound on blocking threads at a time

Tasks == Others \cup {"idle", "verifier", "metrics"}

ASSUME AgentAssumption ==
  /\ Conns \cap Tasks = {} /\ {"idle", "verifier", "metrics"} \cap Others = {}
  /\ {MaxEntries, MaxFailed, MaxThreads} \subseteq Nat

VARIABLES phase,        \* "down", "built", "bound", "spawned", "ready", "draining", "exiting"
          listening,    \* the accept loop runs
          cancelled,    \* the cancellation token
          task,         \* task -> "none", "sleeping", "working", "stopped", or a step of its pass
          conn,         \* connection -> "none", "open" or "serving"
          threads,      \* blocking threads of the runtime: a FIFO writer, a prompt on the terminal
          sealed,       \* the identity is not Unsealed
          hmac_key,     \* AppContext.hmac_key is set
          active,       \* last_activity is younger than the idle timeout
          entries,      \* audit entries stored
          headSeq,      \* seq of the pinned head
          snapshot,     \* what the verifier's transaction reads
          gauge,        \* the last verdict: "unknown", "ok", "broken" or "error"
          starts, failed,
          ended,        \* how the last process ended: "none", "failed", "drained", "deadline", "crash"
          cut           \* tasks and connections that were at work when it ended

process == <<phase, listening, cancelled, threads, starts, ended, cut>>
stored  == <<sealed, hmac_key, entries, headSeq, failed>>
agentVars == <<process, task, conn, stored, active, snapshot, gauge>>

NoSnapshot == [entries |-> 0, head |-> 0]

AgentInit ==
  /\ phase = "down" /\ listening = FALSE /\ cancelled = FALSE
  /\ task = [t \in Tasks |-> "none"] /\ conn = [c \in Conns |-> "none"]
  /\ threads = 0 /\ sealed = TRUE /\ hmac_key = FALSE /\ active = FALSE /\ failed = 0
  /\ entries = 0 /\ headSeq = 0 /\ snapshot = NoSnapshot /\ gauge = "unknown"
  /\ starts = 0 /\ ended = "none" /\ cut = {}

Alive == phase # "down"
Running == phase \in {"spawned", "ready", "draining"}
AtWork(t) == task[t] \notin {"none", "sleeping", "stopped"}
Set(t, where) == task' = [task EXCEPT ![t] = where]

(* Every future of the runtime is dropped, at the .await it is suspended in,   *)
(* and with it what the process held in memory.                               *)
Dropped(how) ==
  /\ listening' = FALSE /\ cancelled' = FALSE
  /\ task' = [t \in Tasks |-> "none"] /\ conn' = [c \in Conns |-> "none"]
  /\ sealed' = TRUE /\ hmac_key' = FALSE /\ active' = FALSE /\ snapshot' = NoSnapshot /\ gauge' = "unknown"
  /\ ended' = how
  /\ cut' = cut \cup {t \in Tasks : AtWork(t)} \cup {c \in Conns : conn[c] = "serving"}
  /\ UNCHANGED <<entries, headSeq, failed, starts>>

(* process::exit, or a kill: the blocking threads go as well.                  *)
Killed(how) == Dropped(how) /\ phase' = "down" /\ threads' = 0

(* run() returns to #[tokio::main], which drops the runtime: the blocking      *)
(* threads are waited for, without a deadline.                                *)
Returns(how) == Dropped(how) /\ phase' = "exiting" /\ UNCHANGED threads

Exit ==
  /\ phase = "exiting" /\ threads = 0 /\ phase' = "down"
  /\ UNCHANGED <<listening, cancelled, threads, starts, ended, cut, task, conn, stored, active, snapshot, gauge>>

-----------------------------------------------------------------------------
(* Start-up: adapters and context, then the socket, then the tasks; readiness *)
(* is announced last. Storage, keychain, recovery recipient or the socket may *)
(* fail, which ends the process.                                              *)

build_app_context ==
  /\ phase = "down" /\ starts < MaxStarts
  /\ starts' = starts + 1
  /\ phase' = "built" /\ active' = TRUE
  /\ ended' = "none" /\ cut' = {}
  /\ UNCHANGED <<listening, cancelled, threads, task, conn, stored, snapshot, gauge>>

bind ==
  /\ phase = "built" /\ phase' = "bound" /\ listening' = TRUE
  /\ UNCHANGED <<cancelled, threads, starts, ended, cut, task, conn, stored, active, snapshot, gauge>>

StartFails == phase \in {"built", "bound"} /\ Killed("failed")

(* The verifier makes a pass at once; the metrics server ends when it may not *)
(* bind.                                                                      *)
spawn_tasks ==
  /\ phase = "bound" /\ phase' = "spawned"
  /\ \E m \in {"sleeping", "stopped"} :
       task' = [t \in Tasks |-> CASE t = "verifier" -> "working" [] t = "metrics" -> m [] OTHER -> "sleeping"]
  /\ UNCHANGED <<listening, cancelled, threads, starts, ended, cut, conn, stored, active, snapshot, gauge>>

notify_ready ==
  /\ phase = "spawned" /\ phase' = "ready"
  /\ UNCHANGED <<listening, cancelled, threads, starts, ended, cut, task, conn, stored, active, snapshot, gauge>>

-----------------------------------------------------------------------------
(* Shutdown. A signal cancels the token; the accept loop is dropped, a task   *)
(* notices between two passes; the connections are tasks of their own that    *)
(* nobody waits for.                                                          *)

wait_for_shutdown ==
  /\ phase = "ready" /\ phase' = "draining" /\ cancelled' = TRUE
  /\ UNCHANGED <<listening, threads, starts, ended, cut, task, conn, stored, active, snapshot, gauge>>

companion_socket_task ==
  /\ Running /\ cancelled /\ listening
  /\ listening' = FALSE
  /\ UNCHANGED <<phase, cancelled, threads, starts, ended, cut, task, conn, stored, active, snapshot, gauge>>

TaskStops(t) ==
  /\ Running /\ cancelled /\ task[t] = "sleeping"
  /\ Set(t, "stopped")
  /\ UNCHANGED <<process, conn, stored, active, snapshot, gauge>>

AllStopped == ~listening /\ \A t \in Tasks : task[t] = "stopped"
Drained == phase = "draining" /\ AllStopped /\ Returns("drained")

join_all_with_timeout_None == FALSE /\ UNCHANGED agentVars
join_all_with_timeout == phase = "draining" /\ ~AllStopped /\ Returns("deadline")

Crash == Alive /\ Killed("crash")

-----------------------------------------------------------------------------
(* Connections. A connection that was accepted may send requests until the    *)
(* process ends. Every request counts as activity when it arrives; it may     *)
(* seal, unseal or commit an audit entry with the pinned head, and start a     *)
(* thread that blocks until somebody reads its FIFO or answers its prompt,     *)
(* which may be never.                                                        *)

Accept(c) ==
  /\ listening /\ conn[c] = "none" /\ conn' = [conn EXCEPT ![c] = "open"]
  /\ UNCHANGED <<process, task, stored, active, snapshot, gauge>>

Request(c) ==
  /\ Alive /\ conn[c] = "open" /\ conn' = [conn EXCEPT ![c] = "serving"]
  /\ active' = TRUE
  /\ UNCHANGED <<process, task, stored, snapshot, gauge>>

CommitEntry == entries' = entries + 1 /\ headSeq' = headSeq + 1

(* A seal or an unseal takes effect whether or not its entry is written.      *)
Audited == \/ UNCHANGED <<entries, headSeq>>
           \/ entries < MaxEntries /\ CommitEntry

(* SealVaultCommand: entry and key first, then the pinned head is read; when    *)
(* that fails the identity stays Unsealed, without its key. A sealed vault      *)
(* refuses.                                                                   *)
seal_vault ==
  \/ sealed /\ UNCHANGED stored
  \/ /\ ~sealed /\ hmac_key' = FALSE
     /\ IF hmac_key THEN Audited ELSE UNCHANGED <<entries, headSeq>>
     /\ \/ sealed' = TRUE /\ UNCHANGED failed
        \/ failed < MaxFailed /\ failed' = failed + 1 /\ UNCHANGED sealed

unseal_vault == sealed /\ sealed' = FALSE /\ hmac_key' = TRUE /\ Audited /\ UNCHANGED failed

Respond(c) ==
  /\ conn[c] = "serving" /\ conn' = [conn EXCEPT ![c] = "open"]
  /\ \/ UNCHANGED stored
     \/ seal_vault \/ unseal_vault
     \/ ~sealed /\ hmac_key /\ entries < MaxEntries /\ CommitEntry /\ UNCHANGED <<sealed, hmac_key, failed>>
  /\ UNCHANGED <<process, task, active, snapshot, gauge>>

spawn_blocking(c) ==
  /\ conn[c] = "serving" /\ threads < MaxThreads
  /\ threads' = threads + 1
  /\ UNCHANGED <<phase, listening, cancelled, starts, ended, cut, task, conn, stored, active, snapshot, gauge>>

(* A reader opens the FIFO, or a key is pressed. *)
Unblocked ==
  /\ threads > 0 /\ threads' = threads - 1
  /\ UNCHANGED <<phase, listening, cancelled, starts, ended, cut, task, conn, stored, active, snapshot, gauge>>

Close(c) ==
  /\ conn[c] # "none" /\ conn' = [conn EXCEPT ![c] = "none"]
  /\ UNCHANGED <<process, task, stored, active, snapshot, gauge>>

(* The idle timeout passes without a request arriving. *)
IdleTimeout ==
  /\ Alive /\ active /\ active' = FALSE
  /\ UNCHANGED <<process, task, conn, stored, snapshot, gauge>>

-----------------------------------------------------------------------------
(* The tasks. *)

Wake(t) ==
  /\ Running /\ ~cancelled /\ task[t] = "sleeping" /\ Set(t, "working")
  /\ UNCHANGED <<process, conn, stored, active, snapshot, gauge>>

(* The pass of another task, or a scrape of the metrics, is over. *)
PassEnds(t) ==
  /\ t \in Others \cup {"metrics"} /\ task[t] = "working" /\ Set(t, "sleeping")
  /\ UNCHANGED <<process, conn, stored, active, snapshot, gauge>>

(* maybe_idle_seal: unsealed and idle, then the seal. *)
idle_check ==
  /\ task["idle"] = "working"
  /\ Set("idle", IF sealed \/ active THEN "sleeping" ELSE "sealing")
  /\ UNCHANGED <<process, conn, stored, active, snapshot, gauge>>

(* A seal that fails is only logged, and tried again at a later poll. *)
idle_seal_GivesUp ==
  /\ task["idle"] = "sealing" /\ seal_vault
  /\ Set("idle", IF sealed' THEN "sleeping" ELSE "stopped")
  /\ UNCHANGED <<process, conn, active, snapshot, gauge>>
idle_seal ==
  /\ task["idle"] = "sealing" /\ Set("idle", "sleeping")
  /\ seal_vault
  /\ UNCHANGED <<process, conn, active, snapshot, gauge>>

(* run_chain_verification: skipped when sealed; a vault that is sealed or has  *)
(* no key or no pinned head is an error, as is a failing read. Entries and     *)
(* head come from one transaction, whose snapshot is taken by its first read.  *)
verify_check ==
  /\ task["verifier"] = "working"
  /\ Set("verifier", IF sealed THEN "sleeping" ELSE "querying")
  /\ UNCHANGED <<process, conn, stored, active, snapshot, gauge>>

audit_snapshot ==
  /\ task["verifier"] = "querying"
  /\ \/ /\ gauge' = "error" /\ Set("verifier", "sleeping") /\ UNCHANGED snapshot
        /\ \/ (sealed \/ ~hmac_key \/ headSeq = 0) /\ UNCHANGED failed
           \/ failed < MaxFailed /\ failed' = failed + 1
     \/ /\ ~sealed /\ hmac_key /\ headSeq # 0
        /\ snapshot' = [entries |-> entries, head |-> headSeq]
        /\ Set("verifier", "verifying") /\ UNCHANGED <<gauge, failed>>
  /\ UNCHANGED <<process, conn, sealed, hmac_key, entries, headSeq, active>>

verify_Torn ==
  /\ task["verifier"] = "verifying" /\ Set("verifier", "sleeping")
  /\ gauge' = IF snapshot.entries = headSeq THEN "ok" ELSE "broken"
  /\ UNCHANGED <<process, conn, stored, active, snapshot>>
verify ==
  /\ task["verifier"] = "verifying" /\ Set("verifier", "sleeping")
  /\ gauge' = IF snapshot.entries = snapshot.head THEN "ok" ELSE "broken"
  /\ UNCHANGED <<process, conn, stored, active, snapshot>>

-----------------------------------------------------------------------------
IdleRelock == idle_check \/ idle_seal
Verifier == verify_check \/ audit_snapshot \/ verify
Startup == build_app_context \/ bind \/ StartFails \/ spawn_tasks \/ notify_ready
Shutdown == \/ wait_for_shutdown \/ companion_socket_task \/ Drained \/ join_all_with_timeout
            \/ Exit \/ Crash \/ \E t \in Tasks : TaskStops(t)
Client(c) == Accept(c) \/ Request(c) \/ spawn_blocking(c) \/ Respond(c) \/ Close(c)

AgentNext ==
  \/ Startup \/ Shutdown \/ IdleRelock \/ Verifier \/ IdleTimeout \/ Unblocked
  \/ \E c \in Conns : Client(c)
  \/ \E t \in Tasks : Wake(t) \/ PassEnds(t)

(* Timers of the runtime fire: the sleep of the idle task and the deadline of *)
(* the drain; main returns. A pass of another task, a request, a scrape or a   *)
(* blocking thread may take for ever.                                         *)
AgentSpec ==
  /\ AgentInit /\ [][AgentNext]_agentVars
  /\ WF_agentVars(Wake("idle")) /\ WF_agentVars(idle_check) /\ WF_agentVars(idle_seal)
  /\ WF_agentVars(join_all_with_timeout) /\ WF_agentVars(Drained) /\ WF_agentVars(Exit)

-----------------------------------------------------------------------------
(* Types; a stored head never runs ahead of the entries.                       *)
AgentTypeOK ==
  /\ phase \in {"down", "built", "bound", "spawned", "ready", "draining", "exiting"}
  /\ threads \in 0..MaxThreads /\ failed \in 0..MaxFailed
  /\ task \in [Tasks -> {"none", "sleeping", "working", "stopped", "sealing", "querying", "verifying"}]
  /\ conn \in [Conns -> {"none", "open", "serving"}]
  /\ gauge \in {"unknown", "ok", "broken", "error"}
  /\ entries \in 0..MaxEntries /\ headSeq = entries
  /\ (phase \in {"down", "exiting"} => sealed /\ ~listening) /\ (phase = "ready" => listening)

(* The periodic verification never reports a broken chain because commands     *)
(* commit entries while it reads.                                              *)
NoTornAlarm == gauge # "broken"

(* A vault nobody uses does not stay open, although a request may arrive       *)
(* between the check and the seal and the seal may fail (seal_vault.rs reads    *)
(* the store before it seals the identity): unless the store fails for ever,    *)
(* the next polls seal it.                                                     *)
IdleSeals == (phase = "ready" /\ ~sealed /\ ~active) ~> (sealed \/ active \/ phase # "ready")

(* After the signal the process ends, whatever its tasks and connections do,    *)
(* unless it waits for ever for a thread that nobody unblocks.                 *)
ShutdownEnds ==
  (phase = "draining") ~> (phase = "down" \/ [](phase = "exiting" /\ threads # 0))

(* README.md: "drain complete (30s hard timeout)".                             *)
ShutdownIsBounded == (phase = "draining") ~> (phase = "down")

(* A graceful shutdown waits for the requests that are being served.           *)
RequestsDrained == ended = "drained" => cut \cap Conns = {}
=============================================================================
