-------------------------------- MODULE Proxy --------------------------------
(***************************************************************************)
(* The commands that use a secret on behalf of a caller outside the agent:   *)
(* ssh (exec, copy, shell), HTTP (request, download, upload), spawn and the  *)
(* ssh tunnels of port_forward, which outlive their command. Calls run       *)
(* concurrently with seals, session closes, clients that hang up, names      *)
(* that resolve differently each time, and an agent that stops or crashes.   *)
(*                                                                         *)
(* What the handlers check before the command runs is module Handlers; the   *)
(* command starts with the secret already decrypted.                          *)
(***************************************************************************)
EXTENDS Egress, FiniteSets

CONSTANTS Calls,       \* requests
          OpsOf,       \* call -> the commands it may be of
          Literals,    \* addresses a URL may name directly
          Answers,     \* sets of addresses a lookup of a name may return
          MaxBody,     \* MAX_BODY_BYTES, in units
          None

ASSUME ProxyAssumption ==
  /\ \A c \in Calls : OpsOf[c] \subseteq {"ssh_exec", "ssh_copy", "ssh_shell", "http_request",
       "http_download", "http_upload", "spawn", "port_forward"}
  /\ Literals \subseteq Address /\ \A ips \in Answers : ips \subseteq Address
  /\ MaxBody \in Nat

VARIABLES op,          \* call -> its command, or None
          pc,          \* call -> where the command is
          host,        \* call -> the address in its URL, or None for a name
          dialled,     \* call -> the address the credential was sent to, or None
          body,        \* call -> size of the response read so far
          file,        \* call -> its identity file: "none", "guarded" or "kept"
          child,       \* call -> its subprocess: "none", "running", "killed" or "exited"
          forwards,    \* active_port_forwards
          watcher,     \* call -> its cleanup task: "none", "polling" or "finished"
          audited,     \* calls with an audit entry
          sealed, up,
          left,        \* history: calls whose kept file lost its owner
          orphans      \* history: calls whose subprocess outlived a crash of the agent

vars == <<op, pc, host, dialled, body, file, child, forwards, watcher, audited, sealed, up, left, orphans>>
http == <<host, dialled, body>>
tunnel == <<forwards, watcher>>
gone == <<left, orphans>>

Ssh == {"ssh_exec", "ssh_copy", "ssh_shell"}
Http == {"http_request", "http_download", "http_upload"}
Ops == Ssh \cup Http \cup {"spawn", "port_forward"}

Init == /\ op = [c \in Calls |-> None] /\ pc = [c \in Calls |-> "idle"]
        /\ host = [c \in Calls |-> None] /\ dialled = [c \in Calls |-> None]
        /\ body = [c \in Calls |-> 0]
        /\ file = [c \in Calls |-> "none"] /\ child = [c \in Calls |-> "none"]
        /\ forwards = {} /\ watcher = [c \in Calls |-> "none"]
        /\ audited = {} /\ sealed = FALSE /\ up = TRUE /\ left = {} /\ orphans = {}

Goto(c, where) == pc' = [pc EXCEPT ![c] = where]
Fail(c) == Goto(c, "failed")
At(c, where) == up /\ pc[c] = where

-----------------------------------------------------------------------------
(* The command starts. Bad input is refused; a tunnel without the operator's  *)
(* confirmation, and a program that is not on the list, are refused with an   *)
(* audit entry.                                                               *)
Denied(o) == o \in {"spawn", "port_forward"}

Start(c) ==
  /\ up /\ pc[c] = "idle"
  /\ \E o \in OpsOf[c] :
       /\ op' = [op EXCEPT ![c] = o]
       /\ IF sealed THEN Fail(c) /\ UNCHANGED host
          ELSE CASE o \in Http -> \E h \in Literals \cup {None} :
                                    /\ host' = [host EXCEPT ![c] = h]
                                    /\ Goto(c, "validating")
                 [] Denied(o) -> /\ \E next \in {"launching", "denying", "failed"} : Goto(c, next)
                                 /\ UNCHANGED host
                 [] OTHER -> Goto(c, "launching") /\ UNCHANGED host
  /\ UNCHANGED <<dialled, body, file, child, tunnel, audited, sealed, up, gone>>

Deny(c) ==
  /\ At(c, "denying")
  /\ Fail(c)
  /\ audited' = IF sealed THEN audited ELSE audited \cup {c}
  /\ UNCHANGED <<op, http, file, child, tunnel, sealed, up, gone>>

-----------------------------------------------------------------------------
(* HTTP. The URL is checked before the credential is attached: https only,    *)
(* and every address of the host permitted. reqwest resolves the name again   *)
(* when it connects, through the resolver that drops forbidden addresses.      *)

validate(c) ==
  /\ At(c, "validating")
  /\ \/ Fail(c)                               \* scheme, URL or method; no answer
     \/ /\ host[c] # None
        /\ IF is_forbidden_ip(host[c]) THEN Fail(c) ELSE Goto(c, "connecting")
     \/ /\ host[c] = None
        /\ \E ips \in Answers :
             IF \E ip \in ips : is_forbidden_ip(ip) THEN Fail(c) ELSE Goto(c, "connecting")
  /\ UNCHANGED <<op, http, file, child, tunnel, audited, sealed, up, gone>>

screen_None(ips) == ips
screen(ips) == {ip \in ips : ~is_forbidden_ip(ip)}

(* Redirects are off: a call dials once. *)
Connect(c) ==
  /\ At(c, "connecting")
  /\ \/ Fail(c) /\ UNCHANGED dialled          \* connect error, or the watchdog
     \/ \E ips \in (IF host[c] # None THEN {{host[c]}} ELSE {screen(ips) : ips \in Answers}) :
        \E ip \in ips :
          dialled' = [dialled EXCEPT ![c] = ip] /\ Goto(c, "draining")
  /\ UNCHANGED <<op, host, body, file, child, tunnel, audited, sealed, up, gone>>

(* read_capped_body; a length announced above the cap fails at once. *)
Chunk(c) ==
  /\ At(c, "draining")
  /\ \E n \in 1..MaxBody :
       IF body[c] + n > MaxBody THEN Fail(c) /\ UNCHANGED body
       ELSE body' = [body EXCEPT ![c] = @ + n] /\ UNCHANGED pc
  /\ UNCHANGED <<op, host, dialled, file, child, tunnel, audited, sealed, up, gone>>

(* The response is complete, or broke off, or the watchdog fired; a download  *)
(* writes its file first, which may fail.                                     *)
Drained(c) ==
  /\ At(c, "draining")
  /\ Goto(c, "auditing") \/ Fail(c)
  /\ UNCHANGED <<op, http, file, child, tunnel, audited, sealed, up, gone>>

-----------------------------------------------------------------------------
(* Subprocesses. The identity file is removed when its guard is dropped; the  *)
(* guard is dropped when the command returns, fails or is cancelled.          *)

Kill(cs) == child' = [c \in Calls |-> IF c \in cs /\ child[c] = "running" THEN "killed" ELSE child[c]]
UsesIdentity(o) == o \in Ssh \cup {"port_forward"}

Launch(c) ==
  /\ At(c, "launching")
  /\ \/ Fail(c) /\ UNCHANGED <<file, child>>  \* no file, or no such binary
     \/ /\ Goto(c, IF op[c] = "port_forward" THEN "settling" ELSE "waiting")
        /\ file' = [file EXCEPT ![c] = IF UsesIdentity(op[c]) THEN "guarded" ELSE @]
        /\ child' = [child EXCEPT ![c] = "running"]
  /\ UNCHANGED <<op, http, tunnel, audited, sealed, up, gone>>

(* A subprocess ends by itself, or because it was killed. *)
Exit(c) ==
  /\ child[c] \in {"running", "killed"}
  /\ child' = [child EXCEPT ![c] = "exited"]
  /\ UNCHANGED <<op, pc, http, file, tunnel, audited, sealed, up, gone>>

(* ssh and spawn wait for the output; ssh gives up after its timeout, without *)
(* killing the subprocess, and removes the file first in either case.         *)
Wait(c) ==
  /\ At(c, "waiting")
  /\ \/ child[c] = "exited" /\ Goto(c, "auditing")
     \/ op[c] \in Ssh /\ Fail(c)
  /\ file' = [file EXCEPT ![c] = "none"]
  /\ UNCHANGED <<op, http, child, tunnel, audited, sealed, up, gone>>

(* After 150 ms a tunnel whose ssh has exited has failed; else the file is    *)
(* kept beyond the command, before the registry is locked.                    *)
Settle_NoKeep(c) ==
  /\ At(c, "settling")
  /\ IF child[c] = "exited" THEN Fail(c) ELSE Goto(c, "registering")
  /\ file' = [file EXCEPT ![c] = "none"]
  /\ UNCHANGED <<op, http, child, tunnel, audited, sealed, up, gone>>
Settle(c) ==
  /\ At(c, "settling")
  /\ \/ /\ child[c] = "exited"
        /\ Fail(c) /\ file' = [file EXCEPT ![c] = "none"] /\ UNCHANGED child
     \/ /\ child[c] # "exited"
        /\ Goto(c, "registering") /\ file' = [file EXCEPT ![c] = "kept"] /\ UNCHANGED child
     \/ /\ child[c] # "exited"               \* keep() fails: file and child are dropped
        /\ Fail(c) /\ file' = [file EXCEPT ![c] = "none"] /\ Kill({c})
  /\ UNCHANGED <<op, http, tunnel, audited, sealed, up, gone>>

Register(c) ==
  /\ At(c, "registering")
  /\ forwards' = forwards \cup {c}
  /\ watcher' = [watcher EXCEPT ![c] = "polling"]
  /\ Goto(c, "auditing")
  /\ UNCHANGED <<op, http, file, child, audited, sealed, up, gone>>

(* require_hmac_key and audit_commit, after the effect; storage may fail. *)
Audit(c) ==
  /\ At(c, "auditing")
  /\ \/ Fail(c) /\ UNCHANGED audited
     \/ ~sealed /\ audited' = audited \cup {c} /\ Goto(c, "ok")
  /\ UNCHANGED <<op, http, file, child, tunnel, sealed, up, gone>>

-----------------------------------------------------------------------------
(* The task that cleans up after a tunnel polls every two seconds: a tunnel   *)
(* no longer registered loses its file; one whose ssh has exited loses its    *)
(* entry too, under a second lock.                                            *)

Watch_Once(c) ==
  /\ up /\ watcher[c] = "polling" /\ c \notin forwards
  /\ watcher' = [watcher EXCEPT ![c] = "none"] /\ file' = [file EXCEPT ![c] = "none"]
  /\ UNCHANGED <<op, pc, http, child, forwards, audited, sealed, up, gone>>
Watch(c) ==
  /\ up /\ watcher[c] = "polling"
  /\ \/ /\ c \notin forwards
        /\ watcher' = [watcher EXCEPT ![c] = "none"] /\ file' = [file EXCEPT ![c] = "none"]
     \/ /\ c \in forwards /\ child[c] = "exited"
        /\ watcher' = [watcher EXCEPT ![c] = "finished"] /\ UNCHANGED file
  /\ UNCHANGED <<op, pc, http, child, forwards, audited, sealed, up, gone>>

WatchRemove(c) ==
  /\ up /\ watcher[c] = "finished"
  /\ forwards' = forwards \ {c}
  /\ file' = [file EXCEPT ![c] = "none"] /\ watcher' = [watcher EXCEPT ![c] = "none"]
  /\ UNCHANGED <<op, pc, http, child, audited, sealed, up, gone>>

(* Closing any session drains the whole registry. *)
CloseSession ==
  /\ up /\ forwards # {}
  /\ Kill(forwards) /\ forwards' = {}
  /\ UNCHANGED <<op, pc, http, file, watcher, audited, sealed, up, gone>>

SealOrUnseal ==
  /\ up /\ sealed' = ~sealed
  /\ UNCHANGED <<op, pc, http, file, child, tunnel, audited, up, gone>>

-----------------------------------------------------------------------------
(* The future of a command is dropped: its guard removes the file; tunnels    *)
(* and spawned programs are killed on drop, ssh is not. A file already kept    *)
(* but not yet registered has no owner any more.                              *)
Running == {"validating", "connecting", "draining", "launching", "waiting", "settling",
            "registering", "auditing", "denying"}
OwnsChild(c) == pc[c] \in {"waiting", "settling", "registering"}
KillOnDrop(o) == o \in {"spawn", "port_forward"}

HangUp_NoKill(c) ==
  /\ up /\ pc[c] \in Running
  /\ Fail(c)
  /\ file' = [file EXCEPT ![c] = IF @ = "guarded" THEN "none" ELSE @]
  /\ left' = IF pc[c] = "registering" THEN left \cup {c} ELSE left
  /\ UNCHANGED <<op, http, child, tunnel, audited, sealed, up, orphans>>
HangUp(c) ==
  /\ up /\ pc[c] \in Running
  /\ Fail(c)
  /\ file' = [file EXCEPT ![c] = IF @ = "guarded" THEN "none" ELSE @]
  /\ IF OwnsChild(c) /\ KillOnDrop(op[c]) THEN Kill({c}) ELSE UNCHANGED child
  /\ left' = IF pc[c] = "registering" THEN left \cup {c} ELSE left
  /\ UNCHANGED <<op, http, tunnel, audited, sealed, up, orphans>>

Ended == [c \in Calls |-> IF pc[c] \in Running THEN "failed" ELSE pc[c]]
Kept == {c \in Calls : file[c] = "kept"}

(* The agent shuts down: guards are dropped and registered tunnels killed,    *)
(* the cleanup tasks end with the runtime.                                     *)
Stop ==
  /\ up /\ up' = FALSE /\ sealed' = TRUE
  /\ pc' = Ended
  /\ file' = [c \in Calls |-> IF file[c] = "guarded" THEN "none" ELSE file[c]]
  /\ Kill(forwards \cup {c \in Calls : OwnsChild(c) /\ KillOnDrop(op[c])})
  /\ forwards' = {} /\ watcher' = [c \in Calls |-> "none"]
  /\ left' = left \cup Kept
  /\ UNCHANGED <<op, http, audited, orphans>>

(* It is killed: nothing is dropped. *)
Crash ==
  /\ up /\ up' = FALSE /\ sealed' = TRUE
  /\ pc' = Ended
  /\ forwards' = {} /\ watcher' = [c \in Calls |-> "none"]
  /\ left' = left \cup {c \in Calls : file[c] # "none"}
  /\ orphans' = orphans \cup {c \in Calls : child[c] = "running"}
  /\ UNCHANGED <<op, http, file, child, audited>>

(* It starts again, sealed. *)
Restart ==
  /\ ~up /\ up' = TRUE
  /\ UNCHANGED <<op, pc, http, file, child, tunnel, audited, sealed, gone>>

Command(c) == \/ Deny(c) \/ validate(c) \/ Connect(c) \/ Chunk(c) \/ Drained(c) \/ Launch(c)
              \/ Wait(c) \/ Settle(c) \/ Register(c) \/ Audit(c)

Next == \/ \E c \in Calls : \/ Start(c) \/ Command(c) \/ Exit(c)
                            \/ Watch(c) \/ WatchRemove(c) \/ HangUp(c)
        \/ CloseSession \/ SealOrUnseal \/ Stop \/ Crash \/ Restart

(* The cleanup tasks poll and a killed process ends. *)
Spec == /\ Init /\ [][Next]_vars
        /\ \A c \in Calls : WF_vars(Watch(c)) /\ WF_vars(WatchRemove(c))
                            /\ WF_vars(child[c] = "killed" /\ Exit(c))

-----------------------------------------------------------------------------
(* Types; and no response takes more memory than the cap, however it is cut   *)
(* into chunks.                                                                *)
TypeOK ==
  /\ op \in [Calls -> Ops \cup {None}]
  /\ pc \in [Calls -> Running \cup {"idle", "ok", "failed"}]
  /\ body \in [Calls -> 0..MaxBody]
  /\ file \in [Calls -> {"none", "guarded", "kept"}]
  /\ child \in [Calls -> {"none", "running", "killed", "exited"}]
  /\ watcher \in [Calls -> {"none", "polling", "finished"}]
  /\ forwards \subseteq Calls /\ audited \subseteq Calls /\ left \subseteq Calls /\ orphans \subseteq Calls
  /\ sealed \in BOOLEAN /\ up \in BOOLEAN

(* The credential only goes to addresses that are public, as the registries of  *)
(* special-purpose blocks define it, or that lie in one of the blocks the       *)
(* policy has no predicate for, although the name is resolved twice and each    *)
(* lookup may answer differently.                                               *)
DialsScreened == \A c \in Calls : dialled[c] # None => Public(dialled[c]) \/ Unscreened(dialled[c])

(* The credential only goes to public addresses.                                *)
DialsPublic == \A c \in Calls : dialled[c] # None => Public(dialled[c])

(* While a registered tunnel runs its identity file exists, also after its     *)
(* command has returned: ssh may read it again.                                *)
IdentityWhileNeeded == \A c \in forwards : child[c] = "running" => file[c] = "kept"

(* A running tunnel is held by its command or by the registry, so that closing *)
(* a session or stopping the agent ends it; only a crash lets one go. A call   *)
(* cut off while it waits for the registry has its ssh killed as well.          *)
TunnelOwned ==
  \A c \in Calls : op[c] = "port_forward" /\ child[c] = "running" =>
    c \in forwards \/ pc[c] \in Running \/ c \in orphans

(* The same, on a well-typed state, in which no response exceeds its cap.      *)
TunnelsSound == TypeOK /\ TunnelOwned

(* The identity file of a tunnel that has ended goes away, unless its command  *)
(* was cut off while it waited for the registry or the agent went down.        *)
IdentityRevoked ==
  \A c \in Calls :
    (op[c] = "port_forward" /\ pc[c] \notin Running /\ child[c] \in {"killed", "exited"} /\ file[c] # "none")
      ~> (file[c] = "none" \/ c \in left)
=============================================================================
