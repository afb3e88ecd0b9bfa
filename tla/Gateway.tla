------------------------------- MODULE Gateway -------------------------------
(***************************************************************************)
(* One call from a client of the agent (a tool of an MCP server, a command   *)
(* of the CLI) to the agent over the companion socket and back: the checks   *)
(* the client makes, its requests, the handler that serves each of them, the *)
(* answer. Calls run concurrently, clients give up after the request         *)
(* deadline, the agent may stop at any time and comes back sealed.           *)
(*                                                                         *)
(* What a tool checks and sends is module Tools, what the agent checks, does *)
(* and records for a request is module Handlers. How secrets are versioned   *)
(* is SecretStore, the audit chain VaultLifecycle and AuditChain, tokens     *)
(* and files EphemeralAccess, reveals Reveal, backups BackupRestore: here a  *)
(* secret is the namespaces whose data key encrypts its versions, and the    *)
(* others leave a mark in the call's field did.                              *)
(***************************************************************************)
EXTENDS Tools, Handlers, FiniteSets

CONSTANTS Servers,      \* merkle-mcp processes, each with one session
          Cli,          \* the CLI
          Calls,        \* tool calls and commands
          ToolsOf,      \* call -> the tools it may be of
          Raws,         \* labels a client passes to bind, as sequences of characters
          MaxCrashes,   \* bound on agent crashes
          None, Bad     \* no value; a handle that does not parse

VARIABLES session,      \* server -> the namespace of its SessionState, or None
          call,         \* call -> the client's side of it
          agent,        \* call -> the handler's side of it
          rows,         \* namespaces stored
          policy,       \* namespace -> "none", "open" or "closed" to our program
          secret,       \* namespace -> its one secret: None or [active, deks]
          sealed, up, crashes

vars == <<session, call, agent, rows, policy, secret, sealed, up, crashes>>

-----------------------------------------------------------------------------
(* create_session turns what the client passed into a label: characters      *)
(* outside [a-z0-9] become "-", dashes at the ends go, and what then is not   *)
(* a NamespaceLabel is replaced by default-session.                           *)

DefaultSession == <<"default-session">>
Letters == {"a", "b", "c"}
Digits == {"0", "1"}
Lowered(ch) ==
  CASE ch \in Letters \cup Digits -> ch
    [] ch = "A" -> "a" [] ch = "B" -> "b"
    [] OTHER -> "-"
Trimmed(s) ==
  LET kept == {i \in DOMAIN s : s[i] # "-"}
  IN  IF kept = {} THEN <<>>
      ELSE SubSeq(s, CHOOSE i \in kept : \A j \in kept : i <= j,
                     CHOOSE i \in kept : \A j \in kept : i >= j)
IsLabel(s) == /\ Len(s) >= 3 /\ Len(s) <= 63
              /\ s[1] \in Letters
              /\ s[Len(s)] \in Letters \cup Digits
Label(raw) == LET s == Trimmed([i \in DOMAIN raw |-> Lowered(raw[i])])
              IN  IF IsLabel(s) THEN s ELSE DefaultSession
Labels == {Label(raw) : raw \in Raws} \cup {DefaultSession}

CheckNames == DOMAIN Problems \cup DOMAIN McpRefusal \cup DOMAIN CliRefusal

(* A call is of tools there are, the CLI keeps no session, and None and Bad    *)
(* are neither a label nor one another.                                        *)
ASSUME GatewayAssumption ==
  /\ ToolsOf \in [Calls -> SUBSET DOMAIN Tools]
  /\ Cli \notin Servers
  /\ None \notin CheckNames
  /\ None \notin Labels /\ Bad \notin Labels /\ None # Bad
  /\ MaxCrashes \in Nat

Own(ns) == [active |-> ns, deks |-> {ns}]
Secrets == {None} \cup [active : Labels, deks : SUBSET Labels]

Idle == [stage |-> "idle", tool |-> None, client |-> None, confirm |-> FALSE, handle |-> None,
         raw |-> None, ns |-> None, k |-> 0, status |-> 0, code |-> None, did |-> {}]
NoHandler == [stage |-> "none", status |-> 0, loaded |-> None]

Init == /\ session \in [Servers -> {None, DefaultSession}]
        /\ call = [c \in Calls |-> Idle]
        /\ agent = [c \in Calls |-> NoHandler]
        /\ rows = {DefaultSession}
        /\ policy \in {[ns \in Labels |-> IF ns = DefaultSession THEN p ELSE "none"] :
                         p \in {"open", "closed"}}
        /\ secret = [ns \in Labels |-> IF ns = DefaultSession THEN Own(ns) ELSE None]
        /\ sealed = FALSE /\ up = TRUE /\ crashes = 0

-----------------------------------------------------------------------------
(* The client. *)

Checked(t, check) == \E i \in DOMAIN Tools[t].checks : Tools[t].checks[i] = check
TakesHandle(t) == \/ Checked(t, "handle")
                  \/ Tools[t].rpcs[1] = "reveal"
                  \/ ~IsMcp(t) /\ Len(Tools[t].rpcs) = 2
OptionalHandle(t) == t \in {"vault_http_request", "vault_http_download", "vault_http_upload"}
TakesConfirm(t) == Checked(t, "confirmed")
Binds(t) == Tools[t].rpcs[1] = "create_session"

Handles(t) == IF TakesHandle(t)
              THEN Labels \cup {Bad} \cup (IF OptionalHandle(t) THEN {None} ELSE {})
              ELSE {None}

(* Whether a check of the tool fails; of input and tty, at most one does. *)
Refused(check, t, client, a, soft) ==
  CASE check = "handle"    -> a.handle = Bad
    [] check = "confirmed" -> ~a.confirm
    [] check = "confirm_arg" -> ~a.agree
    [] check = "bound"     -> session[client] = None
    [] check = "unbound"   -> session[client] # None
    [] OTHER -> check = soft

First(seq, failing) ==
  IF failing = {} THEN None ELSE seq[CHOOSE i \in failing : \A j \in failing : i <= j]

Begin(c, t, client, a, soft) ==
  LET checks == Tools[t].checks
      failed == First(checks, {i \in DOMAIN checks : Refused(checks[i], t, client, a, soft)})
      new == [Idle EXCEPT !.tool = t, !.client = client, !.confirm = a.confirm,
                          !.handle = a.handle, !.raw = a.raw]
  IN  /\ call[c].stage = "idle"
      /\ call' = [call EXCEPT ![c] =
           IF failed # None
           THEN [new EXCEPT !.stage = "done", !.code = Refusal(t, failed)]
           ELSE [new EXCEPT !.stage = "ready", !.k = 1,
                            !.ns = IF client = Cli THEN None ELSE session[client]]]
      /\ UNCHANGED <<session, agent, rows, policy, secret, sealed, up, crashes>>

Done(c, code) == call' = [call EXCEPT ![c].stage = "done", ![c].code = code]

(* A request is sent; no agent listens when it is down. *)
Send(c) ==
  /\ call[c].stage = "ready"
  /\ IF up
     THEN /\ call' = [call EXCEPT ![c].stage = "sent"]
          /\ agent' = [agent EXCEPT ![c] = [NoHandler EXCEPT !.stage = "serving"]]
     ELSE Done(c, Unreachable(call[c].tool)) /\ UNCHANGED agent
  /\ UNCHANGED <<session, rows, policy, secret, sealed, up, crashes>>

(* The deadline covers the time until the head of the answer is there. The   *)
(* handler runs on until the server notices the connection is gone.          *)
Timeout_None(c) == FALSE /\ UNCHANGED vars
Timeout(c) ==
  /\ call[c].stage = "sent"
  /\ Done(c, Unreachable(call[c].tool))
  /\ UNCHANGED <<session, agent, rows, policy, secret, sealed, up, crashes>>

Drop(c) ==
  /\ call[c].stage = "done" /\ agent[c].stage # "none"
  /\ agent' = [agent EXCEPT ![c] = NoHandler]
  /\ UNCHANGED <<session, call, rows, policy, secret, sealed, up, crashes>>

(* The connection broke with the agent. *)
Lost(c) ==
  /\ call[c].stage \in {"sent", "reading"} /\ agent[c].stage = "none"
  /\ Done(c, Unreachable(call[c].tool))
  /\ UNCHANGED <<session, agent, rows, policy, secret, sealed, up, crashes>>

(* The head of the answer is there. *)
Receive(c) ==
  /\ call[c].stage = "sent" /\ agent[c].stage = "answered"
  /\ call' = [call EXCEPT ![c].stage = "reading", ![c].status = agent[c].status]
  /\ UNCHANGED <<session, agent, rows, policy, secret, sealed, up, crashes>>

(* The agent sends the rest of the body, which the client waits for without  *)
(* a deadline.                                                               *)
Deliver(c) ==
  /\ call[c].stage = "reading" /\ agent[c].stage = "answered"
  /\ call' = [call EXCEPT ![c].stage = "received"]
  /\ agent' = [agent EXCEPT ![c] = NoHandler]
  /\ UNCHANGED <<session, rows, policy, secret, sealed, up, crashes>>

(* The body is decoded: the tool ends, or goes on to its next request. The   *)
(* CLI picks its namespace from the list; vault_bind commits the binding.    *)
Decode(c) ==
  LET t == call[c].tool
      ok == call[c].status < 300
      last == call[c].k = Len(Tools[t].rpcs)
      missing == ~IsMcp(t) /\ ok /\ ~last /\ call[c].handle \notin rows
  IN  /\ call[c].stage = "received"
      /\ IF ok /\ ~last /\ ~missing
         THEN call' = [call EXCEPT ![c].stage = "ready", ![c].k = @ + 1, ![c].status = 0,
                                   ![c].ns = IF IsMcp(t) THEN @ ELSE call[c].handle]
         ELSE \E code \in (IF missing THEN {"exit_1"} ELSE Answers(t, call[c].status)) : Done(c, code)
      /\ session' = IF ok /\ t = "vault_bind"
                    THEN [session EXCEPT ![call[c].client] = Label(call[c].raw)] ELSE session
      /\ UNCHANGED <<agent, rows, policy, secret, sealed, up, crashes>>

Garbled(c) ==
  /\ call[c].stage = "received"
  /\ \E code \in Undecodable(call[c].tool, call[c].status) : Done(c, code)
  /\ UNCHANGED <<session, agent, rows, policy, secret, sealed, up, crashes>>

-----------------------------------------------------------------------------
(* The agent. *)

Rpc(c) == Tools[call[c].tool].rpcs[call[c].k]
Routed(c) == Serves(Requests[Rpc(c)])
Route(c) == HandlerOf(Requests[Rpc(c)])
(* The secret a request is about: vault_put and the CLI's put name theirs by *)
(* the namespace.                                                            *)
Subject(c) == IF call[c].handle = None THEN call[c].ns ELSE call[c].handle
Stored(c)  == IF Subject(c) \in Labels THEN secret[Subject(c)] ELSE None

(* consumer_gate: a namespace without a policy lets everyone pass. *)
Open(ns) == policy[ns] # "closed"

FailsIn(c, check) ==
  CASE check = "sealed"     -> sealed
    [] check = "gate"       -> ~Open(call[c].ns)
    [] check = "owner_gate" -> Stored(c) # None /\ ~Open(Subject(c))
    [] check = "exists"     -> call[c].handle # None /\ Stored(c) = None
    [] check = "own_key"    -> call[c].handle # None /\ Stored(c) # None /\ Stored(c).active # call[c].ns
    [] check = "namespace"  -> call[c].ns \notin rows
    [] check = "any_namespace" -> sealed \/ rows = {}
    [] check = "slash"      -> FALSE    \* every client sets it in its requests
    [] check = "fresh"      -> TRUE     \* this vault is initialised
    [] check = "body"       -> call[c].handle = Bad

Fails(c, check, soft) == IF check \in StateChecks THEN FailsIn(c, check) ELSE check = soft

Respond(c, statuses) ==
  \E st \in statuses : agent' = [agent EXCEPT ![c].stage = "answered", ![c].status = st]

(* The checks of the handler and its command; of those about the input or    *)
(* the world outside, at most one fails.                                     *)
Serve(c) ==
  /\ agent[c].stage = "serving"
  /\ \/ ~Routed(c) /\ Respond(c, {NotRouted})
     \/ /\ Routed(c)
        /\ \E soft \in {None} \cup ({Route(c).checks[i] : i \in DOMAIN Route(c).checks} \ StateChecks) :
             LET failed == First(Route(c).checks, {i \in DOMAIN Route(c).checks :
                                                     Fails(c, Route(c).checks[i], soft)})
             IN  \/ failed # None /\ Respond(c, Problems[failed])
                 \/ /\ failed = None
                    /\ agent' = [agent EXCEPT
                         ![c].stage = CASE Route(c).does = "bind" -> "looking"
                                        [] Route(c).audit = "before" -> "auditing"
                                        [] OTHER -> "acting",
                         ![c].loaded = IF Route(c).does \in {"rotate", "rollback"}
                                       THEN Stored(c) ELSE None]
  /\ UNCHANGED <<session, call, rows, policy, secret, sealed, up, crashes>>

Marks(c, effect) == call' = [call EXCEPT ![c].did = @ \cup {<<call[c].k, effect>>}]
After(c) == IF Route(c).audit = "after" THEN [agent EXCEPT ![c].stage = "auditing"]
            ELSE [agent EXCEPT ![c].stage = "answered", ![c].status = 200]

(* put_secret refuses a handle that is taken. *)
ActPut(c) ==
  /\ Route(c).does = "put"
  /\ IF secret[call[c].ns] # None
     THEN Respond(c, {500}) /\ UNCHANGED <<call, secret>>
     ELSE /\ secret' = [secret EXCEPT ![call[c].ns] = Own(call[c].ns)]
          /\ Marks(c, "put") /\ agent' = After(c)
  /\ UNCHANGED sealed

(* The new version is encrypted with the data key of the request's namespace, *)
(* and what was loaded before is written back with it.                        *)
ActRotate(c) ==
  /\ Route(c).does = "rotate"
  /\ secret' = [secret EXCEPT ![Subject(c)] =
                  [active |-> call[c].ns, deks |-> agent[c].loaded.deks \cup {call[c].ns}]]
  /\ Marks(c, "rotate") /\ agent' = After(c)
  /\ UNCHANGED sealed

ActRollback(c) ==
  /\ Route(c).does = "rollback"
  /\ \E ns \in agent[c].loaded.deks :
       secret' = [secret EXCEPT ![Subject(c)] = [agent[c].loaded EXCEPT !.active = ns]]
  /\ Marks(c, "rollback") /\ agent' = After(c)
  /\ UNCHANGED sealed

ActDelete(c) ==
  /\ Route(c).does = "delete"
  /\ secret' = [secret EXCEPT ![Subject(c)] = None]
  /\ Marks(c, "delete") /\ agent' = After(c)
  /\ UNCHANGED sealed

ActSeal(c) ==
  /\ Route(c).does \in {"seal", "unseal"}
  /\ sealed' = (Route(c).does = "seal")
  /\ Marks(c, Route(c).does) /\ agent' = After(c)
  /\ UNCHANGED secret

ActOther(c) ==
  /\ Route(c).does \notin {"put", "rotate", "rollback", "delete", "seal", "unseal"}
  /\ IF Route(c).does = "nothing" THEN UNCHANGED call ELSE Marks(c, Route(c).does)
  /\ agent' = After(c)
  /\ UNCHANGED <<secret, sealed>>

Act(c) ==
  /\ agent[c].stage = "acting"
  /\ \/ ActPut(c) \/ ActRotate(c) \/ ActRollback(c) \/ ActDelete(c) \/ ActSeal(c) \/ ActOther(c)
  /\ UNCHANGED <<session, rows, policy, up, crashes>>

(* require_hmac_key, then audit_commit, whose insert may fail. *)
Audit_Ignored(c) ==
  /\ agent[c].stage = "auditing"
  /\ agent' = IF Route(c).audit = "before" THEN [agent EXCEPT ![c].stage = "acting"]
              ELSE [agent EXCEPT ![c].stage = "answered", ![c].status = 200]
  /\ IF sealed THEN UNCHANGED call ELSE Marks(c, "audit")
  /\ UNCHANGED <<session, rows, policy, secret, sealed, up, crashes>>
Audit(c) ==
  /\ agent[c].stage = "auditing"
  /\ \/ Respond(c, IF sealed THEN {412} ELSE {500}) /\ UNCHANGED call
     \/ /\ ~sealed
        /\ agent' = IF Route(c).audit = "before" THEN [agent EXCEPT ![c].stage = "acting"]
                    ELSE [agent EXCEPT ![c].stage = "answered", ![c].status = 200]
        /\ Marks(c, "audit")
  /\ UNCHANGED <<session, rows, policy, secret, sealed, up, crashes>>

-----------------------------------------------------------------------------
(* BindNamespaceCommand: a stored namespace without a policy, left by a bind  *)
(* that was cut short, is given one; a new one is stored, given a policy and  *)
(* recorded. Then the consumer list decides.                                  *)

Bound(c) == Label(call[c].raw)

Find_NoHealing(c) ==
  /\ agent[c].stage = "looking"
  /\ agent' = [agent EXCEPT ![c].stage = IF Bound(c) \in rows THEN "gating" ELSE "storing"]
  /\ UNCHANGED <<session, call, rows, policy, secret, sealed, up, crashes>>
Find(c) ==
  /\ agent[c].stage = "looking"
  /\ agent' = [agent EXCEPT ![c].stage =
                 CASE Bound(c) \notin rows -> "storing"
                   [] Bound(c) \in rows /\ policy[Bound(c)] = "none" -> "healing"
                   [] OTHER -> "gating"]
  /\ UNCHANGED <<session, call, rows, policy, secret, sealed, up, crashes>>

(* The label is unique: of two binds that both found nothing, one fails. *)
put_namespace(c) ==
  /\ agent[c].stage = "storing"
  /\ IF Bound(c) \in rows
     THEN Respond(c, {500}) /\ UNCHANGED <<call, rows>>
     ELSE /\ rows' = rows \cup {Bound(c)} /\ Marks(c, "row")
          /\ agent' = [agent EXCEPT ![c].stage = "defaulting"]
  /\ UNCHANGED <<session, policy, secret, sealed, up, crashes>>

put_namespace_policy(c) ==
  /\ agent[c].stage \in {"healing", "defaulting"}
  /\ policy' = [policy EXCEPT ![Bound(c)] = "open"]
  /\ agent' = [agent EXCEPT ![c].stage = IF @ = "healing" THEN "gating" ELSE "recording"]
  /\ UNCHANGED <<session, call, rows, secret, sealed, up, crashes>>

RecordBind(c) ==
  /\ agent[c].stage = "recording"
  /\ \/ Respond(c, IF sealed THEN {412} ELSE {500}) /\ UNCHANGED call
     \/ ~sealed /\ agent' = [agent EXCEPT ![c].stage = "gating"] /\ Marks(c, "audit")
  /\ UNCHANGED <<session, rows, policy, secret, sealed, up, crashes>>

GateBind(c) ==
  /\ agent[c].stage = "gating"
  /\ IF Open(Bound(c)) THEN Respond(c, {201}) /\ Marks(c, "bind")
     ELSE Respond(c, {403}) /\ UNCHANGED call
  /\ UNCHANGED <<session, rows, policy, secret, sealed, up, crashes>>

Bind(c) == \/ Find(c) \/ put_namespace(c) \/ put_namespace_policy(c) \/ RecordBind(c) \/ GateBind(c)

-----------------------------------------------------------------------------
Crash ==
  /\ up /\ crashes < MaxCrashes
  /\ up' = FALSE /\ crashes' = crashes + 1 /\ sealed' = TRUE
  /\ agent' = [c \in Calls |-> NoHandler]
  /\ UNCHANGED <<session, call, rows, policy, secret>>

Restart ==
  /\ ~up /\ up' = TRUE
  /\ UNCHANGED <<session, call, agent, rows, policy, secret, sealed, crashes>>

ClientsOf(t) == IF IsMcp(t) THEN Servers ELSE {Cli}
Args(t) == [confirm : IF TakesConfirm(t) THEN BOOLEAN ELSE {FALSE},
            agree : IF Checked(t, "confirm_arg") THEN BOOLEAN ELSE {FALSE},
            handle : Handles(t), raw : IF Binds(t) THEN Raws ELSE {None}]
Soft(t) == {None} \cup ({Tools[t].checks[i] : i \in DOMAIN Tools[t].checks} \cap {"input", "tty"})

Call(c) == \E t \in ToolsOf[c] : \E client \in ClientsOf(t) : \E a \in Args(t) : \E soft \in Soft(t) :
             Begin(c, t, client, a, soft)

ClientStep(c) == Send(c) \/ Timeout(c) \/ Lost(c) \/ Receive(c) \/ Decode(c) \/ Garbled(c)
HandlerStep(c) == Serve(c) \/ Act(c) \/ Audit(c) \/ Bind(c) \/ Deliver(c)

Terminating == (\A c \in Calls : call[c].stage = "done" /\ agent[c].stage = "none") /\ UNCHANGED vars

Next == \/ \E c \in Calls : Call(c) \/ ClientStep(c) \/ HandlerStep(c) \/ Drop(c)
        \/ Crash \/ Restart \/ Terminating

(* The timer of the client's runtime fires and its own steps are taken; the   *)
(* agent owes nothing: a handler may wait on a keychain prompt or on ssh, and *)
(* an agent that is stopped after the head of an answer sends no body.        *)
Spec == Init /\ [][Next]_vars /\ \A c \in Calls : WF_vars(ClientStep(c))

-----------------------------------------------------------------------------
Effects == {"init", "unseal", "seal", "bind", "put", "rotate", "rollback", "delete", "reveal", "token",
            "use", "baseline", "backup", "plan", "restore", "device", "row", "audit"}

(* Types, and every stored namespace has a label NamespaceLabel accepts        *)
(* whatever string a client passed to bind.                                    *)
TypeOK ==
  /\ \A s \in Servers : session[s] \in Labels \cup {None}
  /\ \A c \in Calls :
       /\ call[c].stage \in {"idle", "ready", "sent", "reading", "received", "done"}
       /\ call[c].did \subseteq (1..2) \X Effects
       /\ agent[c].stage \in {"none", "serving", "acting", "auditing", "looking", "storing",
                              "defaulting", "healing", "recording", "gating", "answered"}
  /\ \A ns \in rows : ns = DefaultSession \/ IsLabel(ns)
  /\ policy \in [Labels -> {"none", "open", "closed"}]
  /\ secret \in [Labels -> Secrets]
  /\ sealed \in BOOLEAN /\ up \in BOOLEAN /\ crashes \in 0..MaxCrashes

(* A session is only ever bound to a namespace that is stored and has a       *)
(* policy, also when an earlier bind of it was cut between storing the        *)
(* namespace and its policy: else the consumer list and the security profile  *)
(* of everything done in the session would be no check at all.                *)
BoundHasPolicy ==
  \A s \in Servers : session[s] # None => session[s] \in rows /\ policy[session[s]] # "none"

(* The same, on a well-typed state: the invariant of binding.                 *)
BindingSound == TypeOK /\ BoundHasPolicy

(* Nothing that destroys or discloses happens without the operator: the agent *)
(* cannot tell, as every client sets slash_command in its requests, so it is   *)
(* the client's check of the slash command (of --confirm) that must hold. A    *)
(* restore is not among them: see RestoreConfirmed.                            *)
ConfirmedOnly ==
  \A c \in Calls : \A k \in 1..2 :
    /\ (\E e \in {"delete", "rollback", "baseline"} : <<k, e>> \in call[c].did) => call[c].confirm
    /\ IsMcp(call[c].tool) => (<<k, "reveal">> \in call[c].did => call[c].confirm)

(* A restore over MCP, too, is confirmed by the operator and not by the model. *)
RestoreConfirmed ==
  \A c \in Calls : IsMcp(call[c].tool) /\ <<2, "restore">> \in call[c].did => call[c].confirm

(* The answers that are only given before anything is done; the CLI's exit_1   *)
(* is none, as it also stands for an answer that could not be decoded.         *)
Refusals == {"INVALID_PARAMS", "NAMESPACE_NOT_BOUND", "ALREADY_BOUND", "ACCESS_DENIED",
             "HANDLE_NOT_FOUND", "BAD_REQUEST", "CONFLICT", "exit_2", "exit_6"}
Durable == Effects \ {"plan", "token", "audit", "bind"}

(* A client can rely on the answer. Refused, the call changed nothing in the  *)
(* vault; accepted, every request of it did its work and recorded it. Between  *)
(* the two are only the answers that promise nothing.                          *)
AnswerIsTruthful ==
  \A c \in Calls : call[c].stage = "done" =>
    /\ call[c].code \in Refusals => \A k \in 1..2 : \A e \in Durable : <<k, e>> \notin call[c].did
    /\ call[c].code = "OK" =>
         \A k \in DOMAIN Tools[call[c].tool].rpcs :
           LET h == HandlerOf(Requests[Tools[call[c].tool].rpcs[k]])
           IN  /\ h.does # "nothing" => <<k, h.does>> \in call[c].did
               /\ h.audit # "none" => <<k, "audit">> \in call[c].did

(* Every call comes to an end, or is left for ever with the head of an answer  *)
(* whose body does not come: the deadline of send_with_timeout ends the wait   *)
(* for the head, whatever the handler waits for, and a broken connection or a  *)
(* crash ends the wait for the body; a call of two requests waits twice.       *)
Stalled(c) == call[c].stage = "reading" /\ agent[c].stage = "answered"
CallsReturn ==
  \A c \in Calls : (call[c].stage = "ready") ~> (call[c].stage = "done" \/ []Stalled(c))

(* Every call comes to an end: a wedged agent never hangs its caller.          *)
CallsAlwaysReturn == \A c \in Calls : (call[c].stage = "ready") ~> (call[c].stage = "done")

(* The active version of every secret is encrypted with the data key of the   *)
(* namespace it is in, so that it can be read there.                           *)
OwnKey == \A ns \in Labels : secret[ns] # None => secret[ns].active = ns
=============================================================================
