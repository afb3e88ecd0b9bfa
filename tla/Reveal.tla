------------------------------- MODULE Reveal -------------------------------
(***************************************************************************)
(* POST /v1/reveal: the handler, RevealSecretCommand and the out-of-band    *)
(* channel they wait on, run by several requests at once against a secret   *)
(* that other clients delete and re-create, a namespace policy that a bind  *)
(* may write, a vault that may be sealed and an operator who answers early,  *)
(* late, twice or never.                                                   *)
(*                                                                         *)
(* A request makes its own ChallengeId, so a challenge is named by its      *)
(* request. Each step of a request is one stretch of the handler between    *)
(* two awaits.                                                             *)
(***************************************************************************)
EXTENDS Policy, FiniteSets

CONSTANTS Requests,     \* the reveal calls, one challenge each
          Notifiers,    \* the OobNotifier implementations the agent may be wired with
          InitPolicies, \* the policy row of the namespace at start, or NoRow
          Programs,     \* program paths of the peers
          Stored,       \* sensitivities of the secrets that are put
          Enrolled,     \* classes of the devices that are paired (only the mock signs)
          None,         \* no secret, no challenge, no request, no device
          NoRow,        \* no policy row
          MaxSecrets,   \* bound: how often the handle is (re-)created
          MaxFaults     \* bound: storage errors, seals and disconnects

ASSUME RevealAssumption ==
  /\ Notifiers \subseteq {"adapter", "fixture", "localhost", "terminal", "desktop", "mock"}
  /\ None \notin Requests
  /\ Stored \subseteq Sensitivities /\ Enrolled \subseteq DeviceClasses
  /\ MaxSecrets \in Nat \ {0} /\ MaxFaults \in Nat

VARIABLES
  \* the vault
  unsealed,   \* identity is Unsealed and hmac_key is present
  secret,     \* the row of the handle: [id, sens], or None
  created,    \* rows made so far
  policy,     \* the namespace policy row, or NoRow
  device,     \* class of the first enrolled device that is not revoked, or None
  audit,      \* entries: [req, outcome]
  \* the requests
  pc,         \* the next step of the handler
  frame,      \* its local variables: channel, program, sensitivity, policy, device, oob_ack
  challenge,  \* the challenge it issued, or None
  verdict,    \* what the command decided: "none", "allow", "deny" or "expired"
  answer,     \* the response, or None
  \* the out-of-band side
  notifier,   \* the OobNotifier in AppContext
  pending,    \* PendingChallengeRegistry: "none", "orphan" (receiver dropped) or "waiting"
  inbox,      \* what the receiver of a request holds: NoAnswer or a resolution
  reader,     \* terminal: threads blocked in read_key_from_tty
  forwarder,  \* terminal: tasks that still wait for their reader
  screen,     \* the challenge shown last to the operator, or None
  fixture,    \* the fixture file: None or [id, outcome]; id None is the wildcard
  pages,      \* the challenges with a localhost page
  approvals,  \* history: the challenges the operator approved
  \* bounds
  faults

vault == <<unsealed, secret, created, policy, device>>
registry == <<pending, inbox>>
tty   == <<reader, forwarder, screen>>
oob   == <<notifier, registry, tty, fixture, pages, approvals>>
local == <<frame, challenge, verdict>>
vars  == <<vault, audit, pc, local, answer, oob, faults>>

Channels == {"desktop", "terminal", "localhost"}
Outcomes == {"approved", "denied"}
(* An OobResolution names its challenge; only a device signs one.           *)
Res(ch, o, s) == [ch |-> ch, outcome |-> o, sig |-> s]
NoAnswer == Res(None, "none", "none")
Done == "done"
NoFrame == [chan |-> "desktop", program |-> NoProgram, sens |-> "low", cfg |-> NoRow,
            bound |-> None, ack |-> FALSE]

Init ==
  /\ unsealed = TRUE
  /\ secret \in {None} \cup [id : {1}, sens : Stored]
  /\ created = 1
  /\ policy \in InitPolicies
  /\ notifier \in Notifiers
  /\ device \in {None} \cup (IF notifier = "mock" THEN Enrolled ELSE {})
  /\ audit = {}
  /\ pc = [r \in Requests |-> "idle"]
  /\ frame = [r \in Requests |-> NoFrame]
  /\ challenge = [r \in Requests |-> None]
  /\ verdict = [r \in Requests |-> "none"]
  /\ answer = [r \in Requests |-> None]
  /\ pending = [r \in Requests |-> "none"]
  /\ inbox = [r \in Requests |-> NoAnswer]
  /\ reader = {} /\ forwarder = {} /\ screen = None
  /\ fixture = None
  /\ pages = {} /\ approvals = {}
  /\ faults = 0

Goto(r, l) == pc' = [pc EXCEPT ![r] = l]
Reply(r, a) == /\ Goto(r, Done)
               /\ answer' = [answer EXCEPT ![r] = a]
               /\ frame' = [frame EXCEPT ![r] = NoFrame]
Err(r, e) == Reply(r, [error |-> e])
Keep(r, f, l) == /\ frame' = [frame EXCEPT ![r] = f] /\ Goto(r, l) /\ UNCHANGED answer
Fault == faults < MaxFaults /\ faults' = faults + 1
Stay == UNCHANGED faults
Rule(r, v) == verdict' = [verdict EXCEPT ![r] = v]
Refuse(r, v) == Rule(r, v) /\ Goto(r, "deny")

-----------------------------------------------------------------------------
(* The handler: handlers/reveal.rs *)

(* slash_command, then the seal gate before any lookup. *)
Call(r, slash, ch, prog) ==
  /\ pc[r] = "idle"
  /\ \/ ~slash /\ Err(r, "operator_confirmation_required")
     \/ slash /\ ~unsealed /\ Err(r, "sealed")
     \/ slash /\ unsealed /\ Keep(r, [NoFrame EXCEPT !.chan = ch, !.program = prog], "lookup")
  /\ Stay /\ UNCHANGED <<vault, audit, oob, challenge, verdict>>

StorageFails(r) ==
  /\ pc[r] \in {"lookup", "gate", "policy", "execute", "load", "deny", "allow"}
  /\ Fault /\ Err(r, "storage")
  /\ UNCHANGED <<vault, audit, oob, challenge, verdict>>

(* The first load decides which sensitivity the request is judged by. *)
Lookup(r) ==
  /\ pc[r] = "lookup"
  /\ IF secret = None THEN Err(r, "not_found")
     ELSE Keep(r, [frame[r] EXCEPT !.sens = secret.sens], "gate")
  /\ Stay /\ UNCHANGED <<vault, audit, oob, challenge, verdict>>

(* consumer_gate::check, then derive_dek. *)
Admitted(r) == policy # NoRow => GateAllows(policy.allowed_consumers, frame[r].program)
Gate(r) ==
  /\ pc[r] = "gate"
  /\ \/ ~Admitted(r) /\ Err(r, "consumer_denied")
     \/ Admitted(r) /\ ~unsealed /\ Err(r, "sealed")
     \/ Admitted(r) /\ unsealed /\ Keep(r, [frame[r] EXCEPT !.program = NoProgram], "policy")
  /\ Stay /\ UNCHANGED <<vault, audit, oob, challenge, verdict>>

(* The policy that governs this reveal; Balanced where there is no row. *)
Effective == IF policy = NoRow THEN DefaultsFor("balanced") ELSE policy

LoadPolicy(r) ==
  /\ pc[r] = "policy"
  /\ IF ~Effective.reveal.allowed THEN Err(r, "reveal_disabled")
     ELSE Keep(r, [frame[r] EXCEPT !.cfg = Effective], "execute")
  /\ Stay /\ UNCHANGED <<vault, audit, oob, challenge, verdict>>

-----------------------------------------------------------------------------
(* RevealSecretCommand::execute: reveal_secret.rs *)

Threshold(r) == frame[r].cfg.reveal.require_oob_above
Required(r) == OobRequired(frame[r].sens, Threshold(r), frame[r].cfg.security_profile)

(* list_companion_devices, then the seal gate of the command. *)
Execute(r) ==
  /\ pc[r] = "execute"
  /\ IF ~unsealed THEN Err(r, "sealed")
     ELSE Keep(r, [frame[r] EXCEPT !.bound = device], IF Required(r) THEN "dispatch" ELSE "decide")
  /\ Stay /\ UNCHANGED <<vault, audit, oob, challenge, verdict>>

(* The class that is required is the class of the device that was found. *)
Class(r) == IF frame[r].bound = None THEN "software" ELSE frame[r].bound
Decision(r) ==
  Decide(TRUE, frame[r].ack, frame[r].sens, Threshold(r),
         frame[r].cfg.security_profile, Class(r), Class(r))

Decided(r) ==
  /\ pc[r] = "decide"
  /\ IF Decision(r) = {} THEN Rule(r, "allow") /\ Goto(r, "load") ELSE Refuse(r, "deny")
  /\ Stay /\ UNCHANGED <<vault, audit, oob, frame, challenge, answer>>

(* Every denial of the command is audited before it is returned. *)
AuditDeny(r) ==
  /\ pc[r] = "deny"
  /\ IF unsealed
     THEN audit' = audit \cup {[req |-> r, outcome |-> "deny"]} /\ Err(r, "policy_denied")
     ELSE Err(r, "sealed") /\ UNCHANGED audit
  /\ Stay /\ UNCHANGED <<vault, oob, challenge, verdict>>

(* The second load of the handle, and the decryption with the DEK that the   *)
(* handler derived: a row made since then decrypts as well as the old one.   *)
Load(r) ==
  /\ pc[r] = "load"
  /\ IF secret = None THEN Err(r, "not_found")
     ELSE /\ Goto(r, "allow")
          /\ answer' = [answer EXCEPT ![r] = [plaintext |-> secret, gated |-> Required(r)]]
          /\ UNCHANGED frame
  /\ Stay /\ UNCHANGED <<vault, audit, oob, challenge, verdict>>

AuditAllow_BestEffort(r) ==
  /\ pc[r] = "allow"
  /\ IF unsealed
     THEN /\ audit' = audit \cup {[req |-> r, outcome |-> "allow"]}
          /\ Reply(r, answer[r])
     ELSE Reply(r, answer[r]) /\ UNCHANGED audit
  /\ Stay /\ UNCHANGED <<vault, oob, challenge, verdict>>

AuditAllow(r) ==
  /\ pc[r] = "allow"
  /\ IF unsealed
     THEN /\ audit' = audit \cup {[req |-> r, outcome |-> "allow"]}
          /\ Reply(r, answer[r])
     ELSE Err(r, "sealed") /\ UNCHANGED audit
  /\ Stay /\ UNCHANGED <<vault, oob, challenge, verdict>>

-----------------------------------------------------------------------------
(* The notifier: dispatch, await_resolution and what answers them *)

Register(r, s) == pending' = [pending EXCEPT ![r] = s]
Issue(r) == challenge' = [challenge EXCEPT ![r] = r] /\ Goto(r, "await")

Resolve_Broadcast(r, res) ==
  /\ Register(r, "none")
  /\ inbox' = [q \in Requests |-> IF pending[q] = "waiting" THEN res ELSE inbox[q]]

(* PendingChallengeRegistry::resolve: remove, and send if the receiver lives. *)
Resolve(r, res) ==
  /\ Register(r, "none")
  /\ inbox' = IF pending[r] = "waiting" THEN [inbox EXCEPT ![r] = res] ELSE inbox

(* The channel that really shows the challenge. *)
Via(r) == IF notifier = "adapter" THEN frame[r].chan ELSE notifier

(* OobNotifierAdapter refuses when the channel is not available. *)
DispatchFails(r) ==
  /\ pc[r] = "dispatch" /\ notifier \in {"adapter", "localhost"}
  /\ Refuse(r, "deny")
  /\ Stay /\ UNCHANGED <<vault, audit, oob, frame, challenge, answer>>

(* A desktop notification or a localhost page: the receiver of this first    *)
(* registration is dropped at once.                                         *)
DispatchPage(r) ==
  /\ pc[r] = "dispatch" /\ Via(r) \in {"desktop", "localhost"}
  /\ Register(r, "orphan")
  /\ pages' = IF Via(r) = "localhost" THEN pages \cup {r} ELSE pages
  /\ Issue(r)
  /\ Stay /\ UNCHANGED <<vault, audit, frame, verdict, answer, notifier, inbox, tty, fixture, approvals>>

(* The terminal prompt: a thread that reads one key and a task that forwards *)
(* it until the deadline.                                                   *)
DispatchTty(r) ==
  /\ pc[r] = "dispatch" /\ Via(r) = "terminal"
  /\ reader' = reader \cup {r} /\ forwarder' = forwarder \cup {r} /\ screen' = r
  /\ Issue(r)
  /\ Stay /\ UNCHANGED <<vault, audit, frame, verdict, answer, notifier, registry, fixture, pages,
                         approvals>>

(* MERKLE_OOB_AUTO_DENY in a debug build: the answer waits in pre_resolved.  *)
DispatchAutoDeny(r) ==
  /\ pc[r] = "dispatch" /\ Via(r) = "terminal"
  /\ inbox' = [inbox EXCEPT ![r] = Res(r, "denied", "none")]
  /\ Issue(r)
  /\ Stay /\ UNCHANGED <<vault, audit, frame, verdict, answer, notifier, pending, tty, fixture, pages,
                         approvals>>

(* The fixture and the mock send nothing; the test knows the challenge.      *)
DispatchTest(r) ==
  /\ pc[r] = "dispatch" /\ notifier \in {"fixture", "mock"}
  /\ Issue(r)
  /\ Stay /\ UNCHANGED <<vault, audit, frame, verdict, answer, oob>>

(* The dispatching adapter does not route await_resolution to a channel.     *)
AwaitUnrouted(r) ==
  /\ pc[r] = "await" /\ notifier = "adapter"
  /\ Refuse(r, "expired")
  /\ Stay /\ UNCHANGED <<vault, audit, oob, frame, challenge, answer>>

(* A channel registers again, which evicts the first registration: an answer *)
(* given before this step is lost. The terminal first looks in pre_resolved. *)
Await(r) ==
  /\ pc[r] = "await" /\ notifier \in {"desktop", "localhost", "terminal"}
  /\ IF inbox[r] # NoAnswer THEN UNCHANGED pending ELSE Register(r, "waiting")
  /\ Goto(r, "waiting")
  /\ Stay /\ UNCHANGED <<vault, audit, local, answer, notifier, inbox, tty,
                         fixture, pages, approvals>>

AwaitTest(r) ==
  /\ pc[r] = "await" /\ notifier \in {"fixture", "mock"}
  /\ Goto(r, "waiting")
  /\ Stay /\ UNCHANGED <<vault, audit, oob, local, answer>>

TryConsume_AnyId(r) ==
  /\ pc[r] = "waiting" /\ notifier = "fixture" /\ inbox[r] = NoAnswer
  /\ fixture # None
  /\ inbox' = [inbox EXCEPT ![r] = Res(r, fixture.outcome, "none")]
  /\ fixture' = None
  /\ Stay /\ UNCHANGED <<vault, audit, pc, local, answer, notifier, pending, tty, pages, approvals>>

(* FileFixtureOobNotifier::try_consume: its id or the wildcard; the file is  *)
(* deleted by the request that takes it.                                    *)
TryConsume(r) ==
  /\ pc[r] = "waiting" /\ notifier = "fixture" /\ inbox[r] = NoAnswer
  /\ fixture # None /\ fixture.id \in {r, None}
  /\ inbox' = [inbox EXCEPT ![r] = Res(r, fixture.outcome, "none")]
  /\ fixture' = None
  /\ Stay /\ UNCHANGED <<vault, audit, pc, local, answer, notifier, pending, tty, pages, approvals>>

(* 120 s passed. A receiver that is dropped leaves its sender registered.    *)
Timeout(r) ==
  /\ pc[r] = "waiting" /\ inbox[r] = NoAnswer
  /\ pending' = IF pending[r] = "waiting" THEN [pending EXCEPT ![r] = "orphan"] ELSE pending
  /\ Refuse(r, "expired")
  /\ Stay /\ UNCHANGED <<vault, audit, frame, challenge, answer, notifier, inbox, tty,
                         fixture, pages, approvals>>

(* Approval, and the signature of an enrolled device when there is one.      *)
SignatureOk(r) == frame[r].bound # None => inbox[r].sig # "invalid"
Receive(r) ==
  /\ pc[r] = "waiting" /\ inbox[r] # NoAnswer
  /\ LET ok == inbox[r].outcome = "approved" /\ SignatureOk(r)
     IN  /\ frame' = [frame EXCEPT ![r].ack = ok]
         /\ IF ok THEN Goto(r, "decide") /\ UNCHANGED verdict ELSE Refuse(r, "deny")
  /\ Stay /\ UNCHANGED <<vault, audit, oob, challenge, answer>>

-----------------------------------------------------------------------------
(* The operator *)

Note(r, o) == approvals' = IF o = "approved" THEN approvals \cup {r} ELSE approvals

(* POST /oob/{id}/approve or /deny on the localhost page, any number of times. *)
Click(r, o) ==
  /\ r \in pages /\ pending[r] # "none"
  /\ Resolve(r, Res(r, o, "none")) /\ Note(r, o)
  /\ Stay /\ UNCHANGED <<vault, audit, pc, local, answer, notifier, tty,
                         fixture, pages>>

(* A key is meant for the prompt shown last; whichever blocked reader wakes  *)
(* up takes it. Its forwarder, if it still waits, resolves the challenge.    *)
Key(r, o) ==
  /\ r \in reader /\ screen # None
  /\ reader' = reader \ {r} /\ forwarder' = forwarder \ {r}
  /\ Note(screen, o)
  /\ IF r \in forwarder THEN Resolve(r, Res(r, o, "none")) ELSE UNCHANGED <<pending, inbox>>
  /\ Stay /\ UNCHANGED <<vault, audit, pc, local, answer, notifier, screen, fixture, pages>>

(* expires_at is the moment of dispatch, so the forwarder gives up after 1 ms; *)
(* the reader stays blocked on the terminal.                                *)
TtyDeadline(r) ==
  /\ r \in forwarder
  /\ forwarder' = forwarder \ {r}
  /\ Resolve(r, Res(r, "expired", "none"))
  /\ Stay /\ UNCHANGED <<vault, audit, pc, local, answer, notifier, reader, screen, fixture, pages,
                         approvals>>

(* The test writes the fixture for one challenge or for whichever comes next. *)
WriteFixture(id, o) ==
  /\ notifier = "fixture" /\ fixture = None
  /\ id # None => challenge[id] = id
  /\ fixture' = [id |-> id, outcome |-> o]
  /\ approvals' = CASE o # "approved" -> approvals
                    [] id = None -> approvals \cup Requests
                    [] OTHER -> approvals \cup {id}
  /\ Stay /\ UNCHANGED <<vault, audit, pc, local, answer, notifier, registry, tty, pages>>

(* MockOobNotifier::preload, the only notifier that carries a device's       *)
(* signature; only that of an approval is looked at.                        *)
Preload(r, o, s) ==
  /\ notifier = "mock" /\ inbox[r] = NoAnswer /\ pc[r] = "await"
  /\ o # "approved" => s = "none"
  /\ inbox' = [inbox EXCEPT ![r] = Res(r, o, s)]
  /\ Note(r, o)
  /\ Stay /\ UNCHANGED <<vault, audit, pc, local, answer, notifier, pending, tty, fixture, pages>>

-----------------------------------------------------------------------------
(* Other clients, and the client of a request *)

PutSecret(s) ==
  /\ unsealed /\ secret = None /\ created < MaxSecrets
  /\ created' = created + 1
  /\ secret' = [id |-> created', sens |-> s]
  /\ Stay /\ UNCHANGED <<unsealed, policy, device, audit, pc, local, answer, oob>>

DeleteSecret ==
  /\ unsealed /\ secret # None
  /\ secret' = None
  /\ Stay /\ UNCHANGED <<unsealed, created, policy, device, audit, pc, local, answer, oob>>

(* BindNamespaceCommand on a namespace without a policy row. *)
Bind ==
  /\ unsealed /\ policy = NoRow
  /\ policy' = DefaultsFor("balanced")
  /\ Stay /\ UNCHANGED <<unsealed, secret, created, device, audit, pc, local, answer, oob>>

RevokeDevice ==
  /\ unsealed /\ device # None /\ device' = None
  /\ Stay /\ UNCHANGED <<unsealed, secret, created, policy, audit, pc, local, answer, oob>>

Seal ==
  /\ unsealed /\ unsealed' = FALSE /\ Fault
  /\ UNCHANGED <<secret, created, policy, device, audit, pc, local, answer, oob>>

Unseal ==
  /\ ~unsealed /\ unsealed' = TRUE
  /\ Stay /\ UNCHANGED <<secret, created, policy, device, audit, pc, local, answer, oob>>

(* The client hangs up: axum drops the handler's future with its receiver.    *)
HangUp(r) ==
  /\ pc[r] \notin {"idle", Done} /\ Fault
  /\ Err(r, "disconnected")
  /\ pending' = IF pending[r] = "waiting" THEN [pending EXCEPT ![r] = "orphan"] ELSE pending
  /\ UNCHANGED <<vault, audit, challenge, verdict, notifier, inbox, tty, fixture, pages,
                 approvals>>

(* The only state in which nothing more happens: a request that could neither *)
(* go on nor time out would be a deadlock.                                  *)
AllDone ==
  /\ \A r \in Requests : pc[r] = Done
  /\ UNCHANGED vars

Progress(r) ==
  \/ Lookup(r) \/ Gate(r) \/ LoadPolicy(r) \/ Execute(r)
  \/ Decided(r) \/ AuditDeny(r) \/ Load(r) \/ AuditAllow(r)
  \/ DispatchFails(r) \/ DispatchPage(r) \/ DispatchTty(r) \/ DispatchAutoDeny(r)
  \/ DispatchTest(r) \/ AwaitUnrouted(r) \/ Await(r) \/ AwaitTest(r)
  \/ TryConsume(r) \/ Timeout(r) \/ Receive(r)

Operator(r) ==
  \/ \E o \in Outcomes : Click(r, o) \/ Key(r, o)
  \/ \E o \in Outcomes \cup {"expired"}, s \in {"none", "valid", "invalid"} : Preload(r, o, s)

(* Only the adapter looks at the channel a request asks for.                *)
Wanted == IF notifier = "adapter" THEN Channels ELSE {"desktop"}

Next ==
  \/ \E r \in Requests :
       \/ \E slash \in BOOLEAN, ch \in Wanted, prog \in Programs : Call(r, slash, ch, prog)
       \/ Progress(r) \/ Operator(r) \/ TtyDeadline(r)
       \/ StorageFails(r) \/ HangUp(r)
  \/ \E id \in Requests \cup {None}, o \in Outcomes \cup {"expired"} : WriteFixture(id, o)
  \/ \E s \in Stored : PutSecret(s)
  \/ DeleteSecret \/ Bind \/ RevokeDevice \/ Seal \/ Unseal
  \/ AllDone

Spec == Init /\ [][Next]_vars

-----------------------------------------------------------------------------
(* Properties *)

Resolutions == [ch : Requests \cup {None}, outcome : {"none", "approved", "denied", "expired"},
                sig : {"none", "valid", "invalid"}]

(* Every variable has its type (the state of reveal.rs, reveal_secret.rs and *)
(* of the notifiers).                                                       *)
TypeOK ==
  /\ unsealed \in BOOLEAN /\ created \in 1 .. MaxSecrets /\ faults \in 0 .. MaxFaults
  /\ secret \in {None} \cup [id : 1 .. MaxSecrets, sens : Sensitivities]
  /\ audit \subseteq [req : Requests, outcome : {"allow", "deny"}]
  /\ device \in {None} \cup DeviceClasses
  /\ challenge \in [Requests -> Requests \cup {None}]
  /\ verdict \in [Requests -> {"none", "allow", "deny", "expired"}]
  /\ pending \in [Requests -> {"none", "orphan", "waiting"}]
  /\ inbox \in [Requests -> Resolutions]
  /\ reader \subseteq Requests /\ forwarder \subseteq reader /\ pages \subseteq Requests

Revealed(r) == pc[r] = Done /\ "plaintext" \in DOMAIN answer[r]

(* A reveal that its policy gates out of band returned plaintext only if the *)
(* operator approved that very challenge: no late, lost, duplicate or        *)
(* foreign answer opens it (reveal_secret.rs, pending.rs, the channels). On   *)
(* the terminal, where a key may reach another prompt's reader, some          *)
(* challenge was approved.                                                  *)
ConfirmedByOperator ==
  \A r \in Requests : Revealed(r) /\ answer[r].gated =>
    IF notifier = "terminal" THEN approvals # {} ELSE r \in approvals

(* README.md: "High-sensitivity secrets require out-of-band (OOB) human       *)
(* acknowledgment" - for the secret that was really returned.               *)
HighNeedsApproval ==
  \A r \in Requests : Revealed(r) /\ answer[r].plaintext.sens = "high" => approvals # {}

(* What the client was told agrees with the audit log: plaintext only after  *)
(* its Allow entry, a policy denial of the command only after its Deny entry,*)
(* and never both for one request (audit_commit before return).             *)
Logged(r, o) == [req |-> r, outcome |-> o] \in audit
AnswerIsAudited ==
  \A r \in Requests :
    /\ Revealed(r) => Logged(r, "allow")
    /\ pc[r] = Done /\ answer[r] = [error |-> "policy_denied"] => Logged(r, "deny")
    /\ ~(Logged(r, "allow") /\ Logged(r, "deny"))

(* The same, on a well-typed state: what was told is what is on record.      *)
AuditAgrees == TypeOK /\ AnswerIsAudited

(* The abstract state of a request. *)
AbsState(r) ==
  CASE verdict[r] = "allow" -> "Approved"
    [] verdict[r] = "deny" -> "Denied"
    [] verdict[r] = "expired" -> "Expired"
    [] OTHER -> IF challenge[r] = None THEN "Pending" ELSE "AwaitingOob"

Aggregate(r) ==
  INSTANCE RevealRequest WITH
    Challenges <- Requests, NoChallenge <- None,
    state <- AbsState(r), challenge <- challenge[r],
    resolution <- IF verdict[r] \in {"allow", "deny"} THEN inbox[r].ch ELSE None

(* Each request lives the life of the domain's RevealRequest aggregate: a     *)
(* challenge is issued at most once, from Pending; it is resolved at most     *)
(* once, by a resolution of its own challenge; nothing leaves a final state. *)
ImplementsAggregate ==
  /\ \A r \in Requests : Aggregate(r)!Init
  /\ [][\A r \in Requests : [Aggregate(r)!Next]_(Aggregate(r)!vars)]_vars
=============================================================================
