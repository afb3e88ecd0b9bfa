---------------------------- MODULE Reveal_proofs ----------------------------
(***************************************************************************)
(* Proofs about module Reveal and the policy decisions it is built on: what  *)
(* the two decisions grant, that the client is told what the audit log says, *)
(* that a gated reveal was confirmed by the operator, and that each request  *)
(* lives the life of the domain's RevealRequest aggregate. They hold for any *)
(* number of requests, every notifier and every policy row.                 *)
(***************************************************************************)
EXTENDS Reveal, TLAPS

-----------------------------------------------------------------------------
(* The decisions of module Policy, for every policy row, tampered or imported *)
(* ones included, and every input.                                          *)

Checks(p, in) == << CheckUnsealRequired(in), CheckCrossNamespace(p, in),
                    CheckRateLimit(p, in), CheckAllowedConsumers(p, in),
                    CheckTags(p, in), CheckReveal(p, in), CheckUnsealOpState(in) >>

(* The chain of early returns of evaluate lets an input pass only when every *)
(* check does: no check is shadowed by the one that is reported.            *)
LEMMA AllChecksPass ==
    ASSUME NEW p, NEW in, Evaluate(p, in) = {}
    PROVE  \A k \in 1..7 : Checks(p, in)[k] = {}
<1> DEFINE checks == Checks(p, in)
           failed == {k \in DOMAIN checks : checks[k] # {}}
<1>1. DOMAIN checks = 1..7
  BY DEF Checks
<1>2. Evaluate(p, in) = IF failed = {} THEN {}
                        ELSE checks[CHOOSE k \in failed : \A l \in failed : k <= l]
  BY DEF Evaluate, Checks
<1>3. ASSUME failed # {} PROVE \E k \in failed : \A l \in failed : k <= l
  <2>1. failed \subseteq 1..7
    BY <1>1
  <2> HIDE DEF failed
  <2>2. PICK m \in failed : TRUE
    BY <1>3
  <2> QED
    BY <2>1, <1>3, SMTT(30)
<1>4. failed = {}
  <2> SUFFICES ASSUME failed # {} PROVE FALSE
    OBVIOUS
  <2> DEFINE first == CHOOSE k \in failed : \A l \in failed : k <= l
  <2>1. first \in failed
    BY <1>3
  <2>2. checks[first] # {}
    BY <2>1
  <2>3. Evaluate(p, in) = checks[first]
    BY <1>2
  <2> HIDE DEF first, checks
  <2> QED
    BY <2>2, <2>3
<1> QED
  BY <1>1, <1>4

(* evaluator.rs and decision.rs: whatever threshold a policy row carries, a   *)
(* high-sensitivity secret is revealed only with an out-of-band              *)
(* acknowledgment, by the evaluator and by the command's own decision.        *)
THEOREM HighNeedsAck ==
    ASSUME NEW p, NEW in, in.op = "reveal", in.sensitivity = "high",
           NEW threshold \in Sensitivities, NEW profile, NEW slash, NEW ack \in BOOLEAN,
           NEW bound, NEW required
    PROVE  /\ Evaluate(p, in) = {} => in.oob_ack
           /\ Decide(slash, ack, "high", threshold, profile, bound, required) = {} => ack
<1>1. Evaluate(p, in) = {} => in.oob_ack
  <2> SUFFICES ASSUME Evaluate(p, in) = {}, ~in.oob_ack PROVE FALSE
    OBVIOUS
  <2>1. CheckReveal(p, in) = {}
    BY AllChecksPass DEF Checks
  <2> QED
    BY <2>1 DEF CheckReveal
<1>2. Decide(slash, ack, "high", threshold, profile, bound, required) = {} => ack
  BY DEF Decide, OobRequired, Level, Sensitivities
<1> QED
  BY <1>1, <1>2

(* evaluator.rs: while the vault is sealed only an unseal passes, and once it *)
(* is shutting down nothing does, whatever the policy row says.              *)
THEOREM SealedPassesOnlyUnseal ==
    ASSUME NEW p, NEW in, Evaluate(p, in) = {}
    PROVE  /\ in.vault_state = "sealed" => in.op = "unseal"
           /\ in.vault_state # "shutting_down"
<1>1. CheckUnsealRequired(in) = {}
  BY AllChecksPass DEF Checks
<1> QED
  BY <1>1 DEF CheckUnsealRequired

(* The two decisions agree in one direction for the defaults of every profile:*)
(* a reveal by slash command that PolicyEvaluator lets through is let through *)
(* by RevealSecretCommand's own decision on the same facts, so the command,   *)
(* which never calls the evaluator, refuses nothing the policy context grants.*)
THEOREM CommandGrantsWhatPolicyGrants ==
    ASSUME NEW profile \in Profiles, NEW in, in.op = "reveal", in.slash_command = TRUE,
           in.oob_ack \in BOOLEAN, in.sensitivity \in Sensitivities,
           in.bound_device_class \in DeviceClasses,
           Evaluate(DefaultsFor(profile), in) = {}
    PROVE  Decide(in.slash_command, in.oob_ack, in.sensitivity,
                  DefaultsFor(profile).reveal.require_oob_above, profile,
                  in.bound_device_class, DefaultsFor(profile).required_class) = {}
<1> DEFINE p == DefaultsFor(profile)
<1>1. CheckReveal(p, in) = {}
  BY AllChecksPass DEF Checks
<1>2. /\ p.reveal = RevealDefaults(profile)
      /\ p.required_class = DeviceDefaults(profile)
  BY DEF DefaultsFor
<1>3. p.reveal.allowed /\ profile # "paranoid"
  <2>1. p.reveal.allowed
    <3> HIDE DEF p
    <3> QED
      BY <1>1 DEF CheckReveal
  <2>2. p.reveal.allowed = (profile # "paranoid")
    BY <1>2 DEF RevealDefaults
  <2> QED
    BY <2>1, <2>2
<1>4. OobRequired(in.sensitivity, p.reveal.require_oob_above, profile) => in.oob_ack
  BY <1>1, <1>3 DEF CheckReveal, OobRequired, OobRequiredFor
<1>5. SatisfiedBy(p.required_class, in.bound_device_class)
  BY <1>1, <1>3 DEF CheckReveal
<1>6. ~(DeviceRank(in.bound_device_class) < DeviceRank(p.required_class))
  <2>1. p.required_class \in DeviceClasses
    BY <1>2 DEF DeviceDefaults, Profiles, DeviceClasses
  <2>2. \A d \in DeviceClasses : DeviceRank(d) \in Nat
    BY DEF DeviceRank, DeviceClasses
  <2> QED
    BY <1>5, <2>1, <2>2 DEF SatisfiedBy
<1> HIDE DEF p
<1> QED
  BY <1>4, <1>6 DEF Decide, p

-----------------------------------------------------------------------------
(* The shape of the state. *)

Labels == {"idle", "lookup", "gate", "policy", "execute", "dispatch", "await", "waiting",
           "decide", "load", "deny", "allow", Done}
Policies == InitPolicies \cup {NoRow, DefaultsFor("balanced")}
Frames == [chan : Channels, program : Programs \cup {NoProgram}, sens : Sensitivities,
           cfg : Policies, bound : {None} \cup DeviceClasses, ack : BOOLEAN]
ErrorCodes == {"operator_confirmation_required", "sealed", "storage", "not_found", "consumer_denied",
               "reveal_disabled", "policy_denied", "disconnected"}
Errors == [error : ErrorCodes]
SecretRows == [id : 1 .. MaxSecrets, sens : Sensitivities]
Plaintexts == [plaintext : SecretRows, gated : BOOLEAN]
Fixtures == [id : Requests \cup {None}, outcome : Outcomes \cup {"expired"}]

HandlerType ==
  /\ pc \in [Requests -> Labels]
  /\ frame \in [Requests -> Frames]
  /\ answer \in [Requests -> {None} \cup Errors \cup Plaintexts]
  /\ policy \in Policies

OobType ==
  /\ notifier \in {"adapter", "fixture", "localhost", "terminal", "desktop", "mock"}
  /\ screen \in Requests \cup {None}
  /\ fixture \in {None} \cup Fixtures
  /\ approvals \subseteq Requests

-----------------------------------------------------------------------------
(* The audit log against the answers: an entry is the last thing a request    *)
(* writes, plaintext waits at "allow" for its entry and no other error looks  *)
(* like the command's denial.                                               *)
AuditInv ==
  \A r \in Requests :
    /\ \A o \in {"allow", "deny"} : Logged(r, o) => pc[r] = Done
    /\ pc[r] = Done => answer[r] \in Errors \cup Plaintexts
    /\ pc[r] = "allow" => answer[r] \in Plaintexts
    /\ pc[r] = Done /\ answer[r] \in Plaintexts => Logged(r, "allow")
    /\ pc[r] = Done /\ answer[r] = [error |-> "policy_denied"] => Logged(r, "deny")
    /\ ~(Logged(r, "allow") /\ Logged(r, "deny"))

(* What the operator's consent to request r amounts to. *)
Confirmed(r) == IF notifier = "terminal" THEN approvals # {} ELSE r \in approvals

(* Consent in the channels: through the fixture file and the inbox, and no     *)
(* channel forges it. The terminal's threads exist only where the terminal     *)
(* shows the prompt, and the dispatching adapter never registers a receiver.   *)
ChannelInv ==
  /\ reader # {} => notifier \in {"terminal", "adapter"}
  /\ fixture # None /\ fixture.outcome = "approved" =>
       IF fixture.id = None THEN Requests \subseteq approvals ELSE fixture.id \in approvals
  /\ \A r \in Requests :
       /\ pending[r] = "waiting" => notifier \in {"desktop", "localhost", "terminal"}
       /\ inbox[r].outcome = "approved" => Confirmed(r)

(* Consent in the handler: from the acknowledgment in the frame through the    *)
(* decision to the plaintext.                                               *)
AckInv ==
  \A r \in Requests :
    /\ frame[r].ack => Confirmed(r)
    /\ pc[r] = "load" => (Required(r) => frame[r].ack)
    /\ pc[r] \in {"allow", Done} /\ answer[r] \in Plaintexts =>
         (answer[r].gated => Confirmed(r))

(* The life of a request: its challenge is issued on the way from "dispatch"  *)
(* to "await", a receiver is registered only while the handler waits and      *)
(* holds no answer, every answer names the request's own challenge, and a      *)
(* verdict is the last thing that is decided.                               *)
LifeInv ==
  \A r \in Requests :
    /\ challenge[r] \in {None, r}
    /\ inbox[r] = NoAnswer \/ inbox[r].ch = r
    /\ pending[r] = "waiting" => pc[r] = "waiting" /\ inbox[r] = NoAnswer
    /\ pc[r] \in {"idle", "lookup", "gate", "policy", "execute", "dispatch"} =>
         challenge[r] = None /\ verdict[r] = "none"
    /\ pc[r] \in {"await", "waiting"} => challenge[r] = r /\ verdict[r] = "none"
    /\ pc[r] = "decide" => /\ verdict[r] = "none"
                           /\ challenge[r] = r => inbox[r].ch = r

IInv == TypeOK /\ HandlerType /\ OobType /\ AuditInv /\ ChannelInv /\ AckInv /\ LifeInv

-----------------------------------------------------------------------------
(* The audit log. *)

(* An answer is an error or plaintext, never both, and errors differ by code. *)
LEMMA AnswerShapes ==
    /\ \A e : [error |-> e] \notin Plaintexts
    /\ \A a \in Plaintexts : "plaintext" \in DOMAIN a
    /\ \A a \in Errors : "plaintext" \notin DOMAIN a
    /\ \A e \in ErrorCodes : [error |-> e] \in Errors
    /\ \A e, f : [error |-> e] = [error |-> f] => e = f
<1>1. \A a \in Plaintexts : "plaintext" \in DOMAIN a
  BY DEF Plaintexts
<1>2. \A e : "plaintext" \notin DOMAIN [error |-> e]
  OBVIOUS
<1>3. \A a \in Errors : "plaintext" \notin DOMAIN a
  BY DEF Errors
<1>4. \A e \in ErrorCodes : [error |-> e] \in Errors
  BY DEF Errors
<1>5. \A e, f : [error |-> e] = [error |-> f] => e = f
  OBVIOUS
<1> QED
  BY <1>1, <1>2, <1>3, <1>4, <1>5

(* A step that touches neither handlers nor log. *)
LEMMA AuditQuiet ==
    ASSUME AuditInv, UNCHANGED <<pc, answer, audit>>
    PROVE  AuditInv'
  BY DEF AuditInv, Logged

(* A step of a handler that has not answered and does not yet answer. *)
LEMMA AuditMoves ==
    ASSUME HandlerType, AuditInv, NEW r \in Requests, pc[r] # Done,
           NEW l \in Labels \ {"allow", Done},
           pc' = [pc EXCEPT ![r] = l], UNCHANGED <<answer, audit>>
    PROVE  AuditInv'
<1>1. \A q \in Requests : pc'[q] = IF q = r THEN l ELSE pc[q]
  BY DEF HandlerType
<1> QED
  BY <1>1 DEF AuditInv, Logged

(* A handler that returns an error other than the command's denial. *)
LEMMA AuditFails ==
    ASSUME HandlerType, AuditInv, NEW r \in Requests, pc[r] # Done,
           NEW e \in ErrorCodes \ {"policy_denied"}, Err(r, e), UNCHANGED audit
    PROVE  AuditInv'
<1>1. \A q \in Requests : /\ pc'[q] = IF q = r THEN Done ELSE pc[q]
                          /\ answer'[q] = IF q = r THEN [error |-> e] ELSE answer[q]
  BY DEF HandlerType, Err, Reply, Goto
<1>2. Done # "allow"
  BY DEF Done
<1>3. [error |-> e] # [error |-> "policy_denied"]
  BY AnswerShapes
<1>4. /\ [error |-> e] \in Errors
      /\ [error |-> e] \notin Plaintexts
  BY AnswerShapes
<1> QED
  BY <1>1, <1>2, <1>3, <1>4 DEF AuditInv, Logged

(* What Load builds: the row that was found and whether its policy gates it. *)
LEMMA GatedPlaintext ==
    ASSUME TypeOK, NEW r \in Requests, secret # None
    PROVE  [plaintext |-> secret, gated |-> Required(r)] \in Plaintexts
<1>1. secret \in SecretRows
  BY DEF TypeOK, SecretRows
<1>2. Required(r) \in BOOLEAN
  BY DEF Required, OobRequired
<1> HIDE DEF Required
<1> QED
  BY <1>1, <1>2 DEF Plaintexts

(* Every step keeps the log and the answers in agreement. *)
LEMMA AuditStep ==
    ASSUME TypeOK, HandlerType, AuditInv, [Next]_vars
    PROVE  AuditInv'
<1> USE DEF Labels, Done, ErrorCodes
<1>1. ASSUME NEW r \in Requests, NEW slash \in BOOLEAN, NEW ch \in Wanted, NEW prog \in Programs,
             Call(r, slash, ch, prog) PROVE AuditInv'
  BY <1>1, AuditFails, AuditMoves DEF Call, Keep, Goto
<1>2. ASSUME NEW r \in Requests, Lookup(r) PROVE AuditInv'
  BY <1>2, AuditFails, AuditMoves DEF Lookup, Keep, Goto
<1>3. ASSUME NEW r \in Requests, Gate(r) PROVE AuditInv'
  BY <1>3, AuditFails, AuditMoves DEF Gate, Keep, Goto
<1>4. ASSUME NEW r \in Requests, LoadPolicy(r) PROVE AuditInv'
  BY <1>4, AuditFails, AuditMoves DEF LoadPolicy, Keep, Goto
<1>5. ASSUME NEW r \in Requests, Execute(r) PROVE AuditInv'
  BY <1>5, AuditFails, AuditMoves DEF Execute, Keep, Goto
<1>6. ASSUME NEW r \in Requests, Decided(r) PROVE AuditInv'
  BY <1>6, AuditMoves DEF Decided, Goto, Refuse, Issue, local
<1>7. ASSUME NEW r \in Requests, AuditDeny(r) PROVE AuditInv'
  <2>1. CASE ~unsealed
    BY <1>7, <2>1, AuditFails DEF AuditDeny
  <2>2. CASE unsealed
    <3> DEFINE entry == [req |-> r, outcome |-> "deny"]
    <3>1. /\ pc[r] = "deny"
          /\ audit' = audit \cup {entry}
          /\ \A q \in Requests : /\ pc'[q] = IF q = r THEN Done ELSE pc[q]
                                /\ answer'[q] = IF q = r THEN [error |-> "policy_denied"] ELSE answer[q]
      BY <1>7, <2>2 DEF AuditDeny, Err, Reply, Goto, HandlerType
    <3>2. \A q \in Requests, o \in {"allow", "deny"} :
            Logged(q, o)' <=> (Logged(q, o) \/ (q = r /\ o = "deny"))
      BY <3>1 DEF Logged
    <3>3. /\ [error |-> "policy_denied"] \in Errors
          /\ [error |-> "policy_denied"] \notin Plaintexts
      BY AnswerShapes
    <3> QED
      BY <3>1, <3>2, <3>3 DEF AuditInv
  <2> QED
    BY <2>1, <2>2
<1>8. ASSUME NEW r \in Requests, Load(r) PROVE AuditInv'
  <2>1. CASE secret = None
    BY <1>8, <2>1, AuditFails DEF Load
  <2>2. CASE secret # None
    <3> DEFINE a == [plaintext |-> secret, gated |-> Required(r)]
    <3>1. /\ pc[r] = "load"
          /\ UNCHANGED audit
          /\ \A q \in Requests : /\ pc'[q] = IF q = r THEN "allow" ELSE pc[q]
                                /\ answer'[q] = IF q = r THEN a ELSE answer[q]
      BY <1>8, <2>2 DEF Load, Goto, HandlerType
    <3>2. a \in Plaintexts
      BY <2>2, GatedPlaintext
    <3> HIDE DEF a
    <3> QED
      BY <3>1, <3>2 DEF AuditInv, Logged
  <2> QED
    BY <2>1, <2>2
<1>9. ASSUME NEW r \in Requests, AuditAllow(r) PROVE AuditInv'
  <2>1. CASE ~unsealed
    BY <1>9, <2>1, AuditFails DEF AuditAllow
  <2>2. CASE unsealed
    <3> DEFINE entry == [req |-> r, outcome |-> "allow"]
    <3>1. /\ pc[r] = "allow"
          /\ audit' = audit \cup {entry}
          /\ \A q \in Requests : /\ pc'[q] = IF q = r THEN Done ELSE pc[q]
                                /\ answer'[q] = answer[q]
      BY <1>9, <2>2 DEF AuditAllow, Reply, Goto, HandlerType
    <3>2. \A q \in Requests, o \in {"allow", "deny"} :
            Logged(q, o)' <=> (Logged(q, o) \/ (q = r /\ o = "allow"))
      BY <3>1 DEF Logged
    <3>3. answer[r] \in Plaintexts /\ answer[r] # [error |-> "policy_denied"]
      BY <3>1, AnswerShapes DEF AuditInv
    <3> QED
      BY <3>1, <3>2, <3>3 DEF AuditInv
  <2> QED
    BY <2>1, <2>2
<1>10. ASSUME NEW r \in Requests, DispatchFails(r) PROVE AuditInv'
  BY <1>10, AuditMoves DEF DispatchFails, Goto, Refuse, Issue, local
<1>11. ASSUME NEW r \in Requests, DispatchPage(r) PROVE AuditInv'
  BY <1>11, AuditMoves DEF DispatchPage, Goto, Refuse, Issue, local
<1>12. ASSUME NEW r \in Requests, DispatchTty(r) PROVE AuditInv'
  BY <1>12, AuditMoves DEF DispatchTty, Goto, Refuse, Issue, local
<1>13. ASSUME NEW r \in Requests, DispatchAutoDeny(r) PROVE AuditInv'
  BY <1>13, AuditMoves DEF DispatchAutoDeny, Goto, Refuse, Issue, local
<1>14. ASSUME NEW r \in Requests, DispatchTest(r) PROVE AuditInv'
  BY <1>14, AuditMoves DEF DispatchTest, Goto, Refuse, Issue, local
<1>15. ASSUME NEW r \in Requests, AwaitUnrouted(r) PROVE AuditInv'
  BY <1>15, AuditMoves DEF AwaitUnrouted, Goto, Refuse, Issue, local
<1>16. ASSUME NEW r \in Requests, Await(r) PROVE AuditInv'
  BY <1>16, AuditMoves DEF Await, Goto, Refuse, Issue, local
<1>17. ASSUME NEW r \in Requests, AwaitTest(r) PROVE AuditInv'
  BY <1>17, AuditMoves DEF AwaitTest, Goto, Refuse, Issue, local
<1>18. ASSUME NEW r \in Requests, TryConsume(r) PROVE AuditInv'
  BY <1>18, AuditQuiet DEF TryConsume, vars, local
<1>19. ASSUME NEW r \in Requests, Timeout(r) PROVE AuditInv'
  BY <1>19, AuditMoves DEF Timeout, Goto, Refuse, Issue, local
<1>20. ASSUME NEW r \in Requests, Receive(r) PROVE AuditInv'
  BY <1>20, AuditMoves DEF Receive, Goto, Refuse, Issue, local
<1>21. ASSUME NEW r \in Requests, NEW o \in Outcomes, Click(r, o) PROVE AuditInv'
  BY <1>21, AuditQuiet DEF Click, vars, local
<1>22. ASSUME NEW r \in Requests, NEW o \in Outcomes, Key(r, o) PROVE AuditInv'
  BY <1>22, AuditQuiet DEF Key, vars, local
<1>23. ASSUME NEW r \in Requests, NEW o \in Outcomes \cup {"expired"}, NEW s \in {"none", "valid", "invalid"},
             Preload(r, o, s) PROVE AuditInv'
  BY <1>23, AuditQuiet DEF Preload, vars, local
<1>24. ASSUME NEW r \in Requests, TtyDeadline(r) PROVE AuditInv'
  BY <1>24, AuditQuiet DEF TtyDeadline, vars, local
<1>25. ASSUME NEW r \in Requests, StorageFails(r) PROVE AuditInv'
  BY <1>25, AuditFails, AuditMoves DEF StorageFails, Keep, Goto
<1>26. ASSUME NEW r \in Requests, HangUp(r) PROVE AuditInv'
  BY <1>26, AuditFails, AuditMoves DEF HangUp, Keep, Goto
<1>27. ASSUME NEW id \in Requests \cup {None}, NEW o \in Outcomes \cup {"expired"},
             WriteFixture(id, o) PROVE AuditInv'
  BY <1>27, AuditQuiet DEF WriteFixture, vars, local
<1>28. ASSUME NEW s \in Stored, PutSecret(s) PROVE AuditInv'
  BY <1>28, AuditQuiet DEF PutSecret, vars, local
<1>29. ASSUME DeleteSecret PROVE AuditInv'
  BY <1>29, AuditQuiet DEF DeleteSecret, vars, local
<1>30. ASSUME Bind PROVE AuditInv'
  BY <1>30, AuditQuiet DEF Bind, vars, local
<1>31. ASSUME RevokeDevice PROVE AuditInv'
  BY <1>31, AuditQuiet DEF RevokeDevice, vars, local
<1>32. ASSUME Seal PROVE AuditInv'
  BY <1>32, AuditQuiet DEF Seal, vars, local
<1>33. ASSUME Unseal PROVE AuditInv'
  BY <1>33, AuditQuiet DEF Unseal, vars, local
<1>34. ASSUME AllDone PROVE AuditInv'
  BY <1>34, AuditQuiet DEF AllDone, vars, local
<1>35. CASE UNCHANGED vars
  BY <1>35, AuditQuiet DEF vars
<1> QED
  BY <1>1, <1>2, <1>3, <1>4, <1>5, <1>6, <1>7, <1>8, <1>9, <1>10, <1>11, <1>12, <1>13, <1>14,
     <1>15, <1>16, <1>17, <1>18, <1>19, <1>20, <1>21, <1>22, <1>23, <1>24, <1>25, <1>26, <1>27,
     <1>28, <1>29, <1>30, <1>31, <1>32, <1>33, <1>34, <1>35
     DEF Next, Progress, Operator

-----------------------------------------------------------------------------
(* Types. *)

LEMMA NoFrameType == NoFrame \in Frames
<1>1. "desktop" \in Channels /\ "low" \in Sensitivities /\ NoRow \in Policies
  BY DEF Channels, Sensitivities, Policies
<1> QED
  BY <1>1 DEF NoFrame, Frames

(* The assignments that the handler makes to its local variables. *)
LEMMA FrameUpdates ==
    ASSUME NEW f \in Frames
    PROVE  /\ \A c \in Channels, p \in Programs :
                [NoFrame EXCEPT !.chan = c, !.program = p] \in Frames
           /\ \A s \in Sensitivities : [f EXCEPT !.sens = s] \in Frames
           /\ [f EXCEPT !.program = NoProgram] \in Frames
           /\ \A p \in Policies : [f EXCEPT !.cfg = p] \in Frames
           /\ \A d \in {None} \cup DeviceClasses : [f EXCEPT !.bound = d] \in Frames
           /\ \A b \in BOOLEAN : [f EXCEPT !.ack = b] \in Frames
  BY NoFrameType DEF Frames

(* A handler goes on with a new frame. *)
LEMMA HandlerMoves ==
    ASSUME HandlerType, NEW r \in Requests, NEW l \in Labels, NEW f \in Frames,
           pc' = [pc EXCEPT ![r] = l], frame' = [frame EXCEPT ![r] = f],
           UNCHANGED <<answer, policy>>
    PROVE  HandlerType'
  BY DEF HandlerType

(* A handler goes on with the frame it has. *)
LEMMA HandlerGoes ==
    ASSUME HandlerType, NEW r \in Requests, NEW l \in Labels,
           pc' = [pc EXCEPT ![r] = l], UNCHANGED <<frame, answer, policy>>
    PROVE  HandlerType'
  BY DEF HandlerType

(* A handler answers. *)
LEMMA HandlerReplies ==
    ASSUME HandlerType, NEW r \in Requests, NEW a \in {None} \cup Errors \cup Plaintexts,
           Reply(r, a), UNCHANGED policy
    PROVE  HandlerType'
<1>1. Done \in Labels
  BY DEF Labels
<1> QED
  BY <1>1, NoFrameType DEF HandlerType, Reply, Goto

LEMMA HandlerFails ==
    ASSUME HandlerType, NEW r \in Requests, NEW e \in ErrorCodes, Err(r, e), UNCHANGED policy
    PROVE  HandlerType'
  BY HandlerReplies, AnswerShapes DEF Err

LEMMA HandlerQuiet ==
    ASSUME HandlerType, policy' \in Policies, UNCHANGED <<pc, frame, answer>>
    PROVE  HandlerType'
  BY DEF HandlerType


(* Every step keeps the handlers well-typed. *)
LEMMA HandlerStep ==
    ASSUME TypeOK, HandlerType, AuditInv, [Next]_vars
    PROVE  HandlerType'
<1> USE DEF Labels, Done, ErrorCodes
<1>1. ASSUME NEW r \in Requests, NEW slash \in BOOLEAN, NEW ch \in Wanted, NEW prog \in Programs,
             Call(r, slash, ch, prog) PROVE HandlerType'
  <2>1. ch \in Channels
    BY DEF Wanted, Channels
  <2> QED
    BY <1>1, <2>1, HandlerFails, HandlerMoves, FrameUpdates, NoFrameType DEF Call, Keep, Goto, vault
<1>2. ASSUME NEW r \in Requests, Lookup(r) PROVE HandlerType'
  <2>1. secret # None => [frame[r] EXCEPT !.sens = secret.sens] \in Frames
    BY FrameUpdates DEF HandlerType, TypeOK
  <2> QED
    BY <1>2, <2>1, HandlerFails, HandlerMoves DEF Lookup, Keep, Goto, vault
<1>3. ASSUME NEW r \in Requests, Gate(r) PROVE HandlerType'
  BY <1>3, HandlerFails, HandlerMoves, FrameUpdates DEF Gate, Keep, Goto, HandlerType, vault
<1>4. ASSUME NEW r \in Requests, LoadPolicy(r) PROVE HandlerType'
  <2>1. Effective \in Policies
    BY DEF Effective, Policies, HandlerType
  <2>2. [frame[r] EXCEPT !.cfg = Effective] \in Frames
    BY <2>1, FrameUpdates DEF HandlerType
  <2> QED
    BY <1>4, <2>2, HandlerFails, HandlerMoves DEF LoadPolicy, Keep, Goto, vault
<1>5. ASSUME NEW r \in Requests, Execute(r) PROVE HandlerType'
  <2>1. \A l : [frame[r] EXCEPT !.bound = device] \in Frames
    BY FrameUpdates DEF HandlerType, TypeOK
  <2> QED
    BY <1>5, <2>1, HandlerFails, HandlerMoves DEF Execute, Keep, Goto, vault
<1>6. ASSUME NEW r \in Requests, Decided(r) PROVE HandlerType'
  BY <1>6, HandlerGoes DEF Decided, Goto, Refuse, Issue, local, vault
<1>7. ASSUME NEW r \in Requests, AuditDeny(r) PROVE HandlerType'
  BY <1>7, HandlerFails DEF AuditDeny, vault
<1>8. ASSUME NEW r \in Requests, Load(r) PROVE HandlerType'
  <2>1. CASE secret = None
    BY <1>8, <2>1, HandlerFails DEF Load, vault
  <2>2. CASE secret # None
    <3> DEFINE a == [plaintext |-> secret, gated |-> Required(r)]
    <3>1. a \in Plaintexts
      BY <2>2, GatedPlaintext
    <3>2. /\ pc' = [pc EXCEPT ![r] = "allow"]
          /\ answer' = [answer EXCEPT ![r] = a]
          /\ UNCHANGED <<frame, policy>>
      BY <1>8, <2>2 DEF Load, Goto, vault
    <3> HIDE DEF a
    <3> QED
      BY <3>1, <3>2 DEF HandlerType
  <2> QED
    BY <2>1, <2>2
<1>9. ASSUME NEW r \in Requests, AuditAllow(r) PROVE HandlerType'
  <2>1. answer[r] \in {None} \cup Errors \cup Plaintexts
    BY DEF HandlerType
  <2> QED
    BY <1>9, <2>1, HandlerFails, HandlerReplies DEF AuditAllow, vault
<1>10. ASSUME NEW r \in Requests, DispatchFails(r) PROVE HandlerType'
  BY <1>10, HandlerGoes DEF DispatchFails, Goto, Refuse, Issue, local, vault
<1>11. ASSUME NEW r \in Requests, DispatchPage(r) PROVE HandlerType'
  BY <1>11, HandlerGoes DEF DispatchPage, Goto, Refuse, Issue, local, vault
<1>12. ASSUME NEW r \in Requests, DispatchTty(r) PROVE HandlerType'
  BY <1>12, HandlerGoes DEF DispatchTty, Goto, Refuse, Issue, local, vault
<1>13. ASSUME NEW r \in Requests, DispatchAutoDeny(r) PROVE HandlerType'
  BY <1>13, HandlerGoes DEF DispatchAutoDeny, Goto, Refuse, Issue, local, vault
<1>14. ASSUME NEW r \in Requests, DispatchTest(r) PROVE HandlerType'
  BY <1>14, HandlerGoes DEF DispatchTest, Goto, Refuse, Issue, local, vault
<1>15. ASSUME NEW r \in Requests, AwaitUnrouted(r) PROVE HandlerType'
  BY <1>15, HandlerGoes DEF AwaitUnrouted, Goto, Refuse, Issue, local, vault
<1>16. ASSUME NEW r \in Requests, Await(r) PROVE HandlerType'
  BY <1>16, HandlerGoes DEF Await, Goto, Refuse, Issue, local, vault
<1>17. ASSUME NEW r \in Requests, AwaitTest(r) PROVE HandlerType'
  BY <1>17, HandlerGoes DEF AwaitTest, Goto, Refuse, Issue, local, vault
<1>18. ASSUME NEW r \in Requests, TryConsume(r) PROVE HandlerType'
  BY <1>18, HandlerQuiet DEF TryConsume, vars, vault, local, HandlerType
<1>19. ASSUME NEW r \in Requests, Timeout(r) PROVE HandlerType'
  BY <1>19, HandlerGoes DEF Timeout, Goto, Refuse, Issue, local, vault
<1>20. ASSUME NEW r \in Requests, Receive(r) PROVE HandlerType'
  <2> DEFINE ok == inbox[r].outcome = "approved" /\ SignatureOk(r)
  <2>1. [frame[r] EXCEPT !.ack = ok] \in Frames
    BY FrameUpdates DEF HandlerType
  <2>2. frame' = [frame EXCEPT ![r] = [frame[r] EXCEPT !.ack = ok]]
    BY <1>20 DEF Receive
  <2> HIDE DEF ok
  <2> QED
    BY <1>20, <2>1, <2>2, HandlerMoves DEF Receive, Goto, Refuse, vault
<1>21. ASSUME NEW r \in Requests, NEW o \in Outcomes, Click(r, o) PROVE HandlerType'
  BY <1>21, HandlerQuiet DEF Click, vars, vault, local, HandlerType
<1>22. ASSUME NEW r \in Requests, NEW o \in Outcomes, Key(r, o) PROVE HandlerType'
  BY <1>22, HandlerQuiet DEF Key, vars, vault, local, HandlerType
<1>23. ASSUME NEW r \in Requests, NEW o \in Outcomes \cup {"expired"}, NEW s \in {"none", "valid", "invalid"},
             Preload(r, o, s) PROVE HandlerType'
  BY <1>23, HandlerQuiet DEF Preload, vars, vault, local, HandlerType
<1>24. ASSUME NEW r \in Requests, TtyDeadline(r) PROVE HandlerType'
  BY <1>24, HandlerQuiet DEF TtyDeadline, vars, vault, local, HandlerType
<1>25. ASSUME NEW r \in Requests, StorageFails(r) PROVE HandlerType'
  BY <1>25, HandlerFails DEF StorageFails, vault
<1>26. ASSUME NEW r \in Requests, HangUp(r) PROVE HandlerType'
  BY <1>26, HandlerFails DEF HangUp, vault
<1>27. ASSUME NEW id \in Requests \cup {None}, NEW o \in Outcomes \cup {"expired"},
             WriteFixture(id, o) PROVE HandlerType'
  BY <1>27, HandlerQuiet DEF WriteFixture, vars, vault, local, HandlerType
<1>28. ASSUME NEW s \in Stored, PutSecret(s) PROVE HandlerType'
  BY <1>28, HandlerQuiet DEF PutSecret, vars, vault, local, HandlerType
<1>29. ASSUME DeleteSecret PROVE HandlerType'
  BY <1>29, HandlerQuiet DEF DeleteSecret, vars, vault, local, HandlerType
<1>30. ASSUME Bind PROVE HandlerType'
  BY <1>30, HandlerQuiet DEF Bind, local, Policies
<1>31. ASSUME RevokeDevice PROVE HandlerType'
  BY <1>31, HandlerQuiet DEF RevokeDevice, vars, vault, local, HandlerType
<1>32. ASSUME Seal PROVE HandlerType'
  BY <1>32, HandlerQuiet DEF Seal, vars, vault, local, HandlerType
<1>33. ASSUME Unseal PROVE HandlerType'
  BY <1>33, HandlerQuiet DEF Unseal, vars, vault, local, HandlerType
<1>34. ASSUME AllDone PROVE HandlerType'
  BY <1>34, HandlerQuiet DEF AllDone, vars, vault, local, HandlerType
<1>35. CASE UNCHANGED vars
  BY <1>35, HandlerQuiet DEF vars, vault, local, HandlerType
<1> QED
  BY <1>1, <1>2, <1>3, <1>4, <1>5, <1>6, <1>7, <1>8, <1>9, <1>10, <1>11, <1>12, <1>13, <1>14,
     <1>15, <1>16, <1>17, <1>18, <1>19, <1>20, <1>21, <1>22, <1>23, <1>24, <1>25, <1>26, <1>27,
     <1>28, <1>29, <1>30, <1>31, <1>32, <1>33, <1>34, <1>35
     DEF Next, Progress, Operator

(* What answers a challenge is a resolution. *)
LEMMA ResolutionType ==
    /\ NoAnswer \in Resolutions
    /\ \A r \in Requests, o \in Outcomes \cup {"expired"}, s \in {"none", "valid", "invalid"} :
         Res(r, o, s) \in Resolutions
  BY DEF NoAnswer, Resolutions, Res, Outcomes

(* PendingChallengeRegistry::resolve keeps the registry well-typed. *)
LEMMA ResolveType ==
    ASSUME TypeOK, NEW r \in Requests, NEW res \in Resolutions, Resolve(r, res)
    PROVE  /\ pending' \in [Requests -> {"none", "orphan", "waiting"}]
           /\ inbox' \in [Requests -> Resolutions]
  BY DEF TypeOK, Resolve, Register

(* Every step keeps TypeOK. *)
LEMMA TypeStep ==
    ASSUME TypeOK, OobType, HandlerType, [Next]_vars
    PROVE  TypeOK'
<1>1. ASSUME NEW r \in Requests, NEW slash \in BOOLEAN, NEW ch \in Wanted, NEW prog \in Programs,
             Call(r, slash, ch, prog) PROVE TypeOK'
  BY <1>1 DEF Call, oob, vault, Stay, Err, Done, Keep, registry, tty, local, TypeOK
<1>2. ASSUME NEW r \in Requests, Lookup(r) PROVE TypeOK'
  BY <1>2 DEF Lookup, oob, vault, Stay, Err, Done, Keep, registry, tty, local, TypeOK
<1>3. ASSUME NEW r \in Requests, Gate(r) PROVE TypeOK'
  BY <1>3 DEF Gate, oob, vault, Stay, Err, Done, Keep, registry, tty, local, TypeOK
<1>4. ASSUME NEW r \in Requests, LoadPolicy(r) PROVE TypeOK'
  BY <1>4 DEF LoadPolicy, oob, vault, Stay, Err, Done, Keep, registry, tty, local, TypeOK
<1>5. ASSUME NEW r \in Requests, Execute(r) PROVE TypeOK'
  BY <1>5 DEF Execute, oob, vault, Stay, Err, Done, Keep, registry, tty, local, TypeOK
<1>6. ASSUME NEW r \in Requests, Decided(r) PROVE TypeOK'
  BY <1>6 DEF Decided, oob, vault, Stay, Refuse, Rule, registry, tty, local, TypeOK
<1>7. ASSUME NEW r \in Requests, AuditDeny(r) PROVE TypeOK'
  BY <1>7 DEF AuditDeny, oob, vault, Stay, Err, Done, registry, tty, local, TypeOK
<1>8. ASSUME NEW r \in Requests, Load(r) PROVE TypeOK'
  BY <1>8 DEF Load, oob, vault, Stay, Err, Done, registry, tty, local, TypeOK
<1>9. ASSUME NEW r \in Requests, AuditAllow(r) PROVE TypeOK'
  BY <1>9 DEF AuditAllow, oob, vault, Stay, Err, Done, registry, tty, local, TypeOK
<1>10. ASSUME NEW r \in Requests, DispatchFails(r) PROVE TypeOK'
  BY <1>10 DEF DispatchFails, oob, vault, Stay, Refuse, Rule, registry, tty, local, TypeOK
<1>11. ASSUME NEW r \in Requests, DispatchPage(r) PROVE TypeOK'
  BY <1>11 DEF DispatchPage, tty, vault, Stay, Issue, Register, TypeOK
<1>12. ASSUME NEW r \in Requests, DispatchTty(r) PROVE TypeOK'
  BY <1>12 DEF DispatchTty, registry, vault, Stay, Issue, TypeOK
<1>13. ASSUME NEW r \in Requests, DispatchAutoDeny(r) PROVE TypeOK'
  BY <1>13, ResolutionType DEF DispatchAutoDeny, tty, vault, Stay, Issue, Outcomes, TypeOK
<1>14. ASSUME NEW r \in Requests, DispatchTest(r) PROVE TypeOK'
  BY <1>14 DEF DispatchTest, oob, vault, Stay, Issue, registry, tty, local, TypeOK
<1>15. ASSUME NEW r \in Requests, AwaitUnrouted(r) PROVE TypeOK'
  BY <1>15 DEF AwaitUnrouted, oob, vault, Stay, Refuse, Rule, registry, tty, local, TypeOK
<1>16. ASSUME NEW r \in Requests, Await(r) PROVE TypeOK'
  BY <1>16 DEF Await, tty, local, vault, Stay, Register, TypeOK
<1>17. ASSUME NEW r \in Requests, AwaitTest(r) PROVE TypeOK'
  BY <1>17 DEF AwaitTest, local, oob, vault, Stay, registry, tty, TypeOK
<1>18. ASSUME NEW r \in Requests, TryConsume(r) PROVE TypeOK'
  BY <1>18, ResolutionType DEF TryConsume, tty, local, vault, Stay, Outcomes, OobType, Fixtures, TypeOK
<1>19. ASSUME NEW r \in Requests, Timeout(r) PROVE TypeOK'
  BY <1>19 DEF Timeout, tty, vault, Stay, Refuse, Rule, TypeOK
<1>20. ASSUME NEW r \in Requests, Receive(r) PROVE TypeOK'
  BY <1>20 DEF Receive, oob, vault, Stay, Refuse, Rule, registry, tty, local, TypeOK
<1>21. ASSUME NEW r \in Requests, NEW o \in Outcomes, Click(r, o) PROVE TypeOK'
  BY <1>21, ResolutionType, ResolveType DEF Click, tty, local, vault, Stay, Note, Outcomes, TypeOK
<1>22. ASSUME NEW r \in Requests, NEW o \in Outcomes, Key(r, o) PROVE TypeOK'
  BY <1>22, ResolutionType, ResolveType DEF Key, local, vault, Stay, Note, Outcomes, TypeOK
<1>23. ASSUME NEW r \in Requests, NEW o \in Outcomes \cup {"expired"}, NEW s \in {"none", "valid", "invalid"},
             Preload(r, o, s) PROVE TypeOK'
  BY <1>23, ResolutionType DEF Preload, tty, local, vault, Stay, Note, Outcomes, TypeOK
<1>24. ASSUME NEW r \in Requests, TtyDeadline(r) PROVE TypeOK'
  BY <1>24, ResolutionType, ResolveType DEF TtyDeadline, local, vault, Stay, Outcomes, TypeOK
<1>25. ASSUME NEW r \in Requests, StorageFails(r) PROVE TypeOK'
  BY <1>25, RevealAssumption DEF StorageFails, oob, vault, Err, Done, Fault, registry, tty, local,
         TypeOK
<1>26. ASSUME NEW r \in Requests, HangUp(r) PROVE TypeOK'
  BY <1>26, RevealAssumption DEF HangUp, tty, vault, Err, Done, Fault, TypeOK
<1>27. ASSUME NEW id \in Requests \cup {None}, NEW o \in Outcomes \cup {"expired"},
             WriteFixture(id, o) PROVE TypeOK'
  BY <1>27 DEF WriteFixture, tty, registry, local, vault, Stay, TypeOK
<1>28. ASSUME NEW s \in Stored, PutSecret(s) PROVE TypeOK'
  BY <1>28, RevealAssumption DEF PutSecret, oob, local, Stay, registry, tty, vault, TypeOK
<1>29. ASSUME DeleteSecret PROVE TypeOK'
  BY <1>29 DEF DeleteSecret, oob, local, Stay, registry, tty, vault, TypeOK
<1>30. ASSUME Bind PROVE TypeOK'
  BY <1>30 DEF Bind, oob, local, Stay, registry, tty, vault, TypeOK
<1>31. ASSUME RevokeDevice PROVE TypeOK'
  BY <1>31 DEF RevokeDevice, oob, local, Stay, registry, tty, vault, TypeOK
<1>32. ASSUME Seal PROVE TypeOK'
  <2>1. faults' \in 0 .. MaxFaults
    BY <1>32, RevealAssumption DEF Seal, Fault, TypeOK
  <2> QED
    BY <1>32, <2>1 DEF Seal, oob, local, registry, tty, TypeOK
<1>33. ASSUME Unseal PROVE TypeOK'
  BY <1>33 DEF Unseal, oob, local, Stay, registry, tty, vault, TypeOK
<1>34. ASSUME AllDone PROVE TypeOK'
  BY <1>34 DEF AllDone, vars, Done, registry, tty, vault, oob, local, TypeOK
<1>35. CASE UNCHANGED vars
  BY <1>35 DEF vars, vault, local, oob, registry, tty, TypeOK
<1> QED
  BY <1>1, <1>2, <1>3, <1>4, <1>5, <1>6, <1>7, <1>8, <1>9, <1>10, <1>11, <1>12, <1>13, <1>14,
     <1>15, <1>16, <1>17, <1>18, <1>19, <1>20, <1>21, <1>22, <1>23, <1>24, <1>25, <1>26, <1>27,
     <1>28, <1>29, <1>30, <1>31, <1>32, <1>33, <1>34, <1>35
     DEF Next, Progress, Operator

(* Every step keeps the out-of-band side well-typed. *)
LEMMA OobStep ==
    ASSUME TypeOK, OobType, [Next]_vars
    PROVE  OobType'
<1>1. ASSUME NEW r \in Requests, NEW slash \in BOOLEAN, NEW ch \in Wanted, NEW prog \in Programs,
             Call(r, slash, ch, prog) PROVE OobType'
  BY <1>1 DEF Call, oob, tty, OobType
<1>2. ASSUME NEW r \in Requests, Lookup(r) PROVE OobType'
  BY <1>2 DEF Lookup, oob, tty, OobType
<1>3. ASSUME NEW r \in Requests, Gate(r) PROVE OobType'
  BY <1>3 DEF Gate, oob, tty, OobType
<1>4. ASSUME NEW r \in Requests, LoadPolicy(r) PROVE OobType'
  BY <1>4 DEF LoadPolicy, oob, tty, OobType
<1>5. ASSUME NEW r \in Requests, Execute(r) PROVE OobType'
  BY <1>5 DEF Execute, oob, tty, OobType
<1>6. ASSUME NEW r \in Requests, Decided(r) PROVE OobType'
  BY <1>6 DEF Decided, Issue, Refuse, Goto, oob, tty, registry, vars, OobType
<1>7. ASSUME NEW r \in Requests, AuditDeny(r) PROVE OobType'
  BY <1>7 DEF AuditDeny, oob, tty, OobType
<1>8. ASSUME NEW r \in Requests, Load(r) PROVE OobType'
  BY <1>8 DEF Load, oob, tty, OobType
<1>9. ASSUME NEW r \in Requests, AuditAllow(r) PROVE OobType'
  BY <1>9 DEF AuditAllow, oob, tty, OobType
<1>10. ASSUME NEW r \in Requests, DispatchFails(r) PROVE OobType'
  BY <1>10 DEF DispatchFails, Issue, Refuse, Goto, oob, tty, registry, vars, OobType
<1>11. ASSUME NEW r \in Requests, DispatchPage(r) PROVE OobType'
  BY <1>11 DEF DispatchPage, Issue, Refuse, Goto, oob, tty, registry, vars, OobType
<1>12. ASSUME NEW r \in Requests, DispatchTty(r) PROVE OobType'
  BY <1>12 DEF DispatchTty, Issue, Refuse, Goto, oob, tty, registry, vars, OobType
<1>13. ASSUME NEW r \in Requests, DispatchAutoDeny(r) PROVE OobType'
  BY <1>13 DEF DispatchAutoDeny, Issue, Refuse, Goto, oob, tty, registry, vars, OobType
<1>14. ASSUME NEW r \in Requests, DispatchTest(r) PROVE OobType'
  BY <1>14 DEF DispatchTest, Issue, Refuse, Goto, oob, tty, registry, vars, OobType
<1>15. ASSUME NEW r \in Requests, AwaitUnrouted(r) PROVE OobType'
  BY <1>15 DEF AwaitUnrouted, Issue, Refuse, Goto, oob, tty, registry, vars, OobType
<1>16. ASSUME NEW r \in Requests, Await(r) PROVE OobType'
  BY <1>16 DEF Await, Issue, Refuse, Goto, oob, tty, registry, vars, OobType
<1>17. ASSUME NEW r \in Requests, AwaitTest(r) PROVE OobType'
  BY <1>17 DEF AwaitTest, Issue, Refuse, Goto, oob, tty, registry, vars, OobType
<1>18. ASSUME NEW r \in Requests, TryConsume(r) PROVE OobType'
  BY <1>18 DEF TryConsume, Issue, Refuse, Goto, oob, tty, registry, vars, OobType
<1>19. ASSUME NEW r \in Requests, Timeout(r) PROVE OobType'
  BY <1>19 DEF Timeout, Issue, Refuse, Goto, oob, tty, registry, vars, OobType
<1>20. ASSUME NEW r \in Requests, Receive(r) PROVE OobType'
  BY <1>20 DEF Receive, Issue, Refuse, Goto, oob, tty, registry, vars, OobType
<1>21. ASSUME NEW r \in Requests, NEW o \in Outcomes, Click(r, o) PROVE OobType'
  BY <1>21 DEF Click, Issue, Refuse, Goto, oob, tty, registry, vars, Note, OobType
<1>22. ASSUME NEW r \in Requests, NEW o \in Outcomes, Key(r, o) PROVE OobType'
  BY <1>22 DEF Key, Issue, Refuse, Goto, oob, tty, registry, vars, Note, OobType
<1>23. ASSUME NEW r \in Requests, NEW o \in Outcomes \cup {"expired"}, NEW s \in {"none", "valid", "invalid"},
             Preload(r, o, s) PROVE OobType'
  BY <1>23 DEF Preload, Issue, Refuse, Goto, oob, tty, registry, vars, Note, OobType
<1>24. ASSUME NEW r \in Requests, TtyDeadline(r) PROVE OobType'
  BY <1>24 DEF TtyDeadline, Issue, Refuse, Goto, oob, tty, registry, vars, OobType
<1>25. ASSUME NEW r \in Requests, StorageFails(r) PROVE OobType'
  BY <1>25 DEF StorageFails, oob, tty, OobType
<1>26. ASSUME NEW r \in Requests, HangUp(r) PROVE OobType'
  BY <1>26 DEF HangUp, oob, tty, OobType
<1>27. ASSUME NEW id \in Requests \cup {None}, NEW o \in Outcomes \cup {"expired"},
             WriteFixture(id, o) PROVE OobType'
  BY <1>27 DEF WriteFixture, Issue, Refuse, Goto, oob, tty, registry, vars, Fixtures, OobType
<1>28. ASSUME NEW s \in Stored, PutSecret(s) PROVE OobType'
  BY <1>28 DEF PutSecret, Issue, Refuse, Goto, oob, tty, registry, vars, OobType
<1>29. ASSUME DeleteSecret PROVE OobType'
  BY <1>29 DEF DeleteSecret, Issue, Refuse, Goto, oob, tty, registry, vars, OobType
<1>30. ASSUME Bind PROVE OobType'
  BY <1>30 DEF Bind, Issue, Refuse, Goto, oob, tty, registry, vars, OobType
<1>31. ASSUME RevokeDevice PROVE OobType'
  BY <1>31 DEF RevokeDevice, Issue, Refuse, Goto, oob, tty, registry, vars, OobType
<1>32. ASSUME Seal PROVE OobType'
  BY <1>32 DEF Seal, Issue, Refuse, Goto, oob, tty, registry, vars, OobType
<1>33. ASSUME Unseal PROVE OobType'
  BY <1>33 DEF Unseal, Issue, Refuse, Goto, oob, tty, registry, vars, OobType
<1>34. ASSUME AllDone PROVE OobType'
  BY <1>34 DEF AllDone, Issue, Refuse, Goto, oob, tty, registry, vars, OobType
<1>35. CASE UNCHANGED vars
  BY <1>35 DEF vars, oob, tty, OobType
<1> QED
  BY <1>1, <1>2, <1>3, <1>4, <1>5, <1>6, <1>7, <1>8, <1>9, <1>10, <1>11, <1>12, <1>13, <1>14,
     <1>15, <1>16, <1>17, <1>18, <1>19, <1>20, <1>21, <1>22, <1>23, <1>24, <1>25, <1>26, <1>27,
     <1>28, <1>29, <1>30, <1>31, <1>32, <1>33, <1>34, <1>35
     DEF Next, Progress, Operator

-----------------------------------------------------------------------------
(* The operator's consent. *)

(* Consent is never taken back: the notifier is fixed and approvals only grow. *)
LEMMA ConsentStays ==
    ASSUME UNCHANGED notifier, approvals \subseteq approvals', NEW r, Confirmed(r)
    PROVE  Confirmed(r)'
  BY DEF Confirmed

LEMMA ChannelQuiet ==
    ASSUME ChannelInv, UNCHANGED oob
    PROVE  ChannelInv'
  BY DEF ChannelInv, Confirmed, oob, registry, tty

(* A step that leaves the inbox, the fixture and the terminal's readers alone, *)
(* and whose new receivers are those of a channel that routes answers.         *)
LEMMA ChannelRegisters ==
    ASSUME ChannelInv, UNCHANGED <<notifier, inbox, fixture, approvals>>,
           reader' # {} => notifier \in {"terminal", "adapter"},
           \A q \in Requests : pending'[q] = "waiting" =>
             pending[q] = "waiting" \/ notifier \in {"desktop", "localhost", "terminal"}
    PROVE  ChannelInv'
  BY DEF ChannelInv, Confirmed

(* A challenge is answered through the registry: the answer is delivered only  *)
(* to the receiver that waits for it, so consent has to be there if it does.   *)
LEMMA ChannelResolves ==
    ASSUME TypeOK, ChannelInv, NEW r \in Requests, NEW o, NEW s, Resolve(r, Res(r, o, s)),
           UNCHANGED <<notifier, fixture>>, reader' \subseteq reader,
           approvals \subseteq approvals',
           pending[r] = "waiting" /\ o = "approved" => Confirmed(r)'
    PROVE  ChannelInv'
<1>1. \A q \in Requests : Confirmed(q) => Confirmed(q)'
  BY ConsentStays
<1>2. \A q \in Requests :
        /\ pending'[q] = IF q = r THEN "none" ELSE pending[q]
        /\ inbox'[q] = IF q = r /\ pending[r] = "waiting" THEN Res(r, o, s) ELSE inbox[q]
  BY DEF Resolve, Register, TypeOK
<1>3. Res(r, o, s).outcome = o
  BY DEF Res
<1> QED
  BY <1>1, <1>2, <1>3 DEF ChannelInv

(* An answer that is put into the inbox of r at once. *)
LEMMA ChannelDelivers ==
    ASSUME TypeOK, ChannelInv, NEW r \in Requests, NEW o, NEW s,
           inbox' = [inbox EXCEPT ![r] = Res(r, o, s)],
           UNCHANGED <<notifier, pending, reader>>, fixture' \in {None, fixture},
           approvals \subseteq approvals', o = "approved" => Confirmed(r)'
    PROVE  ChannelInv'
<1>1. \A q \in Requests : Confirmed(q) => Confirmed(q)'
  BY ConsentStays
<1>2. \A q \in Requests : inbox'[q] = IF q = r THEN Res(r, o, s) ELSE inbox[q]
  BY DEF TypeOK
<1>3. Res(r, o, s).outcome = o
  BY DEF Res
<1> QED
  BY <1>1, <1>2, <1>3 DEF ChannelInv

(* No step forges consent in a channel. *)
LEMMA ChannelStep ==
    ASSUME TypeOK, OobType, ChannelInv, [Next]_vars
    PROVE  ChannelInv'
<1>1. ASSUME NEW r \in Requests, NEW slash \in BOOLEAN, NEW ch \in Wanted, NEW prog \in Programs,
             Call(r, slash, ch, prog) PROVE ChannelInv'
  BY <1>1, ChannelQuiet DEF Call
<1>2. ASSUME NEW r \in Requests, Lookup(r) PROVE ChannelInv'
  BY <1>2, ChannelQuiet DEF Lookup
<1>3. ASSUME NEW r \in Requests, Gate(r) PROVE ChannelInv'
  BY <1>3, ChannelQuiet DEF Gate
<1>4. ASSUME NEW r \in Requests, LoadPolicy(r) PROVE ChannelInv'
  BY <1>4, ChannelQuiet DEF LoadPolicy
<1>5. ASSUME NEW r \in Requests, Execute(r) PROVE ChannelInv'
  BY <1>5, ChannelQuiet DEF Execute
<1>6. ASSUME NEW r \in Requests, Decided(r) PROVE ChannelInv'
  BY <1>6, ChannelQuiet DEF Decided
<1>7. ASSUME NEW r \in Requests, AuditDeny(r) PROVE ChannelInv'
  BY <1>7, ChannelQuiet DEF AuditDeny
<1>8. ASSUME NEW r \in Requests, Load(r) PROVE ChannelInv'
  BY <1>8, ChannelQuiet DEF Load
<1>9. ASSUME NEW r \in Requests, AuditAllow(r) PROVE ChannelInv'
  BY <1>9, ChannelQuiet DEF AuditAllow
<1>10. ASSUME NEW r \in Requests, DispatchFails(r) PROVE ChannelInv'
  BY <1>10, ChannelQuiet DEF DispatchFails
<1>11. ASSUME NEW r \in Requests, DispatchPage(r) PROVE ChannelInv'
  BY <1>11, ChannelRegisters DEF DispatchPage, Register, tty, TypeOK, ChannelInv
<1>12. ASSUME NEW r \in Requests, DispatchTty(r) PROVE ChannelInv'
  BY <1>12, ChannelRegisters DEF DispatchTty, Via, registry
<1>13. ASSUME NEW r \in Requests, DispatchAutoDeny(r) PROVE ChannelInv'
  <2>1. /\ \A q \in Requests : inbox'[q] = IF q = r THEN Res(r, "denied", "none") ELSE inbox[q]
        /\ UNCHANGED <<notifier, pending, reader, fixture, approvals>>
    BY <1>13 DEF DispatchAutoDeny, tty, TypeOK
  <2>2. Res(r, "denied", "none").outcome # "approved"
    BY DEF Res
  <2> QED
    BY <2>1, <2>2 DEF ChannelInv, Confirmed
<1>14. ASSUME NEW r \in Requests, DispatchTest(r) PROVE ChannelInv'
  BY <1>14, ChannelQuiet DEF DispatchTest
<1>15. ASSUME NEW r \in Requests, AwaitUnrouted(r) PROVE ChannelInv'
  BY <1>15, ChannelQuiet DEF AwaitUnrouted
<1>16. ASSUME NEW r \in Requests, Await(r) PROVE ChannelInv'
  BY <1>16, ChannelRegisters DEF Await, Register, tty, TypeOK, ChannelInv
<1>17. ASSUME NEW r \in Requests, AwaitTest(r) PROVE ChannelInv'
  BY <1>17, ChannelQuiet DEF AwaitTest
<1>18. ASSUME NEW r \in Requests, TryConsume(r) PROVE ChannelInv'
  <2>1. fixture.outcome = "approved" => r \in approvals
    BY <1>18, RevealAssumption DEF TryConsume, ChannelInv
  <2>2. fixture.outcome = "approved" => Confirmed(r)'
    BY <1>18, <2>1 DEF TryConsume, Confirmed
  <2> QED
    BY <1>18, <2>2, ChannelDelivers DEF TryConsume, tty
<1>19. ASSUME NEW r \in Requests, Timeout(r) PROVE ChannelInv'
  BY <1>19, ChannelRegisters DEF Timeout, tty, TypeOK, ChannelInv
<1>20. ASSUME NEW r \in Requests, Receive(r) PROVE ChannelInv'
  BY <1>20, ChannelQuiet DEF Receive
<1>21. ASSUME NEW r \in Requests, NEW o \in Outcomes, Click(r, o) PROVE ChannelInv'
  <2>1. /\ approvals \subseteq approvals'
        /\ o = "approved" => r \in approvals'
    BY <1>21 DEF Click, Note
  <2>2. o = "approved" => Confirmed(r)'
    BY <2>1 DEF Confirmed
  <2> QED
    BY <1>21, <2>1, <2>2, ChannelResolves DEF Click, tty
<1>22. ASSUME NEW r \in Requests, NEW o \in Outcomes, Key(r, o) PROVE ChannelInv'
  <2>1. /\ approvals \subseteq approvals'
        /\ o = "approved" => approvals' # {}
    BY <1>22 DEF Key, Note
  <2>2. CASE r \in forwarder
    <3>1. pending[r] = "waiting" => notifier = "terminal"
      BY <1>22 DEF Key, ChannelInv
    <3>2. pending[r] = "waiting" /\ o = "approved" => Confirmed(r)'
      BY <1>22, <2>1, <3>1 DEF Confirmed, Key
    <3> QED
      BY <1>22, <2>1, <2>2, <3>2, ChannelResolves DEF Key
  <2>3. CASE r \notin forwarder
    <3>1. \A q \in Requests : Confirmed(q) => Confirmed(q)'
      BY <1>22, <2>1, ConsentStays DEF Key
    <3> QED
      BY <1>22, <2>1, <2>3, <3>1 DEF Key, ChannelInv
  <2> QED
    BY <2>2, <2>3
<1>23. ASSUME NEW r \in Requests, NEW o \in Outcomes \cup {"expired"}, NEW s \in {"none", "valid", "invalid"},
             Preload(r, o, s) PROVE ChannelInv'
  <2>1. /\ approvals \subseteq approvals'
        /\ o = "approved" => r \in approvals'
    BY <1>23 DEF Preload, Note
  <2>2. o = "approved" => Confirmed(r)'
    BY <2>1 DEF Confirmed
  <2> QED
    BY <1>23, <2>1, <2>2, ChannelDelivers DEF Preload, tty
<1>24. ASSUME NEW r \in Requests, TtyDeadline(r) PROVE ChannelInv'
  BY <1>24, ChannelResolves DEF TtyDeadline
<1>25. ASSUME NEW r \in Requests, StorageFails(r) PROVE ChannelInv'
  BY <1>25, ChannelQuiet DEF StorageFails
<1>26. ASSUME NEW r \in Requests, HangUp(r) PROVE ChannelInv'
  BY <1>26, ChannelRegisters DEF HangUp, tty, TypeOK, ChannelInv
<1>27. ASSUME NEW id \in Requests \cup {None}, NEW o \in Outcomes \cup {"expired"},
             WriteFixture(id, o) PROVE ChannelInv'
  <2>1. /\ UNCHANGED <<notifier, pending, inbox, reader>>
        /\ fixture' = [id |-> id, outcome |-> o]
    BY <1>27 DEF WriteFixture, registry, tty
  <2>2. /\ approvals \subseteq approvals'
        /\ o = "approved" => IF id = None THEN Requests \subseteq approvals' ELSE id \in approvals'
    BY <1>27 DEF WriteFixture
  <2>3. \A q \in Requests : Confirmed(q) => Confirmed(q)'
    BY <2>1, <2>2, ConsentStays
  <2> QED
    BY <2>1, <2>2, <2>3 DEF ChannelInv
<1>28. ASSUME NEW s \in Stored, PutSecret(s) PROVE ChannelInv'
  BY <1>28, ChannelQuiet DEF PutSecret
<1>29. ASSUME DeleteSecret PROVE ChannelInv'
  BY <1>29, ChannelQuiet DEF DeleteSecret
<1>30. ASSUME Bind PROVE ChannelInv'
  BY <1>30, ChannelQuiet DEF Bind
<1>31. ASSUME RevokeDevice PROVE ChannelInv'
  BY <1>31, ChannelQuiet DEF RevokeDevice
<1>32. ASSUME Seal PROVE ChannelInv'
  BY <1>32, ChannelQuiet DEF Seal
<1>33. ASSUME Unseal PROVE ChannelInv'
  BY <1>33, ChannelQuiet DEF Unseal
<1>34. ASSUME AllDone PROVE ChannelInv'
  BY <1>34, ChannelQuiet DEF AllDone, vars
<1>35. CASE UNCHANGED vars
  BY <1>35, ChannelQuiet DEF vars
<1> QED
  BY <1>1, <1>2, <1>3, <1>4, <1>5, <1>6, <1>7, <1>8, <1>9, <1>10, <1>11, <1>12, <1>13, <1>14,
     <1>15, <1>16, <1>17, <1>18, <1>19, <1>20, <1>21, <1>22, <1>23, <1>24, <1>25, <1>26, <1>27,
     <1>28, <1>29, <1>30, <1>31, <1>32, <1>33, <1>34, <1>35
     DEF Next, Progress, Operator

(* The gate of a request is a function of its frame. *)
LEMMA RequiredByFrame ==
    ASSUME NEW r, frame'[r] = frame[r]
    PROVE  Required(r)' = Required(r)
  BY DEF Required, Threshold, OobRequired

LEMMA AckQuiet ==
    ASSUME AckInv, UNCHANGED <<pc, frame, answer, notifier>>, approvals \subseteq approvals'
    PROVE  AckInv'
<1>1. \A q \in Requests : Confirmed(q) => Confirmed(q)'
  BY ConsentStays
<1>2. \A q \in Requests : Required(q)' = Required(q)
  BY RequiredByFrame
<1> QED
  BY <1>1, <1>2 DEF AckInv

(* A handler goes on, short of the decision, with an acknowledgment that the    *)
(* operator stands behind.                                                  *)
LEMMA AckMoves ==
    ASSUME HandlerType, AckInv, NEW r \in Requests, NEW l \in Labels \ {"load", "allow", Done},
           NEW f, f.ack => Confirmed(r),
           pc' = [pc EXCEPT ![r] = l], frame' = [frame EXCEPT ![r] = f],
           UNCHANGED <<answer, notifier, approvals>>
    PROVE  AckInv'
<1>1. \A q \in Requests : Confirmed(q)' = Confirmed(q)
  BY DEF Confirmed
<1>2. \A q \in Requests : /\ pc'[q] = IF q = r THEN l ELSE pc[q]
                          /\ frame'[q] = IF q = r THEN f ELSE frame[q]
  BY DEF HandlerType
<1>3. \A q \in Requests \ {r} : Required(q)' = Required(q)
  BY <1>2, RequiredByFrame
<1> QED
  BY <1>1, <1>2, <1>3 DEF AckInv

LEMMA AckGoes ==
    ASSUME HandlerType, AckInv, NEW r \in Requests, NEW l \in Labels \ {"load", "allow", Done},
           pc' = [pc EXCEPT ![r] = l], UNCHANGED <<frame, answer, notifier, approvals>>
    PROVE  AckInv'
<1>1. frame' = [frame EXCEPT ![r] = frame[r]]
  BY DEF HandlerType
<1>2. frame[r].ack => Confirmed(r)
  BY DEF AckInv
<1> QED
  BY <1>1, <1>2, AckMoves

(* A handler answers: with an error, or with plaintext that was consented to.   *)
LEMMA AckReplies ==
    ASSUME HandlerType, AckInv, NEW r \in Requests, NEW a,
           a \in Plaintexts => (a.gated => Confirmed(r)),
           Reply(r, a), UNCHANGED <<notifier, approvals>>
    PROVE  AckInv'
<1>1. \A q \in Requests : Confirmed(q)' = Confirmed(q)
  BY DEF Confirmed
<1>2. \A q \in Requests : /\ pc'[q] = IF q = r THEN Done ELSE pc[q]
                          /\ frame'[q] = IF q = r THEN NoFrame ELSE frame[q]
                          /\ answer'[q] = IF q = r THEN a ELSE answer[q]
  BY DEF HandlerType, Reply, Goto
<1>3. \A q \in Requests \ {r} : Required(q)' = Required(q)
  BY <1>2, RequiredByFrame
<1>4. ~NoFrame.ack /\ Done # "load"
  BY DEF NoFrame, Done
<1> QED
  BY <1>1, <1>2, <1>3, <1>4 DEF AckInv

LEMMA AckFails ==
    ASSUME HandlerType, AckInv, NEW r \in Requests, NEW e, Err(r, e),
           UNCHANGED <<notifier, approvals>>
    PROVE  AckInv'
  BY AckReplies, AnswerShapes DEF Err

(* No step of a handler passes the gate without consent. *)
LEMMA AckStep ==
    ASSUME TypeOK, HandlerType, ChannelInv, AckInv, [Next]_vars
    PROVE  AckInv'
<1> USE DEF Labels, Done
<1>1. ASSUME NEW r \in Requests, NEW slash \in BOOLEAN, NEW ch \in Wanted, NEW prog \in Programs,
             Call(r, slash, ch, prog) PROVE AckInv'
  <2>1. ~[NoFrame EXCEPT !.chan = ch, !.program = prog].ack
    BY DEF NoFrame
  <2> QED
    BY <1>1, <2>1, AckFails, AckMoves DEF Call, Keep, Goto, oob
<1>2. ASSUME NEW r \in Requests, Lookup(r) PROVE AckInv'
  <2>1. [frame[r] EXCEPT !.sens = secret.sens].ack => Confirmed(r)
    BY DEF AckInv, HandlerType, Frames
  <2> QED
    BY <1>2, <2>1, AckFails, AckMoves DEF Lookup, Keep, Goto, oob
<1>3. ASSUME NEW r \in Requests, Gate(r) PROVE AckInv'
  <2>1. [frame[r] EXCEPT !.program = NoProgram].ack => Confirmed(r)
    BY DEF AckInv, HandlerType, Frames
  <2> QED
    BY <1>3, <2>1, AckFails, AckMoves DEF Gate, Keep, Goto, oob
<1>4. ASSUME NEW r \in Requests, LoadPolicy(r) PROVE AckInv'
  <2>1. [frame[r] EXCEPT !.cfg = Effective].ack => Confirmed(r)
    BY DEF AckInv, HandlerType, Frames
  <2> QED
    BY <1>4, <2>1, AckFails, AckMoves DEF LoadPolicy, Keep, Goto, oob
<1>5. ASSUME NEW r \in Requests, Execute(r) PROVE AckInv'
  <2>1. [frame[r] EXCEPT !.bound = device].ack => Confirmed(r)
    BY DEF AckInv, HandlerType, Frames
  <2> QED
    BY <1>5, <2>1, AckFails, AckMoves DEF Execute, Keep, Goto, oob
<1>6. ASSUME NEW r \in Requests, Decided(r) PROVE AckInv'
  <2>1. CASE Decision(r) # {}
    BY <1>6, <2>1, AckGoes DEF Decided, Refuse, Goto, oob
  <2>2. CASE Decision(r) = {}
    <3>1. Required(r) => frame[r].ack
      BY <2>2 DEF Decision, Decide, Required
    <3>2. /\ UNCHANGED <<frame, answer, notifier, approvals>>
          /\ \A q \in Requests : pc'[q] = IF q = r THEN "load" ELSE pc[q]
      BY <1>6, <2>2 DEF Decided, Goto, oob, HandlerType
    <3>3. \A q \in Requests : Confirmed(q)' = Confirmed(q) /\ Required(q)' = Required(q)
      BY <3>2, RequiredByFrame DEF Confirmed
    <3> QED
      BY <3>1, <3>2, <3>3 DEF AckInv
  <2> QED
    BY <2>1, <2>2
<1>7. ASSUME NEW r \in Requests, AuditDeny(r) PROVE AckInv'
  BY <1>7, AckFails DEF AuditDeny, oob
<1>8. ASSUME NEW r \in Requests, Load(r) PROVE AckInv'
  <2>1. CASE secret = None
    BY <1>8, <2>1, AckFails DEF Load, oob
  <2>2. CASE secret # None
    <3> DEFINE a == [plaintext |-> secret, gated |-> Required(r)]
    <3>1. /\ pc[r] = "load"
          /\ UNCHANGED <<frame, notifier, approvals>>
          /\ \A q \in Requests : /\ pc'[q] = IF q = r THEN "allow" ELSE pc[q]
                                /\ answer'[q] = IF q = r THEN a ELSE answer[q]
      BY <1>8, <2>2 DEF Load, Goto, HandlerType, oob
    <3>2. \A q \in Requests : Confirmed(q)' = Confirmed(q) /\ Required(q)' = Required(q)
      BY <3>1, RequiredByFrame DEF Confirmed
    <3>3. a.gated = Required(r)
      OBVIOUS
    <3>4. a.gated => Confirmed(r)
      BY <3>1, <3>3 DEF AckInv
    <3> HIDE DEF a
    <3> QED
      BY <3>1, <3>2, <3>4 DEF AckInv
  <2> QED
    BY <2>1, <2>2
<1>9. ASSUME NEW r \in Requests, AuditAllow(r) PROVE AckInv'
  <2>1. answer[r] \in Plaintexts => (answer[r].gated => Confirmed(r))
    BY <1>9 DEF AuditAllow, AckInv
  <2> QED
    BY <1>9, <2>1, AckFails, AckReplies DEF AuditAllow, oob
<1>10. ASSUME NEW r \in Requests, DispatchFails(r) PROVE AckInv'
  BY <1>10, AckGoes DEF DispatchFails, Goto, Refuse, Issue, local, oob
<1>11. ASSUME NEW r \in Requests, DispatchPage(r) PROVE AckInv'
  BY <1>11, AckGoes DEF DispatchPage, Goto, Refuse, Issue, local, oob
<1>12. ASSUME NEW r \in Requests, DispatchTty(r) PROVE AckInv'
  BY <1>12, AckGoes DEF DispatchTty, Goto, Refuse, Issue, local, oob
<1>13. ASSUME NEW r \in Requests, DispatchAutoDeny(r) PROVE AckInv'
  BY <1>13, AckGoes DEF DispatchAutoDeny, Goto, Refuse, Issue, local, oob
<1>14. ASSUME NEW r \in Requests, DispatchTest(r) PROVE AckInv'
  BY <1>14, AckGoes DEF DispatchTest, Goto, Refuse, Issue, local, oob
<1>15. ASSUME NEW r \in Requests, AwaitUnrouted(r) PROVE AckInv'
  BY <1>15, AckGoes DEF AwaitUnrouted, Goto, Refuse, Issue, local, oob
<1>16. ASSUME NEW r \in Requests, Await(r) PROVE AckInv'
  BY <1>16, AckGoes DEF Await, Goto, Refuse, Issue, local, oob
<1>17. ASSUME NEW r \in Requests, AwaitTest(r) PROVE AckInv'
  BY <1>17, AckGoes DEF AwaitTest, Goto, Refuse, Issue, local, oob
<1>18. ASSUME NEW r \in Requests, TryConsume(r) PROVE AckInv'
  BY <1>18, AckQuiet DEF TryConsume, local, oob
<1>19. ASSUME NEW r \in Requests, Timeout(r) PROVE AckInv'
  BY <1>19, AckGoes DEF Timeout, Goto, Refuse, Issue, local, oob
<1>20. ASSUME NEW r \in Requests, Receive(r) PROVE AckInv'
  <2> DEFINE ok == inbox[r].outcome = "approved" /\ SignatureOk(r)
             f == [frame[r] EXCEPT !.ack = ok]
  <2>1. /\ frame' = [frame EXCEPT ![r] = f]
        /\ \E l \in {"decide", "deny"} : pc' = [pc EXCEPT ![r] = l]
        /\ UNCHANGED <<answer, notifier, approvals>>
    BY <1>20 DEF Receive, Goto, Refuse, oob
  <2>2. f.ack = ok
    BY DEF HandlerType, Frames
  <2>3. f.ack => Confirmed(r)
    BY <2>2 DEF ChannelInv
  <2> HIDE DEF f
  <2> QED
    BY <2>1, <2>3, AckMoves
<1>21. ASSUME NEW r \in Requests, NEW o \in Outcomes, Click(r, o) PROVE AckInv'
  BY <1>21, AckQuiet DEF Click, Note, local
<1>22. ASSUME NEW r \in Requests, NEW o \in Outcomes, Key(r, o) PROVE AckInv'
  BY <1>22, AckQuiet DEF Key, Note, local
<1>23. ASSUME NEW r \in Requests, NEW o \in Outcomes \cup {"expired"}, NEW s \in {"none", "valid", "invalid"},
             Preload(r, o, s) PROVE AckInv'
  BY <1>23, AckQuiet DEF Preload, Note, local
<1>24. ASSUME NEW r \in Requests, TtyDeadline(r) PROVE AckInv'
  BY <1>24, AckQuiet DEF TtyDeadline, local, oob
<1>25. ASSUME NEW r \in Requests, StorageFails(r) PROVE AckInv'
  BY <1>25, AckFails DEF StorageFails, oob
<1>26. ASSUME NEW r \in Requests, HangUp(r) PROVE AckInv'
  BY <1>26, AckFails DEF HangUp, oob
<1>27. ASSUME NEW id \in Requests \cup {None}, NEW o \in Outcomes \cup {"expired"},
             WriteFixture(id, o) PROVE AckInv'
  BY <1>27, AckQuiet DEF WriteFixture, local, oob
<1>28. ASSUME NEW s \in Stored, PutSecret(s) PROVE AckInv'
  BY <1>28, AckQuiet DEF PutSecret, local, oob
<1>29. ASSUME DeleteSecret PROVE AckInv'
  BY <1>29, AckQuiet DEF DeleteSecret, local, oob
<1>30. ASSUME Bind PROVE AckInv'
  BY <1>30, AckQuiet DEF Bind, local, oob
<1>31. ASSUME RevokeDevice PROVE AckInv'
  BY <1>31, AckQuiet DEF RevokeDevice, local, oob
<1>32. ASSUME Seal PROVE AckInv'
  BY <1>32, AckQuiet DEF Seal, local, oob
<1>33. ASSUME Unseal PROVE AckInv'
  BY <1>33, AckQuiet DEF Unseal, local, oob
<1>34. ASSUME AllDone PROVE AckInv'
  BY <1>34, AckQuiet DEF AllDone, vars, local, oob
<1>35. CASE UNCHANGED vars
  BY <1>35, AckQuiet DEF vars, local, oob
<1> QED
  BY <1>1, <1>2, <1>3, <1>4, <1>5, <1>6, <1>7, <1>8, <1>9, <1>10, <1>11, <1>12, <1>13, <1>14,
     <1>15, <1>16, <1>17, <1>18, <1>19, <1>20, <1>21, <1>22, <1>23, <1>24, <1>25, <1>26, <1>27,
     <1>28, <1>29, <1>30, <1>31, <1>32, <1>33, <1>34, <1>35
     DEF Next, Progress, Operator

-----------------------------------------------------------------------------
(* The life of a request. *)

LEMMA LifeQuiet ==
    ASSUME LifeInv, UNCHANGED <<pc, challenge, verdict, inbox, pending>>
    PROVE  LifeInv'
  BY DEF LifeInv

(* A step of one handler that leaves the registry alone: what is to be shown   *)
(* of the request that moves.                                               *)
LEMMA LifeMoves ==
    ASSUME HandlerType, LifeInv, NEW r \in Requests, NEW l, pc[r] # "waiting",
           pc' = [pc EXCEPT ![r] = l], UNCHANGED <<challenge, verdict, inbox, pending>>,
           l \in {"lookup", "gate", "policy", "execute", "dispatch"} =>
             pc[r] \in {"idle", "lookup", "gate", "policy", "execute"},
           l \notin {"idle", "await", "waiting"},
           l = "decide" => pc[r] = "execute"
    PROVE  LifeInv'
<1>1. \A q \in Requests : pc'[q] = IF q = r THEN l ELSE pc[q]
  BY DEF HandlerType
<1>2. None # r
  BY RevealAssumption
<1> QED
  BY <1>1, <1>2 DEF LifeInv

(* A handler is over, or has its verdict. *)
LEMMA LifeEnds ==
    ASSUME TypeOK, HandlerType, LifeInv, NEW r \in Requests, NEW l \in {"load", "deny", Done},
           pc' = [pc EXCEPT ![r] = l], UNCHANGED <<challenge, inbox>>,
           \A q \in Requests \ {r} : verdict'[q] = verdict[q] /\ pending'[q] = pending[q],
           pending'[r] # "waiting"
    PROVE  LifeInv'
<1>1. \A q \in Requests : pc'[q] = IF q = r THEN l ELSE pc[q]
  BY DEF HandlerType
<1> QED
  BY <1>1 DEF LifeInv, Done

LEMMA LifeFails ==
    ASSUME TypeOK, HandlerType, LifeInv, NEW r \in Requests, NEW e, pc[r] # "waiting",
           Err(r, e), UNCHANGED <<challenge, verdict, inbox, pending>>
    PROVE  LifeInv'
<1>1. pending[r] # "waiting"
  BY DEF LifeInv
<1> QED
  BY <1>1, LifeEnds DEF Err, Reply, Goto

(* The challenge of a request is issued. *)
LEMMA LifeIssues ==
    ASSUME TypeOK, HandlerType, LifeInv, NEW r \in Requests, pc[r] = "dispatch", Issue(r),
           UNCHANGED verdict,
           \A q \in Requests : pending'[q] = pending[q] \/ pending'[q] # "waiting",
           \A q \in Requests : inbox'[q] = inbox[q] \/ (q = r /\ inbox'[q].ch = r)
    PROVE  LifeInv'
<1>1. \A q \in Requests : /\ pc'[q] = IF q = r THEN "await" ELSE pc[q]
                          /\ challenge'[q] = IF q = r THEN r ELSE challenge[q]
  BY DEF HandlerType, TypeOK, Issue, Goto
<1> QED
  BY <1>1 DEF LifeInv

(* An answer arrives, if its receiver waits. *)
LEMMA LifeResolves ==
    ASSUME TypeOK, LifeInv, NEW r \in Requests, NEW o, NEW s, Resolve(r, Res(r, o, s)),
           UNCHANGED <<pc, challenge, verdict>>
    PROVE  LifeInv'
<1>1. \A q \in Requests :
        /\ pending'[q] = IF q = r THEN "none" ELSE pending[q]
        /\ inbox'[q] = IF q = r /\ pending[r] = "waiting" THEN Res(r, o, s) ELSE inbox[q]
  BY DEF Resolve, Register, TypeOK
<1>2. Res(r, o, s).ch = r
  BY DEF Res
<1> QED
  BY <1>1, <1>2 DEF LifeInv

(* An answer is put into an inbox whose owner waits without a registration. *)
LEMMA LifeDelivers ==
    ASSUME TypeOK, LifeInv, NEW r \in Requests, NEW o, NEW s, pending[r] # "waiting",
           inbox' = [inbox EXCEPT ![r] = Res(r, o, s)],
           UNCHANGED <<pc, challenge, verdict, pending>>
    PROVE  LifeInv'
<1>1. \A q \in Requests : inbox'[q] = IF q = r THEN Res(r, o, s) ELSE inbox[q]
  BY DEF TypeOK
<1>2. Res(r, o, s).ch = r
  BY DEF Res
<1> QED
  BY <1>1, <1>2 DEF LifeInv

(* Every step keeps the life of every request in order. *)
LEMMA LifeStep ==
    ASSUME TypeOK, HandlerType, ChannelInv, LifeInv, [Next]_vars
    PROVE  LifeInv'
<1> USE DEF Labels, Done
<1>1. ASSUME NEW r \in Requests, NEW slash \in BOOLEAN, NEW ch \in Wanted, NEW prog \in Programs,
             Call(r, slash, ch, prog) PROVE LifeInv'
  BY <1>1, LifeFails, LifeMoves DEF Call, Keep, Goto, oob, registry
<1>2. ASSUME NEW r \in Requests, Lookup(r) PROVE LifeInv'
  BY <1>2, LifeFails, LifeMoves DEF Lookup, Keep, Goto, oob, registry
<1>3. ASSUME NEW r \in Requests, Gate(r) PROVE LifeInv'
  BY <1>3, LifeFails, LifeMoves DEF Gate, Keep, Goto, oob, registry
<1>4. ASSUME NEW r \in Requests, LoadPolicy(r) PROVE LifeInv'
  BY <1>4, LifeFails, LifeMoves DEF LoadPolicy, Keep, Goto, oob, registry
<1>5. ASSUME NEW r \in Requests, Execute(r) PROVE LifeInv'
  BY <1>5, LifeFails, LifeMoves DEF Execute, Keep, Goto, oob, registry
<1>6. ASSUME NEW r \in Requests, Decided(r) PROVE LifeInv'
  BY <1>6, LifeMoves, LifeEnds DEF Decided, Keep, Err, Reply, Goto, Refuse, Rule, oob, registry,
         local, LifeInv, TypeOK
<1>7. ASSUME NEW r \in Requests, AuditDeny(r) PROVE LifeInv'
  BY <1>7, LifeMoves, LifeEnds DEF AuditDeny, Keep, Err, Reply, Goto, Refuse, Rule, oob, registry,
         local, LifeInv, TypeOK
<1>8. ASSUME NEW r \in Requests, Load(r) PROVE LifeInv'
  BY <1>8, LifeFails, LifeMoves DEF Load, Keep, Goto, oob, registry
<1>9. ASSUME NEW r \in Requests, AuditAllow(r) PROVE LifeInv'
  BY <1>9, LifeMoves, LifeEnds DEF AuditAllow, Keep, Err, Reply, Goto, Refuse, Rule, oob, registry,
         local, LifeInv, TypeOK
<1>10. ASSUME NEW r \in Requests, DispatchFails(r) PROVE LifeInv'
  BY <1>10, LifeMoves, LifeEnds DEF DispatchFails, Keep, Err, Reply, Goto, Refuse, Rule, oob,
         registry, local, LifeInv, TypeOK
<1>11. ASSUME NEW r \in Requests, DispatchPage(r) PROVE LifeInv'
  BY <1>11, LifeIssues DEF DispatchPage, Register, Res, registry, oob, TypeOK
<1>12. ASSUME NEW r \in Requests, DispatchTty(r) PROVE LifeInv'
  BY <1>12, LifeIssues DEF DispatchTty, Register, Res, registry, oob, TypeOK
<1>13. ASSUME NEW r \in Requests, DispatchAutoDeny(r) PROVE LifeInv'
  BY <1>13, LifeIssues DEF DispatchAutoDeny, Register, Res, registry, oob, TypeOK
<1>14. ASSUME NEW r \in Requests, DispatchTest(r) PROVE LifeInv'
  BY <1>14, LifeIssues DEF DispatchTest, Register, Res, registry, oob, TypeOK
<1>15. ASSUME NEW r \in Requests, AwaitUnrouted(r) PROVE LifeInv'
  BY <1>15, LifeMoves, LifeEnds DEF AwaitUnrouted, Keep, Err, Reply, Goto, Refuse, Rule, oob,
         registry, local, LifeInv, TypeOK
<1>16. ASSUME NEW r \in Requests, Await(r) PROVE LifeInv'
  <2>1. /\ UNCHANGED <<challenge, verdict, inbox>>
        /\ \A q \in Requests :
             /\ pc'[q] = IF q = r THEN "waiting" ELSE pc[q]
             /\ pending'[q] = IF q = r /\ inbox[r] = NoAnswer THEN "waiting" ELSE pending[q]
    BY <1>16 DEF Await, Register, Goto, local, HandlerType, TypeOK
  <2> QED
    BY <1>16, <2>1 DEF Await, LifeInv
<1>17. ASSUME NEW r \in Requests, AwaitTest(r) PROVE LifeInv'
  BY <1>17, LifeMoves, LifeEnds DEF AwaitTest, Keep, Err, Reply, Goto, Refuse, Rule, oob, registry,
         local, LifeInv, TypeOK
<1>18. ASSUME NEW r \in Requests, TryConsume(r) PROVE LifeInv'
  BY <1>18, LifeDelivers DEF TryConsume, local, ChannelInv
<1>19. ASSUME NEW r \in Requests, Timeout(r) PROVE LifeInv'
  <2>1. /\ pc' = [pc EXCEPT ![r] = "deny"]
        /\ UNCHANGED <<challenge, inbox>>
        /\ \A q \in Requests \ {r} : verdict'[q] = verdict[q] /\ pending'[q] = pending[q]
        /\ pending'[r] # "waiting"
    BY <1>19 DEF Timeout, Refuse, Rule, Goto, TypeOK
  <2> QED
    BY <2>1, LifeEnds
<1>20. ASSUME NEW r \in Requests, Receive(r) PROVE LifeInv'
  <2>1. pending[r] # "waiting" /\ pc[r] = "waiting" /\ inbox[r].ch = r
    BY <1>20 DEF Receive, LifeInv
  <2>2. CASE pc' = [pc EXCEPT ![r] = "decide"] /\ UNCHANGED verdict
    <3>1. \A q \in Requests : pc'[q] = IF q = r THEN "decide" ELSE pc[q]
      BY <2>2 DEF HandlerType
    <3> QED
      BY <1>20, <2>1, <2>2, <3>1 DEF Receive, LifeInv, oob, registry
  <2>3. CASE Refuse(r, "deny")
    BY <1>20, <2>1, <2>3, LifeEnds DEF Receive, Refuse, Rule, Goto, oob, registry, TypeOK
  <2> QED
    BY <1>20, <2>2, <2>3 DEF Receive, Goto
<1>21. ASSUME NEW r \in Requests, NEW o \in Outcomes, Click(r, o) PROVE LifeInv'
  BY <1>21, LifeResolves, LifeQuiet DEF Click, local
<1>22. ASSUME NEW r \in Requests, NEW o \in Outcomes, Key(r, o) PROVE LifeInv'
  BY <1>22, LifeResolves, LifeQuiet DEF Key, local
<1>23. ASSUME NEW r \in Requests, NEW o \in Outcomes \cup {"expired"}, NEW s \in {"none", "valid", "invalid"},
             Preload(r, o, s) PROVE LifeInv'
  BY <1>23, LifeDelivers DEF Preload, local, ChannelInv
<1>24. ASSUME NEW r \in Requests, TtyDeadline(r) PROVE LifeInv'
  BY <1>24, LifeResolves, LifeQuiet DEF TtyDeadline, local
<1>25. ASSUME NEW r \in Requests, StorageFails(r) PROVE LifeInv'
  BY <1>25, LifeFails, LifeMoves DEF StorageFails, Keep, Goto, oob, registry
<1>26. ASSUME NEW r \in Requests, HangUp(r) PROVE LifeInv'
  BY <1>26, LifeMoves, LifeEnds DEF HangUp, Keep, Err, Reply, Goto, Refuse, Rule, oob, registry,
         local, LifeInv, TypeOK
<1>27. ASSUME NEW id \in Requests \cup {None}, NEW o \in Outcomes \cup {"expired"},
             WriteFixture(id, o) PROVE LifeInv'
  BY <1>27, LifeQuiet DEF WriteFixture, local, oob, registry
<1>28. ASSUME NEW s \in Stored, PutSecret(s) PROVE LifeInv'
  BY <1>28, LifeQuiet DEF PutSecret, local, oob, registry
<1>29. ASSUME DeleteSecret PROVE LifeInv'
  BY <1>29, LifeQuiet DEF DeleteSecret, local, oob, registry
<1>30. ASSUME Bind PROVE LifeInv'
  BY <1>30, LifeQuiet DEF Bind, local, oob, registry
<1>31. ASSUME RevokeDevice PROVE LifeInv'
  BY <1>31, LifeQuiet DEF RevokeDevice, local, oob, registry
<1>32. ASSUME Seal PROVE LifeInv'
  BY <1>32, LifeQuiet DEF Seal, local, oob, registry
<1>33. ASSUME Unseal PROVE LifeInv'
  BY <1>33, LifeQuiet DEF Unseal, local, oob, registry
<1>34. ASSUME AllDone PROVE LifeInv'
  BY <1>34, LifeQuiet DEF AllDone, vars, local, oob, registry
<1>35. CASE UNCHANGED vars
  BY <1>35, LifeQuiet DEF vars, local, oob, registry
<1> QED
  BY <1>1, <1>2, <1>3, <1>4, <1>5, <1>6, <1>7, <1>8, <1>9, <1>10, <1>11, <1>12, <1>13, <1>14,
     <1>15, <1>16, <1>17, <1>18, <1>19, <1>20, <1>21, <1>22, <1>23, <1>24, <1>25, <1>26, <1>27,
     <1>28, <1>29, <1>30, <1>31, <1>32, <1>33, <1>34, <1>35
     DEF Next, Progress, Operator

-----------------------------------------------------------------------------
(* The theorems. *)

LEMMA InitIInv == ASSUME Init PROVE IInv
<1>1. TypeOK
  <2>1. /\ secret \in {None} \cup [id : 1 .. MaxSecrets, sens : Sensitivities]
        /\ created \in 1 .. MaxSecrets
        /\ faults \in 0 .. MaxFaults
    BY RevealAssumption DEF Init
  <2> QED
    BY <2>1, RevealAssumption, ResolutionType DEF Init, TypeOK
<1>2. HandlerType
  BY NoFrameType DEF Init, HandlerType, Labels, Policies
<1>3. OobType
  BY RevealAssumption DEF Init, OobType
<1>4. AuditInv
  BY DEF Init, AuditInv, Logged, Done
<1>5. ChannelInv
  BY DEF Init, ChannelInv, NoAnswer, Res
<1>6. AckInv
  BY DEF Init, AckInv, NoFrame, Done
<1>7. LifeInv
  BY DEF Init, LifeInv
<1> QED
  BY <1>1, <1>2, <1>3, <1>4, <1>5, <1>6, <1>7 DEF IInv

LEMMA IInvStep == ASSUME IInv, [Next]_vars PROVE IInv'
  BY TypeStep, HandlerStep, OobStep, AuditStep, ChannelStep, AckStep, LifeStep DEF IInv

(* The inductive invariant holds in every reachable state: types, the agreement *)
(* of log and answers, the consent in channels and handlers, and the order of   *)
(* every request's life.                                                     *)
THEOREM Invariance == Spec => []IInv
<1>1. Init => IInv
  BY InitIInv
<1>2. IInv /\ [Next]_vars => IInv'
  BY IInvStep
<1> QED
  BY <1>1, <1>2, PTL DEF Spec

(* reveal_secret.rs, audit_commit before return: for any number of concurrent   *)
(* requests, seals, storage errors and hang-ups, what a client was told agrees  *)
(* with the audit log.                                                       *)
THEOREM AuditSafety == Spec => []AuditAgrees
<1>1. ASSUME IInv PROVE AuditAgrees
  <2>1. \A r \in Requests : Revealed(r) => answer[r] \in Plaintexts
    BY <1>1, AnswerShapes DEF IInv, AuditInv, Revealed
  <2> QED
    BY <1>1, <2>1 DEF IInv, AuditAgrees, AnswerIsAudited, AuditInv, Revealed
<1> QED
  BY <1>1, Invariance, PTL

(* reveal_secret.rs, pending.rs and the channels: a gated reveal returned       *)
(* plaintext only if the operator approved that challenge (on the terminal,     *)
(* some challenge), whatever answers are late, lost, repeated or foreign.        *)
THEOREM ConsentSafety == Spec => []ConfirmedByOperator
<1>1. ASSUME IInv PROVE ConfirmedByOperator
  <2>1. \A r \in Requests : Revealed(r) => answer[r] \in Plaintexts
    BY <1>1, AnswerShapes DEF IInv, AuditInv, Revealed
  <2> QED
    BY <1>1, <2>1 DEF IInv, ConfirmedByOperator, AckInv, Revealed, Confirmed
<1> QED
  BY <1>1, Invariance, PTL

-----------------------------------------------------------------------------
(* Refinement: the life of the RevealRequest aggregate. *)

(* What a step may do to request q, in the terms of the aggregate: nothing, an *)
(* issued challenge, a resolution of its own challenge, or its expiry.         *)
Keeps(q) == /\ challenge'[q] = challenge[q] /\ verdict'[q] = verdict[q]
            /\ inbox'[q].ch = inbox[q].ch \/ verdict[q] = "none"
Issues(q) == /\ challenge[q] = None /\ challenge'[q] = q
             /\ verdict[q] = "none" /\ verdict'[q] = "none"
Resolves(q) == /\ challenge'[q] = challenge[q] /\ inbox'[q] = inbox[q]
               /\ challenge[q] = None \/ challenge[q] = inbox[q].ch
               /\ verdict[q] = "none" /\ verdict'[q] \in {"allow", "deny"}
Expires(q) == /\ challenge'[q] = challenge[q]
              /\ verdict[q] = "none" /\ verdict'[q] = "expired"
AggregateStep(q) == Keeps(q) \/ Issues(q) \/ Resolves(q) \/ Expires(q)
AllStep == \A q \in Requests : AggregateStep(q)

LEMMA AllKeep ==
    ASSUME UNCHANGED <<challenge, verdict, inbox>>
    PROVE  AllStep
  BY DEF AllStep, AggregateStep, Keeps

(* An answer that arrives before the verdict. *)
LEMMA AllDeliver ==
    ASSUME TypeOK, NEW r \in Requests, verdict[r] = "none", UNCHANGED <<challenge, verdict>>,
           \A q \in Requests \ {r} : inbox'[q] = inbox[q]
    PROVE  AllStep
  BY DEF AllStep, AggregateStep, Keeps

LEMMA AllResolve ==
    ASSUME TypeOK, LifeInv, NEW r \in Requests, NEW res, Resolve(r, res),
           UNCHANGED <<challenge, verdict>>
    PROVE  AllStep
<1>1. CASE pending[r] = "waiting"
  BY <1>1, AllDeliver DEF Resolve, LifeInv, TypeOK
<1>2. CASE pending[r] # "waiting"
  BY <1>2, AllKeep DEF Resolve
<1> QED
  BY <1>1, <1>2

LEMMA AllIssue ==
    ASSUME TypeOK, LifeInv, NEW r \in Requests, pc[r] = "dispatch", Issue(r), UNCHANGED verdict,
           \A q \in Requests \ {r} : inbox'[q] = inbox[q]
    PROVE  AllStep
<1>1. \A q \in Requests : challenge'[q] = IF q = r THEN r ELSE challenge[q]
  BY DEF Issue, TypeOK
<1> QED
  BY <1>1 DEF AllStep, AggregateStep, Keeps, Issues, LifeInv

LEMMA AllRule ==
    ASSUME TypeOK, LifeInv, NEW r \in Requests, NEW v \in {"allow", "deny", "expired"}, Rule(r, v),
           UNCHANGED <<challenge, inbox>>, verdict[r] = "none",
           v # "expired" => challenge[r] = None \/ challenge[r] = inbox[r].ch
    PROVE  AllStep
<1>1. \A q \in Requests : verdict'[q] = IF q = r THEN v ELSE verdict[q]
  BY DEF Rule, TypeOK
<1> QED
  BY <1>1 DEF AllStep, AggregateStep, Keeps, Resolves, Expires

(* Every step is one of the four, for every request. *)
LEMMA StepSummary ==
    ASSUME TypeOK, LifeInv, [Next]_vars
    PROVE  AllStep
<1>1. ASSUME NEW r \in Requests, NEW slash \in BOOLEAN, NEW ch \in Wanted, NEW prog \in Programs,
             Call(r, slash, ch, prog) PROVE AllStep
  BY <1>1, AllKeep DEF Call, local, oob, registry
<1>2. ASSUME NEW r \in Requests, Lookup(r) PROVE AllStep
  BY <1>2, AllKeep DEF Lookup, local, oob, registry
<1>3. ASSUME NEW r \in Requests, Gate(r) PROVE AllStep
  BY <1>3, AllKeep DEF Gate, local, oob, registry
<1>4. ASSUME NEW r \in Requests, LoadPolicy(r) PROVE AllStep
  BY <1>4, AllKeep DEF LoadPolicy, local, oob, registry
<1>5. ASSUME NEW r \in Requests, Execute(r) PROVE AllStep
  BY <1>5, AllKeep DEF Execute, local, oob, registry
<1>6. ASSUME NEW r \in Requests, Decided(r) PROVE AllStep
  <2>1. verdict[r] = "none" /\ (challenge[r] = None \/ challenge[r] = inbox[r].ch)
    BY <1>6 DEF Decided, LifeInv
  <2> QED
    BY <1>6, <2>1, AllRule DEF Decided, Refuse, oob, registry
<1>7. ASSUME NEW r \in Requests, AuditDeny(r) PROVE AllStep
  BY <1>7, AllKeep DEF AuditDeny, local, oob, registry
<1>8. ASSUME NEW r \in Requests, Load(r) PROVE AllStep
  BY <1>8, AllKeep DEF Load, local, oob, registry
<1>9. ASSUME NEW r \in Requests, AuditAllow(r) PROVE AllStep
  BY <1>9, AllKeep DEF AuditAllow, local, oob, registry
<1>10. ASSUME NEW r \in Requests, DispatchFails(r) PROVE AllStep
  BY <1>10, AllRule DEF DispatchFails, Refuse, oob, registry, LifeInv
<1>11. ASSUME NEW r \in Requests, DispatchPage(r) PROVE AllStep
  BY <1>11, AllIssue DEF DispatchPage, registry, oob, TypeOK
<1>12. ASSUME NEW r \in Requests, DispatchTty(r) PROVE AllStep
  BY <1>12, AllIssue DEF DispatchTty, registry, oob, TypeOK
<1>13. ASSUME NEW r \in Requests, DispatchAutoDeny(r) PROVE AllStep
  BY <1>13, AllIssue DEF DispatchAutoDeny, registry, oob, TypeOK
<1>14. ASSUME NEW r \in Requests, DispatchTest(r) PROVE AllStep
  BY <1>14, AllIssue DEF DispatchTest, registry, oob, TypeOK
<1>15. ASSUME NEW r \in Requests, AwaitUnrouted(r) PROVE AllStep
  BY <1>15, AllRule DEF AwaitUnrouted, Refuse, oob, registry, LifeInv
<1>16. ASSUME NEW r \in Requests, Await(r) PROVE AllStep
  BY <1>16, AllKeep DEF Await, local, oob, registry
<1>17. ASSUME NEW r \in Requests, AwaitTest(r) PROVE AllStep
  BY <1>17, AllKeep DEF AwaitTest, local, oob, registry
<1>18. ASSUME NEW r \in Requests, TryConsume(r) PROVE AllStep
  BY <1>18, AllDeliver DEF TryConsume, local, LifeInv, TypeOK
<1>19. ASSUME NEW r \in Requests, Timeout(r) PROVE AllStep
  BY <1>19, AllRule DEF Timeout, Refuse, LifeInv
<1>20. ASSUME NEW r \in Requests, Receive(r) PROVE AllStep
  <2>1. verdict[r] = "none" /\ challenge[r] = inbox[r].ch
    BY <1>20 DEF Receive, LifeInv
  <2>2. UNCHANGED verdict \/ Rule(r, "deny")
    BY <1>20 DEF Receive, Refuse
  <2> QED
    BY <1>20, <2>1, <2>2, AllRule, AllKeep DEF Receive, oob, registry
<1>21. ASSUME NEW r \in Requests, NEW o \in Outcomes, Click(r, o) PROVE AllStep
  BY <1>21, AllResolve, AllKeep DEF Click, local
<1>22. ASSUME NEW r \in Requests, NEW o \in Outcomes, Key(r, o) PROVE AllStep
  BY <1>22, AllResolve, AllKeep DEF Key, local
<1>23. ASSUME NEW r \in Requests, NEW o \in Outcomes \cup {"expired"}, NEW s \in {"none", "valid", "invalid"},
             Preload(r, o, s) PROVE AllStep
  BY <1>23, AllDeliver DEF Preload, local, LifeInv, TypeOK
<1>24. ASSUME NEW r \in Requests, TtyDeadline(r) PROVE AllStep
  BY <1>24, AllResolve, AllKeep DEF TtyDeadline, local
<1>25. ASSUME NEW r \in Requests, StorageFails(r) PROVE AllStep
  BY <1>25, AllKeep DEF StorageFails, local, oob, registry
<1>26. ASSUME NEW r \in Requests, HangUp(r) PROVE AllStep
  BY <1>26, AllKeep DEF HangUp, local, oob, registry
<1>27. ASSUME NEW id \in Requests \cup {None}, NEW o \in Outcomes \cup {"expired"},
             WriteFixture(id, o) PROVE AllStep
  BY <1>27, AllKeep DEF WriteFixture, local, oob, registry
<1>28. ASSUME NEW s \in Stored, PutSecret(s) PROVE AllStep
  BY <1>28, AllKeep DEF PutSecret, local, oob, registry
<1>29. ASSUME DeleteSecret PROVE AllStep
  BY <1>29, AllKeep DEF DeleteSecret, local, oob, registry
<1>30. ASSUME Bind PROVE AllStep
  BY <1>30, AllKeep DEF Bind, local, oob, registry
<1>31. ASSUME RevokeDevice PROVE AllStep
  BY <1>31, AllKeep DEF RevokeDevice, local, oob, registry
<1>32. ASSUME Seal PROVE AllStep
  BY <1>32, AllKeep DEF Seal, local, oob, registry
<1>33. ASSUME Unseal PROVE AllStep
  BY <1>33, AllKeep DEF Unseal, local, oob, registry
<1>34. ASSUME AllDone PROVE AllStep
  BY <1>34, AllKeep DEF AllDone, vars, local, oob, registry
<1>35. CASE UNCHANGED vars
  BY <1>35, AllKeep DEF vars, local, oob, registry
<1> QED
  BY <1>1, <1>2, <1>3, <1>4, <1>5, <1>6, <1>7, <1>8, <1>9, <1>10, <1>11, <1>12, <1>13, <1>14,
     <1>15, <1>16, <1>17, <1>18, <1>19, <1>20, <1>21, <1>22, <1>23, <1>24, <1>25, <1>26, <1>27,
     <1>28, <1>29, <1>30, <1>31, <1>32, <1>33, <1>34, <1>35
     DEF Next, Progress, Operator

(* The summary is a step of the aggregate, or none. *)
LEMMA SummaryRefines ==
    ASSUME TypeOK, LifeInv, NEW q \in Requests, AggregateStep(q)
    PROVE  [Aggregate(q)!Next]_(Aggregate(q)!vars)
<1>0. verdict[q] \in {"none", "allow", "deny", "expired"} /\ inbox[q] \in Resolutions
  BY DEF TypeOK
<1>1. CASE Keeps(q)
  BY <1>1 DEF Keeps, Aggregate!vars, AbsState
<1>2. CASE Issues(q)
  <2>1. q # None
    BY RevealAssumption
  <2>2. Aggregate(q)!IssueChallenge(q)
    BY <1>2, <2>1 DEF Issues, Aggregate!IssueChallenge, AbsState
  <2> QED
    BY <2>2 DEF Aggregate!Next
<1>3. CASE Resolves(q)
  <2>1. inbox[q].ch \in Requests \cup {None}
    BY <1>0 DEF Resolutions
  <2>2. CASE verdict'[q] = "allow"
    <3>1. Aggregate(q)!Resolve(inbox[q].ch, TRUE)
      BY <1>3, <2>2 DEF Resolves, Aggregate!Resolve, AbsState
    <3> QED
      BY <2>1, <3>1 DEF Aggregate!Next
  <2>3. CASE verdict'[q] = "deny"
    <3>1. Aggregate(q)!Resolve(inbox[q].ch, FALSE)
      BY <1>3, <2>3 DEF Resolves, Aggregate!Resolve, AbsState
    <3> QED
      BY <2>1, <3>1 DEF Aggregate!Next
  <2> QED
    BY <1>3, <2>2, <2>3 DEF Resolves
<1>4. CASE Expires(q)
  <2>1. Aggregate(q)!Expire
    BY <1>4 DEF Expires, Aggregate!Expire, Aggregate!Terminal, AbsState
  <2> QED
    BY <2>1 DEF Aggregate!Next
<1> QED
  BY <1>1, <1>2, <1>3, <1>4 DEF AggregateStep

(* reveal_request.rs: every request of every interleaving lives the life of the  *)
(* domain's aggregate. A challenge is issued at most once, resolved at most once *)
(* by an answer that names it, and no late answer changes a final state.         *)
THEOREM RefinesAggregate == Spec => ImplementsAggregate
<1>1. ASSUME Init PROVE \A r \in Requests : Aggregate(r)!Init
  BY <1>1 DEF Init, Aggregate!Init, AbsState
<1>2. ASSUME IInv, [Next]_vars
      PROVE  \A r \in Requests : [Aggregate(r)!Next]_(Aggregate(r)!vars)
  BY <1>2, StepSummary, SummaryRefines DEF IInv, AllStep
<1> QED
  BY <1>1, <1>2, Invariance, PTL DEF Spec, ImplementsAggregate
=============================================================================
