------------------------------- MODULE Policy -------------------------------
(***************************************************************************)
(* The namespace policy and the two pure decisions built on it.            *)
(*                                                                         *)
(*   Evaluate  PolicyEvaluator::evaluate of merkle-domain-policy-permissions*)
(*   Decide    decision::evaluate of merkle-domain-access-mediation, the    *)
(*             one that RevealSecretCommand calls                          *)
(*                                                                         *)
(* Every check is a set of denial codes, empty when it passes, so that the  *)
(* order of the early returns is the order of a sequence of checks.         *)
(***************************************************************************)
EXTENDS Integers, Sequences

Profiles == {"relaxed", "balanced", "paranoid"}
Sensitivities == {"low", "medium", "high"}
DeviceClasses == {"software", "secure_enclave", "hardware_token"}
OpClasses == {"plaintext_reads", "use_token_resolves", "reveals"}

(* The derived order of Sensitivity, and CompanionDeviceClass::rank. *)
Level(s) == CASE s = "low" -> 0 [] s = "medium" -> 1 [] s = "high" -> 2
DeviceRank(d) ==
  CASE d = "software" -> 0 [] d = "secure_enclave" -> 1 [] d = "hardware_token" -> 2

-----------------------------------------------------------------------------
(* Defaults of a profile. *)

RevealDefaults(profile) ==
  [ allowed           |-> profile # "paranoid",
    require_oob_above |-> IF profile = "paranoid" THEN "medium" ELSE "high" ]

RateWindow == 60

RateDefaults(profile) ==
  LET max == CASE profile = "relaxed"  -> <<60, 120, 10>>
               [] profile = "balanced" -> <<10, 60, 5>>
               [] profile = "paranoid" -> <<5, 30, 2>>
  IN  [ plaintext_reads    |-> [max_count |-> max[1], window_seconds |-> RateWindow],
        use_token_resolves |-> [max_count |-> max[2], window_seconds |-> RateWindow],
        reveals            |-> [max_count |-> max[3], window_seconds |-> RateWindow] ]

(* A glob is a sequence of characters; "*" and "?" are the wildcards. *)
ConsumerDefaults(profile) == IF profile = "relaxed" THEN {<<"*">>} ELSE {}

DeviceDefaults(profile) ==
  CASE profile = "relaxed" -> "software"
    [] profile = "balanced" -> "secure_enclave"
    [] profile = "paranoid" -> "hardware_token"

NoTagRules == [required_keys |-> {}, allowed_keys |-> {}, forbidden_values |-> {}]
CrossDeny == [master_switch |-> FALSE, allowed_imports |-> {}]

DefaultsFor(profile) ==
  [ security_profile  |-> profile,
    reveal            |-> RevealDefaults(profile),
    rate_limit        |-> RateDefaults(profile),
    allowed_consumers |-> ConsumerDefaults(profile),
    tags_rules        |-> NoTagRules,
    cross_namespace   |-> CrossDeny,
    required_class    |-> DeviceDefaults(profile) ]

-----------------------------------------------------------------------------
(* Consumer globs: the table dp of glob_match, row i for the first i pattern *)
(* characters, as a recursive function over the number of table cells.       *)

GlobTable(pat, hay) ==
  LET dp[i \in 0 .. Len(pat), j \in 0 .. Len(hay)] ==
        IF i = 0 THEN j = 0
        ELSE IF j = 0 THEN pat[i] = "*" /\ dp[i - 1, 0]
        ELSE CASE pat[i] = "*" -> dp[i - 1, j] \/ dp[i, j - 1]
               [] pat[i] = "?" -> dp[i - 1, j - 1]
               [] OTHER        -> dp[i - 1, j - 1] /\ pat[i] = hay[j]
  IN  dp

GlobMatch(pat, hay) == GlobTable(pat, hay)[Len(pat), Len(hay)]

Matches(globs, program) == \E g \in globs : GlobMatch(g, program)

(* No program path: the kernel could not name the peer, or an internal call. *)
NoProgram == <<>>

(* consumer_gate::enforce_consumer_allowlist: the check the socket makes.    *)
GateAllows(globs, program) ==
  globs = {} \/ (program # NoProgram /\ Matches(globs, program))

-----------------------------------------------------------------------------
(* The checks of the evaluator, each a set of at most one denial code. *)

CheckUnsealRequired(in) ==
  IF \/ in.vault_state = "unsealed"
     \/ in.vault_state = "sealed" /\ in.op = "unseal"
     \/ in.vault_state = "unsealing" /\ in.op \in {"unseal", "doctor"}
  THEN {} ELSE {"vault_sealed"}

(* The empty label is EmptyLabel. *)
EmptyLabel == "empty"
CheckCrossNamespace(p, in) ==
  IF \/ in.session_namespace = in.target_namespace
     \/ /\ EmptyLabel \notin {in.session_namespace, in.target_namespace}
        /\ p.cross_namespace.master_switch
        /\ in.target_namespace \in p.cross_namespace.allowed_imports
  THEN {} ELSE {"cross_namespace_denied"}

CheckRateLimit(p, in) ==
  IF /\ in.class \in DOMAIN p.rate_limit
     /\ in.window_seconds = p.rate_limit[in.class].window_seconds
     /\ in.count_in_window < p.rate_limit[in.class].max_count
  THEN {} ELSE {"rate_limit_exceeded"}

(* A call of the vault itself names no program and is let through. *)
CheckAllowedConsumers(p, in) ==
  IF in.caller_program = NoProgram \/ Matches(p.allowed_consumers, in.caller_program)
  THEN {} ELSE {"consumer_not_allowed"}

(* Tags are records [key, value]. *)
Keys(tags) == {t.key : t \in tags}
TagsValid(rules, tags, sensitivity) ==
  /\ rules.required_keys \subseteq Keys(tags)
  /\ tags \cap rules.forbidden_values = {}
  /\ sensitivity = "high" => "env" \in Keys(tags)
  /\ rules.allowed_keys # {} => Keys(tags) \subseteq rules.allowed_keys

CheckTags(p, in) ==
  IF in.op \in {"put", "rotate"} /\ ~TagsValid(p.tags_rules, in.tags, in.sensitivity)
  THEN {"tags_invalid"} ELSE {}

OobRequiredFor(reveal, s) == Level(s) >= Level(reveal.require_oob_above)
SatisfiedBy(required, class) == DeviceRank(class) >= DeviceRank(required)

CheckReveal(p, in) ==
  CASE in.op # "reveal" -> {}
    [] ~p.reveal.allowed -> {"administrative_disabled"}
    [] ~in.slash_command /\ ~in.signed_config_flag_valid -> {"slash_command_missing"}
    [] OobRequiredFor(p.reveal, in.sensitivity) /\ ~in.oob_ack -> {"oob_confirmation_missing"}
    [] in.sensitivity = "high" /\ ~in.oob_ack -> {"sensitivity_threshold_exceeded"}
    [] ~SatisfiedBy(p.required_class, in.bound_device_class) -> {"device_class_insufficient"}
    [] OTHER -> {}

CheckUnsealOpState(in) ==
  IF in.op = "unseal" /\ in.vault_state = "shutting_down" THEN {"vault_sealed"} ELSE {}

(* The denial is that of the first check that fails. *)
Evaluate(p, in) ==
  LET checks == << CheckUnsealRequired(in), CheckCrossNamespace(p, in),
                   CheckRateLimit(p, in), CheckAllowedConsumers(p, in),
                   CheckTags(p, in), CheckReveal(p, in), CheckUnsealOpState(in) >>
      failed == {k \in DOMAIN checks : checks[k] # {}}
  IN  IF failed = {} THEN {}
      ELSE checks[CHOOSE k \in failed : \A l \in failed : k <= l]

-----------------------------------------------------------------------------
(* decision::evaluate, the decision of the reveal command. *)

OobRequired(sensitivity, threshold, profile) ==
  Level(sensitivity) >= Level(threshold) \/ profile = "paranoid"

Decide(slash_confirmed, oob_ack, sensitivity, threshold, profile, bound, required) ==
  CASE ~slash_confirmed -> {"missing_slash_command"}
    [] OobRequired(sensitivity, threshold, profile) /\ ~oob_ack -> {"oob_ack_required"}
    [] DeviceRank(bound) < DeviceRank(required) -> {"device_class_insufficient"}
    [] OTHER -> {}
=============================================================================
