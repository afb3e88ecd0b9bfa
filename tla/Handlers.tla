------------------------------ MODULE Handlers ------------------------------
(***************************************************************************)
(* What the agent does with a request of the companion socket. A command of  *)
(* the application is a sequence of checks, the change it makes and when it  *)
(* writes its audit entry: [checks, does, audit]. A handler adds checks of   *)
(* its own in front of the command it runs: [checks, command]. The first     *)
(* check that fails is the answer.                                           *)
(*                                                                         *)
(* Checks the state decides: gate (the consumer list of the namespace of     *)
(* the request), owner_gate (that of the secret's own namespace), sealed,    *)
(* exists, own_key (the active version opens under the data key of the       *)
(* namespace of the request), namespace and any_namespace (a row is there),  *)
(* fresh (the vault is not initialised), slash (the request carries the      *)
(* operator's confirmation), body (the handle in the body parses). The rest  *)
(* depend on the input or on the world outside the agent.                    *)
(***************************************************************************)
EXTENDS Integers, Sequences

Command(checks, does, audit) == [checks |-> checks, does |-> does, audit |-> audit]
Handler(checks, command) ==
  [checks |-> checks \o command.checks, does |-> command.does, audit |-> command.audit]

(* The commands and queries of the application. *)
InitVaultCommand      == Command(<<"fresh">>, "init", "none")
UnsealVaultCommand    == Command(<<"keychain">>, "unseal", "none")
SealVaultCommand      == Command(<<"sealed">>, "seal", "none")
BindNamespaceCommand  == Command(<<"sealed">>, "bind", "none")
PutSecretCommand      == Command(<<"sealed", "value">>, "put", "after")
DescribeSecretCommand == Command(<<"sealed", "exists">>, "nothing", "after")
ListSecretsCommand    == Command(<<"sealed">>, "nothing", "after")
(* list_secrets runs it when the request has a full-text query, else the list. *)
SearchSecretsCommand  == [ListSecretsCommand EXCEPT !.checks = @ \o <<"query">>]
RotateSecretCommand   == Command(<<"sealed", "exists", "value">>, "rotate", "after")
RollbackSecretCommand == Command(<<"sealed", "exists", "slash", "version">>, "rollback", "after")
DeleteSecretCommand   == Command(<<"sealed", "exists", "slash">>, "delete", "after")
RevealSecretCommand   == Command(<<"sealed", "policy">>, "reveal", "after")
UseTokenCommand       == Command(<<"sealed", "exists">>, "token", "before")
WriteTempfileCommand  == Command(<<"sealed", "token", "exists", "own_key", "external">>, "use", "after")
WriteFifoCommand      == Command(<<"sealed", "token", "exists", "own_key", "external">>, "use", "after")
RevokeTempfileCommand == Command(<<"sealed", "argument">>, "nothing", "after")
SshExecCommand        == Command(<<"sealed", "external">>, "use", "after")
SshCopyCommand        == Command(<<"sealed", "external">>, "use", "after")
PortForwardCommand    == Command(<<"sealed", "argument", "external">>, "use", "after")
SshShellCommand       == Command(<<"sealed", "external">>, "use", "after")
HttpRequestCommand    == Command(<<"sealed", "external">>, "use", "after")
HttpDownloadCommand   == Command(<<"sealed", "external">>, "use", "after")
HttpUploadCommand     == Command(<<"sealed", "external">>, "use", "after")
SpawnCommandCommand   == Command(<<"sealed", "argument", "policy", "exists", "own_key", "external">>,
                                 "use", "after")
CryptoSignCommand     == Command(<<"sealed", "exists", "own_key", "key_form">>, "use", "after")
CryptoDecryptCommand  == Command(<<"sealed", "argument", "exists", "own_key", "key_form">>, "use", "after")
QueryAuditQuery       == Command(<<"sealed">>, "nothing", "none")
SetAuditBaselineCommand == Command(<<"slash", "sealed">>, "baseline", "before")
TriggerBackupCommand  == Command(<<"sealed", "external">>, "backup", "after")
RestorePlanCommand    == Command(<<"sealed", "snapshot">>, "plan", "none")
ExecuteRestoreCommand == Command(<<"sealed", "plan">>, "restore", "after")
PairDeviceCommand     == Command(<<"sealed">>, "device", "after")
ListDevicesCommand    == Command(<<"sealed">>, "nothing", "after")
RevokeDeviceCommand   == Command(<<"sealed", "device">>, "device", "after")
ListNamespacesQuery   == Command(<<"sealed">>, "nothing", "none")
(* list_snapshots answers an empty list when the vault is sealed or empty;   *)
(* only a seal after it found its namespace is refused.                      *)
ListBackupsQuery      == Command(<<"sealed_since">>, "nothing", "none")
DoctorQuery           == Command(<<>>, "nothing", "none")
AgentStatus           == Command(<<>>, "nothing", "none")
CloseSessionState     == Command(<<>>, "nothing", "none")

(* The handlers. *)
init                 == Handler(<<>>, InitVaultCommand)
status               == Handler(<<>>, AgentStatus)
unseal               == Handler(<<>>, UnsealVaultCommand)
seal                 == Handler(<<>>, SealVaultCommand)
doctor               == Handler(<<>>, DoctorQuery)
list_namespaces      == Handler(<<>>, ListNamespacesQuery)
create_session       == Handler(<<>>, BindNamespaceCommand)
close_session        == Handler(<<>>, CloseSessionState)
list_secrets         == Handler(<<>>, SearchSecretsCommand)
put_secret           == Handler(<<"gate", "argument", "namespace", "argument", "sealed">>, PutSecretCommand)
get_secret           == Handler(<<"path">>, DescribeSecretCommand)
list_secret_versions == Handler(<<"path">>, DescribeSecretCommand)
delete_secret        == Handler(<<"gate", "path", "slash">>, DeleteSecretCommand)
rotate_secret        == Handler(<<"gate", "path", "sealed">>, RotateSecretCommand)
rollback_secret      == Handler(<<"gate", "path", "slash">>, RollbackSecretCommand)
reveal               == Handler(<<"body", "slash", "policy", "exists", "owner_gate", "sealed">>,
                                RevealSecretCommand)
issue_use_token      == Handler(<<>>, UseTokenCommand)
write_tempfile       == Handler(<<"sealed">>, WriteTempfileCommand)
write_fifo           == Handler(<<"sealed">>, WriteFifoCommand)
revoke_tempfile      == Handler(<<>>, RevokeTempfileCommand)
derive_dek           == <<"sealed">>
resolve_key_bytes    == <<"exists", "own_key">>
ssh_exec             == Handler(derive_dek \o resolve_key_bytes, SshExecCommand)
ssh_copy             == Handler(derive_dek \o resolve_key_bytes, SshCopyCommand)
port_forward         == Handler(derive_dek \o resolve_key_bytes, PortForwardCommand)
ssh_shell            == Handler(derive_dek \o resolve_key_bytes, SshShellCommand)
http_request         == Handler(derive_dek \o resolve_key_bytes, HttpRequestCommand)
http_download        == Handler(derive_dek \o resolve_key_bytes, HttpDownloadCommand)
http_upload          == Handler(derive_dek \o resolve_key_bytes, HttpUploadCommand)
spawn                == Handler(<<"argument">> \o derive_dek, SpawnCommandCommand)
crypto_sign          == Handler(derive_dek \o <<"argument">>, CryptoSignCommand)
crypto_decrypt       == Handler(derive_dek \o <<"argument">>, CryptoDecryptCommand)
query_audit          == Handler(<<>>, QueryAuditQuery)
rebaseline           == Handler(<<>>, SetAuditBaselineCommand)
trigger_backup       == Handler(<<"any_namespace", "external">>, TriggerBackupCommand)
list_snapshots       == Handler(<<>>, ListBackupsQuery)
create_restore_plan  == Handler(<<"any_namespace", "sealed", "snapshot">>, RestorePlanCommand)
execute_restore      == Handler(<<"slash", "argument">>, ExecuteRestoreCommand)
pair_device          == Handler(<<"argument">>, PairDeviceCommand)
list_devices         == Handler(<<>>, ListDevicesCommand)
revoke_device        == Handler(<<>>, RevokeDeviceCommand)

(* The router: which handler serves a path and a method. *)
Router ==
  [ agent_init |-> [POST |-> init], agent_status |-> [GET |-> status],
    agent_unseal |-> [POST |-> unseal], agent_seal |-> [POST |-> seal],
    agent_doctor |-> [GET |-> doctor], namespaces |-> [GET |-> list_namespaces],
    secrets |-> [GET |-> list_secrets, POST |-> put_secret],
    secret |-> [GET |-> get_secret, DELETE |-> delete_secret],
    secret_versions |-> [GET |-> list_secret_versions],
    secret_rotate |-> [POST |-> rotate_secret],
    secret_rollback |-> [POST |-> rollback_secret], sessions |-> [POST |-> create_session],
    session |-> [DELETE |-> close_session],
    devices |-> [GET |-> list_devices, POST |-> pair_device],
    device |-> [DELETE |-> revoke_device], use_tokens |-> [POST |-> issue_use_token],
    use_tokens_tempfile |-> [POST |-> write_tempfile],
    use_tokens_fifo |-> [POST |-> write_fifo],
    use_tokens_tempfiles |-> [DELETE |-> revoke_tempfile], reveal |-> [POST |-> reveal],
    audit |-> [GET |-> query_audit], audit_rebaseline |-> [POST |-> rebaseline],
    backup |-> [POST |-> trigger_backup], backup_snapshots |-> [GET |-> list_snapshots],
    backup_restore_plan |-> [POST |-> create_restore_plan],
    backup_restore |-> [POST |-> execute_restore], proxy_ssh_exec |-> [POST |-> ssh_exec],
    proxy_ssh_copy |-> [POST |-> ssh_copy],
    proxy_ssh_port_forward |-> [POST |-> port_forward],
    proxy_ssh_shell |-> [POST |-> ssh_shell], proxy_http_request |-> [POST |-> http_request],
    proxy_http_download |-> [POST |-> http_download],
    proxy_http_upload |-> [POST |-> http_upload], proxy_spawn |-> [POST |-> spawn],
    proxy_crypto_sign |-> [POST |-> crypto_sign],
    proxy_crypto_decrypt |-> [POST |-> crypto_decrypt] ]

Serves(request) == /\ request.path \in DOMAIN Router
                   /\ request.method \in DOMAIN Router[request.path]
HandlerOf(request) == Router[request.path][request.method]

-----------------------------------------------------------------------------
(* The statuses a failed check is answered with. *)

Problems ==
  [ gate |-> {403}, owner_gate |-> {403}, policy |-> {403}, slash |-> {403}, sealed |-> {412},
    exists |-> {404}, namespace |-> {404}, any_namespace |-> {404}, own_key |-> {500},
    fresh |-> {409}, body |-> {422}, path |-> {400}, argument |-> {400}, value |-> {400, 422},
    query |-> {400}, version |-> {422}, token |-> {400, 422}, key_form |-> {400, 500},
    keychain |-> {500, 503}, external |-> {500, 422}, snapshot |-> {404, 422, 500},
    plan |-> {404, 409, 410, 422, 500}, device |-> {404, 400}, sealed_since |-> {412} ]
StateChecks == {"gate", "owner_gate", "slash", "sealed", "exists", "namespace", "any_namespace",
                "own_key", "fresh", "body"}
NotRouted == 404
=============================================================================
