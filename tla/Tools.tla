-------------------------------- MODULE Tools --------------------------------
(***************************************************************************)
(* What the two clients of the agent do before they send anything. A tool   *)
(* of the MCP server, and a command of the CLI, is an ordered sequence of    *)
(* checks followed by the requests it sends: one record [checks, rpcs].      *)
(* The first check that fails is the answer, and nothing is sent.            *)
(*                                                                         *)
(* Checks: handle (it parses), bound and unbound (the MCP session has, or    *)
(* has not, a namespace), confirmed (the operator's confirmation: the mark   *)
(* the MCP client puts into the request's _meta, or the --confirm flag),      *)
(* confirm_arg (an argument of the tool, which the model fills in), input    *)
(* and tty (what is read from stdin, a file, the arguments or the terminal   *)
(* has the right form).                                                      *)
(***************************************************************************)
EXTENDS Integers, Sequences

(* The union of two tables. *)
f ++ g == [x \in DOMAIN f \cup DOMAIN g |-> IF x \in DOMAIN f THEN f[x] ELSE g[x]]

Tool(checks, rpcs) == [checks |-> checks, rpcs |-> rpcs]

(* The tools of merkle-mcp. *)
vault_unseal     == Tool(<<>>, <<"agent_unseal">>)
vault_seal       == Tool(<<>>, <<"agent_seal">>)
vault_bind       == Tool(<<"unbound">>, <<"create_session">>)
vault_put        == Tool(<<"bound">>, <<"put_secret">>)
vault_get        == Tool(<<"handle", "bound">>, <<"get_secret">>)
vault_list       == Tool(<<"bound">>, <<"list_secrets">>)
vault_describe   == Tool(<<"handle", "bound">>, <<"get_secret">>)
vault_rotate     == Tool(<<"handle", "bound">>, <<"rotate_secret">>)
vault_rollback   == Tool(<<"handle", "confirmed", "bound">>, <<"rollback_secret">>)
vault_delete_Direct == Tool(<<"handle", "bound">>, <<"delete_secret">>)
vault_delete == Tool(<<"handle", "confirmed", "bound">>, <<"delete_secret">>)
vault_search     == Tool(<<"bound">>, <<"list_secrets">>)
vault_history    == Tool(<<"handle", "bound">>, <<"list_secret_versions">>)
vault_reveal     == Tool(<<"confirmed", "handle", "bound">>, <<"reveal">>)
vault_use        == Tool(<<"handle", "bound">>, <<"mint_use_token">>)
vault_write_tempfile   == Tool(<<"handle", "bound">>, <<"mint_use_token", "write_tempfile">>)
vault_write_fifo       == Tool(<<"handle", "bound">>, <<"mint_use_token", "write_fifo">>)
vault_revoke_tempfile  == Tool(<<"bound">>, <<"revoke_tempfile">>)
vault_ssh_exec         == Tool(<<"handle", "bound">>, <<"proxy_ssh_exec">>)
vault_ssh_copy         == Tool(<<"handle", "bound">>, <<"proxy_ssh_copy">>)
vault_ssh_port_forward == Tool(<<"handle", "bound">>, <<"proxy_ssh_port_forward">>)
vault_ssh_shell        == Tool(<<"handle", "bound">>, <<"proxy_ssh_shell">>)
vault_http_request     == Tool(<<"bound", "handle">>, <<"proxy_http_request">>)
vault_http_download    == Tool(<<"bound", "handle">>, <<"proxy_http_download">>)
vault_http_upload      == Tool(<<"bound", "handle">>, <<"proxy_http_upload">>)
vault_spawn            == Tool(<<"bound", "handle">>, <<"proxy_spawn">>)
vault_crypto_sign      == Tool(<<"handle", "bound">>, <<"proxy_crypto_sign">>)
vault_crypto_decrypt   == Tool(<<"handle", "bound", "input">>, <<"proxy_crypto_decrypt">>)
vault_audit_query == Tool(<<"input">>, <<"query_audit">>)
vault_backup      == Tool(<<>>, <<"trigger_backup">>)
vault_restore     == Tool(<<"confirm_arg">>, <<"create_restore_plan", "execute_restore">>)
vault_doctor      == Tool(<<>>, <<"agent_doctor">>)

McpTools ==
  [ vault_unseal |-> vault_unseal, vault_seal |-> vault_seal, vault_bind |-> vault_bind,
    vault_put |-> vault_put, vault_get |-> vault_get, vault_list |-> vault_list,
    vault_describe |-> vault_describe, vault_rotate |-> vault_rotate,
    vault_rollback |-> vault_rollback, vault_delete |-> vault_delete,
    vault_search |-> vault_search, vault_history |-> vault_history,
    vault_reveal |-> vault_reveal, vault_use |-> vault_use,
    vault_write_tempfile |-> vault_write_tempfile, vault_write_fifo |-> vault_write_fifo,
    vault_revoke_tempfile |-> vault_revoke_tempfile, vault_ssh_exec |-> vault_ssh_exec,
    vault_ssh_copy |-> vault_ssh_copy, vault_ssh_port_forward |-> vault_ssh_port_forward,
    vault_ssh_shell |-> vault_ssh_shell, vault_http_request |-> vault_http_request,
    vault_http_download |-> vault_http_download, vault_http_upload |-> vault_http_upload,
    vault_spawn |-> vault_spawn, vault_crypto_sign |-> vault_crypto_sign,
    vault_crypto_decrypt |-> vault_crypto_decrypt, vault_audit_query |-> vault_audit_query,
    vault_backup |-> vault_backup, vault_restore |-> vault_restore,
    vault_doctor |-> vault_doctor ]

(* The commands of the CLI. It keeps no session: the commands about secrets  *)
(* first list the namespaces to find the one their handle names.             *)
cli_init        == Tool(<<>>, <<"agent_init">>)
cli_unseal      == Tool(<<"tty">>, <<"agent_unseal">>)
cli_seal        == Tool(<<>>, <<"agent_seal">>)
cli_status      == Tool(<<>>, <<"agent_status">>)
cli_bind        == Tool(<<>>, <<"create_session">>)
cli_put         == Tool(<<"input", "handle">>, <<"list_namespaces", "put_secret">>)
cli_get         == Tool(<<"handle">>, <<"list_namespaces", "get_secret">>)
cli_describe    == cli_get
cli_rotate      == Tool(<<"input", "handle">>, <<"list_namespaces", "rotate_secret">>)
cli_delete      == Tool(<<"confirmed", "handle">>, <<"list_namespaces", "delete_secret">>)
cli_reveal      == Tool(<<>>, <<"reveal">>)
cli_list_namespaces == Tool(<<>>, <<"list_namespaces">>)
cli_list        == Tool(<<>>, <<"list_namespaces", "list_secrets">>)
cli_search      == Tool(<<>>, <<"list_namespaces", "list_secrets">>)
cli_audit       == Tool(<<>>, <<"query_audit">>)
cli_rebaseline  == Tool(<<"confirmed">>, <<"rebaseline">>)
cli_backup_now  == Tool(<<>>, <<"trigger_backup">>)
cli_backup_list == Tool(<<>>, <<"list_snapshots">>)
cli_restore_plan    == Tool(<<>>, <<"create_restore_plan">>)
cli_restore_execute == Tool(<<>>, <<"execute_restore">>)
cli_device_pair     == Tool(<<>>, <<"pair_device">>)
cli_device_list     == Tool(<<>>, <<"list_devices">>)
cli_device_revoke   == Tool(<<>>, <<"revoke_device">>)
cli_verify_recovery_key == Tool(<<"input", "tty">>, <<"verify_recovery_key">>)
cli_doctor      == Tool(<<>>, <<"agent_doctor">>)

CliTools ==
  [ init |-> cli_init, unseal |-> cli_unseal, seal |-> cli_seal, status |-> cli_status,
    bind |-> cli_bind, put |-> cli_put, get |-> cli_get, describe |-> cli_describe,
    rotate |-> cli_rotate, delete |-> cli_delete, reveal |-> cli_reveal,
    list_namespaces |-> cli_list_namespaces, list |-> cli_list, search |-> cli_search,
    audit |-> cli_audit, rebaseline |-> cli_rebaseline, backup_now |-> cli_backup_now,
    backup_list |-> cli_backup_list, restore_plan |-> cli_restore_plan,
    restore_execute |-> cli_restore_execute, device_pair |-> cli_device_pair,
    device_list |-> cli_device_list, device_revoke |-> cli_device_revoke,
    verify_recovery_key |-> cli_verify_recovery_key, doctor |-> cli_doctor ]

Tools == McpTools ++ CliTools

-----------------------------------------------------------------------------
(* The requests: method and path of each call of the companion client.       *)

Get(path)  == [path |-> path, method |-> "GET"]
Post(path) == [path |-> path, method |-> "POST"]
Del(path)  == [path |-> path, method |-> "DELETE"]

AgentRequests ==
  [ agent_init   |-> Post("agent_init"),   agent_status |-> Get("agent_status"),
    agent_unseal |-> Post("agent_unseal"), agent_seal   |-> Post("agent_seal") ]
NamespaceRequests == [ list_namespaces |-> Get("namespaces") ]
ListRequests      == [ list_secrets |-> Get("secrets") ]
SecretRequests ==
  [ put_secret |-> Post("secrets"), get_secret |-> Get("secret"), delete_secret |-> Del("secret"),
    list_secret_versions |-> Get("secret_versions"), rotate_secret |-> Post("secret_rotate"),
    rollback_secret |-> Post("secret_rollback") ]
SessionRequests == [ create_session |-> Post("sessions"), close_session |-> Del("session") ]
RevealRequests  == [ reveal |-> Post("reveal") ]
AuditRequests   == [ query_audit |-> Get("audit") ]
BackupRequests ==
  [ trigger_backup |-> Post("backup"), list_snapshots |-> Get("backup_snapshots"),
    create_restore_plan |-> Post("backup_restore_plan"), execute_restore |-> Post("backup_restore") ]
DoctorRequests == [ agent_doctor |-> Get("agent_doctor") ]
TokenRequests ==
  [ mint_use_token |-> Post("use_tokens"), write_tempfile |-> Post("use_tokens_tempfile"),
    write_fifo |-> Post("use_tokens_fifo"), revoke_tempfile |-> Del("use_tokens_tempfiles") ]
ProxyRequests ==
  [ proxy_ssh_exec |-> Post("proxy_ssh_exec"), proxy_ssh_copy |-> Post("proxy_ssh_copy"),
    proxy_ssh_port_forward |-> Post("proxy_ssh_port_forward"),
    proxy_ssh_shell |-> Post("proxy_ssh_shell"),
    proxy_http_request |-> Post("proxy_http_request"),
    proxy_http_download |-> Post("proxy_http_download"),
    proxy_http_upload |-> Post("proxy_http_upload"), proxy_spawn |-> Post("proxy_spawn"),
    proxy_crypto_sign |-> Post("proxy_crypto_sign"),
    proxy_crypto_decrypt |-> Post("proxy_crypto_decrypt") ]
(* Sent by the CLI with the generic methods of the client. *)
DeviceRequests ==
  [ pair_device |-> Post("devices"), list_devices |-> Get("devices"),
    revoke_device |-> Del("device") ]
RebaselineRequests == [ rebaseline |-> Post("audit_rebaseline") ]
VerifyRequests     == [ verify_recovery_key |-> Post("agent_verify_recovery_key") ]

VaultRequests ==
  AgentRequests ++ NamespaceRequests ++ ListRequests ++ SecretRequests ++ SessionRequests
RecordRequests == RevealRequests ++ AuditRequests ++ BackupRequests ++ DoctorRequests
UseRequests    == TokenRequests ++ ProxyRequests
AdminRequests  == DeviceRequests ++ RebaselineRequests ++ VerifyRequests
Requests == VaultRequests ++ RecordRequests ++ UseRequests ++ AdminRequests

-----------------------------------------------------------------------------
(* The answer: the code an HTTP status, or a failed check, becomes.          *)

(* No problem type of the agent holds a word classify_by_slug looks for that *)
(* goes with a status classify_http leaves to it: 410, 412, 422 and 500.     *)
classify_by_slug == "SERVER_ERROR"
classify_http(status) ==
  CASE status = 401 -> "UNSEAL_REQUIRED"
    [] status = 403 -> "ACCESS_DENIED"
    [] status = 404 -> "HANDLE_NOT_FOUND"
    [] status = 409 -> "CONFLICT"
    [] status = 400 -> "BAD_REQUEST"
    [] status = 501 -> "TOOL_NOT_IMPLEMENTED"
    [] status = 503 -> "SERVICE_UNAVAILABLE"
    [] OTHER -> classify_by_slug
McpRefusal ==
  [ handle |-> "INVALID_PARAMS", confirmed |-> "INVALID_PARAMS",
    confirm_arg |-> "INVALID_PARAMS", input |-> "INVALID_PARAMS",
    bound |-> "NAMESPACE_NOT_BOUND", unbound |-> "ALREADY_BOUND" ]
(* vault_ssh_shell answers that it is not implemented when its request succeeds. *)
McpSuccess(t) == IF t = "vault_ssh_shell" THEN "TOOL_NOT_IMPLEMENTED" ELSE "OK"

ExitCode(status) == "exit_4"
CliRefusal == [ handle |-> "exit_1", confirmed |-> "exit_2", input |-> "exit_1", tty |-> "exit_6" ]
(* doctor_result turns an unhealthy report into an exit code of its own. *)
CliSuccess(t) == IF t = "doctor" THEN {"OK", "exit_7"} ELSE {"OK"}

IsMcp(t)        == t \in DOMAIN McpTools
Refusal(t, ch)  == IF IsMcp(t) THEN McpRefusal[ch] ELSE CliRefusal[ch]
Unreachable(t)  == IF IsMcp(t) THEN "AGENT_UNREACHABLE" ELSE "exit_3"
(* An answer with more bytes than the client takes, and a successful one it   *)
(* cannot deserialise.                                                       *)
TooLarge(t)     == IF IsMcp(t) THEN "PROTOCOL_ERROR" ELSE "exit_3"
NotJson(t)      == IF IsMcp(t) THEN "PROTOCOL_ERROR" ELSE "exit_1"
Undecodable(t, status) == {TooLarge(t)} \cup (IF status < 300 THEN {NotJson(t)} ELSE {})
Answers(t, status) ==
  IF IsMcp(t)
  THEN IF status < 300 THEN {McpSuccess(t)} ELSE {classify_http(status)}
  ELSE IF status < 300 THEN CliSuccess(t) ELSE {ExitCode(status)}
=============================================================================
