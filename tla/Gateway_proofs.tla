--------------------------- MODULE Gateway_proofs ---------------------------
(***************************************************************************)
(* What the agent's clients rely on, for any number of MCP servers, calls,   *)
(* labels and crashes: a session is bound only to a namespace that is stored *)
(* and has a policy (BindingIsSound), nothing that destroys or discloses is  *)
(* done without the operator's confirmation (ConfirmedOnlySafety), and the   *)
(* answer of a call says truly whether it did something (AnswersAreTruthful).*)
(*                                                                         *)
(* First the tables: the requests, the handlers and the tools are finite     *)
(* records, and what is needed of them is checked entry by entry. Then the   *)
(* invariant IInv, of each call by itself: how far it is, what it has passed *)
(* and which marks it has left. Then lemmas about the two records of a call, *)
(* and one lemma for each action.                                            *)
(***************************************************************************)
EXTENDS Gateway, TLAPS, SequenceTheorems, NaturalsInduction, WellFoundedInduction

-----------------------------------------------------------------------------
(* The handler of the k-th request of a tool, and the checks of a tool. *)
Served(t, k)    == Serves(Requests[Tools[t].rpcs[k]])
HandlerAt(t, k) == HandlerOf(Requests[Tools[t].rpcs[k]])

(* The names of the requests, by table. *)
VaultNames == {"agent_init", "agent_status", "agent_unseal", "agent_seal", "list_namespaces",
               "list_secrets", "put_secret", "get_secret", "delete_secret", "list_secret_versions",
               "rotate_secret", "rollback_secret", "create_session", "close_session"}
RecordNames == {"reveal", "query_audit", "trigger_backup", "list_snapshots", "create_restore_plan",
                "execute_restore", "agent_doctor"}
UseNames == {"mint_use_token", "write_tempfile", "write_fifo", "revoke_tempfile", "proxy_ssh_exec",
             "proxy_ssh_copy", "proxy_ssh_port_forward", "proxy_ssh_shell", "proxy_http_request",
             "proxy_http_download", "proxy_http_upload", "proxy_spawn", "proxy_crypto_sign",
             "proxy_crypto_decrypt"}
AdminNames == {"pair_device", "list_devices", "revoke_device", "rebaseline", "verify_recovery_key"}

(* What the tables of requests list. *)
LEMMA RequestNames ==
  /\ DOMAIN VaultRequests = VaultNames
  /\ DOMAIN RecordRequests = RecordNames
  /\ DOMAIN UseRequests = UseNames
  /\ DOMAIN AdminRequests = AdminNames
<1>1. DOMAIN VaultRequests = VaultNames
  BY DEF VaultNames, VaultRequests, ++, AgentRequests, NamespaceRequests, ListRequests,
         SecretRequests, SessionRequests
<1>2. DOMAIN RecordRequests = RecordNames
  BY DEF RecordNames, RecordRequests, ++, RevealRequests, AuditRequests, BackupRequests,
         DoctorRequests
<1>3. DOMAIN UseRequests = UseNames
  BY DEF UseNames, UseRequests, ++, TokenRequests, ProxyRequests
<1>4. DOMAIN AdminRequests = AdminNames
  BY DEF AdminNames, AdminRequests, ++, DeviceRequests, RebaselineRequests, VerifyRequests
<1> QED BY <1>1, <1>2, <1>3, <1>4

(* No name is in two tables, so that each request is the one its table says. *)
LEMMA RequestLookup ==
  /\ DOMAIN Requests = VaultNames \cup RecordNames \cup UseNames \cup AdminNames
  /\ \A r \in VaultNames  : Requests[r] = VaultRequests[r]
  /\ \A r \in RecordNames : Requests[r] = RecordRequests[r]
  /\ \A r \in UseNames    : Requests[r] = UseRequests[r]
  /\ \A r \in AdminNames  : Requests[r] = AdminRequests[r]
<1> DEFINE A == VaultRequests ++ RecordRequests
           B == A ++ UseRequests
<1>1. /\ VaultNames \cap (RecordNames \cup UseNames \cup AdminNames) = {}
      /\ RecordNames \cap (UseNames \cup AdminNames) = {}
      /\ UseNames \cap AdminNames = {}
  BY DEF VaultNames, RecordNames, UseNames, AdminNames
<1>2. /\ DOMAIN A = VaultNames \cup RecordNames
      /\ \A r \in VaultNames : A[r] = VaultRequests[r]
      /\ \A r \in RecordNames : A[r] = RecordRequests[r]
  BY <1>1, RequestNames DEF ++
<1> HIDE DEF A
<1>3. /\ DOMAIN B = VaultNames \cup RecordNames \cup UseNames
      /\ \A r \in VaultNames \cup RecordNames : B[r] = A[r]
      /\ \A r \in UseNames : B[r] = UseRequests[r]
  BY <1>1, <1>2, RequestNames DEF ++
<1> HIDE DEF B
<1>4. Requests = B ++ AdminRequests
  BY DEF Requests, A, B
<1>5. /\ DOMAIN Requests = VaultNames \cup RecordNames \cup UseNames \cup AdminNames
      /\ \A r \in VaultNames \cup RecordNames \cup UseNames : Requests[r] = B[r]
      /\ \A r \in AdminNames : Requests[r] = AdminRequests[r]
  BY <1>1, <1>3, <1>4, RequestNames DEF ++
<1> QED BY <1>2, <1>3, <1>5

(* The handler that serves a request. *)
ServedBy(r, h) == Serves(Requests[r]) /\ HandlerOf(Requests[r]) = h

(* The handlers behind the requests about the vault, its namespaces and secrets. *)
LEMMA VaultHandlers ==
  /\ ServedBy("agent_init", init)
  /\ ServedBy("agent_status", status)
  /\ ServedBy("agent_unseal", unseal)
  /\ ServedBy("agent_seal", seal)
  /\ ServedBy("list_namespaces", list_namespaces)
  /\ ServedBy("list_secrets", list_secrets)
  /\ ServedBy("put_secret", put_secret)
  /\ ServedBy("get_secret", get_secret)
  /\ ServedBy("delete_secret", delete_secret)
  /\ ServedBy("list_secret_versions", list_secret_versions)
  /\ ServedBy("rotate_secret", rotate_secret)
  /\ ServedBy("rollback_secret", rollback_secret)
  /\ ServedBy("create_session", create_session)
  /\ ServedBy("close_session", close_session)
<1>1. /\ VaultRequests["agent_init"] = Post("agent_init")
      /\ VaultRequests["agent_status"] = Get("agent_status")
      /\ VaultRequests["agent_unseal"] = Post("agent_unseal")
      /\ VaultRequests["agent_seal"] = Post("agent_seal")
  BY DEF VaultRequests, ++, AgentRequests, NamespaceRequests, ListRequests, SecretRequests,
         SessionRequests
<1>2. /\ VaultRequests["list_namespaces"] = Get("namespaces")
  BY DEF VaultRequests, ++, AgentRequests, NamespaceRequests, ListRequests, SecretRequests,
         SessionRequests
<1>3. /\ VaultRequests["list_secrets"] = Get("secrets")
  BY DEF VaultRequests, ++, AgentRequests, NamespaceRequests, ListRequests, SecretRequests,
         SessionRequests
<1>4. /\ VaultRequests["put_secret"] = Post("secrets")
      /\ VaultRequests["get_secret"] = Get("secret")
      /\ VaultRequests["delete_secret"] = Del("secret")
      /\ VaultRequests["list_secret_versions"] = Get("secret_versions")
      /\ VaultRequests["rotate_secret"] = Post("secret_rotate")
      /\ VaultRequests["rollback_secret"] = Post("secret_rollback")
  BY DEF VaultRequests, ++, AgentRequests, NamespaceRequests, ListRequests, SecretRequests,
         SessionRequests
<1>5. /\ VaultRequests["create_session"] = Post("sessions")
      /\ VaultRequests["close_session"] = Del("session")
  BY DEF VaultRequests, ++, AgentRequests, NamespaceRequests, ListRequests, SecretRequests,
         SessionRequests
<1>6. /\ Requests["agent_init"] = Post("agent_init")
      /\ Requests["agent_status"] = Get("agent_status")
      /\ Requests["agent_unseal"] = Post("agent_unseal")
      /\ Requests["agent_seal"] = Post("agent_seal")
      /\ Requests["list_namespaces"] = Get("namespaces")
      /\ Requests["list_secrets"] = Get("secrets")
      /\ Requests["put_secret"] = Post("secrets")
      /\ Requests["get_secret"] = Get("secret")
      /\ Requests["delete_secret"] = Del("secret")
      /\ Requests["list_secret_versions"] = Get("secret_versions")
      /\ Requests["rotate_secret"] = Post("secret_rotate")
      /\ Requests["rollback_secret"] = Post("secret_rollback")
      /\ Requests["create_session"] = Post("sessions")
      /\ Requests["close_session"] = Del("session")
  BY <1>1, <1>2, <1>3, <1>4, <1>5, RequestLookup DEF VaultNames
<1> QED BY <1>6 DEF ServedBy, Serves, HandlerOf, Router, Post, Get, Del

(* The handlers behind the requests about reveals, the audit chain and backups. *)
LEMMA RecordHandlers ==
  /\ ServedBy("reveal", reveal)
  /\ ServedBy("query_audit", query_audit)
  /\ ServedBy("trigger_backup", trigger_backup)
  /\ ServedBy("list_snapshots", list_snapshots)
  /\ ServedBy("create_restore_plan", create_restore_plan)
  /\ ServedBy("execute_restore", execute_restore)
  /\ ServedBy("agent_doctor", doctor)
<1>1. /\ RecordRequests["reveal"] = Post("reveal")
  BY DEF RecordRequests, ++, RevealRequests, AuditRequests, BackupRequests, DoctorRequests
<1>2. /\ RecordRequests["query_audit"] = Get("audit")
  BY DEF RecordRequests, ++, RevealRequests, AuditRequests, BackupRequests, DoctorRequests
<1>3. /\ RecordRequests["trigger_backup"] = Post("backup")
      /\ RecordRequests["list_snapshots"] = Get("backup_snapshots")
      /\ RecordRequests["create_restore_plan"] = Post("backup_restore_plan")
      /\ RecordRequests["execute_restore"] = Post("backup_restore")
  BY DEF RecordRequests, ++, RevealRequests, AuditRequests, BackupRequests, DoctorRequests
<1>4. /\ RecordRequests["agent_doctor"] = Get("agent_doctor")
  BY DEF RecordRequests, ++, RevealRequests, AuditRequests, BackupRequests, DoctorRequests
<1>5. /\ Requests["reveal"] = Post("reveal")
      /\ Requests["query_audit"] = Get("audit")
      /\ Requests["trigger_backup"] = Post("backup")
      /\ Requests["list_snapshots"] = Get("backup_snapshots")
      /\ Requests["create_restore_plan"] = Post("backup_restore_plan")
      /\ Requests["execute_restore"] = Post("backup_restore")
      /\ Requests["agent_doctor"] = Get("agent_doctor")
  BY <1>1, <1>2, <1>3, <1>4, RequestLookup DEF RecordNames
<1> QED BY <1>5 DEF ServedBy, Serves, HandlerOf, Router, Post, Get, Del

(* The handlers behind the requests about tokens and the proxy. *)
LEMMA UseHandlers ==
  /\ ServedBy("mint_use_token", issue_use_token)
  /\ ServedBy("write_tempfile", write_tempfile)
  /\ ServedBy("write_fifo", write_fifo)
  /\ ServedBy("revoke_tempfile", revoke_tempfile)
  /\ ServedBy("proxy_ssh_exec", ssh_exec)
  /\ ServedBy("proxy_ssh_copy", ssh_copy)
  /\ ServedBy("proxy_ssh_port_forward", port_forward)
  /\ ServedBy("proxy_ssh_shell", ssh_shell)
  /\ ServedBy("proxy_http_request", http_request)
  /\ ServedBy("proxy_http_download", http_download)
  /\ ServedBy("proxy_http_upload", http_upload)
  /\ ServedBy("proxy_spawn", spawn)
  /\ ServedBy("proxy_crypto_sign", crypto_sign)
  /\ ServedBy("proxy_crypto_decrypt", crypto_decrypt)
<1>1. /\ UseRequests["mint_use_token"] = Post("use_tokens")
      /\ UseRequests["write_tempfile"] = Post("use_tokens_tempfile")
      /\ UseRequests["write_fifo"] = Post("use_tokens_fifo")
      /\ UseRequests["revoke_tempfile"] = Del("use_tokens_tempfiles")
  BY DEF UseRequests, ++, TokenRequests, ProxyRequests
<1>2. /\ UseRequests["proxy_ssh_exec"] = Post("proxy_ssh_exec")
      /\ UseRequests["proxy_ssh_copy"] = Post("proxy_ssh_copy")
      /\ UseRequests["proxy_ssh_port_forward"] = Post("proxy_ssh_port_forward")
      /\ UseRequests["proxy_ssh_shell"] = Post("proxy_ssh_shell")
      /\ UseRequests["proxy_http_request"] = Post("proxy_http_request")
      /\ UseRequests["proxy_http_download"] = Post("proxy_http_download")
      /\ UseRequests["proxy_http_upload"] = Post("proxy_http_upload")
      /\ UseRequests["proxy_spawn"] = Post("proxy_spawn")
      /\ UseRequests["proxy_crypto_sign"] = Post("proxy_crypto_sign")
      /\ UseRequests["proxy_crypto_decrypt"] = Post("proxy_crypto_decrypt")
  BY DEF UseRequests, ++, TokenRequests, ProxyRequests
<1>3. /\ Requests["mint_use_token"] = Post("use_tokens")
      /\ Requests["write_tempfile"] = Post("use_tokens_tempfile")
      /\ Requests["write_fifo"] = Post("use_tokens_fifo")
      /\ Requests["revoke_tempfile"] = Del("use_tokens_tempfiles")
      /\ Requests["proxy_ssh_exec"] = Post("proxy_ssh_exec")
      /\ Requests["proxy_ssh_copy"] = Post("proxy_ssh_copy")
      /\ Requests["proxy_ssh_port_forward"] = Post("proxy_ssh_port_forward")
      /\ Requests["proxy_ssh_shell"] = Post("proxy_ssh_shell")
      /\ Requests["proxy_http_request"] = Post("proxy_http_request")
      /\ Requests["proxy_http_download"] = Post("proxy_http_download")
      /\ Requests["proxy_http_upload"] = Post("proxy_http_upload")
      /\ Requests["proxy_spawn"] = Post("proxy_spawn")
      /\ Requests["proxy_crypto_sign"] = Post("proxy_crypto_sign")
      /\ Requests["proxy_crypto_decrypt"] = Post("proxy_crypto_decrypt")
  BY <1>1, <1>2, RequestLookup DEF UseNames
<1> QED BY <1>3 DEF ServedBy, Serves, HandlerOf, Router, Post, Get, Del

(* The handlers behind the requests about what the CLI asks for with the generic methods. *)
LEMMA AdminHandlers ==
  /\ ServedBy("pair_device", pair_device)
  /\ ServedBy("list_devices", list_devices)
  /\ ServedBy("revoke_device", revoke_device)
  /\ ServedBy("rebaseline", rebaseline)
  /\ ~Serves(Requests["verify_recovery_key"])
<1>1. /\ AdminRequests["pair_device"] = Post("devices")
      /\ AdminRequests["list_devices"] = Get("devices")
      /\ AdminRequests["revoke_device"] = Del("device")
  BY DEF AdminRequests, ++, DeviceRequests, RebaselineRequests, VerifyRequests
<1>2. /\ AdminRequests["rebaseline"] = Post("audit_rebaseline")
  BY DEF AdminRequests, ++, DeviceRequests, RebaselineRequests, VerifyRequests
<1>3. /\ AdminRequests["verify_recovery_key"] = Post("agent_verify_recovery_key")
  BY DEF AdminRequests, ++, DeviceRequests, RebaselineRequests, VerifyRequests
<1>4. /\ Requests["pair_device"] = Post("devices")
      /\ Requests["list_devices"] = Get("devices")
      /\ Requests["revoke_device"] = Del("device")
      /\ Requests["rebaseline"] = Post("audit_rebaseline")
      /\ Requests["verify_recovery_key"] = Post("agent_verify_recovery_key")
  BY <1>1, <1>2, <1>3, RequestLookup DEF AdminNames
<1> QED BY <1>4 DEF ServedBy, Serves, HandlerOf, Router, Post, Get, Del

(* What holds of every handler: its checks are ones a status is known for, it  *)
(* records at one point at most, the bind records inside its own steps, and    *)
(* what writes back a secret it loaded has checked that it is there.           *)
HandlerSound(h) ==
  /\ h.checks \in Seq(DOMAIN Problems)
  /\ h.does \in (Effects \ {"row", "audit"}) \cup {"nothing"}
  /\ h.audit \in {"none", "before", "after"}
  /\ h.does = "bind" => h.audit = "none"
  /\ h.does \in {"rotate", "rollback"} => \E i \in DOMAIN h.checks : h.checks[i] = "exists"

(* Every request that is served is served by such a handler. *)
LEMMA ServedSoundly ==
  ASSUME NEW r \in DOMAIN Requests, Serves(Requests[r])
  PROVE  HandlerSound(HandlerOf(Requests[r]))
<1> USE DEF HandlerSound, Handler, Command, Problems, Effects
<1>1. HandlerSound(init)
  BY ConcatProperties DEF init, InitVaultCommand
<1>2. HandlerSound(status)
  BY ConcatProperties DEF status, AgentStatus
<1>3. HandlerSound(unseal)
  BY ConcatProperties DEF unseal, UnsealVaultCommand
<1>4. HandlerSound(seal)
  BY ConcatProperties DEF seal, SealVaultCommand
<1>5. HandlerSound(list_namespaces)
  BY ConcatProperties DEF list_namespaces, ListNamespacesQuery
<1>6. HandlerSound(list_secrets)
  BY ConcatProperties DEF list_secrets, SearchSecretsCommand, ListSecretsCommand
<1>7. HandlerSound(put_secret)
  BY ConcatProperties DEF put_secret, PutSecretCommand
<1>8. HandlerSound(get_secret)
  BY ConcatProperties DEF get_secret, DescribeSecretCommand
<1>9. HandlerSound(delete_secret)
  BY ConcatProperties DEF delete_secret, DeleteSecretCommand
<1>10. HandlerSound(list_secret_versions)
  BY ConcatProperties DEF list_secret_versions, DescribeSecretCommand
<1>11. HandlerSound(rotate_secret)
  <2>1. rotate_secret.checks = <<"gate", "path", "sealed">> \o <<"sealed", "exists", "value">>
    BY DEF rotate_secret, RotateSecretCommand
  <2>2. 5 \in DOMAIN rotate_secret.checks /\ rotate_secret.checks[5] = "exists"
    BY <2>1, ConcatProperties
  <2>3. rotate_secret.checks \in Seq(DOMAIN Problems)
    BY <2>1, ConcatProperties
  <2>4. rotate_secret.does = "rotate" /\ rotate_secret.audit = "after"
    BY DEF rotate_secret, RotateSecretCommand
  <2> QED BY <2>2, <2>3, <2>4
<1>12. HandlerSound(rollback_secret)
  <2>1. rollback_secret.checks = <<"gate", "path", "slash">> \o <<"sealed", "exists", "slash", "version">>
    BY DEF rollback_secret, RollbackSecretCommand
  <2>2. 5 \in DOMAIN rollback_secret.checks /\ rollback_secret.checks[5] = "exists"
    BY <2>1, ConcatProperties
  <2>3. rollback_secret.checks \in Seq(DOMAIN Problems)
    BY <2>1, ConcatProperties
  <2>4. rollback_secret.does = "rollback" /\ rollback_secret.audit = "after"
    BY DEF rollback_secret, RollbackSecretCommand
  <2> QED BY <2>2, <2>3, <2>4
<1>13. HandlerSound(create_session)
  BY ConcatProperties DEF create_session, BindNamespaceCommand
<1>14. HandlerSound(close_session)
  BY ConcatProperties DEF close_session, CloseSessionState
<1>15. HandlerSound(reveal)
  BY ConcatProperties DEF reveal, RevealSecretCommand
<1>16. HandlerSound(query_audit)
  BY ConcatProperties DEF query_audit, QueryAuditQuery
<1>17. HandlerSound(trigger_backup)
  BY ConcatProperties DEF trigger_backup, TriggerBackupCommand
<1>18. HandlerSound(list_snapshots)
  BY ConcatProperties DEF list_snapshots, ListBackupsQuery
<1>19. HandlerSound(create_restore_plan)
  BY ConcatProperties DEF create_restore_plan, RestorePlanCommand
<1>20. HandlerSound(execute_restore)
  BY ConcatProperties DEF execute_restore, ExecuteRestoreCommand
<1>21. HandlerSound(doctor)
  BY ConcatProperties DEF doctor, DoctorQuery
<1>22. HandlerSound(issue_use_token)
  BY ConcatProperties DEF issue_use_token, UseTokenCommand
<1>23. HandlerSound(write_tempfile)
  BY ConcatProperties DEF write_tempfile, WriteTempfileCommand
<1>24. HandlerSound(write_fifo)
  BY ConcatProperties DEF write_fifo, WriteFifoCommand
<1>25. HandlerSound(revoke_tempfile)
  BY ConcatProperties DEF revoke_tempfile, RevokeTempfileCommand
<1>26. HandlerSound(ssh_exec)
  BY ConcatProperties DEF ssh_exec, SshExecCommand, derive_dek, resolve_key_bytes
<1>27. HandlerSound(ssh_copy)
  BY ConcatProperties DEF ssh_copy, SshCopyCommand, derive_dek, resolve_key_bytes
<1>28. HandlerSound(port_forward)
  BY ConcatProperties DEF port_forward, PortForwardCommand, derive_dek, resolve_key_bytes
<1>29. HandlerSound(ssh_shell)
  BY ConcatProperties DEF ssh_shell, SshShellCommand, derive_dek, resolve_key_bytes
<1>30. HandlerSound(http_request)
  BY ConcatProperties DEF http_request, HttpRequestCommand, derive_dek, resolve_key_bytes
<1>31. HandlerSound(http_download)
  BY ConcatProperties DEF http_download, HttpDownloadCommand, derive_dek, resolve_key_bytes
<1>32. HandlerSound(http_upload)
  BY ConcatProperties DEF http_upload, HttpUploadCommand, derive_dek, resolve_key_bytes
<1>33. HandlerSound(spawn)
  BY ConcatProperties DEF spawn, SpawnCommandCommand, derive_dek
<1>34. HandlerSound(crypto_sign)
  BY ConcatProperties DEF crypto_sign, CryptoSignCommand, derive_dek
<1>35. HandlerSound(crypto_decrypt)
  BY ConcatProperties DEF crypto_decrypt, CryptoDecryptCommand, derive_dek
<1>36. HandlerSound(pair_device)
  BY ConcatProperties DEF pair_device, PairDeviceCommand
<1>37. HandlerSound(list_devices)
  BY ConcatProperties DEF list_devices, ListDevicesCommand
<1>38. HandlerSound(revoke_device)
  BY ConcatProperties DEF revoke_device, RevokeDeviceCommand
<1>39. HandlerSound(rebaseline)
  BY ConcatProperties DEF rebaseline, SetAuditBaselineCommand
<1> HIDE DEF HandlerSound, Handler, Command, Problems, Effects
<1>40. CASE r \in VaultNames
  BY <1>40, VaultHandlers, <1>1, <1>2, <1>3, <1>4, <1>5, <1>6, <1>7, <1>8, <1>9, <1>10, <1>11,
     <1>12, <1>13, <1>14 DEF ServedBy, VaultNames
<1>41. CASE r \in RecordNames
  BY <1>41, RecordHandlers, <1>15, <1>16, <1>17, <1>18, <1>19, <1>20, <1>21 DEF ServedBy, RecordNames
<1>42. CASE r \in UseNames
  BY <1>42, UseHandlers, <1>22, <1>23, <1>24, <1>25, <1>26, <1>27, <1>28, <1>29, <1>30, <1>31, <1>32,
     <1>33, <1>34, <1>35 DEF ServedBy, UseNames
<1>43. CASE r \in AdminNames
  BY <1>43, AdminHandlers, <1>36, <1>37, <1>38, <1>39 DEF ServedBy, AdminNames
<1> QED BY <1>40, <1>41, <1>42, <1>43, RequestLookup

(* Which requests do what matters to the operator, and which do nothing that   *)
(* lasts.                                                                      *)
EffectOf(r) == HandlerOf(Requests[r]).does

(* The handler of a request by its effect. *)
LEMMA RequestEffects ==
  ASSUME NEW r \in DOMAIN Requests, Serves(Requests[r])
  PROVE  /\ EffectOf(r) = "put"      => r = "put_secret"
         /\ EffectOf(r) = "rotate"   => r = "rotate_secret"
         /\ EffectOf(r) = "rollback" => r = "rollback_secret"
         /\ EffectOf(r) = "delete"   => r = "delete_secret"
         /\ EffectOf(r) = "baseline" => r = "rebaseline"
         /\ EffectOf(r) = "reveal"   => r = "reveal"
         /\ EffectOf(r) = "restore"  => r = "execute_restore"
         /\ EffectOf(r) = "bind"     => r = "create_session"
         /\ r = "create_session" => EffectOf(r) = "bind"
         /\ r \in {"list_namespaces", "mint_use_token", "create_restore_plan"} => EffectOf(r) \notin Durable
<1>1. CASE r \in VaultNames
  <2>1. /\ init.does = "init"
        /\ status.does = "nothing"
        /\ unseal.does = "unseal"
        /\ seal.does = "seal"
        /\ list_namespaces.does = "nothing"
        /\ list_secrets.does = "nothing"
        /\ put_secret.does = "put"
        /\ get_secret.does = "nothing"
        /\ delete_secret.does = "delete"
        /\ list_secret_versions.does = "nothing"
        /\ rotate_secret.does = "rotate"
        /\ rollback_secret.does = "rollback"
        /\ create_session.does = "bind"
        /\ close_session.does = "nothing"
    BY DEF Handler, Command, init, status, unseal, seal, list_namespaces, list_secrets, put_secret,
           get_secret, delete_secret, list_secret_versions, rotate_secret, rollback_secret,
           create_session,
           close_session, InitVaultCommand, AgentStatus, UnsealVaultCommand, SealVaultCommand,
           ListNamespacesQuery, SearchSecretsCommand, PutSecretCommand, DescribeSecretCommand,
           DeleteSecretCommand, RotateSecretCommand, RollbackSecretCommand, BindNamespaceCommand,
           CloseSessionState, ListSecretsCommand
  <2> QED BY <1>1, <2>1, VaultHandlers DEF ServedBy, VaultNames, EffectOf, Durable, Effects
<1>2. CASE r \in RecordNames
  <2>1. /\ reveal.does = "reveal"
        /\ query_audit.does = "nothing"
        /\ trigger_backup.does = "backup"
        /\ list_snapshots.does = "nothing"
        /\ create_restore_plan.does = "plan"
        /\ execute_restore.does = "restore"
        /\ doctor.does = "nothing"
    BY DEF Handler, Command, reveal, query_audit, trigger_backup, list_snapshots, create_restore_plan,
           execute_restore, doctor, RevealSecretCommand, QueryAuditQuery, TriggerBackupCommand,
           ListBackupsQuery,
           RestorePlanCommand, ExecuteRestoreCommand, DoctorQuery
  <2> QED BY <1>2, <2>1, RecordHandlers DEF ServedBy, RecordNames, EffectOf, Durable, Effects
<1>3. CASE r \in UseNames
  <2>1. /\ issue_use_token.does = "token"
        /\ write_tempfile.does = "use"
        /\ write_fifo.does = "use"
        /\ revoke_tempfile.does = "nothing"
        /\ ssh_exec.does = "use"
        /\ ssh_copy.does = "use"
        /\ port_forward.does = "use"
        /\ ssh_shell.does = "use"
        /\ http_request.does = "use"
        /\ http_download.does = "use"
        /\ http_upload.does = "use"
        /\ spawn.does = "use"
        /\ crypto_sign.does = "use"
        /\ crypto_decrypt.does = "use"
    BY DEF Handler, Command, issue_use_token, write_tempfile, write_fifo, revoke_tempfile,
           ssh_exec, ssh_copy,
           port_forward, ssh_shell, http_request, http_download, http_upload, spawn, crypto_sign,
           crypto_decrypt, UseTokenCommand, WriteTempfileCommand, WriteFifoCommand,
           RevokeTempfileCommand, SshExecCommand, SshCopyCommand, PortForwardCommand,
           SshShellCommand, HttpRequestCommand, HttpDownloadCommand, HttpUploadCommand,
           SpawnCommandCommand, CryptoSignCommand, CryptoDecryptCommand
  <2> QED BY <1>3, <2>1, UseHandlers DEF ServedBy, UseNames, EffectOf, Durable, Effects
<1>4. CASE r \in AdminNames
  <2>1. /\ pair_device.does = "device"
        /\ list_devices.does = "nothing"
        /\ revoke_device.does = "device"
        /\ rebaseline.does = "baseline"
    BY DEF Handler, Command, pair_device, list_devices, revoke_device, rebaseline, PairDeviceCommand,
           ListDevicesCommand, RevokeDeviceCommand, SetAuditBaselineCommand
  <2> QED BY <1>4, <2>1, AdminHandlers DEF ServedBy, AdminNames, EffectOf, Durable, Effects
<1> QED BY <1>1, <1>2, <1>3, <1>4, RequestLookup

(* What holds of every tool: a refusal is known for each of its checks, it     *)
(* sends one request or two, of which the first leaves nothing that lasts,     *)
(* and before a request that destroys, discloses or writes stand the checks    *)
(* that request needs.                                                         *)
Typed(t) ==
  /\ Tools[t].checks \in Seq(IF IsMcp(t) THEN DOMAIN McpRefusal ELSE DOMAIN CliRefusal)
  /\ Tools[t].rpcs \in Seq(DOMAIN Requests)
  /\ Len(Tools[t].rpcs) \in 1..2
ToolSound(t) ==
  /\ Typed(t)
  /\ \A k \in 1..Len(Tools[t].rpcs) :
       /\ Tools[t].rpcs[k] \in {"delete_secret", "rollback_secret", "rebaseline"} => Checked(t, "confirmed")
       /\ IsMcp(t) /\ Tools[t].rpcs[k] = "reveal" => Checked(t, "confirmed")
       /\ Tools[t].rpcs[k] \in {"put_secret", "rotate_secret"} =>
            IF IsMcp(t) THEN Checked(t, "bound") ELSE k = 2
       /\ Tools[t].rpcs[k] \in {"rotate_secret", "rollback_secret"} =>
            Checked(t, "handle") /\ ~OptionalHandle(t)
       /\ Tools[t].rpcs[k] = "create_session" => Len(Tools[t].rpcs) = 1
       /\ Len(Tools[t].rpcs) = 2 /\ k = 1 =>
            Tools[t].rpcs[k] \in {"list_namespaces", "mint_use_token", "create_restore_plan"}

(* The tools of the MCP server. *)
LEMMA McpToolsSound ==
  ASSUME NEW t \in DOMAIN McpTools
  PROVE  t \in DOMAIN Tools /\ ToolSound(t)
<1>0. t \in DOMAIN Tools /\ Tools[t] = McpTools[t]
  BY DEF Tools, ++
<1>1. IsMcp(t)
  BY DEF IsMcp
<1>2. DOMAIN Requests = VaultNames \cup RecordNames \cup UseNames \cup AdminNames
  BY RequestLookup
<1> SUFFICES ToolSound(t)
  BY <1>0
<1> USE DEF Tool
<1>3. CASE t = "vault_unseal"
  <2>1. Tools[t].checks = <<>> /\ Tools[t].rpcs = <<"agent_unseal">>
    BY <1>0, <1>3 DEF McpTools, vault_unseal
  <2>2. Typed(t)
    BY <1>1, <1>2, <2>1 DEF Typed, McpRefusal, VaultNames
  <2> QED BY <1>1, <1>3, <2>1, <2>2 DEF ToolSound, Checked, OptionalHandle
<1>4. CASE t = "vault_seal"
  <2>1. Tools[t].checks = <<>> /\ Tools[t].rpcs = <<"agent_seal">>
    BY <1>0, <1>4 DEF McpTools, vault_seal
  <2>2. Typed(t)
    BY <1>1, <1>2, <2>1 DEF Typed, McpRefusal, VaultNames
  <2> QED BY <1>1, <1>4, <2>1, <2>2 DEF ToolSound, Checked, OptionalHandle
<1>5. CASE t = "vault_bind"
  <2>1. Tools[t].checks = <<"unbound">> /\ Tools[t].rpcs = <<"create_session">>
    BY <1>0, <1>5 DEF McpTools, vault_bind
  <2>2. Typed(t)
    BY <1>1, <1>2, <2>1 DEF Typed, McpRefusal, VaultNames
  <2> QED BY <1>1, <1>5, <2>1, <2>2 DEF ToolSound, Checked, OptionalHandle
<1>6. CASE t = "vault_put"
  <2>1. Tools[t].checks = <<"bound">> /\ Tools[t].rpcs = <<"put_secret">>
    BY <1>0, <1>6 DEF McpTools, vault_put
  <2>2. Typed(t)
    BY <1>1, <1>2, <2>1 DEF Typed, McpRefusal, VaultNames
  <2> QED BY <1>1, <1>6, <2>1, <2>2 DEF ToolSound, Checked, OptionalHandle
<1>7. CASE t = "vault_get"
  <2>1. Tools[t].checks = <<"handle", "bound">> /\ Tools[t].rpcs = <<"get_secret">>
    BY <1>0, <1>7 DEF McpTools, vault_get
  <2>2. Typed(t)
    BY <1>1, <1>2, <2>1 DEF Typed, McpRefusal, VaultNames
  <2> QED BY <1>1, <1>7, <2>1, <2>2 DEF ToolSound, Checked, OptionalHandle
<1>8. CASE t = "vault_list"
  <2>1. Tools[t].checks = <<"bound">> /\ Tools[t].rpcs = <<"list_secrets">>
    BY <1>0, <1>8 DEF McpTools, vault_list
  <2>2. Typed(t)
    BY <1>1, <1>2, <2>1 DEF Typed, McpRefusal, VaultNames
  <2> QED BY <1>1, <1>8, <2>1, <2>2 DEF ToolSound, Checked, OptionalHandle
<1>9. CASE t = "vault_describe"
  <2>1. Tools[t].checks = <<"handle", "bound">> /\ Tools[t].rpcs = <<"get_secret">>
    BY <1>0, <1>9 DEF McpTools, vault_describe
  <2>2. Typed(t)
    BY <1>1, <1>2, <2>1 DEF Typed, McpRefusal, VaultNames
  <2> QED BY <1>1, <1>9, <2>1, <2>2 DEF ToolSound, Checked, OptionalHandle
<1>10. CASE t = "vault_rotate"
  <2>1. Tools[t].checks = <<"handle", "bound">> /\ Tools[t].rpcs = <<"rotate_secret">>
    BY <1>0, <1>10 DEF McpTools, vault_rotate
  <2>2. Typed(t)
    BY <1>1, <1>2, <2>1 DEF Typed, McpRefusal, VaultNames
  <2> QED BY <1>1, <1>10, <2>1, <2>2 DEF ToolSound, Checked, OptionalHandle
<1>11. CASE t = "vault_rollback"
  <2>1. Tools[t].checks = <<"handle", "confirmed", "bound">> /\ Tools[t].rpcs = <<"rollback_secret">>
    BY <1>0, <1>11 DEF McpTools, vault_rollback
  <2>2. Typed(t)
    BY <1>1, <1>2, <2>1 DEF Typed, McpRefusal, VaultNames
  <2> QED BY <1>1, <1>11, <2>1, <2>2 DEF ToolSound, Checked, OptionalHandle
<1>12. CASE t = "vault_delete"
  <2>1. Tools[t].checks = <<"handle", "confirmed", "bound">> /\ Tools[t].rpcs = <<"delete_secret">>
    BY <1>0, <1>12 DEF McpTools, vault_delete
  <2>2. Typed(t)
    BY <1>1, <1>2, <2>1 DEF Typed, McpRefusal, VaultNames
  <2> QED BY <1>1, <1>12, <2>1, <2>2 DEF ToolSound, Checked, OptionalHandle
<1>13. CASE t = "vault_search"
  <2>1. Tools[t].checks = <<"bound">> /\ Tools[t].rpcs = <<"list_secrets">>
    BY <1>0, <1>13 DEF McpTools, vault_search
  <2>2. Typed(t)
    BY <1>1, <1>2, <2>1 DEF Typed, McpRefusal, VaultNames
  <2> QED BY <1>1, <1>13, <2>1, <2>2 DEF ToolSound, Checked, OptionalHandle
<1>14. CASE t = "vault_history"
  <2>1. Tools[t].checks = <<"handle", "bound">> /\ Tools[t].rpcs = <<"list_secret_versions">>
    BY <1>0, <1>14 DEF McpTools, vault_history
  <2>2. Typed(t)
    BY <1>1, <1>2, <2>1 DEF Typed, McpRefusal, VaultNames
  <2> QED BY <1>1, <1>14, <2>1, <2>2 DEF ToolSound, Checked, OptionalHandle
<1>15. CASE t = "vault_reveal"
  <2>1. Tools[t].checks = <<"confirmed", "handle", "bound">> /\ Tools[t].rpcs = <<"reveal">>
    BY <1>0, <1>15 DEF McpTools, vault_reveal
  <2>2. Typed(t)
    BY <1>1, <1>2, <2>1 DEF Typed, McpRefusal, RecordNames
  <2> QED BY <1>1, <1>15, <2>1, <2>2 DEF ToolSound, Checked, OptionalHandle
<1>16. CASE t = "vault_use"
  <2>1. Tools[t].checks = <<"handle", "bound">> /\ Tools[t].rpcs = <<"mint_use_token">>
    BY <1>0, <1>16 DEF McpTools, vault_use
  <2>2. Typed(t)
    BY <1>1, <1>2, <2>1 DEF Typed, McpRefusal, UseNames
  <2> QED BY <1>1, <1>16, <2>1, <2>2 DEF ToolSound, Checked, OptionalHandle
<1>17. CASE t = "vault_write_tempfile"
  <2>1. Tools[t].checks = <<"handle", "bound">> /\ Tools[t].rpcs = <<"mint_use_token", "write_tempfile">>
    BY <1>0, <1>17 DEF McpTools, vault_write_tempfile
  <2>2. Typed(t)
    BY <1>1, <1>2, <2>1 DEF Typed, McpRefusal, UseNames
  <2> QED BY <1>1, <1>17, <2>1, <2>2 DEF ToolSound, Checked, OptionalHandle
<1>18. CASE t = "vault_write_fifo"
  <2>1. Tools[t].checks = <<"handle", "bound">> /\ Tools[t].rpcs = <<"mint_use_token", "write_fifo">>
    BY <1>0, <1>18 DEF McpTools, vault_write_fifo
  <2>2. Typed(t)
    BY <1>1, <1>2, <2>1 DEF Typed, McpRefusal, UseNames
  <2> QED BY <1>1, <1>18, <2>1, <2>2 DEF ToolSound, Checked, OptionalHandle
<1>19. CASE t = "vault_revoke_tempfile"
  <2>1. Tools[t].checks = <<"bound">> /\ Tools[t].rpcs = <<"revoke_tempfile">>
    BY <1>0, <1>19 DEF McpTools, vault_revoke_tempfile
  <2>2. Typed(t)
    BY <1>1, <1>2, <2>1 DEF Typed, McpRefusal, UseNames
  <2> QED BY <1>1, <1>19, <2>1, <2>2 DEF ToolSound, Checked, OptionalHandle
<1>20. CASE t = "vault_ssh_exec"
  <2>1. Tools[t].checks = <<"handle", "bound">> /\ Tools[t].rpcs = <<"proxy_ssh_exec">>
    BY <1>0, <1>20 DEF McpTools, vault_ssh_exec
  <2>2. Typed(t)
    BY <1>1, <1>2, <2>1 DEF Typed, McpRefusal, UseNames
  <2> QED BY <1>1, <1>20, <2>1, <2>2 DEF ToolSound, Checked, OptionalHandle
<1>21. CASE t = "vault_ssh_copy"
  <2>1. Tools[t].checks = <<"handle", "bound">> /\ Tools[t].rpcs = <<"proxy_ssh_copy">>
    BY <1>0, <1>21 DEF McpTools, vault_ssh_copy
  <2>2. Typed(t)
    BY <1>1, <1>2, <2>1 DEF Typed, McpRefusal, UseNames
  <2> QED BY <1>1, <1>21, <2>1, <2>2 DEF ToolSound, Checked, OptionalHandle
<1>22. CASE t = "vault_ssh_port_forward"
  <2>1. Tools[t].checks = <<"handle", "bound">> /\ Tools[t].rpcs = <<"proxy_ssh_port_forward">>
    BY <1>0, <1>22 DEF McpTools, vault_ssh_port_forward
  <2>2. Typed(t)
    BY <1>1, <1>2, <2>1 DEF Typed, McpRefusal, UseNames
  <2> QED BY <1>1, <1>22, <2>1, <2>2 DEF ToolSound, Checked, OptionalHandle
<1>23. CASE t = "vault_ssh_shell"
  <2>1. Tools[t].checks = <<"handle", "bound">> /\ Tools[t].rpcs = <<"proxy_ssh_shell">>
    BY <1>0, <1>23 DEF McpTools, vault_ssh_shell
  <2>2. Typed(t)
    BY <1>1, <1>2, <2>1 DEF Typed, McpRefusal, UseNames
  <2> QED BY <1>1, <1>23, <2>1, <2>2 DEF ToolSound, Checked, OptionalHandle
<1>24. CASE t = "vault_http_request"
  <2>1. Tools[t].checks = <<"bound", "handle">> /\ Tools[t].rpcs = <<"proxy_http_request">>
    BY <1>0, <1>24 DEF McpTools, vault_http_request
  <2>2. Typed(t)
    BY <1>1, <1>2, <2>1 DEF Typed, McpRefusal, UseNames
  <2> QED BY <1>1, <1>24, <2>1, <2>2 DEF ToolSound, Checked, OptionalHandle
<1>25. CASE t = "vault_http_download"
  <2>1. Tools[t].checks = <<"bound", "handle">> /\ Tools[t].rpcs = <<"proxy_http_download">>
    BY <1>0, <1>25 DEF McpTools, vault_http_download
  <2>2. Typed(t)
    BY <1>1, <1>2, <2>1 DEF Typed, McpRefusal, UseNames
  <2> QED BY <1>1, <1>25, <2>1, <2>2 DEF ToolSound, Checked, OptionalHandle
<1>26. CASE t = "vault_http_upload"
  <2>1. Tools[t].checks = <<"bound", "handle">> /\ Tools[t].rpcs = <<"proxy_http_upload">>
    BY <1>0, <1>26 DEF McpTools, vault_http_upload
  <2>2. Typed(t)
    BY <1>1, <1>2, <2>1 DEF Typed, McpRefusal, UseNames
  <2> QED BY <1>1, <1>26, <2>1, <2>2 DEF ToolSound, Checked, OptionalHandle
<1>27. CASE t = "vault_spawn"
  <2>1. Tools[t].checks = <<"bound", "handle">> /\ Tools[t].rpcs = <<"proxy_spawn">>
    BY <1>0, <1>27 DEF McpTools, vault_spawn
  <2>2. Typed(t)
    BY <1>1, <1>2, <2>1 DEF Typed, McpRefusal, UseNames
  <2> QED BY <1>1, <1>27, <2>1, <2>2 DEF ToolSound, Checked, OptionalHandle
<1>28. CASE t = "vault_crypto_sign"
  <2>1. Tools[t].checks = <<"handle", "bound">> /\ Tools[t].rpcs = <<"proxy_crypto_sign">>
    BY <1>0, <1>28 DEF McpTools, vault_crypto_sign
  <2>2. Typed(t)
    BY <1>1, <1>2, <2>1 DEF Typed, McpRefusal, UseNames
  <2> QED BY <1>1, <1>28, <2>1, <2>2 DEF ToolSound, Checked, OptionalHandle
<1>29. CASE t = "vault_crypto_decrypt"
  <2>1. Tools[t].checks = <<"handle", "bound", "input">> /\ Tools[t].rpcs = <<"proxy_crypto_decrypt">>
    BY <1>0, <1>29 DEF McpTools, vault_crypto_decrypt
  <2>2. Typed(t)
    BY <1>1, <1>2, <2>1 DEF Typed, McpRefusal, UseNames
  <2> QED BY <1>1, <1>29, <2>1, <2>2 DEF ToolSound, Checked, OptionalHandle
<1>30. CASE t = "vault_audit_query"
  <2>1. Tools[t].checks = <<"input">> /\ Tools[t].rpcs = <<"query_audit">>
    BY <1>0, <1>30 DEF McpTools, vault_audit_query
  <2>2. Typed(t)
    BY <1>1, <1>2, <2>1 DEF Typed, McpRefusal, RecordNames
  <2> QED BY <1>1, <1>30, <2>1, <2>2 DEF ToolSound, Checked, OptionalHandle
<1>31. CASE t = "vault_backup"
  <2>1. Tools[t].checks = <<>> /\ Tools[t].rpcs = <<"trigger_backup">>
    BY <1>0, <1>31 DEF McpTools, vault_backup
  <2>2. Typed(t)
    BY <1>1, <1>2, <2>1 DEF Typed, McpRefusal, RecordNames
  <2> QED BY <1>1, <1>31, <2>1, <2>2 DEF ToolSound, Checked, OptionalHandle
<1>32. CASE t = "vault_restore"
  <2>1. Tools[t].checks = <<"confirm_arg">> /\ Tools[t].rpcs = <<"create_restore_plan", "execute_restore">>
    BY <1>0, <1>32 DEF McpTools, vault_restore
  <2>2. Typed(t)
    BY <1>1, <1>2, <2>1 DEF Typed, McpRefusal, RecordNames
  <2> QED BY <1>1, <1>32, <2>1, <2>2 DEF ToolSound, Checked, OptionalHandle
<1>33. CASE t = "vault_doctor"
  <2>1. Tools[t].checks = <<>> /\ Tools[t].rpcs = <<"agent_doctor">>
    BY <1>0, <1>33 DEF McpTools, vault_doctor
  <2>2. Typed(t)
    BY <1>1, <1>2, <2>1 DEF Typed, McpRefusal, RecordNames
  <2> QED BY <1>1, <1>33, <2>1, <2>2 DEF ToolSound, Checked, OptionalHandle
<1>34. t \in {"vault_unseal", "vault_seal", "vault_bind", "vault_put", "vault_get", "vault_list",
            "vault_describe", "vault_rotate", "vault_rollback", "vault_delete", "vault_search",
            "vault_history", "vault_reveal", "vault_use", "vault_write_tempfile", "vault_write_fifo",
            "vault_revoke_tempfile", "vault_ssh_exec", "vault_ssh_copy", "vault_ssh_port_forward",
            "vault_ssh_shell", "vault_http_request", "vault_http_download", "vault_http_upload",
            "vault_spawn", "vault_crypto_sign", "vault_crypto_decrypt", "vault_audit_query",
            "vault_backup", "vault_restore", "vault_doctor"}
  BY DEF McpTools
<1> QED BY <1>3, <1>4, <1>5, <1>6, <1>7, <1>8, <1>9, <1>10, <1>11, <1>12, <1>13, <1>14, <1>15, <1>16,
           <1>17, <1>18, <1>19, <1>20, <1>21, <1>22, <1>23, <1>24, <1>25, <1>26, <1>27, <1>28, <1>29,
           <1>30, <1>31, <1>32, <1>33, <1>34

(* The commands of the CLI. *)
LEMMA CliToolsSound ==
  ASSUME NEW t \in DOMAIN CliTools
  PROVE  t \in DOMAIN Tools /\ ToolSound(t)
<1>1. ~IsMcp(t)
  BY DEF IsMcp, McpTools, CliTools
<1>0. t \in DOMAIN Tools /\ Tools[t] = CliTools[t]
  BY <1>1 DEF Tools, ++, IsMcp
<1>2. DOMAIN Requests = VaultNames \cup RecordNames \cup UseNames \cup AdminNames
  BY RequestLookup
<1> SUFFICES ToolSound(t)
  BY <1>0
<1> USE DEF Tool
<1>3. CASE t = "init"
  <2>1. Tools[t].checks = <<>> /\ Tools[t].rpcs = <<"agent_init">>
    BY <1>0, <1>3 DEF CliTools, cli_init
  <2>2. Typed(t)
    BY <1>1, <1>2, <2>1 DEF Typed, CliRefusal, VaultNames
  <2> QED BY <1>1, <1>3, <2>1, <2>2 DEF ToolSound, Checked, OptionalHandle
<1>4. CASE t = "unseal"
  <2>1. Tools[t].checks = <<"tty">> /\ Tools[t].rpcs = <<"agent_unseal">>
    BY <1>0, <1>4 DEF CliTools, cli_unseal
  <2>2. Typed(t)
    BY <1>1, <1>2, <2>1 DEF Typed, CliRefusal, VaultNames
  <2> QED BY <1>1, <1>4, <2>1, <2>2 DEF ToolSound, Checked, OptionalHandle
<1>5. CASE t = "seal"
  <2>1. Tools[t].checks = <<>> /\ Tools[t].rpcs = <<"agent_seal">>
    BY <1>0, <1>5 DEF CliTools, cli_seal
  <2>2. Typed(t)
    BY <1>1, <1>2, <2>1 DEF Typed, CliRefusal, VaultNames
  <2> QED BY <1>1, <1>5, <2>1, <2>2 DEF ToolSound, Checked, OptionalHandle
<1>6. CASE t = "status"
  <2>1. Tools[t].checks = <<>> /\ Tools[t].rpcs = <<"agent_status">>
    BY <1>0, <1>6 DEF CliTools, cli_status
  <2>2. Typed(t)
    BY <1>1, <1>2, <2>1 DEF Typed, CliRefusal, VaultNames
  <2> QED BY <1>1, <1>6, <2>1, <2>2 DEF ToolSound, Checked, OptionalHandle
<1>7. CASE t = "bind"
  <2>1. Tools[t].checks = <<>> /\ Tools[t].rpcs = <<"create_session">>
    BY <1>0, <1>7 DEF CliTools, cli_bind
  <2>2. Typed(t)
    BY <1>1, <1>2, <2>1 DEF Typed, CliRefusal, VaultNames
  <2> QED BY <1>1, <1>7, <2>1, <2>2 DEF ToolSound, Checked, OptionalHandle
<1>8. CASE t = "put"
  <2>1. Tools[t].checks = <<"input", "handle">> /\ Tools[t].rpcs = <<"list_namespaces", "put_secret">>
    BY <1>0, <1>8 DEF CliTools, cli_put
  <2>2. Typed(t)
    BY <1>1, <1>2, <2>1 DEF Typed, CliRefusal, VaultNames
  <2> QED BY <1>1, <1>8, <2>1, <2>2 DEF ToolSound, Checked, OptionalHandle
<1>9. CASE t = "get"
  <2>1. Tools[t].checks = <<"handle">> /\ Tools[t].rpcs = <<"list_namespaces", "get_secret">>
    BY <1>0, <1>9 DEF CliTools, cli_get
  <2>2. Typed(t)
    BY <1>1, <1>2, <2>1 DEF Typed, CliRefusal, VaultNames
  <2> QED BY <1>1, <1>9, <2>1, <2>2 DEF ToolSound, Checked, OptionalHandle
<1>10. CASE t = "describe"
  <2>1. Tools[t].checks = <<"handle">> /\ Tools[t].rpcs = <<"list_namespaces", "get_secret">>
    BY <1>0, <1>10 DEF CliTools, cli_describe, cli_get
  <2>2. Typed(t)
    BY <1>1, <1>2, <2>1 DEF Typed, CliRefusal, VaultNames
  <2> QED BY <1>1, <1>10, <2>1, <2>2 DEF ToolSound, Checked, OptionalHandle
<1>11. CASE t = "rotate"
  <2>1. Tools[t].checks = <<"input", "handle">> /\ Tools[t].rpcs = <<"list_namespaces", "rotate_secret">>
    BY <1>0, <1>11 DEF CliTools, cli_rotate
  <2>2. Typed(t)
    BY <1>1, <1>2, <2>1 DEF Typed, CliRefusal, VaultNames
  <2> QED BY <1>1, <1>11, <2>1, <2>2 DEF ToolSound, Checked, OptionalHandle
<1>12. CASE t = "delete"
  <2>1. Tools[t].checks = <<"confirmed", "handle">> /\ Tools[t].rpcs = <<"list_namespaces", "delete_secret">>
    BY <1>0, <1>12 DEF CliTools, cli_delete
  <2>2. Typed(t)
    BY <1>1, <1>2, <2>1 DEF Typed, CliRefusal, VaultNames
  <2> QED BY <1>1, <1>12, <2>1, <2>2 DEF ToolSound, Checked, OptionalHandle
<1>13. CASE t = "reveal"
  <2>1. Tools[t].checks = <<>> /\ Tools[t].rpcs = <<"reveal">>
    BY <1>0, <1>13 DEF CliTools, cli_reveal
  <2>2. Typed(t)
    BY <1>1, <1>2, <2>1 DEF Typed, CliRefusal, RecordNames
  <2> QED BY <1>1, <1>13, <2>1, <2>2 DEF ToolSound, Checked, OptionalHandle
<1>14. CASE t = "list_namespaces"
  <2>1. Tools[t].checks = <<>> /\ Tools[t].rpcs = <<"list_namespaces">>
    BY <1>0, <1>14 DEF CliTools, cli_list_namespaces
  <2>2. Typed(t)
    BY <1>1, <1>2, <2>1 DEF Typed, CliRefusal, VaultNames
  <2> QED BY <1>1, <1>14, <2>1, <2>2 DEF ToolSound, Checked, OptionalHandle
<1>15. CASE t = "list"
  <2>1. Tools[t].checks = <<>> /\ Tools[t].rpcs = <<"list_namespaces", "list_secrets">>
    BY <1>0, <1>15 DEF CliTools, cli_list
  <2>2. Typed(t)
    BY <1>1, <1>2, <2>1 DEF Typed, CliRefusal, VaultNames
  <2> QED BY <1>1, <1>15, <2>1, <2>2 DEF ToolSound, Checked, OptionalHandle
<1>16. CASE t = "search"
  <2>1. Tools[t].checks = <<>> /\ Tools[t].rpcs = <<"list_namespaces", "list_secrets">>
    BY <1>0, <1>16 DEF CliTools, cli_search
  <2>2. Typed(t)
    BY <1>1, <1>2, <2>1 DEF Typed, CliRefusal, VaultNames
  <2> QED BY <1>1, <1>16, <2>1, <2>2 DEF ToolSound, Checked, OptionalHandle
<1>17. CASE t = "audit"
  <2>1. Tools[t].checks = <<>> /\ Tools[t].rpcs = <<"query_audit">>
    BY <1>0, <1>17 DEF CliTools, cli_audit
  <2>2. Typed(t)
    BY <1>1, <1>2, <2>1 DEF Typed, CliRefusal, RecordNames
  <2> QED BY <1>1, <1>17, <2>1, <2>2 DEF ToolSound, Checked, OptionalHandle
<1>18. CASE t = "rebaseline"
  <2>1. Tools[t].checks = <<"confirmed">> /\ Tools[t].rpcs = <<"rebaseline">>
    BY <1>0, <1>18 DEF CliTools, cli_rebaseline
  <2>2. Typed(t)
    BY <1>1, <1>2, <2>1 DEF Typed, CliRefusal, AdminNames
  <2> QED BY <1>1, <1>18, <2>1, <2>2 DEF ToolSound, Checked, OptionalHandle
<1>19. CASE t = "backup_now"
  <2>1. Tools[t].checks = <<>> /\ Tools[t].rpcs = <<"trigger_backup">>
    BY <1>0, <1>19 DEF CliTools, cli_backup_now
  <2>2. Typed(t)
    BY <1>1, <1>2, <2>1 DEF Typed, CliRefusal, RecordNames
  <2> QED BY <1>1, <1>19, <2>1, <2>2 DEF ToolSound, Checked, OptionalHandle
<1>20. CASE t = "backup_list"
  <2>1. Tools[t].checks = <<>> /\ Tools[t].rpcs = <<"list_snapshots">>
    BY <1>0, <1>20 DEF CliTools, cli_backup_list
  <2>2. Typed(t)
    BY <1>1, <1>2, <2>1 DEF Typed, CliRefusal, RecordNames
  <2> QED BY <1>1, <1>20, <2>1, <2>2 DEF ToolSound, Checked, OptionalHandle
<1>21. CASE t = "restore_plan"
  <2>1. Tools[t].checks = <<>> /\ Tools[t].rpcs = <<"create_restore_plan">>
    BY <1>0, <1>21 DEF CliTools, cli_restore_plan
  <2>2. Typed(t)
    BY <1>1, <1>2, <2>1 DEF Typed, CliRefusal, RecordNames
  <2> QED BY <1>1, <1>21, <2>1, <2>2 DEF ToolSound, Checked, OptionalHandle
<1>22. CASE t = "restore_execute"
  <2>1. Tools[t].checks = <<>> /\ Tools[t].rpcs = <<"execute_restore">>
    BY <1>0, <1>22 DEF CliTools, cli_restore_execute
  <2>2. Typed(t)
    BY <1>1, <1>2, <2>1 DEF Typed, CliRefusal, RecordNames
  <2> QED BY <1>1, <1>22, <2>1, <2>2 DEF ToolSound, Checked, OptionalHandle
<1>23. CASE t = "device_pair"
  <2>1. Tools[t].checks = <<>> /\ Tools[t].rpcs = <<"pair_device">>
    BY <1>0, <1>23 DEF CliTools, cli_device_pair
  <2>2. Typed(t)
    BY <1>1, <1>2, <2>1 DEF Typed, CliRefusal, AdminNames
  <2> QED BY <1>1, <1>23, <2>1, <2>2 DEF ToolSound, Checked, OptionalHandle
<1>24. CASE t = "device_list"
  <2>1. Tools[t].checks = <<>> /\ Tools[t].rpcs = <<"list_devices">>
    BY <1>0, <1>24 DEF CliTools, cli_device_list
  <2>2. Typed(t)
    BY <1>1, <1>2, <2>1 DEF Typed, CliRefusal, AdminNames
  <2> QED BY <1>1, <1>24, <2>1, <2>2 DEF ToolSound, Checked, OptionalHandle
<1>25. CASE t = "device_revoke"
  <2>1. Tools[t].checks = <<>> /\ Tools[t].rpcs = <<"revoke_device">>
    BY <1>0, <1>25 DEF CliTools, cli_device_revoke
  <2>2. Typed(t)
    BY <1>1, <1>2, <2>1 DEF Typed, CliRefusal, AdminNames
  <2> QED BY <1>1, <1>25, <2>1, <2>2 DEF ToolSound, Checked, OptionalHandle
<1>26. CASE t = "verify_recovery_key"
  <2>1. Tools[t].checks = <<"input", "tty">> /\ Tools[t].rpcs = <<"verify_recovery_key">>
    BY <1>0, <1>26 DEF CliTools, cli_verify_recovery_key
  <2>2. Typed(t)
    BY <1>1, <1>2, <2>1 DEF Typed, CliRefusal, AdminNames
  <2> QED BY <1>1, <1>26, <2>1, <2>2 DEF ToolSound, Checked, OptionalHandle
<1>27. CASE t = "doctor"
  <2>1. Tools[t].checks = <<>> /\ Tools[t].rpcs = <<"agent_doctor">>
    BY <1>0, <1>27 DEF CliTools, cli_doctor
  <2>2. Typed(t)
    BY <1>1, <1>2, <2>1 DEF Typed, CliRefusal, RecordNames
  <2> QED BY <1>1, <1>27, <2>1, <2>2 DEF ToolSound, Checked, OptionalHandle
<1>28. t \in {"init", "unseal", "seal", "status", "bind", "put", "get", "describe", "rotate", "delete",
            "reveal", "list_namespaces", "list", "search", "audit", "rebaseline", "backup_now",
            "backup_list", "restore_plan", "restore_execute", "device_pair", "device_list",
            "device_revoke", "verify_recovery_key", "doctor"}
  BY DEF CliTools
<1> QED BY <1>3, <1>4, <1>5, <1>6, <1>7, <1>8, <1>9, <1>10, <1>11, <1>12, <1>13, <1>14, <1>15, <1>16,
           <1>17, <1>18, <1>19, <1>20, <1>21, <1>22, <1>23, <1>24, <1>25, <1>26, <1>27, <1>28

-----------------------------------------------------------------------------
(* The invariant. A call is looked at as its two records, x of the client and  *)
(* y of the agent, with the namespaces R and the policies P.                   *)

Codes == Refusals \cup {"OK", "exit_1", "exit_3", "exit_4", "exit_7", "AGENT_UNREACHABLE",
                        "UNSEAL_REQUIRED", "PROTOCOL_ERROR", "TOOL_NOT_IMPLEMENTED",
                        "SERVICE_UNAVAILABLE", "SERVER_ERROR"}
Working == {"acting", "auditing"}
Binding == {"looking", "storing", "defaulting", "healing", "recording", "gating"}

ClientRecord ==
  [stage : {"idle", "ready", "sent", "reading", "received", "done"},
   tool : DOMAIN Tools \cup {None}, client : Servers \cup {Cli, None}, confirm : BOOLEAN, handle : Labels \cup {Bad, None},
   raw : Raws \cup {None}, ns : Labels \cup {None}, k : 0..2, status : Int,
   code : Codes \cup {None}, did : SUBSET ((1..2) \X Effects)]
AgentRecord ==
  [stage : {"none", "serving", "answered"} \cup Working \cup Binding, status : Int, loaded : Secrets]

HandlerFor(x) == HandlerAt(x.tool, x.k)
LabelOf(x) == Label(x.raw)

(* A call whose checks failed has sent nothing; another is at one of the       *)
(* requests of its tool.                                                       *)
Begun(x, y) ==
  /\ x.stage # "idle" => x.tool \in DOMAIN Tools
  /\ x.k = 0 => x.did = {} /\ y.stage = "none" /\ x.stage \in {"idle", "done"}
  /\ x.k # 0 => x.stage # "idle" /\ x.k <= Len(Tools[x.tool].rpcs)

(* The checks a call has passed that sends something. *)
Passed(x) ==
  x.k # 0 =>
    /\ Checked(x.tool, "confirmed") => x.confirm = TRUE
    /\ Checked(x.tool, "handle") /\ ~OptionalHandle(x.tool) => x.handle \in Labels
    /\ IsMcp(x.tool) => x.client \in Servers
    /\ IsMcp(x.tool) /\ Checked(x.tool, "bound") => x.ns \in Labels
    /\ ~IsMcp(x.tool) /\ x.k = 2 => x.ns \in Labels
    /\ Binds(x.tool) => x.raw \in Raws

(* A mark is of a request the call has sent, and is what the handler of that   *)
(* request does.                                                               *)
Marked(x) ==
  \A j \in 1..2 : \A e \in Effects : <<j, e>> \in x.did =>
    /\ j <= x.k
    /\ Served(x.tool, j)
    /\ \/ e = HandlerAt(x.tool, j).does
       \/ e = "audit"
       \/ e = "row" /\ HandlerAt(x.tool, j).does = "bind"
Fresh(x) == \A e \in Effects : <<x.k, e>> \notin x.did

(* Where the handler is, and what it has done on the way there. *)
Handling(x, y) ==
  /\ y.stage \in Working \cup Binding => Served(x.tool, x.k)
  /\ y.stage \in Working => HandlerFor(x).does # "bind"
  /\ y.stage \in Binding => HandlerFor(x).does = "bind"
  /\ y.stage = "serving" => Fresh(x)
  /\ y.stage \in Working /\ HandlerFor(x).does \in {"rotate", "rollback"} => y.loaded # None
  /\ y.stage = "acting" /\ HandlerFor(x).audit = "before" => <<x.k, "audit">> \in x.did
  /\ y.stage = "auditing" =>
       /\ HandlerFor(x).audit \in {"before", "after"}
       /\ HandlerFor(x).audit = "after" /\ HandlerFor(x).does # "nothing" =>
            <<x.k, HandlerFor(x).does>> \in x.did

(* What a bind knows of its namespace. *)
Settled(x, R, P) == LabelOf(x) \in R /\ P[LabelOf(x)] # "none"
BindHandling(x, y, R, P) ==
  /\ y.stage \in {"defaulting", "healing"} => LabelOf(x) \in R
  /\ y.stage \in {"recording", "gating"} => Settled(x, R, P)
  /\ <<1, "row">> \in x.did => P[LabelOf(x)] # "closed"

(* What an answer promises of the request, and of all that went before. *)
Complete(x, k) ==
  /\ Served(x.tool, k)
  /\ HandlerAt(x.tool, k).does # "nothing" => <<k, HandlerAt(x.tool, k).does>> \in x.did
  /\ HandlerAt(x.tool, k).audit # "none" => <<k, "audit">> \in x.did
Clean(x) == \A k \in 1..2 : \A e \in Durable : <<k, e>> \notin x.did
Reply(x, st, R, P) ==
  /\ st < 300 => Complete(x, x.k) /\ (HandlerFor(x).does = "bind" => Settled(x, R, P))
  /\ st \in {400, 403, 404, 409} => Clean(x)
Answering(x, y, R, P) ==
  /\ y.stage = "answered" => Reply(x, y.status, R, P)
  /\ x.k = 2 => Complete(x, 1)
  /\ x.stage \in {"idle", "ready"} => y.stage = "none"
  /\ x.stage = "ready" => Fresh(x)
  /\ x.stage = "reading" => y.stage \in {"answered", "none"} /\ Reply(x, x.status, R, P)
  /\ x.stage = "received" => y = NoHandler /\ y.stage = "none" /\ Reply(x, x.status, R, P)

(* What the caller was told. *)
Told(x, y) ==
  x.stage = "done" =>
    /\ x.code \in Refusals => y.stage = "none" /\ Clean(x)
    /\ x.code = "OK" => y.stage = "none" /\ \A k \in 1..Len(Tools[x.tool].rpcs) : Complete(x, k)

CallOK(x, y, R, P) ==
  /\ x \in ClientRecord /\ y \in AgentRecord
  /\ Begun(x, y) /\ Passed(x) /\ Marked(x) /\ Handling(x, y)
  /\ BindHandling(x, y, R, P) /\ Answering(x, y, R, P) /\ Told(x, y)

VaultOK ==
  /\ DefaultSession \in rows /\ rows \subseteq Labels
  /\ policy \in [Labels -> {"none", "open", "closed"}]
  /\ \A ns \in Labels : policy[ns] = "closed" => ns \in rows
  /\ secret \in [Labels -> Secrets]
  /\ session \in [Servers -> Labels \cup {None}]
  /\ sealed \in BOOLEAN /\ up \in BOOLEAN /\ crashes \in 0..MaxCrashes

Recorded == call \in [Calls -> ClientRecord] /\ agent \in [Calls -> AgentRecord]

IInv ==
  /\ VaultOK
  /\ BoundHasPolicy
  /\ Recorded
  /\ \A c \in Calls : CallOK(call[c], agent[c], rows, policy)

-----------------------------------------------------------------------------
(* What the tables give at a request. *)

(* Every tool and every command sends requests there are, one or two of them,  *)
(* after checks a refusal is known for.                                        *)
LEMMA ToolIsSound ==
  ASSUME NEW t \in DOMAIN Tools
  PROVE  ToolSound(t)
<1>1. t \in DOMAIN McpTools \/ t \in DOMAIN CliTools
  BY DEF Tools, ++
<1> QED BY <1>1, McpToolsSound, CliToolsSound

(* What a tool has checked before a request of a given effect: the client's    *)
(* checks and the agent's handler, looked at together.                         *)
LEMMA AtRequest ==
  ASSUME NEW t \in DOMAIN Tools, NEW k \in 1..Len(Tools[t].rpcs), Served(t, k)
  PROVE  /\ HandlerSound(HandlerAt(t, k))
         /\ HandlerAt(t, k).does \in {"delete", "rollback", "baseline"} => Checked(t, "confirmed")
         /\ IsMcp(t) /\ HandlerAt(t, k).does = "reveal" => Checked(t, "confirmed")
         /\ HandlerAt(t, k).does \in {"put", "rotate"} => IF IsMcp(t) THEN Checked(t, "bound") ELSE k = 2
         /\ HandlerAt(t, k).does \in {"rotate", "rollback"} => Checked(t, "handle") /\ ~OptionalHandle(t)
         /\ HandlerAt(t, k).does = "bind" => k = 1 /\ Binds(t) /\ Len(Tools[t].rpcs) = 1
         /\ Len(Tools[t].rpcs) = 2 /\ k = 1 => HandlerAt(t, k).does \notin Durable
<1> DEFINE r == Tools[t].rpcs[k]
<1>1. ToolSound(t)
  BY ToolIsSound
<1>2. r \in DOMAIN Requests /\ Serves(Requests[r])
  BY <1>1 DEF ToolSound, Typed, Served
<1>3. HandlerAt(t, k) = HandlerOf(Requests[r])
  BY DEF HandlerAt
<1> HIDE DEF r
<1>4. HandlerSound(HandlerAt(t, k))
  BY <1>2, <1>3, ServedSoundly
<1>5. /\ HandlerAt(t, k).does = "put"      => r = "put_secret"
      /\ HandlerAt(t, k).does = "rotate"   => r = "rotate_secret"
      /\ HandlerAt(t, k).does = "rollback" => r = "rollback_secret"
      /\ HandlerAt(t, k).does = "delete"   => r = "delete_secret"
      /\ HandlerAt(t, k).does = "baseline" => r = "rebaseline"
      /\ HandlerAt(t, k).does = "reveal"   => r = "reveal"
      /\ HandlerAt(t, k).does = "bind"     => r = "create_session"
      /\ r \in {"list_namespaces", "mint_use_token", "create_restore_plan"} =>
           HandlerAt(t, k).does \notin Durable
  BY <1>2, <1>3, RequestEffects DEF EffectOf
<1>6. r = Tools[t].rpcs[k]
  BY DEF r
<1>7. HandlerAt(t, k).does = "bind" => k = 1 /\ Binds(t) /\ Len(Tools[t].rpcs) = 1
  BY <1>1, <1>5, <1>6 DEF ToolSound, Typed, Binds
<1> QED BY <1>1, <1>4, <1>5, <1>6, <1>7 DEF ToolSound

(* vault_bind sends one request, and the bind serves it. *)
LEMMA BindRequest ==
  /\ "vault_bind" \in DOMAIN McpTools
  /\ Tools["vault_bind"].rpcs = <<"create_session">>
  /\ HandlerAt("vault_bind", 1).does = "bind"
<1>1. "vault_bind" \in DOMAIN McpTools /\ Tools["vault_bind"].rpcs = <<"create_session">>
  BY DEF Tools, ++, McpTools, vault_bind, Tool
<1>2. ServedBy("create_session", create_session)
  BY VaultHandlers
<1>3. create_session.does = "bind"
  BY DEF create_session, Handler, BindNamespaceCommand, Command
<1> QED BY <1>1, <1>2, <1>3 DEF HandlerAt, ServedBy

(* A set of numbers that is not empty has a least element. *)
LEMMA NatLess == \E R : IsWellFoundedOn(R, Nat) /\ \A i, j \in Nat : i < j => <<i, j>> \in R
<1>1. IsWellFoundedOn(OpToRel(<, Nat), Nat)
  BY ONLY NatLessThanWellFounded, Zenon
<1>2. ASSUME NEW i \in Nat, NEW j \in Nat, i < j
      PROVE  <<i, j>> \in OpToRel(<, Nat)
  BY <1>2, Zenon DEF OpToRel
<1> QED BY <1>1, <1>2, Zenon

(* A set of numbers that is not empty has a least one. *)
LEMMA Least ==
  ASSUME NEW S \in SUBSET Nat, S # {} PROVE \E i \in S : \A j \in S : i <= j
<1>1. PICK R : IsWellFoundedOn(R, Nat) /\ \A i, j \in Nat : i < j => <<i, j>> \in R
  BY NatLess
<1>2. IsWellFoundedOn(R, Nat)
  BY <1>1
<1>3. \A i, j \in Nat : i < j => <<i, j>> \in R
  BY <1>1
<1>4. S \subseteq Nat
  OBVIOUS
<1>5. \E x \in S : \A y \in S : ~ (<<y, x>> \in R)
  BY <1>2, <1>4, WFMin
<1>6. PICK x \in S : \A y \in S : ~ (<<y, x>> \in R)
  BY <1>5
<1>7. ASSUME NEW y \in S PROVE x <= y
  <2>1. x \in Nat /\ y \in Nat
    OBVIOUS
  <2>2. ~(<<y, x>> \in R)
    BY <1>6
  <2>3. ~(y < x)
    BY <2>1, <2>2, <1>3
  <2> QED BY <2>1, <2>3
<1> QED BY <1>7

(* The first check that fails is one that fails; there is none when all pass. *)
LEMMA FirstFails ==
  ASSUME NEW seq \in Seq(CheckNames), NEW failing \in SUBSET DOMAIN seq
  PROVE  /\ First(seq, failing) = None => failing = {}
         /\ failing = {} => First(seq, failing) = None
         /\ failing # {} => \E i \in failing : First(seq, failing) = seq[i]
<1>1. CASE failing = {}
  BY <1>1 DEF First
<1>2. CASE failing # {}
  <2>1. failing \in SUBSET Nat
    BY DOMAIN seq = 1..Len(seq), Len(seq) \in Nat
  <2>2. \E i \in failing : \A j \in failing : i <= j
    BY <1>2, <2>1, Least
  <2> DEFINE m == CHOOSE n \in failing : \A j \in failing : n <= j
  <2>4. m \in failing
    BY <2>2
  <2>5. First(seq, failing) = seq[m]
    BY <1>2 DEF First
  <2>6. seq[m] # None
    BY <2>4, GatewayAssumption
  <2> QED BY <1>2, <2>4, <2>5, <2>6
<1> QED BY <1>1, <1>2

(* The status of a check that fails is an error. *)
LEMMA ProblemStatuses ==
  ASSUME NEW ch \in DOMAIN Problems, NEW st \in Problems[ch]
  PROVE  st \in Int /\ st >= 400
BY DEF Problems

(* What the answers of the agent become. *)
LEMMA AnswerCodes ==
  ASSUME NEW t, NEW st \in Int, NEW code \in Answers(t, st)
  PROVE  /\ code \in Codes
         /\ st < 300 => code \notin Refusals
         /\ ~(st < 300) => code # "OK" /\ (code \in Refusals => st \in {400, 403, 404, 409})
<1>1. CASE st < 300
  <2>1. code \in {"OK", "TOOL_NOT_IMPLEMENTED", "exit_7"}
    BY <1>1 DEF Answers, McpSuccess, CliSuccess
  <2> QED BY <1>1, <2>1 DEF Codes, Refusals
<1>2. CASE ~(st < 300)
  <2>1. code = classify_http(st) \/ code = "exit_4"
    BY <1>2 DEF Answers, ExitCode
  <2>2. \/ classify_http(st) \in {"UNSEAL_REQUIRED", "TOOL_NOT_IMPLEMENTED",
                                  "SERVICE_UNAVAILABLE", "SERVER_ERROR"}
        \/ st = 403 /\ classify_http(st) = "ACCESS_DENIED"
        \/ st = 404 /\ classify_http(st) = "HANDLE_NOT_FOUND"
        \/ st = 409 /\ classify_http(st) = "CONFLICT"
        \/ st = 400 /\ classify_http(st) = "BAD_REQUEST"
    BY DEF classify_http, classify_by_slug
  <2> QED BY <1>2, <2>1, <2>2 DEF Codes, Refusals
<1> QED BY <1>1, <1>2

(* An agent that cannot be reached is reported as such: nothing is promised. *)
LEMMA UnreachableCode ==
  ASSUME NEW t
  PROVE  Unreachable(t) \in Codes /\ Unreachable(t) \notin Refusals /\ Unreachable(t) # "OK"
BY DEF Unreachable, Codes, Refusals

(* Nor does an answer that cannot be decoded promise anything. *)
LEMMA UndecodableCode ==
  ASSUME NEW t, NEW st, NEW code \in Undecodable(t, st)
  PROVE  code \in Codes /\ code \notin Refusals /\ code # "OK"
BY DEF Undecodable, TooLarge, NotJson, Codes, Refusals

(* The code of a check that fails in the client is a refusal, or the CLI's     *)
(* general one.                                                                *)
LEMMA RefusalCode ==
  ASSUME NEW t \in DOMAIN Tools, NEW i \in DOMAIN Tools[t].checks
  PROVE  Refusal(t, Tools[t].checks[i]) \in Refusals \cup {"exit_1"}
<1>1. Tools[t].checks[i] \in (IF IsMcp(t) THEN DOMAIN McpRefusal ELSE DOMAIN CliRefusal)
  BY ToolIsSound DEF ToolSound, Typed
<1>2. \A ch \in DOMAIN McpRefusal : McpRefusal[ch] \in Refusals \cup {"exit_1"}
  BY DEF McpRefusal, Refusals
<1>3. \A ch \in DOMAIN CliRefusal : CliRefusal[ch] \in Refusals \cup {"exit_1"}
  BY DEF CliRefusal, Refusals
<1> QED BY <1>1, <1>2, <1>3 DEF Refusal

-----------------------------------------------------------------------------
(* What the steps of a call keep, record by record. *)

(* The namespace of a bind under way, and of one that stored a row, is a label. *)
LEMMA BoundIsLabel ==
  ASSUME NEW x \in ClientRecord, NEW y \in AgentRecord, Begun(x, y), Passed(x), x.k # 0,
         Served(x.tool, x.k), HandlerFor(x).does = "bind"
  PROVE  x.k = 1 /\ LabelOf(x) \in Labels
<1>1. x.tool \in DOMAIN Tools /\ x.k \in 1..Len(Tools[x.tool].rpcs)
  BY ToolIsSound DEF Begun, ClientRecord, ToolSound, Typed
<1>2. x.k = 1 /\ Binds(x.tool)
  BY <1>1, AtRequest DEF HandlerFor
<1>3. x.raw \in Raws
  BY <1>2 DEF Passed
<1> QED BY <1>2, <1>3 DEF Labels, LabelOf

(* A request that is not the second is the first. *)
LEMMA AtARequest ==
  ASSUME NEW x \in ClientRecord, NEW y \in AgentRecord, Begun(x, y), x.k # 0
  PROVE  /\ x.tool \in DOMAIN Tools
         /\ x.k \in 1..Len(Tools[x.tool].rpcs)
         /\ Len(Tools[x.tool].rpcs) \in 1..2
         /\ x.k \in 1..2
<1>1. x.tool \in DOMAIN Tools /\ x.k \in 0..2
  BY DEF Begun, ClientRecord
<1>2. Len(Tools[x.tool].rpcs) \in 1..2
  BY <1>1, ToolIsSound DEF ToolSound, Typed
<1> QED BY <1>1, <1>2 DEF Begun

(* Namespaces are only added, a policy once there stays, and no policy becomes *)
(* closed: that keeps everything a call has found.                             *)
LEMMA VaultGrows ==
  ASSUME NEW x, NEW y, NEW R, NEW P, NEW R2, NEW P2,
         CallOK(x, y, R, P), R \subseteq R2,
         \A ns \in Labels : P[ns] # "none" => P2[ns] # "none",
         \A ns \in Labels : P[ns] # "closed" => P2[ns] # "closed"
  PROVE  CallOK(x, y, R2, P2)
<1>1. ASSUME Settled(x, R, P), x.k # 0, Served(x.tool, x.k), HandlerFor(x).does = "bind"
      PROVE  Settled(x, R2, P2)
  BY <1>1, BoundIsLabel DEF CallOK, Settled
<1>2. BindHandling(x, y, R2, P2)
  <2>1. y.stage \in {"recording", "gating"} => Settled(x, R2, P2)
    BY <1>1 DEF CallOK, BindHandling, Begun, Handling, Binding
  <2>2. <<1, "row">> \in x.did => P2[LabelOf(x)] # "closed"
    <3> SUFFICES ASSUME <<1, "row">> \in x.did
                 PROVE  P2[LabelOf(x)] # "closed"
      OBVIOUS
    <3>1. x.k # 0 /\ 1 <= x.k /\ Served(x.tool, 1) /\ "row" \in Effects
      BY DEF CallOK, Marked, Begun, Effects
    <3>2. HandlerAt(x.tool, 1).does = "bind"
      <4>1. x.tool \in DOMAIN Tools /\ 1 \in 1..Len(Tools[x.tool].rpcs)
        BY <3>1, AtARequest DEF CallOK
      <4>2. HandlerAt(x.tool, 1).does # "row"
        BY <3>1, <4>1, AtRequest DEF HandlerSound
      <4> QED BY <3>1, <4>2 DEF CallOK, Marked
    <3>3. LabelOf(x) \in Labels
      <4>1. x.tool \in DOMAIN Tools /\ 1 \in 1..Len(Tools[x.tool].rpcs)
        BY <3>1, AtARequest DEF CallOK
      <4>2. Binds(x.tool)
        BY <3>1, <3>2, <4>1, AtRequest
      <4> QED BY <3>1, <4>2 DEF CallOK, Passed, Labels, LabelOf
    <3> QED BY <3>3 DEF CallOK, BindHandling
  <2> QED BY <2>1, <2>2 DEF CallOK, BindHandling
<1>3. ASSUME NEW st, Reply(x, st, R, P), x.k # 0
      PROVE  Reply(x, st, R2, P2)
  BY <1>1, <1>3 DEF Reply, Complete
<1>4. Answering(x, y, R2, P2)
  BY <1>3 DEF CallOK, Answering, Begun
<1> QED BY <1>2, <1>4 DEF CallOK

(* The connection is gone and the handler with it. *)
LEMMA HandlerGone ==
  ASSUME NEW x, NEW y, NEW R, NEW P, CallOK(x, y, R, P)
  PROVE  CallOK(x, NoHandler, R, P)
<1>1. NoHandler \in AgentRecord /\ NoHandler.stage = "none"
  BY DEF NoHandler, AgentRecord, Secrets
<1> HIDE DEF NoHandler
<1> QED BY <1>1 DEF CallOK, Begun, Handling, BindHandling, Answering, Told, Working, Binding

(* The client gives up: it promises nothing. *)
Ended(x, code) == [x EXCEPT !.stage = "done", !.code = code]

(* A client that gives up keeps what holds of its call. *)
LEMMA GivesUp ==
  ASSUME NEW x, NEW y, NEW R, NEW P, CallOK(x, y, R, P), x.k # 0,
         NEW code \in Codes, code \notin Refusals, code # "OK"
  PROVE  CallOK(Ended(x, code), y, R, P)
<1> DEFINE x2 == Ended(x, code)
<1>1. x \in ClientRecord
  BY DEF CallOK
<1>2. x2 \in ClientRecord
  BY <1>1 DEF ClientRecord, Ended
<1>3. /\ x2.stage = "done" /\ x2.code = code /\ x2.tool = x.tool /\ x2.client = x.client
      /\ x2.confirm = x.confirm /\ x2.handle = x.handle /\ x2.raw = x.raw /\ x2.ns = x.ns
      /\ x2.k = x.k /\ x2.did = x.did
  BY <1>1 DEF ClientRecord, Ended
<1> HIDE DEF x2
<1>4. Begun(x2, y) /\ Passed(x2) /\ Marked(x2)
  BY <1>3 DEF CallOK, Begun, Passed, Marked
<1>5. Handling(x2, y) /\ BindHandling(x2, y, R, P)
  BY <1>3 DEF CallOK, Handling, BindHandling, HandlerFor, LabelOf, Settled, Fresh
<1>6. Answering(x2, y, R, P)
  BY <1>3 DEF CallOK, Answering, Reply, Complete, Clean, HandlerFor, LabelOf, Settled
<1>7. Told(x2, y)
  BY <1>3 DEF Told
<1>8. CallOK(x2, y, R, P)
  BY <1>2, <1>4, <1>5, <1>6, <1>7 DEF CallOK
<1> QED BY <1>8 DEF x2

(* The handler takes a step, or answers. *)
LEMMA HandlerMoves ==
  ASSUME NEW x, NEW y, NEW R, NEW P, CallOK(x, y, R, P), y.stage \notin {"none", "answered"},
         NEW y2 \in AgentRecord, y2.stage \notin {"none", "serving"},
         Handling(x, y2), BindHandling(x, y2, R, P),
         y2.stage = "answered" => Reply(x, y2.status, R, P)
  PROVE  CallOK(x, y2, R, P)
<1>1. x.k # 0 /\ x.stage \notin {"idle", "ready", "reading", "received"}
  BY DEF CallOK, Begun, Answering
<1>2. Begun(x, y2)
  BY <1>1 DEF CallOK, Begun
<1>3. Answering(x, y2, R, P)
  BY <1>1 DEF CallOK, Answering
<1>4. Told(x, y2)
  BY DEF CallOK, Told
<1> QED BY <1>2, <1>3, <1>4 DEF CallOK

(* The handler leaves a mark. *)
WithMark(x, e) == [x EXCEPT !.did = @ \cup {<<x.k, e>>}]
MayMark(x, e, P) ==
  \/ e = HandlerFor(x).does
  \/ e = "audit"
  \/ e = "row" /\ HandlerFor(x).does = "bind" /\ P[LabelOf(x)] # "closed"

(* A mark the handler may leave keeps what holds of the call. *)
LEMMA HandlerMarks ==
  ASSUME NEW x, NEW y, NEW R, NEW P, CallOK(x, y, R, P), y.stage \in Working \cup Binding,
         NEW e \in Effects, MayMark(x, e, P)
  PROVE  /\ CallOK(WithMark(x, e), y, R, P)
         /\ <<x.k, e>> \in WithMark(x, e).did
         /\ HandlerFor(WithMark(x, e)) = HandlerFor(x)
         /\ LabelOf(WithMark(x, e)) = LabelOf(x)
         /\ WithMark(x, e).tool = x.tool /\ WithMark(x, e).k = x.k
         /\ x.did \subseteq WithMark(x, e).did
<1> DEFINE x2 == WithMark(x, e)
<1>1. x \in ClientRecord /\ y \in AgentRecord
  BY DEF CallOK
<1>2. /\ x.k # 0 /\ x.stage \notin {"idle", "ready", "reading", "received"}
      /\ Served(x.tool, x.k)
  BY DEF CallOK, Begun, Answering, Working, Binding, Handling
<1>3. /\ x.tool \in DOMAIN Tools /\ x.k \in 1..Len(Tools[x.tool].rpcs) /\ x.k \in 1..2
  BY <1>1, <1>2, AtARequest DEF CallOK
<1>4. /\ x2.stage = x.stage /\ x2.code = x.code /\ x2.tool = x.tool /\ x2.client = x.client
      /\ x2.confirm = x.confirm /\ x2.handle = x.handle /\ x2.raw = x.raw /\ x2.ns = x.ns
      /\ x2.k = x.k /\ x2.status = x.status /\ x2.did = x.did \cup {<<x.k, e>>}
  BY <1>1 DEF ClientRecord, WithMark
<1>5. x2 \in ClientRecord
  BY <1>1, <1>3 DEF ClientRecord, WithMark
<1> HIDE DEF x2
<1>6. Begun(x2, y) /\ Passed(x2)
  BY <1>2, <1>4 DEF CallOK, Begun, Passed
<1>7. Marked(x2)
  <2> SUFFICES ASSUME NEW j \in 1..2, NEW f \in Effects, <<j, f>> \in x2.did
               PROVE  /\ j <= x2.k
                      /\ Served(x2.tool, j)
                      /\ \/ f = HandlerAt(x2.tool, j).does
                         \/ f = "audit"
                         \/ f = "row" /\ HandlerAt(x2.tool, j).does = "bind"
    BY DEF Marked
  <2>1. CASE <<j, f>> \in x.did
    BY <1>4, <2>1 DEF CallOK, Marked
  <2>2. CASE j = x.k /\ f = e
    BY <1>2, <1>3, <1>4, <2>2 DEF HandlerFor, MayMark
  <2> QED BY <1>4, <2>1, <2>2
<1>8. Handling(x2, y)
  BY <1>4 DEF CallOK, Handling, HandlerFor, Working, Binding
<1>9. BindHandling(x2, y, R, P)
  <2>1. <<1, "row">> \in x2.did => P[LabelOf(x2)] # "closed"
    <3>1. CASE <<1, "row">> \in x.did
      BY <1>4, <3>1 DEF CallOK, BindHandling, LabelOf
    <3>2. CASE e = "row"
      <4>1. HandlerFor(x).does # "row"
        BY <1>2, <1>3, AtRequest DEF HandlerSound, HandlerFor
      <4> QED BY <1>4, <3>2, <4>1 DEF LabelOf, MayMark
    <3> QED BY <1>4, <3>1, <3>2
  <2> QED BY <1>4, <2>1 DEF CallOK, BindHandling, LabelOf, Settled
<1>10. Answering(x2, y, R, P)
  BY <1>2, <1>4 DEF CallOK, Answering, Complete, Working, Binding
<1>11. Told(x2, y)
  BY <1>4 DEF CallOK, Told, Working, Binding
<1>12. CallOK(x2, y, R, P)
  BY <1>1, <1>5, <1>6, <1>7, <1>8, <1>9, <1>10, <1>11 DEF CallOK
<1>13. HandlerFor(x2) = HandlerFor(x) /\ LabelOf(x2) = LabelOf(x)
  BY <1>4 DEF HandlerFor, LabelOf
<1> QED BY <1>4, <1>12, <1>13 DEF x2

-----------------------------------------------------------------------------
(* Every action keeps the invariant. *)

(* A step of one call that leaves the namespaces and the policies alone. *)
LEMMA OneCall ==
  ASSUME IInv, NEW c \in Calls, NEW x, NEW y, CallOK(x, y, rows, policy),
         call' = [call EXCEPT ![c] = x], agent' = [agent EXCEPT ![c] = y],
         UNCHANGED <<rows, policy>>
  PROVE  /\ Recorded'
         /\ \A d \in Calls : CallOK(call'[d], agent'[d], rows', policy')
<1>1. /\ call \in [Calls -> ClientRecord] /\ agent \in [Calls -> AgentRecord]
      /\ \A d \in Calls : CallOK(call[d], agent[d], rows, policy)
  BY DEF IInv, Recorded
<1>2. call'[c] = x /\ agent'[c] = y
  BY <1>1
<1>4. x \in ClientRecord /\ y \in AgentRecord
  BY DEF CallOK
<1>3. \A d \in Calls \ {c} : call'[d] = call[d] /\ agent'[d] = agent[d]
  BY <1>1
<1>5. call' \in [Calls -> ClientRecord] /\ agent' \in [Calls -> AgentRecord]
  BY <1>1, <1>4
<1> QED BY <1>1, <1>2, <1>3, <1>5 DEF Recorded

(* The vault, when the step is of one call only. *)
LEMMA VaultStays ==
  ASSUME IInv, UNCHANGED <<session, rows, policy, secret, sealed, up, crashes>>
  PROVE  VaultOK' /\ BoundHasPolicy'
BY DEF IInv, VaultOK, BoundHasPolicy

(* At the start no call has begun, and only default-session is stored. *)
LEMMA InitInv == Init => IInv
<1> SUFFICES ASSUME Init PROVE IInv
  OBVIOUS
<1>1. DefaultSession \in Labels
  BY DEF Labels
<1>2. VaultOK
  <2>1. /\ policy \in [Labels -> {"none", "open", "closed"}]
        /\ \A ns \in Labels : policy[ns] = "closed" => ns \in rows
    BY DEF Init
  <2>2. secret \in [Labels -> Secrets]
    BY <1>1 DEF Init, Own, Secrets
  <2>3. session \in [Servers -> Labels \cup {None}]
    BY <1>1 DEF Init
  <2>4. crashes \in 0..MaxCrashes
    BY GatewayAssumption DEF Init
  <2> QED BY <1>1, <2>1, <2>2, <2>3, <2>4 DEF Init, VaultOK
<1>3. BoundHasPolicy
  <2>1. policy[DefaultSession] # "none"
    BY <1>1 DEF Init
  <2> QED BY <2>1 DEF Init, BoundHasPolicy
<1>4. ASSUME NEW c \in Calls
      PROVE  CallOK(call[c], agent[c], rows, policy)
  <2>1. call[c] = Idle /\ agent[c] = NoHandler
    BY DEF Init
  <2>2. Idle \in ClientRecord /\ NoHandler \in AgentRecord
    BY DEF Idle, NoHandler, ClientRecord, AgentRecord, Secrets
  <2>3. Idle.stage = "idle" /\ Idle.k = 0 /\ Idle.did = {} /\ Idle.code = None /\ NoHandler.stage = "none"
    BY DEF Idle, NoHandler
  <2> HIDE DEF Idle, NoHandler
  <2>5. CallOK(Idle, NoHandler, rows, policy)
    BY <2>2, <2>3 DEF CallOK, Begun, Passed, Marked, Handling, BindHandling, Answering, Told,
           Working, Binding
  <2> QED BY <2>1, <2>5
<1>5. call \in [Calls -> ClientRecord] /\ agent \in [Calls -> AgentRecord]
  BY <1>4 DEF Init, CallOK
<1> QED BY <1>2, <1>3, <1>4, <1>5 DEF IInv, Recorded

(* The client. *)
LEMMA SendStep ==
  ASSUME IInv, NEW c \in Calls, Send(c)
  PROVE  IInv'
<1> DEFINE x == call[c]
           y == agent[c]
<1>1. CallOK(x, y, rows, policy) /\ Recorded
  BY DEF IInv, Recorded
<1>2. x.stage = "ready" /\ x \in ClientRecord /\ x.k # 0 /\ y.stage = "none" /\ Fresh(x)
  BY <1>1 DEF Send, CallOK, Begun, Answering
<1>3. VaultOK' /\ BoundHasPolicy'
  BY VaultStays DEF Send
<1>4. CASE up
  <2> DEFINE x2 == [x EXCEPT !.stage = "sent"]
             y2 == [NoHandler EXCEPT !.stage = "serving"]
  <2>1. call' = [call EXCEPT ![c] = x2] /\ agent' = [agent EXCEPT ![c] = y2]
    BY <1>4 DEF Send
  <2>2. /\ x2.stage = "sent" /\ x2.code = x.code /\ x2.tool = x.tool /\ x2.client = x.client
        /\ x2.confirm = x.confirm /\ x2.handle = x.handle /\ x2.raw = x.raw /\ x2.ns = x.ns
        /\ x2.k = x.k /\ x2.did = x.did /\ x2 \in ClientRecord
    BY <1>2 DEF ClientRecord
  <2>3. y2 \in AgentRecord /\ y2.stage = "serving"
    BY DEF NoHandler, AgentRecord, Secrets
  <2> HIDE DEF x2, y2
  <2>4. Begun(x2, y2) /\ Passed(x2) /\ Marked(x2)
    BY <1>1, <1>2, <2>2 DEF CallOK, Begun, Passed, Marked
  <2>5. Handling(x2, y2) /\ BindHandling(x2, y2, rows, policy)
    BY <1>1, <1>2, <2>2, <2>3 DEF CallOK, Handling, BindHandling, LabelOf, Fresh, Working, Binding
  <2>6. Answering(x2, y2, rows, policy) /\ Told(x2, y2)
    BY <1>1, <2>2, <2>3 DEF CallOK, Answering, Complete, Told
  <2>7. CallOK(x2, y2, rows, policy)
    BY <2>2, <2>3, <2>4, <2>5, <2>6 DEF CallOK
  <2> QED BY <1>3, <2>1, <2>7, OneCall DEF Send, IInv
<1>5. CASE ~up
  <2> DEFINE code == Unreachable(x.tool)
  <2>0. code \in Codes /\ code \notin Refusals /\ code # "OK"
    BY UnreachableCode
  <2> HIDE DEF code
  <2>1. CallOK(Ended(x, code), y, rows, policy)
    BY <1>1, <1>2, <2>0, GivesUp
  <2>2. call' = [call EXCEPT ![c] = Ended(x, code)]
    BY <1>1, <1>5 DEF Send, Done, code, Recorded, Ended
  <2>3. agent' = [agent EXCEPT ![c] = y]
    BY <1>1, <1>5 DEF Send, Recorded
  <2> QED BY <1>3, <2>1, <2>2, <2>3, OneCall DEF Send, IInv
<1> QED BY <1>4, <1>5

(* The deadline passes, or the connection breaks. *)
LEMMA TimeoutStep ==
  ASSUME IInv, NEW c \in Calls, Timeout(c) \/ Lost(c)
  PROVE  IInv'
<1> DEFINE x == call[c]
           y == agent[c]
           code == Unreachable(x.tool)
<1>1. CallOK(x, y, rows, policy) /\ Recorded
  BY DEF IInv
<1>2. x.stage \in {"sent", "reading"} /\ x.k # 0
  BY <1>1 DEF Timeout, Lost, CallOK, Begun
<1>3. code \in Codes /\ code \notin Refusals /\ code # "OK"
  BY UnreachableCode
<1>4. call' = [call EXCEPT ![c] = Ended(x, code)] /\ agent' = [agent EXCEPT ![c] = y]
  BY <1>1 DEF Timeout, Lost, Done, Recorded, Ended
<1>5. UNCHANGED <<session, rows, policy, secret, sealed, up, crashes>>
  BY DEF Timeout, Lost
<1> HIDE DEF x, y, code
<1>6. CallOK(Ended(x, code), y, rows, policy)
  BY <1>1, <1>2, <1>3, GivesUp
<1> QED BY <1>4, <1>5, <1>6, OneCall, VaultStays DEF IInv

(* The server notices that the client is gone. *)
LEMMA DropStep ==
  ASSUME IInv, NEW c \in Calls, Drop(c)
  PROVE  IInv'
<1> DEFINE x == call[c]
<1>1. CallOK(x, agent[c], rows, policy) /\ Recorded
  BY DEF IInv
<1>2. CallOK(x, NoHandler, rows, policy)
  BY <1>1, HandlerGone
<1>3. call' = [call EXCEPT ![c] = x] /\ agent' = [agent EXCEPT ![c] = NoHandler]
  BY <1>1 DEF Drop, Recorded
<1>4. UNCHANGED <<session, rows, policy, secret, sealed, up, crashes>>
  BY DEF Drop
<1> HIDE DEF x
<1> QED BY <1>2, <1>3, <1>4, OneCall, VaultStays DEF IInv

(* The head of the answer is there. *)
LEMMA ReceiveStep ==
  ASSUME IInv, NEW c \in Calls, Receive(c)
  PROVE  IInv'
<1> DEFINE x == call[c]
           y == agent[c]
           x2 == [x EXCEPT !.stage = "reading", !.status = y.status]
<1>1. CallOK(x, y, rows, policy) /\ Recorded
  BY DEF IInv
<1>2. x.stage = "sent" /\ y.stage = "answered" /\ x \in ClientRecord /\ y \in AgentRecord
  BY <1>1 DEF Receive, CallOK
<1>3. call' = [call EXCEPT ![c] = x2] /\ agent' = [agent EXCEPT ![c] = y]
  BY <1>1 DEF Receive, Recorded
<1>4. UNCHANGED <<session, rows, policy, secret, sealed, up, crashes>>
  BY DEF Receive
<1>5. /\ x2.stage = "reading" /\ x2.status = y.status /\ x2.code = x.code /\ x2.tool = x.tool
      /\ x2.client = x.client /\ x2.confirm = x.confirm /\ x2.handle = x.handle /\ x2.raw = x.raw
      /\ x2.ns = x.ns /\ x2.k = x.k /\ x2.did = x.did /\ x2 \in ClientRecord
  BY <1>2 DEF ClientRecord, AgentRecord
<1> HIDE DEF x, y, x2
<1>6. Begun(x2, y) /\ Passed(x2) /\ Marked(x2)
  BY <1>1, <1>2, <1>5 DEF CallOK, Begun, Passed, Marked
<1>7. Handling(x2, y) /\ BindHandling(x2, y, rows, policy)
  BY <1>1, <1>2, <1>5 DEF CallOK, Handling, BindHandling, HandlerFor, LabelOf, Settled, Fresh
<1>8. Answering(x2, y, rows, policy) /\ Told(x2, y)
  BY <1>1, <1>2, <1>5 DEF CallOK, Answering, Reply, Complete, Clean, Told, HandlerFor, LabelOf, Settled
<1>9. CallOK(x2, y, rows, policy)
  BY <1>2, <1>5, <1>6, <1>7, <1>8 DEF CallOK
<1> QED BY <1>3, <1>4, <1>9, OneCall, VaultStays DEF IInv

(* The rest of the answer is there, and the handler is done with it. *)
LEMMA DeliverStep ==
  ASSUME IInv, NEW c \in Calls, Deliver(c)
  PROVE  IInv'
<1> DEFINE x == call[c]
           y == agent[c]
           x2 == [x EXCEPT !.stage = "received"]
<1>1. CallOK(x, y, rows, policy) /\ Recorded
  BY DEF IInv
<1>2. x.stage = "reading" /\ x \in ClientRecord /\ Reply(x, x.status, rows, policy)
  BY <1>1 DEF Deliver, CallOK, Answering
<1>3. call' = [call EXCEPT ![c] = x2] /\ agent' = [agent EXCEPT ![c] = NoHandler]
  BY <1>1 DEF Deliver, Recorded
<1>4. UNCHANGED <<session, rows, policy, secret, sealed, up, crashes>>
  BY DEF Deliver
<1>5. /\ x2.stage = "received" /\ x2.status = x.status /\ x2.code = x.code /\ x2.tool = x.tool
      /\ x2.client = x.client /\ x2.confirm = x.confirm /\ x2.handle = x.handle /\ x2.raw = x.raw
      /\ x2.ns = x.ns /\ x2.k = x.k /\ x2.did = x.did /\ x2 \in ClientRecord
  BY <1>2 DEF ClientRecord
<1>6. CallOK(x, NoHandler, rows, policy)
  BY <1>1, HandlerGone
<1>7. NoHandler.stage = "none"
  BY DEF NoHandler
<1> HIDE DEF x, y, x2, NoHandler
<1>8. Begun(x2, NoHandler) /\ Passed(x2) /\ Marked(x2)
  BY <1>2, <1>5, <1>6 DEF CallOK, Begun, Passed, Marked
<1>9. Handling(x2, NoHandler) /\ BindHandling(x2, NoHandler, rows, policy)
  BY <1>5, <1>6 DEF CallOK, Handling, BindHandling, HandlerFor, LabelOf, Settled, Fresh
<1>10. Answering(x2, NoHandler, rows, policy) /\ Told(x2, NoHandler)
  BY <1>2, <1>5, <1>6, <1>7
     DEF CallOK, Answering, Reply, Complete, Clean, Told, HandlerFor, LabelOf, Settled
<1>11. CallOK(x2, NoHandler, rows, policy)
  BY <1>5, <1>6, <1>8, <1>9, <1>10 DEF CallOK
<1> QED BY <1>3, <1>4, <1>11, OneCall, VaultStays DEF IInv

(* The answer cannot be decoded. *)
LEMMA GarbledStep ==
  ASSUME IInv, NEW c \in Calls, Garbled(c)
  PROVE  IInv'
<1> DEFINE x == call[c]
           y == agent[c]
<1>1. CallOK(x, y, rows, policy) /\ Recorded
  BY DEF IInv
<1>2. x.k # 0
  BY <1>1 DEF Garbled, CallOK, Begun
<1>3. PICK code \in Undecodable(x.tool, x.status) : Done(c, code)
  BY DEF Garbled
<1>4. code \in Codes /\ code \notin Refusals /\ code # "OK"
  BY UndecodableCode
<1>5. call' = [call EXCEPT ![c] = Ended(x, code)] /\ agent' = [agent EXCEPT ![c] = y]
  BY <1>1, <1>3 DEF Garbled, Done, Recorded, Ended
<1>6. UNCHANGED <<session, rows, policy, secret, sealed, up, crashes>>
  BY DEF Garbled
<1> HIDE DEF x, y
<1>7. CallOK(Ended(x, code), y, rows, policy)
  BY <1>1, <1>2, <1>4, GivesUp
<1> QED BY <1>5, <1>6, <1>7, OneCall, VaultStays DEF IInv

(* The call ends with a code that is true of it. *)
LEMMA Finishes ==
  ASSUME NEW x, NEW y, NEW R, NEW P, CallOK(x, y, R, P), x.k # 0, NEW code \in Codes,
         code \in Refusals => Clean(x),
         code = "OK" => \A k \in 1..Len(Tools[x.tool].rpcs) : Complete(x, k)
  PROVE  CallOK(Ended(x, code), NoHandler, R, P)
<1> DEFINE x2 == Ended(x, code)
<1>1. x \in ClientRecord
  BY DEF CallOK
<1>2. NoHandler \in AgentRecord /\ NoHandler.stage = "none"
  BY DEF NoHandler, AgentRecord, Secrets
<1>3. /\ x2.stage = "done" /\ x2.code = code /\ x2.tool = x.tool /\ x2.client = x.client
      /\ x2.confirm = x.confirm /\ x2.handle = x.handle /\ x2.raw = x.raw /\ x2.ns = x.ns
      /\ x2.k = x.k /\ x2.did = x.did /\ x2 \in ClientRecord
  BY <1>1 DEF ClientRecord, Ended
<1> HIDE DEF x2, NoHandler
<1>4. Begun(x2, NoHandler) /\ Passed(x2) /\ Marked(x2)
  BY <1>2, <1>3 DEF CallOK, Begun, Passed, Marked
<1>5. Handling(x2, NoHandler) /\ BindHandling(x2, NoHandler, R, P)
  BY <1>2, <1>3 DEF CallOK, Handling, BindHandling, LabelOf, Working, Binding
<1>6. Answering(x2, NoHandler, R, P)
  BY <1>2, <1>3 DEF CallOK, Answering, Complete
<1>7. Told(x2, NoHandler)
  BY <1>2, <1>3 DEF Told, Clean, Complete
<1>8. CallOK(x2, NoHandler, R, P)
  BY <1>2, <1>3, <1>4, <1>5, <1>6, <1>7 DEF CallOK
<1> QED BY <1>8 DEF x2

(* The call goes on to its second request. *)
Onward(x, ns) == [x EXCEPT !.stage = "ready", !.k = @ + 1, !.status = 0, !.ns = ns]

(* A first request that is complete is followed by a fresh second one. *)
LEMMA GoesOn ==
  ASSUME NEW x, NEW y, NEW R, NEW P, CallOK(x, y, R, P), x.k = 1, Len(Tools[x.tool].rpcs) = 2,
         Complete(x, 1), NEW ns \in Labels \cup {None},
         IsMcp(x.tool) => ns = x.ns, ~IsMcp(x.tool) => ns \in Labels
  PROVE  CallOK(Onward(x, ns), NoHandler, R, P)
<1> DEFINE x2 == Onward(x, ns)
<1>1. x \in ClientRecord
  BY DEF CallOK
<1>2. NoHandler \in AgentRecord /\ NoHandler.stage = "none"
  BY DEF NoHandler, AgentRecord, Secrets
<1>3. /\ x2.stage = "ready" /\ x2.code = x.code /\ x2.tool = x.tool /\ x2.client = x.client
      /\ x2.confirm = x.confirm /\ x2.handle = x.handle /\ x2.raw = x.raw /\ x2.ns = ns
      /\ x2.k = 2 /\ x2.did = x.did
  BY <1>1 DEF ClientRecord, Onward
<1>9. x2 \in ClientRecord
  <2>1. x2 = [x EXCEPT !.stage = "ready", !.k = 2, !.status = 0, !.ns = ns]
    BY <1>1 DEF ClientRecord, Onward
  <2>2. 2 \in 0..2 /\ 0 \in Int
    OBVIOUS
  <2> QED BY <1>1, <2>1, <2>2 DEF ClientRecord
<1> HIDE DEF x2, NoHandler
<1>11. x.k # 0
  OBVIOUS
<1>10. Marked(x2)
  BY <1>3 DEF CallOK, Marked
<1>4. Begun(x2, NoHandler) /\ Passed(x2)
  <2>1. x.tool \in DOMAIN Tools
    BY <1>11 DEF CallOK, Begun
  <2>5. Len(Tools[x2.tool].rpcs) = 2 /\ x2.k # 0 /\ x2.k <= 2
    BY <1>3
  <2>2. Begun(x2, NoHandler)
    BY <1>3, <2>1, <2>5 DEF Begun
  <2>3. Passed(x)
    BY DEF CallOK
  <2>4. Passed(x2)
    BY <1>3, <1>11, <2>3 DEF Passed
  <2> QED BY <2>2, <2>4
<1>5. Handling(x2, NoHandler) /\ BindHandling(x2, NoHandler, R, P)
  BY <1>2, <1>3 DEF CallOK, Handling, BindHandling, LabelOf, Working, Binding
<1>6. Fresh(x2)
  <2>1. Marked(x)
    BY DEF CallOK
  <2>2. x2.k \in 1..2 /\ ~(x2.k <= x.k) /\ x2.did = x.did
    BY <1>3
  <2> QED BY <2>1, <2>2 DEF Fresh, Marked
<1>7. Answering(x2, NoHandler, R, P) /\ Told(x2, NoHandler)
  BY <1>2, <1>3, <1>6 DEF CallOK, Answering, Complete, Told
<1>8. CallOK(x2, NoHandler, R, P)
  BY <1>2, <1>4, <1>5, <1>7, <1>9, <1>10 DEF CallOK
<1> QED BY <1>8 DEF x2

(* A request that is not the last is the first of two. *)
LEMMA OneOfTwo ==
  ASSUME NEW n \in 1..2, NEW k \in 1..n, k # n
  PROVE  k = 1 /\ n = 2
OBVIOUS

(* The body is decoded: the tool ends, goes on, or commits its binding to a    *)
(* namespace the agent has settled.                                            *)
LEMMA DecodeStep ==
  ASSUME IInv, NEW c \in Calls, Decode(c)
  PROVE  IInv'
<1> DEFINE x == call[c]
           y == agent[c]
           t == x.tool
           ok == x.status < 300
           last == x.k = Len(Tools[t].rpcs)
           missing == ~IsMcp(t) /\ ok /\ ~last /\ x.handle \notin rows
<1>1. CallOK(x, y, rows, policy) /\ Recorded
  BY DEF IInv
<1>2. /\ x.stage = "received" /\ x.k # 0 /\ x \in ClientRecord /\ y \in AgentRecord
      /\ x.status \in Int
  BY <1>1 DEF Decode, CallOK, Begun, ClientRecord
<1>3. /\ t \in DOMAIN Tools /\ x.k \in 1..Len(Tools[t].rpcs) /\ Len(Tools[t].rpcs) \in 1..2
      /\ x.k \in 1..2
  BY <1>1, <1>2, AtARequest DEF CallOK
<1>4. Reply(x, x.status, rows, policy)
  BY <1>1, <1>2 DEF CallOK, Answering
<1>11. y = NoHandler
  BY <1>1, <1>2 DEF CallOK, Answering
<1>5. UNCHANGED <<rows, policy, secret, sealed, up, crashes>> /\ agent' = [agent EXCEPT ![c] = NoHandler]
  BY <1>1, <1>11 DEF Decode, Recorded
<1>6. ASSUME ok, ~last, ~missing
      PROVE  \E x2 : call' = [call EXCEPT ![c] = x2] /\ CallOK(x2, NoHandler, rows, policy)
  <2> DEFINE ns == IF IsMcp(t) THEN x.ns ELSE x.handle
  <2>1. call' = [call EXCEPT ![c] = Onward(x, ns)]
    BY <1>1, <1>6 DEF Decode, Onward, Recorded
  <2>2. x.k = 1 /\ Len(Tools[t].rpcs) = 2
    BY <1>3, <1>6, OneOfTwo
  <2>5. Complete(x, 1)
    BY <1>4, <1>6, <2>2 DEF Reply
  <2>3. /\ ns \in Labels \cup {None} /\ (IsMcp(t) => ns = x.ns) /\ (~IsMcp(t) => ns \in Labels)
    BY <1>2, <1>6 DEF ClientRecord, IInv, VaultOK
  <2> HIDE DEF ns
  <2>4. CallOK(Onward(x, ns), NoHandler, rows, policy)
    BY <1>1, <2>2, <2>3, <2>5, GoesOn
  <2> QED BY <2>1, <2>4
<1>7. ASSUME ~(ok /\ ~last /\ ~missing)
      PROVE  \E x2 : call' = [call EXCEPT ![c] = x2] /\ CallOK(x2, NoHandler, rows, policy)
  <2>1. PICK code \in (IF missing THEN {"exit_1"} ELSE Answers(t, x.status)) : Done(c, code)
    BY <1>7 DEF Decode
  <2>2. call' = [call EXCEPT ![c] = Ended(x, code)]
    BY <1>1, <2>1 DEF Done, Ended, Recorded
  <2>3. /\ code \in Codes
        /\ code \in Refusals => Clean(x)
        /\ code = "OK" => \A k \in 1..Len(Tools[t].rpcs) : Complete(x, k)
    <3>1. CASE missing
      <4>1. code \in Codes /\ code # "OK" /\ code \notin Refusals
        BY <2>1, <3>1 DEF Codes, Refusals
      <4> QED BY <4>1
    <3>2. CASE ~missing /\ ok
      <4>1. code \in Codes /\ code \notin Refusals
        BY <1>2, <2>1, <3>2, AnswerCodes
      <4>2. \A k \in 1..Len(Tools[t].rpcs) : Complete(x, k)
        BY <1>1, <1>3, <1>4, <1>7, <3>2 DEF Reply, CallOK, Answering
      <4> QED BY <4>1, <4>2
    <3>3. CASE ~ok
      <4>1. code \in Codes /\ code # "OK" /\ (code \in Refusals => x.status \in {400, 403, 404, 409})
        BY <1>2, <2>1, <3>3, AnswerCodes
      <4>2. code \in Refusals => Clean(x)
        BY <1>4, <4>1 DEF Reply
      <4> QED BY <4>1, <4>2
    <3> QED BY <3>1, <3>2, <3>3
  <2> HIDE DEF x, y
  <2>4. CallOK(Ended(x, code), NoHandler, rows, policy)
    BY <1>1, <1>2, <2>3, Finishes
  <2> QED BY <2>2, <2>4
<1>8. Recorded' /\ \A d \in Calls : CallOK(call'[d], agent'[d], rows', policy')
  <2>1. PICK x2 : call' = [call EXCEPT ![c] = x2] /\ CallOK(x2, NoHandler, rows, policy)
    BY <1>6, <1>7
  <2> QED BY <1>5, <2>1, OneCall
<1>9. CASE ok /\ t = "vault_bind"
  <2>1. IsMcp(t) /\ x.k = 1 /\ HandlerFor(x).does = "bind"
    BY <1>3, <1>9, BindRequest DEF IsMcp, HandlerFor
  <2>2. Settled(x, rows, policy)
    BY <1>4, <1>9, <2>1 DEF Reply
  <2>3. x.client \in Servers
    BY <1>1, <2>1 DEF CallOK, Passed
  <2>4. session' = [session EXCEPT ![x.client] = LabelOf(x)]
    BY <1>9 DEF Decode, LabelOf
  <2>5. LabelOf(x) \in Labels /\ LabelOf(x) \in rows /\ policy[LabelOf(x)] # "none"
    BY <2>2 DEF Settled, IInv, VaultOK
  <2>6. session \in [Servers -> Labels \cup {None}]
    BY DEF IInv, VaultOK
  <2>7. session' \in [Servers -> Labels \cup {None}]
    BY <2>3, <2>4, <2>5, <2>6
  <2>8. BoundHasPolicy'
    BY <1>5, <2>3, <2>4, <2>5, <2>6 DEF IInv, BoundHasPolicy
  <2> QED BY <1>5, <1>8, <2>7, <2>8 DEF IInv, VaultOK
<1>10. CASE ~(ok /\ t = "vault_bind")
  <2>1. UNCHANGED session
    BY <1>10 DEF Decode
  <2> QED BY <1>5, <1>8, <2>1, VaultStays DEF IInv
<1> QED BY <1>9, <1>10

(* Every tool sends something. *)
LEMMA OneAtLeast ==
  ASSUME NEW n \in 1..2
  PROVE  1 <= n
OBVIOUS

(* A call that begins. *)
LEMMA BeginStep ==
  ASSUME IInv, NEW c \in Calls, Call(c)
  PROVE  IInv'
<1>0. PICK t \in ToolsOf[c] :
         \E client \in ClientsOf(t) : \E a \in Args(t) : \E soft \in Soft(t) : Begin(c, t, client, a, soft)
  BY DEF Call
<1>1. PICK client \in ClientsOf(t), a \in Args(t), soft \in Soft(t) : Begin(c, t, client, a, soft)
  BY <1>0
<1> DEFINE y == agent[c]
           checks == Tools[t].checks
           failing == {i \in DOMAIN checks : Refused(checks[i], t, client, a, soft)}
           failed == First(checks, failing)
           new == [Idle EXCEPT !.tool = t, !.client = client, !.confirm = a.confirm,
                               !.handle = a.handle, !.raw = a.raw]
           ns == IF client = Cli THEN None ELSE session[client]
           refused == [new EXCEPT !.stage = "done", !.code = Refusal(t, failed)]
           ready == [new EXCEPT !.stage = "ready", !.k = 1, !.ns = ns]
           x2 == IF failed # None THEN refused ELSE ready
<1>2. CallOK(call[c], y, rows, policy) /\ Recorded /\ VaultOK
  BY DEF IInv
<1>3. call' = [call EXCEPT ![c] = x2] /\ agent' = [agent EXCEPT ![c] = y]
  BY <1>1, <1>2 DEF Begin, Recorded
<1>4. UNCHANGED <<session, rows, policy, secret, sealed, up, crashes>>
  BY <1>1 DEF Begin
<1>5. y.stage = "none" /\ y \in AgentRecord
  BY <1>1, <1>2 DEF Begin, CallOK, Answering
<1>6. t \in DOMAIN Tools
  BY GatewayAssumption
<1>7. ToolSound(t)
  BY <1>6, ToolIsSound
<1>8. a.confirm \in BOOLEAN /\ a.handle \in Handles(t) /\ a.raw \in (IF Binds(t) THEN Raws ELSE {None})
  BY DEF Args
<1>9. a.handle \in Labels \cup {Bad, None} /\ a.raw \in Raws \cup {None}
  BY <1>8 DEF Handles
<1>10. client \in Servers \cup {Cli} /\ (IsMcp(t) => client \in Servers /\ client # Cli)
  BY GatewayAssumption DEF ClientsOf
<1>11. ns \in Labels \cup {None}
  BY <1>2, <1>10 DEF VaultOK
<1> HIDE DEF ns
<1>12. checks \in Seq(CheckNames)
  BY <1>7 DEF ToolSound, Typed, CheckNames
<1>13. failing \in SUBSET DOMAIN checks
  OBVIOUS
<1>14. /\ new.stage = "idle" /\ new.tool = t /\ new.client = client /\ new.confirm = a.confirm
       /\ new.handle = a.handle /\ new.raw = a.raw /\ new.k = 0 /\ new.did = {}
  BY DEF Idle
<1>17. new \in ClientRecord
  <2>1. Idle \in ClientRecord
    BY DEF Idle, ClientRecord
  <2> HIDE DEF Idle
  <2> QED BY <1>6, <1>8, <1>9, <1>10, <2>1 DEF ClientRecord
<1> HIDE DEF new
<1>15. CASE failed # None
  <2>1. \E i \in failing : failed = checks[i]
    BY <1>12, <1>13, <1>15, FirstFails
  <2>2. Refusal(t, failed) \in Refusals \cup {"exit_1"}
    BY <1>6, <2>1, RefusalCode
  <2>3. /\ refused.stage = "done" /\ refused.code \in Refusals \cup {"exit_1"} /\ refused.tool = t
        /\ refused.k = 0 /\ refused.did = {}
    BY <1>14, <2>2
  <2>7. refused \in ClientRecord
    <3>1. Refusal(t, failed) \in Codes \cup {None}
      BY <2>2 DEF Codes
    <3> HIDE DEF failed
    <3> QED BY <1>17, <3>1 DEF ClientRecord
  <2>4. call' = [call EXCEPT ![c] = refused]
    BY <1>3, <1>15
  <2> HIDE DEF refused
  <2>5. "OK" \notin Refusals
    BY DEF Refusals
  <2>6. CallOK(refused, y, rows, policy)
    BY <1>5, <1>6, <2>3, <2>5, <2>7 DEF CallOK, Begun, Passed, Marked, Handling, BindHandling,
           Answering, Told, Clean,
       Working, Binding
  <2> HIDE DEF x2, y
  <2> QED BY <1>3, <1>4, <2>4, <2>6, OneCall, VaultStays DEF IInv
<1>16. CASE failed = None
  <2>1. \A i \in DOMAIN checks : ~Refused(checks[i], t, client, a, soft)
    BY <1>12, <1>13, <1>16, FirstFails
  <2>2. /\ ready.stage = "ready" /\ ready.tool = t /\ ready.client = client /\ ready.confirm = a.confirm
        /\ ready.handle = a.handle /\ ready.raw = a.raw /\ ready.ns = ns /\ ready.k = 1 /\ ready.did = {}
    BY <1>14
  <2>3. ready \in ClientRecord
    <3>1. 1 \in 0..2
      OBVIOUS
    <3> QED BY <1>11, <1>17, <3>1 DEF ClientRecord
  <2>4. call' = [call EXCEPT ![c] = ready]
    BY <1>3, <1>16
  <2> HIDE DEF ready, checks, ns
  <2>5. Checked(t, "confirmed") => a.confirm = TRUE
    BY <1>8, <2>1 DEF Checked, Refused, checks
  <2>6. Checked(t, "handle") /\ ~OptionalHandle(t) => a.handle \in Labels
    BY <1>8, <2>1 DEF Checked, Refused, checks, Handles, TakesHandle
  <2>7. IsMcp(t) /\ Checked(t, "bound") => ns \in Labels
    BY <1>10, <1>11, <2>1 DEF Checked, Refused, checks, ns
  <2>8. Passed(ready)
    BY <1>8, <1>10, <2>2, <2>5, <2>6, <2>7 DEF Passed
  <2>9. Begun(ready, y) /\ Marked(ready)
    <3>0. Len(Tools[t].rpcs) \in 1..2
      BY <1>7 DEF ToolSound, Typed
    <3>1. 1 <= Len(Tools[t].rpcs)
      BY <3>0, OneAtLeast
    <3>2. Marked(ready)
      BY <2>2 DEF Marked
    <3> QED BY <1>6, <2>2, <3>1, <3>2 DEF Begun
  <2>10. Handling(ready, y) /\ BindHandling(ready, y, rows, policy)
    BY <1>5, <2>2 DEF Handling, BindHandling, Working, Binding
  <2>11. Answering(ready, y, rows, policy) /\ Told(ready, y)
    BY <1>5, <2>2 DEF Answering, Told, Fresh
  <2>12. CallOK(ready, y, rows, policy)
    BY <1>5, <2>3, <2>8, <2>9, <2>10, <2>11 DEF CallOK
  <2> HIDE DEF x2, y
  <2> QED BY <1>3, <1>4, <2>4, <2>12, OneCall, VaultStays DEF IInv
<1> QED BY <1>15, <1>16

(* The agent. *)
LEMMA RouteIs ==
  ASSUME NEW c
  PROVE  /\ Route(c) = HandlerFor(call[c])
         /\ Routed(c) <=> Served(call[c].tool, call[c].k)
         /\ Bound(c) = LabelOf(call[c])
BY DEF Route, Routed, Rpc, HandlerFor, HandlerAt, Served, Bound, LabelOf

Answer(y, st) == [y EXCEPT !.stage = "answered", !.status = st]
Moved(y, stage) == [y EXCEPT !.stage = stage]

(* The handler answers. *)
LEMMA HandlerAnswers ==
  ASSUME NEW x, NEW y, NEW R, NEW P, CallOK(x, y, R, P), y.stage \notin {"none", "answered"},
         NEW st \in Int, Reply(x, st, R, P)
  PROVE  CallOK(x, Answer(y, st), R, P)
<1> DEFINE y2 == Answer(y, st)
<1>1. y \in AgentRecord
  BY DEF CallOK
<1>2. y2 \in AgentRecord /\ y2.stage = "answered" /\ y2.status = st
  BY <1>1 DEF AgentRecord, Answer
<1> HIDE DEF y2
<1>3. Handling(x, y2) /\ BindHandling(x, y2, R, P)
  BY <1>2 DEF CallOK, Handling, BindHandling, Working, Binding
<1>4. CallOK(x, y2, R, P)
  BY <1>2, <1>3, HandlerMoves
<1> QED BY <1>4 DEF y2

(* A request that has done nothing yet leaves nothing that lasts. *)
LEMMA FreshIsClean ==
  ASSUME NEW x, NEW y, NEW R, NEW P, CallOK(x, y, R, P), x.k # 0, Fresh(x)
  PROVE  Clean(x)
<1>1. x \in ClientRecord /\ y \in AgentRecord /\ Begun(x, y) /\ Marked(x)
  BY DEF CallOK
<1>2. /\ x.tool \in DOMAIN Tools /\ Len(Tools[x.tool].rpcs) \in 1..2
      /\ x.k \in 1..Len(Tools[x.tool].rpcs)
  BY <1>1, AtARequest
<1> SUFFICES ASSUME NEW j \in 1..2, NEW e \in Durable, <<j, e>> \in x.did
             PROVE  FALSE
  BY DEF Clean
<1>3. e \in Effects /\ e # "audit"
  BY DEF Durable
<1>4. j # x.k
  BY <1>3 DEF Fresh
<1>5. /\ j <= x.k /\ Served(x.tool, j)
      /\ e = HandlerAt(x.tool, j).does \/ HandlerAt(x.tool, j).does = "bind"
  BY <1>1, <1>3 DEF Marked
<1> DEFINE n == Len(Tools[x.tool].rpcs)
<1>6. n \in 1..2 /\ x.k \in 1..n
  BY <1>2
<1> HIDE DEF n
<1>7. j = 1 /\ n = 2 /\ 1 \in 1..n
  BY <1>4, <1>5, <1>6
<1>8. HandlerAt(x.tool, 1).does \notin Durable /\ HandlerAt(x.tool, 1).does # "bind"
  <2>1. /\ Served(x.tool, 1) /\ 1 \in 1..Len(Tools[x.tool].rpcs)
        /\ Len(Tools[x.tool].rpcs) = 2 /\ Len(Tools[x.tool].rpcs) # 1
    BY <1>5, <1>7 DEF n
  <2> QED BY <1>2, <2>1, AtRequest
<1> QED BY <1>5, <1>7, <1>8

(* Respond as one record. *)
LEMMA RespondIs ==
  ASSUME Recorded, NEW c \in Calls, NEW statuses, Respond(c, statuses)
  PROVE  \E st \in statuses : agent' = [agent EXCEPT ![c] = Answer(agent[c], st)]
<1>1. PICK st \in statuses : agent' = [agent EXCEPT ![c].stage = "answered", ![c].status = st]
  BY DEF Respond
<1>2. agent' = [agent EXCEPT ![c] = Answer(agent[c], st)]
  BY <1>1 DEF Answer, Recorded
<1> QED BY <1>2

(* The handler checks: a problem is answered while nothing is done yet. *)
LEMMA ServeStep ==
  ASSUME IInv, NEW c \in Calls, Serve(c)
  PROVE  IInv'
<1> DEFINE x == call[c]
           y == agent[c]
           h == HandlerFor(x)
<1>1. CallOK(x, y, rows, policy) /\ Recorded /\ VaultOK
  BY DEF IInv
<1>2. /\ y.stage = "serving" /\ x \in ClientRecord /\ y \in AgentRecord
      /\ x.k # 0 /\ Fresh(x) /\ Begun(x, y) /\ Passed(x)
  BY <1>1 DEF Serve, CallOK, Begun, Handling
<1>3. Clean(x)
  BY <1>1, <1>2, FreshIsClean
<1>4. /\ x.tool \in DOMAIN Tools /\ x.k \in 1..Len(Tools[x.tool].rpcs)
  BY <1>2, AtARequest
<1>5. Route(c) = h /\ (Routed(c) <=> Served(x.tool, x.k))
  BY RouteIs
<1>6. /\ call' = [call EXCEPT ![c] = x]
      /\ UNCHANGED <<session, rows, policy, secret, sealed, up, crashes>>
  BY <1>1 DEF Serve, Recorded
<1>7. ASSUME NEW statuses, Respond(c, statuses), \A st \in statuses : st \in Int /\ st >= 400
      PROVE  \E y2 : agent' = [agent EXCEPT ![c] = y2] /\ CallOK(x, y2, rows, policy)
  <2>1. PICK st \in statuses : agent' = [agent EXCEPT ![c] = Answer(y, st)]
    BY <1>1, <1>7, RespondIs
  <2>2. st \in Int /\ Reply(x, st, rows, policy)
    BY <1>3, <1>7 DEF Reply
  <2> HIDE DEF x, y
  <2>3. CallOK(x, Answer(y, st), rows, policy)
    BY <1>1, <1>2, <2>2, HandlerAnswers
  <2> QED BY <2>1, <2>3
<1>8. CASE ~Routed(c)
  <2>1. Respond(c, {NotRouted})
    BY <1>8 DEF Serve
  <2>2. \A st \in {NotRouted} : st \in Int /\ st >= 400
    BY DEF NotRouted
  <2>3. \E y2 : agent' = [agent EXCEPT ![c] = y2] /\ CallOK(x, y2, rows, policy)
    BY <1>7, <2>1, <2>2
  <2> HIDE DEF x
  <2> QED BY <1>6, <2>3, OneCall, VaultStays DEF IInv
<1>9. CASE Routed(c)
  <2>1. Served(x.tool, x.k) /\ HandlerSound(h)
    BY <1>4, <1>5, <1>9, AtRequest DEF HandlerFor
  <2> DEFINE Failing(soft) == {i \in DOMAIN h.checks : Fails(c, h.checks[i], soft)}
  <2>2. h.checks \in Seq(CheckNames) /\ h.checks \in Seq(DOMAIN Problems)
    BY <2>1 DEF HandlerSound, CheckNames
  <2> DEFINE go == CASE h.does = "bind" -> "looking"
                     [] h.audit = "before" -> "auditing"
                     [] OTHER -> "acting"
             held == IF h.does \in {"rotate", "rollback"} THEN Stored(c) ELSE None
             y2 == [y EXCEPT !.stage = go, !.loaded = held]
  <2>3. PICK soft :
          \/ First(h.checks, Failing(soft)) # None /\ Respond(c, Problems[First(h.checks, Failing(soft))])
          \/ /\ First(h.checks, Failing(soft)) = None
             /\ agent' = [agent EXCEPT ![c].stage = go, ![c].loaded = held]
    BY <1>5, <1>9 DEF Serve
  <2>4. Failing(soft) \in SUBSET DOMAIN h.checks
    OBVIOUS
  <2>5. CASE First(h.checks, Failing(soft)) # None
    <3>1. Respond(c, Problems[First(h.checks, Failing(soft))])
      BY <2>3, <2>5
    <3>2. First(h.checks, Failing(soft)) \in DOMAIN Problems
      BY <2>2, <2>4, <2>5, FirstFails
    <3>3. \A st \in Problems[First(h.checks, Failing(soft))] : st \in Int /\ st >= 400
      BY <3>2, ProblemStatuses
    <3>4. \E z : agent' = [agent EXCEPT ![c] = z] /\ CallOK(x, z, rows, policy)
      BY <1>7, <3>1, <3>3
    <3> HIDE DEF x
    <3> QED BY <1>6, <3>4, OneCall, VaultStays DEF IInv
  <2>6. CASE First(h.checks, Failing(soft)) = None
    <3>0. agent' = [agent EXCEPT ![c].stage = go, ![c].loaded = held]
      BY <2>3, <2>6
    <3>1. agent' = [agent EXCEPT ![c] = y2]
      <4> HIDE DEF go, held
      <4> QED BY <1>1, <3>0 DEF Recorded
    <3>2. Failing(soft) = {}
      BY <2>2, <2>4, <2>6, FirstFails
    <3>3. Stored(c) \in Secrets
      BY <1>1 DEF Stored, VaultOK, Secrets
    <3>4. h.does \in {"rotate", "rollback"} => Stored(c) # None
      <4> SUFFICES ASSUME h.does \in {"rotate", "rollback"}
                   PROVE  Stored(c) # None
        OBVIOUS
      <4>1. PICK i \in DOMAIN h.checks : h.checks[i] = "exists"
        BY <2>1 DEF HandlerSound
      <4>2. ~FailsIn(c, "exists")
        BY <3>2, <4>1 DEF Fails, StateChecks
      <4>3. Checked(x.tool, "handle") /\ ~OptionalHandle(x.tool)
        BY <1>4, <2>1, AtRequest DEF HandlerFor
      <4>4. x.handle \in Labels
        BY <1>2, <4>3 DEF Passed
      <4>5. x.handle # None
        BY <4>4, GatewayAssumption
      <4> QED BY <4>2, <4>5 DEF FailsIn
    <3>5. go \in Working \cup {"looking"}
      BY DEF Working
    <3>6. y2 \in AgentRecord /\ y2.stage = go /\ y2.loaded = held
      <4>1. held \in Secrets
        BY <3>3 DEF Secrets
      <4>2. go \in {"none", "serving", "answered"} \cup Working \cup Binding
        BY <3>5 DEF Binding
      <4> HIDE DEF held, go
      <4> QED BY <1>2, <4>1, <4>2 DEF AgentRecord
    <3>7. /\ go = "looking" <=> h.does = "bind"
          /\ go = "auditing" => h.audit = "before"
          /\ go = "acting" => h.audit # "before"
      <4>0. h.does = "bind" => h.audit = "none"
        BY <2>1 DEF HandlerSound
      <4>1. CASE h.does = "bind"
        BY <4>0, <4>1
      <4>2. CASE h.does # "bind" /\ h.audit = "before"
        BY <4>2
      <4>3. CASE h.does # "bind" /\ h.audit # "before"
        BY <4>3
      <4> QED BY <4>1, <4>2, <4>3
    <3>8. h.does \in {"rotate", "rollback"} => y2.loaded # None
      BY <3>4, <3>6
    <3> HIDE DEF y2, go, h, held
    <3>9. Handling(x, y2)
      BY <2>1, <3>5, <3>6, <3>7, <3>8 DEF Handling, Working, Binding, h
    <3>10. BindHandling(x, y2, rows, policy)
      BY <1>1, <3>5, <3>6 DEF CallOK, BindHandling, Working
    <3> HIDE DEF x, y
    <3>11. CallOK(x, y2, rows, policy)
      BY <1>1, <1>2, <3>5, <3>6, <3>9, <3>10, HandlerMoves DEF Working
    <3> QED BY <1>6, <3>1, <3>11, OneCall, VaultStays DEF IInv
  <2> QED BY <2>5, <2>6
<1> QED BY <1>8, <1>9

(* The work of a request is done: it is recorded, or answered. *)
LEMMA WorkDone ==
  ASSUME NEW x, NEW y, NEW R, NEW P, CallOK(x, y, R, P), y.stage = "acting",
         HandlerFor(x).does # "nothing" => <<x.k, HandlerFor(x).does>> \in x.did
  PROVE  CallOK(x, IF HandlerFor(x).audit = "after" THEN Moved(y, "auditing") ELSE Answer(y, 200), R, P)
<1>1. x \in ClientRecord /\ y \in AgentRecord /\ Begun(x, y)
  BY DEF CallOK
<1>2. x.k # 0 /\ Served(x.tool, x.k) /\ HandlerFor(x).does # "bind"
  BY DEF CallOK, Begun, Handling, Working
<1>3. HandlerSound(HandlerFor(x))
  BY <1>1, <1>2, AtARequest, AtRequest DEF HandlerFor
<1>4. CASE HandlerFor(x).audit = "after"
  <2> DEFINE y2 == Moved(y, "auditing")
  <2>1. y2.stage = "auditing" /\ y2.loaded = y.loaded
    BY <1>1 DEF AgentRecord, Moved
  <2>2. y2 \in AgentRecord
    BY <1>1 DEF AgentRecord, Moved, Working
  <2> HIDE DEF y2
  <2>3. Handling(x, y2)
    BY <1>2, <1>4, <2>1 DEF CallOK, Handling, Working, Binding
  <2>4. BindHandling(x, y2, R, P)
    BY <2>1 DEF CallOK, BindHandling
  <2>5. CallOK(x, y2, R, P)
    BY <2>1, <2>2, <2>3, <2>4, HandlerMoves
  <2> QED BY <1>4, <2>5 DEF y2
<1>5. CASE HandlerFor(x).audit # "after"
  <2>1. HandlerFor(x).audit # "none" => <<x.k, "audit">> \in x.did
    BY <1>3, <1>5 DEF CallOK, Handling, HandlerSound
  <2>2. Complete(x, x.k)
    BY <1>2, <2>1 DEF Complete, HandlerFor
  <2>3. 200 \in Int /\ Reply(x, 200, R, P)
    BY <1>2, <2>2 DEF Reply
  <2>4. CallOK(x, Answer(y, 200), R, P)
    BY <2>3, HandlerAnswers
  <2> QED BY <1>5, <2>4
<1> QED BY <1>4, <1>5

(* The step of a handler that acts, as far as the calls go. *)
LEMMA ActCall ==
  ASSUME IInv, NEW c \in Calls, agent[c].stage = "acting", agent' = After(c), UNCHANGED <<rows, policy>>,
         IF Route(c).does = "nothing" THEN UNCHANGED call ELSE Marks(c, Route(c).does)
  PROVE  Recorded' /\ \A d \in Calls : CallOK(call'[d], agent'[d], rows', policy')
<1> DEFINE x == call[c]
           y == agent[c]
           e == HandlerFor(x).does
           x2 == IF e = "nothing" THEN x ELSE WithMark(x, e)
           y2 == IF HandlerFor(x).audit = "after" THEN Moved(y, "auditing") ELSE Answer(y, 200)
<1>1. CallOK(x, y, rows, policy) /\ Recorded
  BY DEF IInv
<1>2. Route(c) = HandlerFor(x)
  BY RouteIs
<1>3. call' = [call EXCEPT ![c] = x2]
  BY <1>1, <1>2 DEF Marks, WithMark, Recorded
<1>4. agent' = [agent EXCEPT ![c] = y2]
  BY <1>1, <1>2 DEF After, Moved, Answer, Recorded
<1>5. e \in Effects \cup {"nothing"}
  <2>1. x \in ClientRecord /\ y \in AgentRecord /\ Begun(x, y) /\ x.k # 0 /\ Served(x.tool, x.k)
    BY <1>1 DEF CallOK, Begun, Handling, Working
  <2>2. HandlerSound(HandlerFor(x))
    BY <2>1, AtARequest, AtRequest DEF HandlerFor
  <2> QED BY <2>2 DEF HandlerSound
<1>6. y.stage \in Working \cup Binding
  BY DEF Working
<1> HIDE DEF x, y
<1>7. /\ CallOK(x2, y, rows, policy) /\ HandlerFor(x2) = HandlerFor(x)
      /\ e # "nothing" => <<x2.k, e>> \in x2.did
  <2>1. CASE e = "nothing"
    BY <1>1, <2>1
  <2>2. CASE e # "nothing"
    <3>1. e \in Effects /\ MayMark(x, e, policy)
      BY <1>5, <2>2 DEF MayMark
    <3>2. /\ CallOK(WithMark(x, e), y, rows, policy) /\ <<x.k, e>> \in WithMark(x, e).did
          /\ HandlerFor(WithMark(x, e)) = HandlerFor(x) /\ WithMark(x, e).k = x.k
      BY <1>1, <1>6, <3>1, HandlerMarks
    <3> QED BY <2>2, <3>2
  <2> QED BY <2>1, <2>2
<1>8. CallOK(x2, y2, rows, policy)
  <2> HIDE DEF x2
  <2> QED BY <1>7, WorkDone DEF y
<1> HIDE DEF x2, y2
<1> QED BY <1>3, <1>4, <1>8, OneCall

(* Where a secret is written, the namespace and the secret's own are labels. *)
LEMMA WriteLabels ==
  ASSUME IInv, NEW c \in Calls, agent[c].stage = "acting"
  PROVE  /\ Route(c).does \in {"put", "rotate"} => call[c].ns \in Labels
         /\ Route(c).does \in {"rotate", "rollback"} =>
              /\ Subject(c) \in Labels
              /\ agent[c].loaded \in [active : Labels, deks : SUBSET Labels]
<1> DEFINE x == call[c]
           y == agent[c]
<1>1. CallOK(x, y, rows, policy)
  BY DEF IInv
<1>2. /\ x \in ClientRecord /\ y \in AgentRecord /\ Begun(x, y) /\ Passed(x) /\ x.k # 0
      /\ Served(x.tool, x.k)
  BY <1>1 DEF CallOK, Begun, Handling, Working
<1>3. x.tool \in DOMAIN Tools /\ x.k \in 1..Len(Tools[x.tool].rpcs)
  BY <1>2, AtARequest
<1>4. Route(c) = HandlerAt(x.tool, x.k)
  BY RouteIs DEF HandlerFor
<1>5. ASSUME Route(c).does \in {"put", "rotate"}
      PROVE  x.ns \in Labels
  <2>1. IF IsMcp(x.tool) THEN Checked(x.tool, "bound") ELSE x.k = 2
    BY <1>2, <1>3, <1>4, <1>5, AtRequest
  <2> QED BY <1>2, <2>1 DEF Passed
<1>6. ASSUME Route(c).does \in {"rotate", "rollback"}
      PROVE  Subject(c) \in Labels /\ y.loaded \in [active : Labels, deks : SUBSET Labels]
  <2>1. Checked(x.tool, "handle") /\ ~OptionalHandle(x.tool)
    BY <1>2, <1>3, <1>4, <1>6, AtRequest
  <2>2. x.handle \in Labels /\ x.handle # None
    BY <1>2, <2>1, GatewayAssumption DEF Passed
  <2>3. Subject(c) = x.handle
    BY <2>2 DEF Subject
  <2>4. y.loaded # None /\ y.loaded \in Secrets
    BY <1>1, <1>2, <1>4, <1>6 DEF CallOK, Handling, HandlerFor, Working, AgentRecord
  <2> QED BY <2>2, <2>3, <2>4 DEF Secrets
<1> QED BY <1>5, <1>6

(* The handler does its work. *)
LEMMA ActStep ==
  ASSUME IInv, NEW c \in Calls, Act(c)
  PROVE  IInv'
<1> DEFINE x == call[c]
           y == agent[c]
<1>1. CallOK(x, y, rows, policy) /\ Recorded /\ VaultOK /\ BoundHasPolicy
  BY DEF IInv
<1>2. y.stage = "acting" /\ UNCHANGED <<session, rows, policy, up, crashes>>
  BY DEF Act
<1>3. ASSUME secret' \in [Labels -> Secrets], sealed' \in BOOLEAN,
             Recorded', \A d \in Calls : CallOK(call'[d], agent'[d], rows', policy')
      PROVE  IInv'
  BY <1>1, <1>2, <1>3 DEF IInv, VaultOK, BoundHasPolicy
<1>4. secret \in [Labels -> Secrets] /\ sealed \in BOOLEAN
  BY <1>1 DEF VaultOK
<1>5. CASE ActPut(c)
  <2>1. x.ns \in Labels /\ UNCHANGED sealed
    BY <1>2, <1>5, WriteLabels DEF ActPut
  <2>2. CASE secret[x.ns] # None
    <3>1. Respond(c, {500}) /\ UNCHANGED <<call, secret>>
      BY <1>5, <2>2 DEF ActPut
    <3>2. agent' = [agent EXCEPT ![c] = Answer(y, 500)] /\ call' = [call EXCEPT ![c] = x]
      <4>1. \E st \in {500} : agent' = [agent EXCEPT ![c] = Answer(y, st)]
        BY <1>1, <3>1, RespondIs
      <4> QED BY <1>1, <3>1, <4>1 DEF Recorded
    <3>3. 500 \in Int /\ Reply(x, 500, rows, policy)
      BY DEF Reply
    <3> HIDE DEF x, y
    <3>4. CallOK(x, Answer(y, 500), rows, policy)
      BY <1>1, <1>2, <3>3, HandlerAnswers
    <3>5. Recorded' /\ \A d \in Calls : CallOK(call'[d], agent'[d], rows', policy')
      BY <1>2, <3>2, <3>4, OneCall
    <3> QED BY <1>3, <1>4, <2>1, <3>1, <3>5
  <2>3. CASE secret[x.ns] = None
    <3>1. /\ secret' = [secret EXCEPT ![x.ns] = Own(x.ns)]
          /\ Route(c).does = "put" /\ Marks(c, Route(c).does) /\ agent' = After(c)
      BY <1>5, <2>3 DEF ActPut
    <3>2. secret' \in [Labels -> Secrets]
      BY <1>4, <2>1, <3>1 DEF Own, Secrets
    <3>3. Recorded' /\ \A d \in Calls : CallOK(call'[d], agent'[d], rows', policy')
      BY <1>2, <3>1, ActCall
    <3> QED BY <1>3, <1>4, <2>1, <3>2, <3>3
  <2> QED BY <2>2, <2>3
<1>6. CASE ActRotate(c)
  <2>1. /\ x.ns \in Labels /\ y.loaded \in [active : Labels, deks : SUBSET Labels]
    BY <1>2, <1>6, WriteLabels DEF ActRotate
  <2>2. [active |-> x.ns, deks |-> y.loaded.deks \cup {x.ns}] \in Secrets
    BY <2>1 DEF Secrets
  <2>3. secret' = [secret EXCEPT ![Subject(c)] = [active |-> x.ns, deks |-> y.loaded.deks \cup {x.ns}]]
    BY <1>6 DEF ActRotate
  <2>4. secret' \in [Labels -> Secrets]
    BY <1>4, <2>2, <2>3
  <2>5. /\ Route(c).does = "rotate" /\ Marks(c, Route(c).does) /\ agent' = After(c) /\ UNCHANGED sealed
    BY <1>6 DEF ActRotate
  <2>6. Recorded' /\ \A d \in Calls : CallOK(call'[d], agent'[d], rows', policy')
    BY <1>2, <2>5, ActCall
  <2> QED BY <1>3, <1>4, <2>4, <2>5, <2>6
<1>7. CASE ActRollback(c)
  <2>1. y.loaded \in [active : Labels, deks : SUBSET Labels]
    BY <1>2, <1>7, WriteLabels DEF ActRollback
  <2>2. PICK ns \in y.loaded.deks : secret' = [secret EXCEPT ![Subject(c)] = [y.loaded EXCEPT !.active = ns]]
    BY <1>7 DEF ActRollback
  <2>3. [y.loaded EXCEPT !.active = ns] \in Secrets
    BY <2>1, <2>2 DEF Secrets
  <2>4. secret' \in [Labels -> Secrets]
    BY <1>4, <2>2, <2>3
  <2>5. /\ Route(c).does = "rollback" /\ Marks(c, Route(c).does) /\ agent' = After(c) /\ UNCHANGED sealed
    BY <1>7 DEF ActRollback
  <2>6. Recorded' /\ \A d \in Calls : CallOK(call'[d], agent'[d], rows', policy')
    BY <1>2, <2>5, ActCall
  <2> QED BY <1>3, <1>4, <2>4, <2>5, <2>6
<1>8. CASE ActDelete(c)
  <2>1. secret' \in [Labels -> Secrets]
    BY <1>4, <1>8 DEF ActDelete, Secrets
  <2>2. /\ Route(c).does = "delete" /\ Marks(c, Route(c).does) /\ agent' = After(c) /\ UNCHANGED sealed
    BY <1>8 DEF ActDelete
  <2>3. Recorded' /\ \A d \in Calls : CallOK(call'[d], agent'[d], rows', policy')
    BY <1>2, <2>2, ActCall
  <2> QED BY <1>3, <1>4, <2>1, <2>2, <2>3
<1>9. CASE ActSeal(c)
  <2>1. /\ Route(c).does # "nothing" /\ Marks(c, Route(c).does) /\ agent' = After(c) /\ UNCHANGED secret
        /\ sealed' = (Route(c).does = "seal")
    BY <1>9 DEF ActSeal
  <2>2. Recorded' /\ \A d \in Calls : CallOK(call'[d], agent'[d], rows', policy')
    BY <1>2, <2>1, ActCall
  <2>3. sealed' \in BOOLEAN
    BY <2>1
  <2> QED BY <1>3, <1>4, <2>1, <2>2, <2>3
<1>10. CASE ActOther(c)
  <2>1. /\ IF Route(c).does = "nothing" THEN UNCHANGED call ELSE Marks(c, Route(c).does)
        /\ agent' = After(c) /\ UNCHANGED <<secret, sealed>>
    BY <1>10 DEF ActOther
  <2>2. Recorded' /\ \A d \in Calls : CallOK(call'[d], agent'[d], rows', policy')
    BY <1>2, <2>1, ActCall
  <2> QED BY <1>3, <1>4, <2>1, <2>2
<1> QED BY <1>5, <1>6, <1>7, <1>8, <1>9, <1>10 DEF Act


(* An entry that is not written is an answer that promises nothing. *)
LEMMA NotRecorded ==
  ASSUME IInv, NEW c \in Calls, agent[c].stage \in Working \cup Binding,
         Respond(c, IF sealed THEN {412} ELSE {500}), UNCHANGED call,
         UNCHANGED <<session, rows, policy, secret, sealed, up, crashes>>
  PROVE  IInv'
<1> DEFINE x == call[c]
           y == agent[c]
<1>1. CallOK(x, y, rows, policy) /\ Recorded
  BY DEF IInv
<1>2. y.stage \notin {"none", "answered"}
  BY DEF Working, Binding
<1> DEFINE statuses == IF sealed THEN {412} ELSE {500}
<1>6. \A st \in statuses : st \in {412, 500}
  OBVIOUS
<1> HIDE DEF statuses
<1>7. PICK st \in statuses : agent' = [agent EXCEPT ![c] = Answer(y, st)]
  BY <1>1, RespondIs DEF statuses
<1>3. call' = [call EXCEPT ![c] = x]
  BY <1>1 DEF Recorded
<1>4. st \in Int /\ Reply(x, st, rows, policy)
  BY <1>6 DEF Reply
<1> HIDE DEF x, y
<1>5. CallOK(x, Answer(y, st), rows, policy)
  BY <1>1, <1>2, <1>4, HandlerAnswers
<1> QED BY <1>3, <1>5, <1>7, OneCall, VaultStays DEF IInv

(* A record of the audit chain is appended, or refused by a sealed vault, or   *)
(* cannot be stored.                                                           *)
LEMMA AuditStep ==
  ASSUME IInv, NEW c \in Calls, Audit(c)
  PROVE  IInv'
<1> DEFINE x == call[c]
           y == agent[c]
<1>1. CallOK(x, y, rows, policy) /\ Recorded
  BY DEF IInv
<1>2. y.stage = "auditing" /\ y.stage \in Working \cup Binding /\ y \in AgentRecord
  BY <1>1 DEF Audit, Working, CallOK
<1>3. UNCHANGED <<session, rows, policy, secret, sealed, up, crashes>>
  BY DEF Audit
<1>4. Route(c) = HandlerFor(x)
  BY RouteIs
<1>7. \/ Respond(c, IF sealed THEN {412} ELSE {500}) /\ UNCHANGED call
      \/ /\ agent' = IF Route(c).audit = "before" THEN [agent EXCEPT ![c].stage = "acting"]
                     ELSE [agent EXCEPT ![c].stage = "answered", ![c].status = 200]
         /\ Marks(c, "audit")
  BY DEF Audit
<1>5. CASE Respond(c, IF sealed THEN {412} ELSE {500}) /\ UNCHANGED call
  BY <1>1, <1>2, <1>3, <1>5, NotRecorded
<1>6. CASE /\ agent' = IF Route(c).audit = "before" THEN [agent EXCEPT ![c].stage = "acting"]
                       ELSE [agent EXCEPT ![c].stage = "answered", ![c].status = 200]
           /\ Marks(c, "audit")
  <2> DEFINE x2 == WithMark(x, "audit")
             y2 == IF HandlerFor(x).audit = "before" THEN Moved(y, "acting") ELSE Answer(y, 200)
  <2>1. call' = [call EXCEPT ![c] = x2]
    BY <1>1, <1>6 DEF Marks, WithMark, Recorded
  <2>2. agent' = [agent EXCEPT ![c] = y2]
    BY <1>1, <1>4, <1>6 DEF Moved, Answer, Recorded
  <2>3. "audit" \in Effects /\ MayMark(x, "audit", policy)
    BY DEF Effects, MayMark
  <2> HIDE DEF x, y
  <2>4. /\ CallOK(x2, y, rows, policy) /\ HandlerFor(x2) = HandlerFor(x)
        /\ <<x2.k, "audit">> \in x2.did
    BY <1>1, <1>2, <2>3, HandlerMarks
  <2> HIDE DEF x2
  <2>5. /\ Served(x2.tool, x2.k) /\ HandlerFor(x2).does # "bind"
        /\ HandlerFor(x2).audit \in {"before", "after"}
        /\ HandlerFor(x2).audit = "after" /\ HandlerFor(x2).does # "nothing" =>
             <<x2.k, HandlerFor(x2).does>> \in x2.did
        /\ HandlerFor(x2).does \in {"rotate", "rollback"} => y.loaded # None
    BY <1>2, <2>4 DEF CallOK, Handling, Working
  <2>6. CASE HandlerFor(x2).audit = "before"
    <3> DEFINE z == Moved(y, "acting")
    <3>1. z \in AgentRecord /\ z.stage = "acting" /\ z.loaded = y.loaded
      BY <1>2 DEF AgentRecord, Moved, Working
    <3> HIDE DEF z
    <3>2. Handling(x2, z)
      BY <2>4, <2>5, <2>6, <3>1 DEF Handling, Working, Binding
    <3>3. BindHandling(x2, z, rows, policy)
      BY <2>4, <3>1 DEF CallOK, BindHandling
    <3>4. CallOK(x2, z, rows, policy)
      BY <1>2, <2>4, <3>1, <3>2, <3>3, HandlerMoves
    <3>5. y2 = z
      BY <2>4, <2>6 DEF z
    <3> HIDE DEF y2
    <3> QED BY <1>3, <2>1, <2>2, <3>4, <3>5, OneCall, VaultStays DEF IInv
  <2>7. CASE HandlerFor(x2).audit = "after"
    <3>1. Complete(x2, x2.k)
      BY <2>4, <2>5, <2>7 DEF Complete, HandlerFor
    <3>2. 200 \in Int /\ Reply(x2, 200, rows, policy)
      BY <2>5, <3>1 DEF Reply
    <3>3. CallOK(x2, Answer(y, 200), rows, policy)
      BY <1>2, <2>4, <3>2, HandlerAnswers
    <3>4. y2 = Answer(y, 200)
      BY <2>4, <2>7
    <3> HIDE DEF y2
    <3> QED BY <1>3, <2>1, <2>2, <3>3, <3>4, OneCall, VaultStays DEF IInv
  <2> QED BY <2>5, <2>6, <2>7
<1> QED BY <1>5, <1>6, <1>7

(* What is known of a bind under way. *)
LEMMA BindKnows ==
  ASSUME NEW x, NEW y, NEW R, NEW P, CallOK(x, y, R, P), y.stage \in Binding
  PROVE  /\ x \in ClientRecord /\ y \in AgentRecord
         /\ Served(x.tool, x.k) /\ HandlerFor(x).does = "bind" /\ HandlerFor(x).audit = "none"
         /\ x.k = 1 /\ LabelOf(x) \in Labels
<1>1. /\ x \in ClientRecord /\ y \in AgentRecord /\ Begun(x, y) /\ Passed(x) /\ x.k # 0
      /\ Served(x.tool, x.k) /\ HandlerFor(x).does = "bind"
  BY DEF CallOK, Begun, Handling, Binding
<1>2. HandlerSound(HandlerFor(x))
  BY <1>1, AtARequest, AtRequest DEF HandlerFor
<1> QED BY <1>1, <1>2, BoundIsLabel DEF HandlerSound

(* The bind goes on to its next stage. *)
LEMMA BindMoves ==
  ASSUME NEW x, NEW y, NEW R, NEW P, CallOK(x, y, R, P), y.stage \in Binding,
         NEW stage \in Binding,
         stage \in {"defaulting", "healing"} => LabelOf(x) \in R,
         stage \in {"recording", "gating"} => Settled(x, R, P)
  PROVE  CallOK(x, Moved(y, stage), R, P)
<1> DEFINE z == Moved(y, stage)
<1>1. y \in AgentRecord /\ Served(x.tool, x.k) /\ HandlerFor(x).does = "bind"
  BY BindKnows
<1>2. z \in AgentRecord /\ z.stage = stage
  BY <1>1 DEF AgentRecord, Moved
<1> HIDE DEF z
<1>3. Handling(x, z)
  BY <1>1, <1>2 DEF Handling, Working, Binding
<1>4. BindHandling(x, z, R, P)
  BY <1>2 DEF CallOK, BindHandling
<1>5. CallOK(x, z, R, P)
  BY <1>2, <1>3, <1>4, HandlerMoves DEF Binding
<1> QED BY <1>5 DEF z

(* A bind looks for its namespace. *)
LEMMA FindStep ==
  ASSUME IInv, NEW c \in Calls, Find(c)
  PROVE  IInv'
<1> DEFINE x == call[c]
           y == agent[c]
           stage == CASE LabelOf(x) \notin rows -> "storing"
                      [] LabelOf(x) \in rows /\ policy[LabelOf(x)] = "none" -> "healing"
                      [] OTHER -> "gating"
<1>1. CallOK(x, y, rows, policy) /\ Recorded /\ Bound(c) = LabelOf(x)
  BY RouteIs DEF IInv
<1>2. y.stage \in Binding
  BY DEF Find, Binding
<1>3. UNCHANGED <<session, rows, policy, secret, sealed, up, crashes>>
  BY DEF Find
<1>4. call' = [call EXCEPT ![c] = x]
  BY <1>1 DEF Find, Recorded
<1>5. agent' = [agent EXCEPT ![c] = Moved(y, stage)]
  <2>1. agent' = [agent EXCEPT ![c].stage = stage]
    BY <1>1 DEF Find
  <2> HIDE DEF stage
  <2> QED BY <1>1, <2>1 DEF Recorded, Moved
<1>6. /\ stage \in {"storing", "healing", "gating"}
      /\ stage = "healing" => LabelOf(x) \in rows
      /\ stage = "gating" => LabelOf(x) \in rows /\ policy[LabelOf(x)] # "none"
  <2> HIDE DEF x
  <2>1. CASE LabelOf(x) \notin rows
    BY <2>1
  <2>2. CASE LabelOf(x) \in rows /\ policy[LabelOf(x)] = "none"
    BY <2>2
  <2>3. CASE LabelOf(x) \in rows /\ policy[LabelOf(x)] # "none"
    BY <2>3
  <2> QED BY <2>1, <2>2, <2>3
<1> HIDE DEF x, y, stage
<1>7. CallOK(x, Moved(y, stage), rows, policy)
  BY <1>1, <1>2, <1>6, BindMoves DEF Binding, Settled
<1> QED BY <1>3, <1>4, <1>5, <1>7, OneCall, VaultStays DEF IInv

(* A step of one call by which the vault grows. *)
LEMMA OneCallGrows ==
  ASSUME IInv, NEW c \in Calls, NEW x, NEW y, CallOK(x, y, rows', policy'),
         call' = [call EXCEPT ![c] = x], agent' = [agent EXCEPT ![c] = y],
         rows \subseteq rows',
         \A ns \in Labels : policy[ns] # "none" => policy'[ns] # "none",
         \A ns \in Labels : policy[ns] # "closed" => policy'[ns] # "closed"
  PROVE  /\ Recorded'
         /\ \A d \in Calls : CallOK(call'[d], agent'[d], rows', policy')
<1>1. /\ call \in [Calls -> ClientRecord] /\ agent \in [Calls -> AgentRecord]
      /\ \A d \in Calls : CallOK(call[d], agent[d], rows, policy)
  BY DEF IInv, Recorded
<1>2. \A d \in Calls : CallOK(call[d], agent[d], rows', policy')
  BY <1>1, VaultGrows
<1>3. call'[c] = x /\ agent'[c] = y
  BY <1>1
<1>4. \A d \in Calls \ {c} : call'[d] = call[d] /\ agent'[d] = agent[d]
  BY <1>1
<1>5. x \in ClientRecord /\ y \in AgentRecord
  BY DEF CallOK
<1>6. call' \in [Calls -> ClientRecord] /\ agent' \in [Calls -> AgentRecord]
  BY <1>1, <1>5
<1> QED BY <1>2, <1>3, <1>4, <1>6 DEF Recorded

(* A bind stores its namespace, or finds that another one just did. *)
LEMMA StoreStep ==
  ASSUME IInv, NEW c \in Calls, put_namespace(c)
  PROVE  IInv'
<1> DEFINE x == call[c]
           y == agent[c]
<1>1. /\ CallOK(x, y, rows, policy) /\ Recorded /\ VaultOK /\ BoundHasPolicy
      /\ Bound(c) = LabelOf(x)
  BY RouteIs DEF IInv
<1>2. y.stage = "storing" /\ y.stage \in Binding /\ y.stage \in Working \cup Binding
  BY DEF put_namespace, Binding
<1>3. UNCHANGED <<session, policy, secret, sealed, up, crashes>>
  BY DEF put_namespace
<1>4. CASE LabelOf(x) \in rows
  <2>1. Respond(c, {500}) /\ UNCHANGED <<call, rows>>
    BY <1>1, <1>4 DEF put_namespace
  <2>2. agent' = [agent EXCEPT ![c] = Answer(y, 500)] /\ call' = [call EXCEPT ![c] = x]
    <3>1. \E st \in {500} : agent' = [agent EXCEPT ![c] = Answer(y, st)]
      BY <1>1, <2>1, RespondIs
    <3> QED BY <1>1, <2>1, <3>1 DEF Recorded
  <2>3. 500 \in Int /\ Reply(x, 500, rows, policy)
    BY DEF Reply
  <2> HIDE DEF x, y
  <2>4. CallOK(x, Answer(y, 500), rows, policy)
    BY <1>1, <1>2, <2>3, HandlerAnswers
  <2>5. UNCHANGED <<session, rows, policy, secret, sealed, up, crashes>>
    BY <1>3, <2>1
  <2>6. Recorded' /\ \A d \in Calls : CallOK(call'[d], agent'[d], rows', policy')
    BY <2>2, <2>4, <2>5, OneCall
  <2> QED BY <2>5, <2>6, VaultStays DEF IInv
<1>5. CASE LabelOf(x) \notin rows
  <2> DEFINE x2 == WithMark(x, "row")
  <2>1. rows' = rows \cup {LabelOf(x)}
    BY <1>1, <1>5 DEF put_namespace
  <2>2. call' = [call EXCEPT ![c] = x2]
    BY <1>1, <1>5 DEF put_namespace, Marks, WithMark, Recorded
  <2>3. agent' = [agent EXCEPT ![c] = Moved(y, "defaulting")]
    BY <1>1, <1>5 DEF put_namespace, Moved, Recorded
  <2> HIDE DEF x, y
  <2>4. LabelOf(x) \in Labels /\ HandlerFor(x).does = "bind"
    BY <1>1, <1>2, BindKnows
  <2>5. policy[LabelOf(x)] # "closed"
    BY <1>1, <1>5, <2>4 DEF VaultOK
  <2>6. "row" \in Effects
    BY DEF Effects
  <2>7. CallOK(x2, y, rows, policy) /\ LabelOf(x2) = LabelOf(x)
    <3>1. CallOK(x, y, rows, policy) /\ y.stage \in Working \cup Binding
      BY <1>1, <1>2
    <3>2. MayMark(x, "row", policy)
      BY <2>4, <2>5 DEF MayMark
    <3> QED BY <2>6, <3>1, <3>2, HandlerMarks
  <2> HIDE DEF x2
  <2>8. rows \subseteq rows' /\ policy' = policy /\ LabelOf(x2) \in rows'
    BY <1>3, <2>1, <2>7
  <2>9. CallOK(x2, y, rows', policy')
    BY <2>7, <2>8, VaultGrows
  <2>10. CallOK(x2, Moved(y, "defaulting"), rows', policy')
    BY <1>2, <2>8, <2>9, BindMoves DEF Binding
  <2>11. Recorded' /\ \A d \in Calls : CallOK(call'[d], agent'[d], rows', policy')
    BY <2>2, <2>3, <2>8, <2>10, OneCallGrows
  <2>12. VaultOK'
    BY <1>1, <1>3, <2>1, <2>4 DEF VaultOK
  <2>13. BoundHasPolicy'
    BY <1>1, <1>3, <2>1 DEF BoundHasPolicy
  <2> QED BY <2>11, <2>12, <2>13 DEF IInv
<1> QED BY <1>4, <1>5

(* A bind gives its namespace the default policy. *)
LEMMA PolicyStep ==
  ASSUME IInv, NEW c \in Calls, put_namespace_policy(c)
  PROVE  IInv'
<1> DEFINE x == call[c]
           y == agent[c]
           stage == IF y.stage = "healing" THEN "gating" ELSE "recording"
<1>1. /\ CallOK(x, y, rows, policy) /\ Recorded /\ VaultOK /\ BoundHasPolicy
      /\ Bound(c) = LabelOf(x)
  BY RouteIs DEF IInv
<1>2. y.stage \in {"healing", "defaulting"} /\ y.stage \in Binding
  BY DEF put_namespace_policy, Binding
<1>3. UNCHANGED <<session, rows, secret, sealed, up, crashes>>
  BY DEF put_namespace_policy
<1>4. policy' = [policy EXCEPT ![LabelOf(x)] = "open"]
  BY <1>1 DEF put_namespace_policy
<1>5. call' = [call EXCEPT ![c] = x]
  BY <1>1 DEF put_namespace_policy, Recorded
<1>6. agent' = [agent EXCEPT ![c] = Moved(y, stage)]
  BY <1>1 DEF put_namespace_policy, Moved, Recorded
<1>7. stage \in {"gating", "recording"} /\ stage \in Binding
  BY DEF Binding
<1> HIDE DEF x, y, stage
<1>8. LabelOf(x) \in Labels /\ LabelOf(x) \in rows
  BY <1>1, <1>2, BindKnows DEF CallOK, BindHandling
<1>9. policy \in [Labels -> {"none", "open", "closed"}]
  BY <1>1 DEF VaultOK
<1>10. /\ policy' \in [Labels -> {"none", "open", "closed"}] /\ policy'[LabelOf(x)] = "open"
       /\ \A ns \in Labels : policy[ns] # "none" => policy'[ns] # "none"
       /\ \A ns \in Labels : policy[ns] # "closed" => policy'[ns] # "closed"
       /\ rows \subseteq rows'
  BY <1>3, <1>4, <1>8, <1>9
<1>11. CallOK(x, y, rows', policy')
  BY <1>1, <1>10, VaultGrows
<1>12. Settled(x, rows', policy')
  BY <1>3, <1>8, <1>10 DEF Settled
<1>13. CallOK(x, Moved(y, stage), rows', policy')
  BY <1>2, <1>7, <1>11, <1>12, BindMoves
<1>14. Recorded' /\ \A d \in Calls : CallOK(call'[d], agent'[d], rows', policy')
  BY <1>5, <1>6, <1>10, <1>13, OneCallGrows
<1>15. VaultOK'
  BY <1>1, <1>3, <1>10 DEF VaultOK
<1>16. BoundHasPolicy'
  BY <1>1, <1>3, <1>10 DEF BoundHasPolicy, VaultOK
<1> QED BY <1>14, <1>15, <1>16 DEF IInv

(* A bind is recorded, or refused by a vault sealed meanwhile, or cannot be    *)
(* recorded.                                                                   *)
LEMMA RecordBindStep ==
  ASSUME IInv, NEW c \in Calls, RecordBind(c)
  PROVE  IInv'
<1> DEFINE x == call[c]
           y == agent[c]
<1>1. CallOK(x, y, rows, policy) /\ Recorded
  BY DEF IInv
<1>2. y.stage = "recording" /\ y.stage \in Binding /\ y.stage \in Working \cup Binding
  BY DEF RecordBind, Binding
<1>3. UNCHANGED <<session, rows, policy, secret, sealed, up, crashes>>
  BY DEF RecordBind
<1>6. \/ Respond(c, IF sealed THEN {412} ELSE {500}) /\ UNCHANGED call
      \/ agent' = [agent EXCEPT ![c].stage = "gating"] /\ Marks(c, "audit")
  BY DEF RecordBind
<1>4. CASE Respond(c, IF sealed THEN {412} ELSE {500}) /\ UNCHANGED call
  BY <1>1, <1>2, <1>3, <1>4, NotRecorded
<1>5. CASE agent' = [agent EXCEPT ![c].stage = "gating"] /\ Marks(c, "audit")
  <2> DEFINE x2 == WithMark(x, "audit")
  <2>1. call' = [call EXCEPT ![c] = x2]
    BY <1>1, <1>5 DEF Marks, WithMark, Recorded
  <2>2. agent' = [agent EXCEPT ![c] = Moved(y, "gating")]
    BY <1>1, <1>5 DEF Moved, Recorded
  <2>3. "audit" \in Effects /\ MayMark(x, "audit", policy) /\ "gating" \in Binding
    BY DEF Effects, MayMark, Binding
  <2> HIDE DEF x, y
  <2>4. CallOK(x2, y, rows, policy)
    BY <1>1, <1>2, <2>3, HandlerMarks
  <2> HIDE DEF x2
  <2>5. Settled(x2, rows, policy)
    BY <1>2, <2>4 DEF CallOK, BindHandling
  <2>6. CallOK(x2, Moved(y, "gating"), rows, policy)
    BY <1>2, <2>3, <2>4, <2>5, BindMoves
  <2> QED BY <1>3, <2>1, <2>2, <2>6, OneCall, VaultStays DEF IInv
<1> QED BY <1>4, <1>5, <1>6

(* The consumer list lets a bind through, or refuses it: only a namespace that *)
(* was there before can be closed, so a refused bind has stored nothing.       *)
LEMMA GateStep ==
  ASSUME IInv, NEW c \in Calls, GateBind(c)
  PROVE  IInv'
<1> DEFINE x == call[c]
           y == agent[c]
<1>1. CallOK(x, y, rows, policy) /\ Recorded /\ Bound(c) = LabelOf(x)
  BY RouteIs DEF IInv
<1>2. y.stage = "gating" /\ y.stage \in Binding /\ y.stage \in Working \cup Binding
  BY DEF GateBind, Binding
<1>3. UNCHANGED <<session, rows, policy, secret, sealed, up, crashes>>
  BY DEF GateBind
<1>4. CASE Open(LabelOf(x))
  <2> DEFINE x2 == WithMark(x, "bind")
  <2>1. Respond(c, {201}) /\ Marks(c, "bind")
    BY <1>1, <1>4 DEF GateBind
  <2>2. call' = [call EXCEPT ![c] = x2]
    BY <1>1, <2>1 DEF Marks, WithMark, Recorded
  <2>3. agent' = [agent EXCEPT ![c] = Answer(y, 201)]
    <3>1. \E st \in {201} : agent' = [agent EXCEPT ![c] = Answer(y, st)]
      BY <1>1, <2>1, RespondIs
    <3> QED BY <3>1
  <2>4. "bind" \in Effects
    BY DEF Effects
  <2> HIDE DEF x, y
  <2>5. MayMark(x, "bind", policy)
    BY <1>1, <1>2, BindKnows DEF MayMark
  <2>6. CallOK(x2, y, rows, policy) /\ <<x2.k, "bind">> \in x2.did
    BY <1>1, <1>2, <2>4, <2>5, HandlerMarks
  <2> HIDE DEF x2
  <2>7. Settled(x2, rows, policy)
    BY <1>2, <2>6 DEF CallOK, BindHandling
  <2>8. Served(x2.tool, x2.k) /\ HandlerFor(x2).does = "bind" /\ HandlerFor(x2).audit = "none"
    BY <1>2, <2>6, BindKnows
  <2>9. Complete(x2, x2.k)
    BY <2>6, <2>8 DEF Complete, HandlerFor
  <2>10. 201 \in Int /\ Reply(x2, 201, rows, policy)
    BY <2>7, <2>9 DEF Reply
  <2>11. CallOK(x2, Answer(y, 201), rows, policy)
    BY <1>2, <2>6, <2>10, HandlerAnswers
  <2> QED BY <1>3, <2>2, <2>3, <2>11, OneCall, VaultStays DEF IInv
<1>5. CASE ~Open(LabelOf(x))
  <2>1. Respond(c, {403}) /\ UNCHANGED call
    BY <1>1, <1>5 DEF GateBind
  <2>2. agent' = [agent EXCEPT ![c] = Answer(y, 403)] /\ call' = [call EXCEPT ![c] = x]
    <3>1. \E st \in {403} : agent' = [agent EXCEPT ![c] = Answer(y, st)]
      BY <1>1, <2>1, RespondIs
    <3> QED BY <1>1, <2>1, <3>1 DEF Recorded
  <2>3. policy[LabelOf(x)] = "closed"
    BY <1>5 DEF Open
  <2> HIDE DEF x, y
  <2>4. HandlerFor(x).does = "bind" /\ x.k = 1
    BY <1>1, <1>2, BindKnows
  <2>5. <<1, "row">> \notin x.did
    BY <1>1, <2>3 DEF CallOK, BindHandling
  <2>6. Clean(x)
    <3> SUFFICES ASSUME NEW j \in 1..2, NEW e \in Durable, <<j, e>> \in x.did
                 PROVE  FALSE
      BY DEF Clean
    <3>1. e \in Effects /\ e \notin {"audit", "bind"}
      BY DEF Durable
    <3>2. j = 1
      BY <1>1, <2>4, <3>1 DEF CallOK, Marked
    <3>3. e # "row"
      BY <2>5, <3>2
    <3>4. e = HandlerAt(x.tool, j).does
      BY <1>1, <3>1, <3>3 DEF CallOK, Marked
    <3> QED BY <2>4, <3>1, <3>2, <3>4 DEF HandlerFor
  <2>7. 403 \in Int /\ Reply(x, 403, rows, policy)
    BY <2>6 DEF Reply
  <2>8. CallOK(x, Answer(y, 403), rows, policy)
    BY <1>1, <1>2, <2>7, HandlerAnswers
  <2> QED BY <1>3, <2>2, <2>8, OneCall, VaultStays DEF IInv
<1> QED BY <1>4, <1>5

(* Every handler is gone when the agent stops. *)
LEMMA CrashStep ==
  ASSUME IInv, Crash
  PROVE  IInv'
<1>1. /\ VaultOK /\ BoundHasPolicy /\ call \in [Calls -> ClientRecord]
      /\ \A c \in Calls : CallOK(call[c], agent[c], rows, policy)
  BY DEF IInv, Recorded
<1>2. /\ UNCHANGED <<session, call, rows, policy, secret>>
      /\ up' = FALSE /\ sealed' = TRUE /\ crashes < MaxCrashes /\ crashes' = crashes + 1
      /\ agent' = [c \in Calls |-> NoHandler]
  BY DEF Crash
<1>3. ASSUME NEW c \in Calls
      PROVE  CallOK(call'[c], agent'[c], rows', policy')
  <2>1. agent'[c] = NoHandler
    BY <1>2
  <2>2. CallOK(call[c], NoHandler, rows, policy)
    BY <1>1, HandlerGone
  <2> QED BY <1>2, <2>1, <2>2
<1>4. crashes' \in 0..MaxCrashes
  BY <1>1, <1>2, GatewayAssumption DEF VaultOK
<1>5. VaultOK' /\ BoundHasPolicy'
  BY <1>1, <1>2, <1>4 DEF VaultOK, BoundHasPolicy
<1>6. Recorded'
  <2>1. NoHandler \in AgentRecord
    BY DEF NoHandler, AgentRecord, Secrets
  <2> QED BY <1>1, <1>2, <2>1 DEF Recorded
<1> QED BY <1>3, <1>5, <1>6 DEF IInv

(* Every step keeps the invariant. *)
LEMMA NextStep == IInv /\ [Next]_vars => IInv'
<1> SUFFICES ASSUME IInv, [Next]_vars
             PROVE  IInv'
  OBVIOUS
<1>1. ASSUME NEW c \in Calls, Call(c) \/ ClientStep(c) \/ HandlerStep(c) \/ Drop(c)
      PROVE  IInv'
  <2>1. CASE Call(c) \/ Drop(c)
    BY <2>1, BeginStep, DropStep
  <2>2. CASE ClientStep(c)
    BY <2>2, SendStep, TimeoutStep, ReceiveStep, DecodeStep, GarbledStep DEF ClientStep
  <2>3. CASE HandlerStep(c)
    BY <2>3, ServeStep, ActStep, AuditStep, FindStep, StoreStep, PolicyStep, RecordBindStep, GateStep,
       DeliverStep DEF HandlerStep, Bind
  <2> QED BY <1>1, <2>1, <2>2, <2>3
<1>2. CASE Restart
  BY <1>2 DEF Restart, IInv, VaultOK, BoundHasPolicy, Recorded
<1>3. CASE UNCHANGED vars
  BY <1>3 DEF vars, IInv, VaultOK, BoundHasPolicy, Recorded
<1> QED BY <1>1, <1>2, <1>3, CrashStep DEF Next, Terminating

(* The invariant holds in every behaviour of the clients and the agent,        *)
(* whatever the interleaving of calls, the timeouts and the crashes.           *)
THEOREM Invariance == Spec => []IInv
BY InitInv, NextStep, PTL DEF Spec

(* create_session and vault_bind: a session is only ever bound to a namespace  *)
(* that is stored and has a policy, and every stored namespace has a label     *)
(* NamespaceLabel accepts, also when the agent stops inside a bind.            *)
THEOREM BindingIsSound == Spec => []BindingSound
<1>1. IInv => BindingSound
  <2> SUFFICES ASSUME IInv
               PROVE  BindingSound
    OBVIOUS
  <2>1. VaultOK /\ BoundHasPolicy /\ Recorded
    BY DEF IInv
  <2>2. ASSUME NEW c \in Calls
        PROVE  /\ call[c].stage \in {"idle", "ready", "sent", "reading", "received", "done"}
               /\ call[c].did \subseteq (1..2) \X Effects
               /\ agent[c].stage \in {"none", "serving", "acting", "auditing", "looking", "storing",
                                      "defaulting", "healing", "recording", "gating", "answered"}
    <3>1. call[c] \in ClientRecord /\ agent[c] \in AgentRecord
      BY <2>1 DEF Recorded
    <3> QED BY <3>1 DEF ClientRecord, AgentRecord, Working, Binding
  <2>3. \A ns \in rows : ns = DefaultSession \/ IsLabel(ns)
    <3>1. \A raw \in Raws : Label(raw) = DefaultSession \/ IsLabel(Label(raw))
      BY DEF Label
    <3> QED BY <2>1, <3>1 DEF VaultOK, Labels
  <2> QED BY <2>1, <2>2, <2>3 DEF BindingSound, TypeOK, VaultOK
<1> QED BY <1>1, Invariance, PTL

(* The slash-command check of the tools and --confirm of the CLI: a delete, a  *)
(* rollback and a new audit baseline, and over MCP a reveal, are only ever     *)
(* done in a call the operator confirmed.                                      *)
THEOREM ConfirmedOnlySafety == Spec => []ConfirmedOnly
<1>1. IInv => ConfirmedOnly
  <2> SUFFICES ASSUME IInv, NEW c \in Calls, NEW k \in 1..2, NEW e \in Effects, <<k, e>> \in call[c].did
               PROVE  /\ e \in {"delete", "rollback", "baseline"} => call[c].confirm
                      /\ IsMcp(call[c].tool) /\ e = "reveal" => call[c].confirm
    BY DEF ConfirmedOnly, Effects
  <2> DEFINE x == call[c]
             y == agent[c]
  <2>1. CallOK(x, y, rows, policy)
    BY DEF IInv
  <2> HIDE DEF x, y
  <2>2. /\ k <= x.k /\ Served(x.tool, k)
        /\ e = HandlerAt(x.tool, k).does \/ e \in {"audit", "row"}
    BY <2>1 DEF CallOK, Marked, x
  <2>3. x \in ClientRecord /\ y \in AgentRecord /\ Begun(x, y) /\ Passed(x) /\ x.k # 0
    BY <2>1, <2>2 DEF CallOK, ClientRecord
  <2>4. x.tool \in DOMAIN Tools /\ k \in 1..Len(Tools[x.tool].rpcs)
    BY <2>2, <2>3, AtARequest
  <2>5. Checked(x.tool, "confirmed") => x.confirm
    BY <2>3 DEF Passed
  <2>6. /\ e \in {"delete", "rollback", "baseline"} => Checked(x.tool, "confirmed")
        /\ IsMcp(x.tool) /\ e = "reveal" => Checked(x.tool, "confirmed")
    BY <2>2, <2>4, AtRequest
  <2> QED BY <2>5, <2>6 DEF x
<1> QED BY <1>1, Invariance, PTL

(* The answer of every tool and command: refused, the call changed nothing     *)
(* that lasts; OK, each of its requests did its work and recorded it where     *)
(* its handler records.                                                        *)
THEOREM AnswersAreTruthful == Spec => []AnswerIsTruthful
<1>1. IInv => AnswerIsTruthful
  <2> SUFFICES ASSUME IInv
               PROVE  AnswerIsTruthful
    OBVIOUS
  <2>1. ASSUME NEW c \in Calls, call[c].stage = "done", call[c].code \in Refusals
        PROVE  \A k \in 1..2 : \A e \in Durable : <<k, e>> \notin call[c].did
    BY <2>1 DEF IInv, CallOK, Told, Clean
  <2>2. ASSUME NEW c \in Calls, call[c].stage = "done", call[c].code = "OK",
               NEW k \in DOMAIN Tools[call[c].tool].rpcs
        PROVE  /\ HandlerOf(Requests[Tools[call[c].tool].rpcs[k]]).does # "nothing" =>
                    <<k, HandlerOf(Requests[Tools[call[c].tool].rpcs[k]]).does>> \in call[c].did
               /\ HandlerOf(Requests[Tools[call[c].tool].rpcs[k]]).audit # "none" =>
                    <<k, "audit">> \in call[c].did
    <3> DEFINE x == call[c]
    <3>1. CallOK(x, agent[c], rows, policy)
      BY DEF IInv
    <3>2. x.tool \in DOMAIN Tools
      BY <2>2, <3>1 DEF CallOK, Begun
    <3>3. k \in 1..Len(Tools[x.tool].rpcs)
      BY <3>2, ToolIsSound DEF ToolSound, Typed
    <3>4. Complete(x, k)
      BY <2>2, <3>1, <3>3 DEF CallOK, Told
    <3> QED BY <3>4 DEF Complete, HandlerAt
  <2> HIDE DEF HandlerOf, Requests, Tools
  <2> QED BY <2>1, <2>2, Zenon DEF AnswerIsTruthful
<1> QED BY <1>1, Invariance, PTL
=============================================================================
