---------------------------- MODULE MCPlatform ----------------------------
(***************************************************************************)
(* The other parts of the operator, of the dashboard and of the relay, each*)
(* by itself: these modules share no variable, so every behaviour is one of*)
(* a single component and the others stay as they start.                   *)
(***************************************************************************)
EXTENDS DatabaseBackups, ComputeDrivers, ProjectMaking, PrEnvironments, ApiTokens, SchemaMigration, MailRelay, Webhooks, SsoSessions, Builds, ServiceAbuse

CONSTANT Moving  \* the components that move
VARIABLE part    \* the one that moves in this behaviour

(* Every component starts as it does by itself; one that does not move     *)
(* starts in one fixed state.                                              *)
PlatformInit ==
    /\ part \in Moving
    /\ BackupsInit
    /\ DriversInit
    /\ MakingInit
    /\ PrInit
    /\ TokensInit
    /\ SchemaInit
    /\ MailInit
    /\ HooksInit
    /\ SsoInit
    /\ BuildsInit
    /\ AbuseInit
    /\ part # "DatabaseBackups" => backupKind = CHOOSE k \in BackupKinds : TRUE
    /\ part # "ComputeDrivers" => cloud = CHOOSE c \in Clouds : TRUE
    /\ part # "ProjectMaking" => \A m \in Maker : maker[m].kind = "create" /\ ~maker[m].platform
    /\ part # "ServiceAbuse" => abuseOn.suspends

PlatformNext ==
    /\ UNCHANGED part
    /\ \/ part = "DatabaseBackups" /\ BackupsNext
          /\ UNCHANGED <<driverVars, makingVars, prVars, tokenVars, schemaVars, mailVars, hookVars, ssoVars, buildVars, abuseVars>>
       \/ part = "ComputeDrivers" /\ DriversNext
          /\ UNCHANGED <<backupVars, makingVars, prVars, tokenVars, schemaVars, mailVars, hookVars, ssoVars, buildVars, abuseVars>>
       \/ part = "ProjectMaking" /\ MakingNext
          /\ UNCHANGED <<backupVars, driverVars, prVars, tokenVars, schemaVars, mailVars, hookVars, ssoVars, buildVars, abuseVars>>
       \/ part = "PrEnvironments" /\ PrNext
          /\ UNCHANGED <<backupVars, driverVars, makingVars, tokenVars, schemaVars, mailVars, hookVars, ssoVars, buildVars, abuseVars>>
       \/ part = "ApiTokens" /\ TokensNext
          /\ UNCHANGED <<backupVars, driverVars, makingVars, prVars, schemaVars, mailVars, hookVars, ssoVars, buildVars, abuseVars>>
       \/ part = "SchemaMigration" /\ SchemaNext
          /\ UNCHANGED <<backupVars, driverVars, makingVars, prVars, tokenVars, mailVars, hookVars, ssoVars, buildVars, abuseVars>>
       \/ part = "MailRelay" /\ MailNext
          /\ UNCHANGED <<backupVars, driverVars, makingVars, prVars, tokenVars, schemaVars, hookVars, ssoVars, buildVars, abuseVars>>
       \/ part = "Webhooks" /\ HooksNext
          /\ UNCHANGED <<backupVars, driverVars, makingVars, prVars, tokenVars, schemaVars, mailVars, ssoVars, buildVars, abuseVars>>
       \/ part = "SsoSessions" /\ SsoNext
          /\ UNCHANGED <<backupVars, driverVars, makingVars, prVars, tokenVars, schemaVars, mailVars, hookVars, buildVars, abuseVars>>
       \/ part = "Builds" /\ BuildsNext
          /\ UNCHANGED <<backupVars, driverVars, makingVars, prVars, tokenVars, schemaVars, mailVars, hookVars, ssoVars, abuseVars>>
       \/ part = "ServiceAbuse" /\ AbuseNext
          /\ UNCHANGED <<backupVars, driverVars, makingVars, prVars, tokenVars, schemaVars, mailVars, hookVars, ssoVars, buildVars>>

PlatformSpec == PlatformInit /\ [][PlatformNext]_<<part, backupVars, driverVars, makingVars, prVars, tokenVars, schemaVars, mailVars, hookVars, ssoVars, buildVars, abuseVars>>
=============================================================================
