SPECIFICATION PlatformSpec
CONSTANTS
    Moving = {"DatabaseBackups", "ComputeDrivers", "ProjectMaking", "PrEnvironments", "ApiTokens", "SchemaMigration", "MailRelay", "Webhooks", "SsoSessions", "Builds", "ServiceAbuse"}
    BackupKinds = {"Continuous", "Snapshot"}
    MaxArchives = 2
    MaxEdits = 3
    BackupHappens = {}
    Clouds = {"hetzner", "aws", "azure", "gcp", "scaleway", "upcloud", "linode", "vultr", "digitalocean", "digitalocean-named", "oci", "ovhcloud", "webhook"}
    Lives = 2
    MaxMachines = 3
    DriverHappens = {}
    Maker = {1, 2}
    MaxProjects = 1
    Parts = 2
    MakingHappens = {"emptied", "assigned"}
    Repo = {"x"}
    Number = {1, 2}
    MaxOpen = 1
    Pieces = 2
    Handler = {1, 2}
    PrHappens = {}
    Request = {r1, r2, r3}
    MaxTokens = 2
    MaxTokensPerOrg = 1
    TokenHappens = {}
    Operator = {o1, o2, o3}
    MaxLevel = 2
    SchemaHappens = {}
    Conn = {c1, c2, c3}
    MailWindow = {1, 2}
    MaxClock = 2
    MaxMail = 2
    MaxSessions = 2
    MailHappens = {}
    Hook = {h1, h2, h3}
    MaxHooks = 2
    MaxAttempts = 2
    MaxConcurrent = 1
    MaxDeliveries = 2
    HookHappens = {}
    Browser = {1, 2}
    MaxSaying = 2
    SsoHappens = {"second", "overlap", "unwritten", "unkept", "unreadable", "untold"}
    MaxCommit = 3
    Service = {s1}
    Window = 2
    MaxGap = 2
    Exemption = 1
    MaxMinute = 4
    MaxChanges = 1
    AbuseHappens = {}
INVARIANTS
    BackupsSafe
    MakingSafe
    PrSafe
    HooksSafe
    BuildsSafe
PROPERTIES
    DriversSafe
    TokensSafe
    SchemaSafe
    MailSafe
    SsoSafe
    AbuseSafe
CHECK_DEADLOCK FALSE
