\* Each part in turn: two pages, sockets, requests or commands at a time, and
\* one or two of each thing they work on.
SPECIFICATION Spec
CONSTANTS
    EdgeParts = {"adapters", "providers", "manifests", "agents", "skills",
                 "integrations", "boards", "slack", "buttons", "chat", "sockets", "mail", "oddmail",
                 "channels", "archives", "lockout", "browser", "delegation",
                 "access"}
    Providers = {"anthropic", "bedrock", "vertex", "azure", "openai", "gemini", "ollama"}
    MaxMessages = 6
    HistoryWindow = 4
    LlmProviders = {"pair", "single"}
    FieldsOf <- ProviderFields
    EnvProviders = {"single"}
    Clicks = {"a1", "a2"}
    ClickedOn <- OnOnePage
    MaxValues = 2
    Editors = {"a1", "a2"}
    ManifestTools = {"t1"}
    MaxVersions = 2
    MaxEdits = 1
    Staff = {"a1", "a2"}
    Skills = {"s1"}
    Boards = {"a1", "a2"}
    Errands = {"k1", "k2", "k3"}
    OnBoard <- BesideEachOther
    SecretFields = {"f1", "f2"}
    RequiredFields = {"f1"}
    SlackMessages = {"m1", "m2", "m3"}
    ThreadOf <- SlackThreadOf
    Clickers = {"a1", "a2"}
    ChatAgents = {"g1", "g2"}
    Sockets = {1, 2, 3}
    ChatMessages = {"m1", "m2"}
    Mails = {1, 2, 3, 4, 5}
    NoEnvelope = {4}
    Unnamed = {5}
    InReplyTo <- MailChain
    Polls = {"p1", "p2"}
    MaxStarts = 2
    AdapterNames = {"web", "api", "teams", "discord", "webhook"}
    Lines = {"c1", "c2"}
    MaxOut = 2
    Texts <- Blanked
    DiscordLength = 2
    ArchiveNames = {"b1", "b2"}
    Unpackers = {"u1", "u2"}
    SignIns = {"s1", "s2"}
    Addresses = {"i1"}
    LockAfter = 2
    People = {"p1", "p2"}
    Tabs = {"t1", "t2"}
    Tools = {"t1"}
    Values = {"v1", "v2"}
    Hosts = {"a.x", "b.x"}
    Domains = {"a.x", "*.x"}
    HostsOf <- WildHosts
    Secrets = {"k1"}
    Topics = {"q1", "q2"}
    ManifestsOf <- ManifestVariants
    MaxSaves = 1
    Users = {"u1", "u2"}
    Requests = {"r1", "r2"}
    SelfRegistration = FALSE
INVARIANTS
    EdgesTypeOK
    
    SavedIsServed
    NewestIsObeyed
    EditorTellsAgent
    CredentialsGoWithIntegration
    PatientThreadHearsItself
    ChatIsHeard
    MailsAreHandedOver
    LinesHearText
    UnpacksWhatWasAsked
    GuessesAreLimited
    PageShowsTheSignedIn
    DelegatesNoMore
PROPERTIES
    LastAdminNeedsOverlap
VIEW Moving
CHECK_DEADLOCK FALSE
