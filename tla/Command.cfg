CONSTANTS
    Tasks = {t, u}
    Commands <- Catalogue
    Connections = {1, 2, 3}
    Servers <- SomeServers
    Leaders = {l}
    Credentials = {creds}
    Deadlines = {500}
    default_deadline = 3000
    default_user = user
    MaxDuration = MaxDuration
    MaxCommands = 2
    None = None
SPECIFICATION TogetherSpec
INVARIANTS
    RpcSupported
    OkMeansDone
    BlameIsJust
    AbandonedForCause
PROPERTY RegularCommandsReturn
