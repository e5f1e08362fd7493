SPECIFICATION WebUISpec
CONSTANTS
    guest = guest
    owner = owner
    Client = {guest, owner}
    Loopback = {}
    Told <- MCTold
    ToldWeb = {owner}
    NoClient = NoClient
    Env <- MCEnv
    Route = {"rotate_token", "reset_session", "brick", "destroy_face", "panic", "store_overwrite"}
    UITTL = 2
    RestrictedTTL = 1
    MaxServers = 2
    MaxKeys = 2
    MaxLaunches = 2
CHECK_DEADLOCK FALSE
INVARIANTS NoEscalation RevokedExpires NotAfterLeaving DeviceExclusive SealedServesNothing TokenTells
PROPERTIES InactivityEnds
