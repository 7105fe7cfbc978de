SPECIFICATION LiveSpec
CONSTANTS
    l1 = l1
    h1 = h1
    Lowers = {l1}
    Highers = {h1}
    PeerMaxAge = 1
    PairCooldown = 2
    PeerCacheLimit = 1
    MaxLeaving = 2
INVARIANTS TypeOK SingleFlight RecoveryIsNotDelayed CacheBounded
PROPERTIES NoPromptRetry EveryFlightLands
