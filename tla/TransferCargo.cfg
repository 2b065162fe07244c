SPECIFICATION FairSpec
CONSTANTS
    a = a
    b = b
    w = w
    m1 = m1
    m2 = m2
    h1 = h1
    h2 = h2
    Goods = {a, b, w}
    Minerals = {a, w}
    Demanded = {a, b}
    StartCargos <- MCStartCargos
    Miners = {m1, m2}
    Haulers = {h1, h2}
    MinerCapacity = 2
    HaulerCapacity = 10
    Yield = 1
    Sites <- MCSites
    NotWaiting = NotWaiting
    Nobody = Nobody
CHECK_DEADLOCK FALSE
INVARIANTS NoMissedMatch PlannedTransfersAreAccepted SummariesLagAtMost
PROPERTIES SiteNeverStalls
