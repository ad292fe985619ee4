SPECIFICATION Spec
CONSTANTS
    k1 = k1
    k2 = k2
    t1 = t1
    t2 = t2
    web = web
    inside = inside
    bad = bad
    NoStats = NoStats
    NoRelease = NoRelease
    Release = {k1, k2}
    Tracker = {t1, t2, web, inside, bad}
    Announce <- MCAnnounce
    Scheme <- MCScheme
    Blocked = {inside}
    Seeders <- MCSeeders
    Leechers <- MCLeechers
    MinLeechers = 2
    MinLeecherRatio = 10
    AllowZeroSeeders = FALSE
    MaxStops = 1
    MaxAnswers = 3
INVARIANTS TypeOK NoPartialFile StatsAreOurs
PROPERTIES ImplementsDemandCheck GivesUpLast NeverBack CheckEnds
