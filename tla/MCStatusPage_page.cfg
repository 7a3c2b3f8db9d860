CONSTANTS
    Slugs = {"a", "b", "c"}
    FirstSlugs = {"a", "c"}
    DateOf <- MCDateOf
    PendingDates = {0, 3}
    MaxConns = 2
    MaxSteps = 2
    MaxChanges = 2
    MaxClicks = 3
    MaxLosses = 1
SPECIFICATION FairSpec
INVARIANTS
    PageInv
    CardsInOrder
    ResolvedStaysHidden
PROPERTY CatchesUp
