SPECIFICATION Spec
CONSTANTS
    None = None
    Torn = Torn
    Tickets = {t1}
    Items = {i1, i2}
    Blueprints <- SomeBlueprints
    Decisions = {"approved"}
    MaxNumber = 2
    MaxCrashes = 1
SYMMETRY SameItems
INVARIANTS
    FilesKept
    PromotionsSound
    BlockedByTicket
