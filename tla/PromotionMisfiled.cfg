SPECIFICATION Spec
CONSTANTS
    None = None
    Torn = Torn
    Tickets = {t1}
    Items = {i1}
    Blueprints <- RepositoryBlueprint
    Decisions = {"approved"}
    MaxNumber = 2
    MaxCrashes = 0
INVARIANT PromotedIntoBlueprint
