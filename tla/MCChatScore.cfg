SPECIFICATION Spec
CONSTANTS
    Catalogues <- MCCatalogues
    MaxIterations = 2
    MaxAsked = 2
    Cold = Cold
INVARIANTS
    UndisturbedTurnIsAnswered
CHECK_DEADLOCK FALSE
