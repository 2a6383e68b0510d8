SPECIFICATION FairSpec
CONSTANTS
    Catalogues <- MCCatalogues
    MaxIterations = 2
    MaxAsked = 2
    Cold = Cold
INVARIANTS
    TypeOK
    AnswerIsBacked
    JudgeSeesTheData
    NoStrayCalls
    MetricsTellTheTurn
    RolesStayInTheirAgents
PROPERTIES
    EveryTurnAnswered
CHECK_DEADLOCK FALSE
