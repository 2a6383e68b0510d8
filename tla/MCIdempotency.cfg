SPECIFICATION FairSpec
CONSTANTS
    r1 = r1  r2 = r2  r3 = r3  k = k
    Requests = {r1, r2, r3}
    Keys = {k}
    KeyOf <- MCKeyOf
    NoRequest = NoRequest
INVARIANTS
    AtMostOneInEffect
    FreeKeyIsCertain
    AnswersAreTrue
PROPERTIES
    ImplementsAtMostOnce
    EveryCallAnswered
CHECK_DEADLOCK FALSE
