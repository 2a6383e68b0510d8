SPECIFICATION Spec
CONSTANTS
    t1 = t1  t2 = t2  t3 = t3  ana = ana  rui = rui  s = s
    Turns = {t1, t2, t3}
    Sessions = {s}
    Users = {ana, rui}
    SessionOf <- MCSessionOf
    UserOf <- MCUserOf
    Timeout = 1
    MaxTime = 4
    NoUser = NoUser
INVARIANTS
    MessagesAreTheOwners
    QuestionBeforeAnswer
    AnsweredIsSaved
CHECK_DEADLOCK FALSE
