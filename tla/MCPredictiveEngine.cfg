SPECIFICATION Spec
CONSTANTS
    chat = chat  trigger = trigger
    Runs = {chat, trigger}
    Alerts = {1}
    Days = 2
    Week = 1
    Last = 3
    Sales <- MCSales
INVARIANTS
    MarkedWasDelivered
    RepeatsAreExplained
    OnlyDataAndModelBreakIt
    MixedDaysAreBounded
SYMMETRY Overlapping
CHECK_DEADLOCK FALSE
