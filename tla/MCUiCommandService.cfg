CONSTANTS
    two = two
    press = press
    multi1 = multi1
    multi2 = multi2
    t1 = t1
    t2 = t2
    t3 = t3
    t4 = t4
    t5 = t5
    t6 = t6
    t7 = t7
    tap = tap
    Items = {t1, t2, t5}
    Requests = {two, press, tap, multi1, multi2}
    Targets <- MCTargets
    MultiTouch = {multi1, multi2}
    ItemOf <- MCItemOf
    Touches <- MCTouches
    Missing = {t2}
SPECIFICATION FairSpec
CHECK_DEADLOCK FALSE
INVARIANTS NoStall StartedInOrder NoFingerLeft
PROPERTIES EveryTargetPerformed
