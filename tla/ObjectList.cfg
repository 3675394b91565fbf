CONSTANTS
    Item = {x1, x2, x3, x4}
    Thread = {t1}
    Null = Null
SPECIFICATION ListSpec
INVARIANTS ListTypeOK RingIntact FoundUndisturbed
