SPECIFICATION SlotsSpec
CONSTANTS
    Objects = {o1, o2, o3, o4}
    Values = {v1, v2, v3, v4}
    Undefined = Undefined
SYMMETRY Interchangeable
INVARIANTS
    SlotLeadsToItsValue
    FreeSlotsAreFree
    NoSlotLeaks
CHECK_DEADLOCK FALSE
