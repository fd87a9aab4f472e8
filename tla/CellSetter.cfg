SPECIFICATION Spec
CONSTANTS
    Messages = {m1, m2}
    Nil = nil
    StackSize = 12
PROPERTIES
    CellIsSet
CHECK_DEADLOCK FALSE
