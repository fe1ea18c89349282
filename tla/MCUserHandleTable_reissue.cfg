\* Free and reallocate one index: the handle value comes back unchanged.
CONSTANTS
    o1 = o1
    o2 = o2
    p1 = p1
    p2 = p2
    none = none
    MaxUserHandles = 4
    Obj <- MCObj
    Owner <- MCOwner
    NoOwner = none
SPECIFICATION Spec
CHECK_DEADLOCK FALSE
PROPERTIES
    HandleNotReissued
