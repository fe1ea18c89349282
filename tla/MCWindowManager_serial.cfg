\* A callback blocks and another fiber sends to the same thread.
CONSTANTS
    t1 = t1
    t2 = t2
    p1 = p1
    p2 = p2
    nothread = nothread
    noowner = noowner
    c1 = c1
    c2 = c2
    ClassName <- MCClassName
    MaxClasses = 1
    SectionFaults = FALSE
    Thread <- MCThread
    Process <- MCProcess
    ProcessOf <- MCProcessOf
    NoThread = nothread
    NoOwner = noowner
    MaxUserHandles = 4
    NumWindows = 3
    CrossFiber = TRUE
    GuestCalls <- AllCalls
    MaxCalls <- MCMaxCalls11
SPECIFICATION Spec
\* The guests' call budget runs out: the system stops.
CHECK_DEADLOCK FALSE
INVARIANTS
    SerializedDelivery
