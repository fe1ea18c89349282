\* A window destroyed from a callback of a routine still working on it.
CONSTANTS
    t1 = t1
    t2 = t2
    p1 = p1
    p2 = p2
    nothread = nothread
    noowner = noowner
    c1 = c1
    c2 = c2
    ClassName <- MCClassName
    MaxClasses = 1
    SectionFaults = FALSE
    Thread <- MCThread1
    Process <- MCProcess
    ProcessOf <- MCProcessOf1
    NoThread = nothread
    NoOwner = noowner
    MaxUserHandles = 4
    NumWindows = 3
    CrossFiber = FALSE
    GuestCalls <- AllCalls
    MaxCalls <- MCMaxCalls1
SPECIFICATION Spec
\* The guest's call budget runs out: the system stops.
CHECK_DEADLOCK FALSE
INVARIANTS
    NoUseAfterFree
