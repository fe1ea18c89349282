\* Two single-threaded GUI processes creating, destroying and exiting, two
\* calls each: desktop ownership, parents in another process, reuse of
\* freed slots and handles, free_user32_handles over foreign children.
CONSTANTS
    t1 = t1
    t2 = t2
    p1 = p1
    p2 = p2
    nothread = nothread
    noowner = noowner
    c1 = c1
    c2 = c2
    ClassName <- MCClassName
    MaxClasses = 1
    SectionFaults = TRUE
    Thread <- MCThread
    Process <- MCProcess
    ProcessOf <- MCProcessOf
    NoThread = nothread
    NoOwner = noowner
    MaxUserHandles = 4
    NumWindows = 3
    CrossFiber = FALSE
    GuestCalls <- TreeCalls
    MaxCalls <- MCMaxCalls
SPECIFICATION Spec
\* The guests' call budget runs out: the system stops.
CHECK_DEADLOCK FALSE
INVARIANTS
    TypeOK
    HandlesMatchWindows
    HandleFreeListSound
    ChildListsSound
