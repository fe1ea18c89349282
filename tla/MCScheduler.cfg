\* Two fibers under the default and the SDL sleeper, up to three user events.
CONSTANTS
    f1 = f1
    f2 = f2
    NoWindow = NoWindow
    Fiber <- MCFiber
    Initial = f1
    Sleepers <- MCBothSleepers
    MaxEvents = 3
    TicksPerMs = 4
    IntMax = 3
SPECIFICATION Spec
\* schedule() returns: the system stops.
CHECK_DEADLOCK FALSE
INVARIANTS
    TypeOK
    DeadlockExitSound
    TimeoutRoundsUp
PROPERTIES
    TimersFire
    DeadlockDetected
    InputWakesWaiter
