------------------------------ MODULE Scheduler ------------------------------
(***************************************************************************)
(* The main loop of the kernel (schedule, src/kernel/main.cpp 104-125) and *)
(* its two sleepers: default_sleeper_t::check_events (main.cpp 77-99) and  *)
(* sdl_sleeper_t::check_events (src/kernel/sdl.cpp 429-481), the one that  *)
(* win32k_sdl_t::init installs for GUI runs.                               *)
(*                                                                         *)
(* The scheduler is one fiber among the guest threads' fibers.  A guest    *)
(* fiber runs until it blocks or yields.  Each fiber's state abstracts     *)
(* what it waits on:                                                       *)
(*   "ready"   schedulable                                                 *)
(*   "timer"   in a wait with a timeout (a timeout_t is armed)             *)
(*   "due"     ditto, with the deadline already passed                     *)
(*   "input"   waiting on its message queue for input                      *)
(*   "object"  waiting on an object only another fiber can signal          *)
(*   "new"     not created yet                                             *)
(*   "exited"  exited                                                      *)
(* SDL's event queue and its timer thread are part of the state:           *)
(* SDL_AddTimer's callback pushes SDL_USEREVENT (code 0) from another      *)
(* thread, at any time after the interval.                                 *)
(***************************************************************************)
EXTENDS Naturals, Sequences

CONSTANTS
    Fiber,      \* the guest threads' fibers
    Initial,    \* the initial thread, create_initial_process's
    Sleepers,   \* {"default", "sdl"}: the default sleeper, until init
                \* installs sdl_sleeper; {"sdl"}: the GUI is up at start
    MaxEvents,  \* bound on the external SDL events (quit, input)
    TicksPerMs, \* 100 ns units per millisecond (10000)
    IntMax,     \* INT_MAX
    NoWindow    \* active_window == NULL

ASSUME Initial \in Fiber /\ Sleepers \subseteq {"default", "sdl"} /\ MaxEvents \in Nat
ASSUME TicksPerMs \in Nat \ {0} /\ IntMax \in Nat /\ NoWindow \notin Fiber

VARIABLES
    sleeper,  \* the sleeper: win32k_sdl_t::init installs sdl_sleeper
    video,    \* SDL_WasInit(SDL_INIT_VIDEO): the SDL window exists
    fstate,   \* what each fiber waits on
    active,   \* the thread of active_window, NoWindow if it is NULL
    sdlq,     \* SDL's event queue
    mine,     \* the SDL timer of the current check_events (id # NULL) is armed
    stale,    \* armed SDL timers that no check_events will remove any more
    sent,     \* external events delivered so far (bounded by MaxEvents)
    pc,       \* where main and schedule() are: "start" (main before the
              \* loop), "loop", "polled", "run", "waiting", "done" (the
              \* program died or schedule returned), "exit" (main returned)
    interval, \* the wait check_events(true) set up: <<timeout left by
              \* check_timers, get_int_timeout of it>>, NoInterval if none
    exitby    \* why schedule() returned (or "none")

vars == <<sleeper, video, fstate, active, sdlq, mine, stale, sent, pc, interval, exitby>>

States == {"ready", "timer", "due", "input", "object", "new", "exited"}
Events == {"quit", "input", "timer"}

\* The timeouts, in 100 ns units, that check_timers can leave when timers
\* remain: positive, as the expired ones fired, and up to past the cap.
Timeouts == 1 .. (IntMax + 1) * TicksPerMs
NoInterval == <<0, 0>>

TypeOK ==
    /\ sleeper \in Sleepers
    /\ video \in BOOLEAN
    /\ fstate \in [Fiber -> States]
    /\ active \in Fiber \cup {NoWindow}
    /\ sdlq \in Seq(Events)
    /\ mine \in BOOLEAN
    /\ stale \in Nat
    /\ sent \in 0 .. MaxEvents
    /\ pc \in {"start", "loop", "polled", "run", "waiting", "done", "exit"}
    /\ interval \in {NoInterval} \cup (Timeouts \X Nat)
    /\ exitby \in {"none", "startfail", "empty", "deadlock", "quit", "error", "die"}

Init ==
    /\ sleeper = IF "default" \in Sleepers THEN "default" ELSE "sdl"
    /\ video = (sleeper = "sdl")
    /\ fstate = [f \in Fiber |-> "new"]
    /\ active = NoWindow
    /\ sdlq = <<>>
    /\ mine = FALSE
    /\ stale = 0
    /\ sent = 0
    /\ pc = "start"
    /\ interval = NoInterval
    /\ exitby = "none"

-----------------------------------------------------------------------------
(* Helpers for the fiber substrate and the timer list, whose code is not  *)
(* in this repository: modelled from their contract in the spec (4.1).    *)

\* processes.head(): some process still has a thread.
ProcessesLeft == \E f \in Fiber : fstate[f] \notin {"new", "exited"}

\* fiber_t::last_fiber(): no fiber other than the scheduler is schedulable.
LastFiber(fs) == \A f \in Fiber : fs[f] # "ready"

\* timeout_t::check_timers: the timers whose deadline passed fire and wake
\* their fibers; the result says whether timers remain.
CheckTimers(fs) == [f \in Fiber |-> IF fs[f] = "due" THEN "ready" ELSE fs[f]]
TimersLeft(fs) == \E f \in Fiber : fs[f] \in {"timer", "due"}

\* manager->send_input: the input goes to the thread of the active window
\* and wakes it if it waits on its queue; with no active window nobody
\* listens for input (sdl.cpp 441-443).
SendInput(fs) ==
    IF active \in Fiber /\ fs[active] = "input"
    THEN {[fs EXCEPT ![active] = "ready"]}
    ELSE {fs}

\* C's integer division, which truncates toward zero.
CDiv(a, b) == IF a >= 0 THEN a \div b ELSE 0 - ((0 - a) \div b)

\* Mutant of get_int_timeout: the division without the rounding term.
GetIntTimeoutTrunc(q) ==
    LET ms == CDiv(q, TicksPerMs) IN IF ms < IntMax THEN ms ELSE IntMax

\* sleeper_t::get_int_timeout: the timeout check_timers leaves, in 100 ns
\* units, to milliseconds for poll and SDL_AddTimer, rounded up and capped
\* at INT_MAX.
GetIntTimeout(q) ==
    LET ms == CDiv(q + TicksPerMs - 1, TicksPerMs) IN IF ms < IntMax THEN ms ELSE IntMax

\* The wait check_events(true) sets up when it does not quit: poll's
\* timeout, or SDL_AddTimer's interval, is get_int_timeout of what
\* check_timers left, if timers are left.
SetInterval(fs) ==
    IF TimersLeft(fs)
    THEN \E q \in Timeouts : interval' = <<q, GetIntTimeout(q)>>
    ELSE interval' = NoInterval

-----------------------------------------------------------------------------
\* Mutant of handle_sdl_event: keyboard and mouse events are not sent on.
HandleSdlEventNoInput(e, fs) == {fs}

(* sdl_sleeper_t::handle_sdl_event on one event: true for SDL_QUIT, input *)
(* is sent to the manager, anything else (SDL_USEREVENT) is ignored.       *)
HandleSdlEvent(e, fs) ==
    IF e = "input" THEN SendInput(fs) ELSE {fs}

\* Mutant of Poll: check_events(false) only looks at SDL events.
PollNoTimers ==
    /\ pc = "loop" /\ ProcessesLeft
    /\ IF sleeper = "sdl" /\ sdlq # <<>>
       THEN /\ fstate' \in HandleSdlEvent(Head(sdlq), fstate)
            /\ sdlq' = Tail(sdlq)
       ELSE UNCHANGED <<fstate, sdlq>>
    /\ pc' = "polled"
    /\ UNCHANGED <<sleeper, video, active, mine, stale, sent, interval, exitby>>

\* check_events(false), the poll at the top of the loop (main.cpp 110):
\* expired timers fire, and the sdl sleeper takes one event off SDL's queue
\* with SDL_PollEvent.  The result, true on SDL_QUIT, is not looked at.
Poll ==
    /\ pc = "loop" /\ ProcessesLeft
    /\ LET fs == CheckTimers(fstate) IN
       IF sleeper = "sdl" /\ sdlq # <<>>
       THEN /\ fstate' \in HandleSdlEvent(Head(sdlq), fs)
            /\ sdlq' = Tail(sdlq)
       ELSE /\ fstate' = fs
            /\ UNCHANGED sdlq
    /\ pc' = "polled"
    /\ UNCHANGED <<sleeper, video, active, mine, stale, sent, interval, exitby>>

\* The steps of main before the loop that die() when they fail: init_tt
\* finding no way to manage address spaces, and init_ntdll failing to open
\* or map ntdll.dll.
MainDies == {"address_space", "open_ntdll", "map_ntdll"}

\* How create_initial_process ends: its thread is created, or it returns
\* the status of the first step that failed (the executable does not open
\* or map, the process, its stack or the PEB copy and thread fail).
InitialProcessResults ==
    {"ok", "open_file", "create_section", "create_process", "allocate_stack", "create_thread"}

\* main up to schedule(): the kernel's start-up, then the initial process
\* of the executable named on the command line.  main dies on any failure.
StartUp ==
    /\ pc = "start"
    /\ \E out \in MainDies \cup InitialProcessResults :
          IF out = "ok"
          THEN /\ fstate' = [fstate EXCEPT ![Initial] = "ready"]
               /\ pc' = "loop" /\ UNCHANGED exitby
          ELSE /\ pc' = "done" /\ exitby' = "startfail"
               /\ UNCHANGED fstate
    /\ UNCHANGED <<sleeper, video, active, sdlq, mine, stale, sent, interval>>

\* main after schedule() returned (not after a die()): ntgdi_fini, whose
\* win32k_sdl_t::fini shuts FreeType and SDL down if SDL video is up, then
\* the release of the initial thread, do_cleanup's report and the frees.
MainShutdown ==
    /\ pc = "done" /\ exitby \notin {"startfail", "die"}
    /\ video' = FALSE
    /\ pc' = "exit"
    /\ UNCHANGED <<sleeper, fstate, active, sdlq, mine, stale, sent, interval, exitby>>

\* while (processes.head()): the loop ends when no process is left.
NoProcesses ==
    /\ pc = "loop" /\ ~ProcessesLeft
    /\ pc' = "done" /\ exitby' = "empty"
    /\ UNCHANGED <<sleeper, video, fstate, active, sdlq, mine, stale, sent, interval>>

\* if (!fiber_t::last_fiber()) fiber_t::yield().
Yield ==
    /\ pc = "polled" /\ ~LastFiber(fstate)
    /\ pc' = "run"
    /\ UNCHANGED <<sleeper, video, fstate, active, sdlq, mine, stale, sent, interval, exitby>>

\* win32k_sdl_t::init, run by the GUI start-up of a guest system call when
\* SDL video is not up (otherwise it returns TRUE at once): SDL comes up and
\* sdl_sleeper is installed, unless FT_Init_FreeType fails after SDL_Init,
\* when init returns FALSE and the default sleeper stays.  A failing
\* SDL_Init changes nothing.
Win32kInit ==
    /\ ~video /\ "sdl" \in Sleepers
    /\ video' = TRUE
    /\ \E ftok \in BOOLEAN : sleeper' = IF ftok THEN "sdl" ELSE sleeper

\* A guest fiber runs until it yields, blocks or exits.  On the way it may
\* create a thread, signal an object another fiber waits on, create,
\* activate or destroy windows (active_window: NULL, or a window of a
\* thread that was created), and start the GUI.
RunFiber(f) ==
    /\ pc = "run" /\ fstate[f] = "ready"
    /\ \E s \in {"ready", "timer", "input", "object", "exited"},
          wake \in {g \in Fiber \ {f} : fstate[g] \in {"object", "timer", "due", "new"}} \cup {f},
          a \in {NoWindow} \cup {g \in Fiber : fstate[g] # "new"} :
          /\ fstate' = [fstate EXCEPT ![f] = s, ![wake] = IF wake = f THEN s ELSE "ready"]
          /\ active' = a
    /\ pc' = "loop"
    /\ \/ UNCHANGED <<sleeper, video>>
       \/ Win32kInit
    /\ UNCHANGED <<sdlq, mine, stale, sent, interval, exitby>>

\* Mutants of DefaultWait: the deadlock test is made on the fibers as they
\* were before check_timers, or asks for no thread at all rather than for
\* no schedulable one.
DefaultWaitEarlyTest ==
    /\ pc = "polled" /\ LastFiber(fstate) /\ sleeper = "default"
    /\ LET fs == CheckTimers(fstate) IN
       /\ fstate' = fs
       /\ IF ~TimersLeft(fs) /\ LastFiber(fstate)
          THEN pc' = "done" /\ exitby' = "deadlock" /\ UNCHANGED interval
          ELSE pc' = "waiting" /\ SetInterval(fs) /\ UNCHANGED exitby
    /\ UNCHANGED <<sleeper, video, active, sdlq, mine, stale, sent>>

DefaultWaitNoThreads ==
    /\ pc = "polled" /\ LastFiber(fstate) /\ sleeper = "default"
    /\ LET fs == CheckTimers(fstate) IN
       /\ fstate' = fs
       /\ IF ~TimersLeft(fs) /\ \A f \in Fiber : fs[f] \in {"new", "exited"}
          THEN pc' = "done" /\ exitby' = "deadlock" /\ UNCHANGED interval
          ELSE pc' = "waiting" /\ SetInterval(fs) /\ UNCHANGED exitby
    /\ UNCHANGED <<sleeper, video, active, sdlq, mine, stale, sent>>

\* There are processes but no active threads: check_events(true).
\* The default sleeper quits when no timer is left and no fiber became
\* schedulable, and otherwise sleeps in poll() until the next deadline.
DefaultWait ==
    /\ pc = "polled" /\ LastFiber(fstate) /\ sleeper = "default"
    /\ LET fs == CheckTimers(fstate) IN
       /\ fstate' = fs
       /\ IF ~TimersLeft(fs) /\ LastFiber(fs)
          THEN pc' = "done" /\ exitby' = "deadlock" /\ UNCHANGED interval
          ELSE pc' = "waiting" /\ SetInterval(fs) /\ UNCHANGED exitby
    /\ UNCHANGED <<sleeper, video, active, sdlq, mine, stale, sent>>

\* poll(0, 0, t) returns when the timeout given by check_timers runs out:
\* at the next deadline, if a timer is left.
DefaultPollReturns ==
    /\ pc = "waiting" /\ sleeper = "default"
    /\ TimersLeft(fstate) => \E f \in Fiber : fstate[f] = "due"
    /\ pc' = "loop" /\ interval' = NoInterval
    /\ UNCHANGED <<sleeper, video, fstate, active, sdlq, mine, stale, sent, exitby>>

\* poll fails with an errno other than EINTR: die() ends the program.
DefaultPollFails ==
    /\ pc = "waiting" /\ sleeper = "default"
    /\ pc' = "done" /\ exitby' = "die" /\ interval' = NoInterval
    /\ UNCHANGED <<sleeper, video, fstate, active, sdlq, mine, stale, sent>>

\* The sdl sleeper's check_events(true): check_timers, one SDL_PollEvent
\* (SDL_QUIT returns true), the deadlock test, which also needs
\* active_window to be NULL, then SDL_AddTimer for the next deadline.
SdlWait ==
    /\ pc = "polled" /\ LastFiber(fstate) /\ sleeper = "sdl"
    /\ LET fs == CheckTimers(fstate) IN
       IF sdlq # <<>> /\ Head(sdlq) = "quit"
       THEN /\ fstate' = fs /\ sdlq' = Tail(sdlq)
            /\ pc' = "done" /\ exitby' = "quit"
            /\ UNCHANGED <<mine, interval>>
       ELSE \E fs2 \in IF sdlq = <<>> THEN {fs} ELSE HandleSdlEvent(Head(sdlq), fs) :
            /\ fstate' = fs2
            /\ sdlq' = IF sdlq = <<>> THEN sdlq ELSE Tail(sdlq)
            /\ IF ~TimersLeft(fs) /\ active = NoWindow /\ LastFiber(fs2)
               THEN pc' = "done" /\ exitby' = "deadlock" /\ UNCHANGED <<mine, interval>>
               ELSE pc' = "waiting" /\ mine' = TimersLeft(fs) /\ SetInterval(fs)
                    /\ UNCHANGED exitby
    /\ UNCHANGED <<sleeper, video, active, stale, sent>>

\* SDL_WaitEvent returns the next event.  SDL_USEREVENT with code 0 means
\* "the timer expired", and id is set to NULL, whichever timer pushed it.
\* Any other event is handled.  If id is still set, SDL_RemoveTimer stops
\* the timer, unless it has fired already.
SdlWaitEvent ==
    /\ pc = "waiting" /\ sleeper = "sdl" /\ sdlq # <<>>
    /\ sdlq' = Tail(sdlq)
    /\ IF Head(sdlq) = "timer"
       THEN /\ stale' = stale + (IF mine THEN 1 ELSE 0)
            /\ pc' = "loop"
            /\ UNCHANGED <<fstate, exitby>>
       ELSE /\ fstate' \in HandleSdlEvent(Head(sdlq), fstate)
            /\ IF Head(sdlq) = "quit"
               THEN pc' = "done" /\ exitby' = "quit"
               ELSE pc' = "loop" /\ UNCHANGED exitby
            /\ UNCHANGED stale
    /\ mine' = FALSE /\ interval' = NoInterval
    /\ UNCHANGED <<sleeper, video, active, sent>>

\* SDL_WaitEvent fails: check_events returns true.
SdlWaitFails ==
    /\ pc = "waiting" /\ sleeper = "sdl"
    /\ pc' = "done" /\ exitby' = "error" /\ mine' = FALSE /\ interval' = NoInterval
    /\ UNCHANGED <<sleeper, video, fstate, active, sdlq, stale, sent>>

-----------------------------------------------------------------------------
(* The environment: time, SDL's timer thread and the user.                *)

\* A deadline passes.
Tick(f) ==
    /\ fstate[f] = "timer"
    /\ fstate' = [fstate EXCEPT ![f] = "due"]
    /\ UNCHANGED <<sleeper, video, active, sdlq, mine, stale, sent, pc, interval, exitby>>

\* Mutant of SdlTimerFires: a timer fires after SDL_RemoveTimer.
SdlTimerFiresRemoved ==
    /\ \/ /\ mine
          /\ TimersLeft(fstate) => \E f \in Fiber : fstate[f] = "due"
          /\ mine' = FALSE /\ UNCHANGED stale
       \/ stale' = stale - 1 /\ UNCHANGED mine
    /\ pc # "exit"
    /\ sdlq' = Append(sdlq, "timer")
    /\ UNCHANGED <<sleeper, video, fstate, active, sent, pc, interval, exitby>>

\* sdl_sleeper_t::timeout_callback pushes SDL_USEREVENT.  The interval was
\* rounded up (get_int_timeout), so a timer of the current wait fires only
\* once a deadline has passed or the timer it was set for is gone.
SdlTimerFires ==
    /\ \/ /\ mine
          /\ TimersLeft(fstate) => \E f \in Fiber : fstate[f] = "due"
          /\ mine' = FALSE /\ UNCHANGED stale
       \/ stale > 0 /\ stale' = stale - 1 /\ UNCHANGED mine
    /\ pc # "exit"
    /\ sdlq' = Append(sdlq, "timer")
    /\ UNCHANGED <<sleeper, video, fstate, active, sent, pc, interval, exitby>>

\* The user closes the window or presses a key, once there is a window.
\* The events queue up whichever sleeper is installed.
UserEvent ==
    /\ video /\ pc \notin {"done", "exit"} /\ sent < MaxEvents
    /\ \E e \in {"quit", "input"} : sdlq' = Append(sdlq, e)
    /\ sent' = sent + 1
    /\ UNCHANGED <<sleeper, video, fstate, active, mine, stale, pc, interval, exitby>>

-----------------------------------------------------------------------------
SchedulerStep ==
    StartUp \/ Poll \/ NoProcesses \/ Yield \/ DefaultWait \/ DefaultPollReturns \/ SdlWait \/ SdlWaitEvent

Next ==
    \/ SchedulerStep \/ MainShutdown \/ DefaultPollFails \/ SdlWaitFails
    \/ \E f \in Fiber : RunFiber(f) \/ Tick(f)
    \/ SdlTimerFires \/ UserEvent

\* The scheduler fiber runs whenever the guest fibers have yielded or
\* blocked, a yielded-to fiber runs, time passes and SDL's timer thread
\* delivers.  Failures of poll and SDL_WaitEvent, and the user, are not
\* assumed to happen.
Spec ==
    /\ Init /\ [][Next]_vars
    /\ WF_vars(SchedulerStep)
    /\ WF_vars(\E f \in Fiber : RunFiber(f))
    /\ \A f \in Fiber : WF_vars(Tick(f))
    /\ WF_vars(SdlTimerFires)

-----------------------------------------------------------------------------
(* Properties *)

\* A fiber that cannot run and cannot be woken by anything but another
\* fiber, or waiting for input that goes to another thread or nowhere.
Stuck(f) ==
    \/ fstate[f] \in {"object", "new", "exited"}
    \/ fstate[f] = "input" /\ (sleeper = "default" \/ active # f)

\* schedule() ends on a deadlock (section 4.2 of the spec) only when it is
\* one: no fiber is schedulable, no timer is armed, and every fiber waits on
\* something no event can deliver.  check_timers can wake a fiber in the
\* same check_events call that tests last_fiber(), so the order of the two
\* in both sleepers matters.
DeadlockExitSound ==
    exitby = "deadlock" => \A f \in Fiber : Stuck(f)

\* Every armed timer fires: a fiber in a wait with a timeout is eventually
\* woken, however long the other fibers keep yielding to each other and
\* whatever the SDL events are.  This rests on the poll at the top of
\* schedule's loop and on the SDL timer set in check_events(true).
TimersFire ==
    \A f \in Fiber : fstate[f] = "timer" ~> (fstate[f] \notin {"timer", "due"} \/ pc \in {"done", "exit"})

\* A real deadlock is detected: once every fiber is stuck, schedule()
\* eventually returns instead of sleeping for ever.  With a window active
\* the sdl sleeper waits for the user by design (sdl.cpp 441-445), so the
\* claim is made for the default sleeper and for no active window, once
\* main has started the initial process.
DeadlockDetected ==
    /\ pc # "start"
    /\ \A f \in Fiber : fstate[f] \in {"object", "new", "exited"}
    /\ sleeper = "sdl" => active = NoWindow
    ~> pc \in {"done", "exit"}

\* The wait that either sleeper's check_events(true) sets up for the next
\* deadline never ends before it: for the timeout check_timers left, the
\* milliseconds get_int_timeout gives poll or SDL_AddTimer are at least
\* one, cover the timeout and exceed it by less than a millisecond, up to
\* the INT_MAX cap.  A zero or short interval would make poll return
\* with the fiber still waiting and SDL's timer fire early, which
\* DefaultPollReturns and SdlTimerFires rule out.
TimeoutRoundsUp ==
    interval # NoInterval =>
        LET q == interval[1]
            t == interval[2]
        IN /\ t \in 1 .. IntMax
           /\ t < IntMax => (t * TicksPerMs >= q /\ (t - 1) * TicksPerMs < q)

\* The number of keyboard and mouse events in SDL's queue.
QueuedInput == Len(SelectSeq(sdlq, LAMBDA e : e = "input"))

\* A key press reaches the active window's thread when it waits for input:
\* while the SDL sleeper is installed, input in SDL's queue with the thread
\* of active_window waiting on its message queue eventually makes a thread
\* schedulable, or the program ends.  The events are taken off the queue
\* in three places (the poll at the top of the loop, the SDL_PollEvent and
\* the SDL_WaitEvent of check_events(true)) and each must hand input to the
\* manager, quits and timer events queued ahead of it included.  With no
\* thread ready no fiber runs, so active_window cannot change meanwhile.
InputWakesWaiter ==
    sleeper = "sdl" /\ QueuedInput > 0 /\ active \in Fiber /\ fstate[active] = "input"
        ~> (pc \in {"done", "exit"} \/ \E f \in Fiber : fstate[f] = "ready")

=============================================================================
