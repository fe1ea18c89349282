---------------------------- MODULE WindowManager ----------------------------
(***************************************************************************)
(* The window manager of src/kernel/ntuser.cpp: window objects carved from *)
(* the shared arena (first-fit slots), the intrusive window tree           *)
(* (parent / first_child / next), the user handle table (INSTANCE of       *)
(* UserHandleTable), the active window, and the synchronous message send   *)
(* that gives control to guest code in the middle of a kernel service.     *)
(*                                                                         *)
(* Every thread is a fiber of the single-threaded cooperative scheduler.   *)
(* Each fiber has a stack of kernel frames; a frame is one activation of a *)
(* kernel routine that sends messages (do_create, set_window_pos,          *)
(* activate, destroy, ...).  A send pushes the message, runs the guest     *)
(* callback (cb names the thread the callback runs in) and returns.        *)
(* While a callback runs, guest code may enter the kernel again on the     *)
(* same fiber (nested frames), and, if it blocks, guests of other fibers   *)
(* may run.  Kernel code itself never yields except inside a send.         *)
(*                                                                         *)
(* operator delete only returns the slot to the bitmap: the fields of a    *)
(* deleted window persist until the slot is reused, when operator new's    *)
(* memset clears them.  A crash (NULL dereference, failed assert, double   *)
(* delete) ends the system and is recorded in fault.                       *)
(***************************************************************************)
EXTENDS Naturals, Sequences, FiniteSets, SequencesExt

CONSTANTS
    MaxUserHandles,  \* MAX_USER_HANDLES
    NumWindows,      \* window-sized slots of the shared arena bitmap
    Thread,          \* guest threads, one fiber each
    Process,         \* guest processes
    ProcessOf,       \* thread -> process
    NoThread,        \* the NULL thread pointer of the desktop window
    NoOwner,         \* the NULL owner of a free handle entry
    MaxCalls,        \* per thread, bound on the guest system calls it makes
    GuestCalls,      \* the system calls guests make in this model
    CrossFiber,      \* whether other fibers run while a callback blocks
    ClassName,       \* the window class names guests use
    MaxClasses,      \* bound on the classes registered
    SectionFaults    \* whether create_section and mapit may fail

ASSUME NumWindows \in Nat \ {0} /\ MaxCalls \in [Thread -> Nat]
ASSUME ProcessOf \in [Thread -> Process] /\ NoThread \notin Thread
ASSUME MaxClasses \in Nat /\ SectionFaults \in BOOLEAN

Slot == 1 .. NumWindows   \* a slot number stands for the window_tt* there

VARIABLES
    \* user handle table, see UserHandleTable
    uobj, uowner, utype, uhigh, next_user_handle, max_window_handle, hlast,
    \* window_tt fields, per arena slot
    inuse,           \* slots allocated from user_shared_bitmap
    wgen,            \* history: incarnation number of the slot's window
    wparent, wnext, wfirst,  \* parent, next, first_child (0 = NULL)
    whandle,         \* handle
    wthread,         \* get_win_thread()
    wvisible,        \* style & WS_VISIBLE
    wregion,         \* get_invalid_region(): "null", "empty" or "set"
    wdc,             \* win_dc: "null", "live" or "freed" (deleted, not cleared)
    \* globals of ntuser.cpp and per-thread/process kernel state
    desktop_window, active_window,
    queued,          \* threads whose thread_message_queue_tt exists
    classes,         \* wndcls_list: the names of the registered classes
    connected,       \* processes that ran do_gdi_init
    user_handle_table, user_shared,  \* the kernel's pointers to the two
                                     \* sections are set (not NULL)
    exited,          \* processes that have terminated
    terminated,      \* thread_t::is_terminated()
    \* control
    stack,           \* per fiber, the kernel frames, top last
    reaper,          \* free_user32_handles loop in progress, or NoReap
    calls,           \* per thread, guest system calls made so far
    fault            \* "none" or the crash that stopped the kernel

htvars == <<uobj, uowner, utype, uhigh, next_user_handle, max_window_handle, hlast>>
winvars == <<inuse, wgen, wparent, wnext, wfirst, whandle, wthread, wvisible, wregion, wdc>>
shmvars == <<user_handle_table, user_shared>>
glbvars == <<desktop_window, active_window, queued, classes, connected, exited, terminated,
            shmvars>>
ctlvars == <<stack, reaper, calls>>
vars == <<htvars, winvars, glbvars, ctlvars, fault>>

UH == INSTANCE UserHandleTable WITH Obj <- Slot, Owner <- Process

NoReap == [proc |-> NoOwner, i |-> 0]

\* window_from_handle: the slot a handle resolves to, 0 if none.
WindowFromHandle(h) == UH!UserObjFromHandle(h, UH!USER_HANDLE_WINDOW)

\* The handle values guests have been given (stale ones included).
Issued == {hlast[i] : i \in UH!Index} \ {0}

Top(f) == stack[f][Len(stack[f])]

\* A kernel frame of fiber f is executing (not waiting in a callback).
Running(f) == stack[f] # <<>> /\ Top(f).cb = NoThread

\* Only guest code runs: every fiber is at user level or in a callback.
KernelIdle == \A f \in Thread : ~Running(f)

\* Guest code of fiber f may run: no kernel code runs and, unless the model
\* lets a blocked callback yield to other fibers, no other fiber is inside
\* a kernel call.
GuestMayRun(f) ==
    /\ KernelIdle
    /\ CrossFiber \/ \A g \in Thread \ {f} : stack[g] = <<>>

\* The thread whose guest code runs on fiber f: its own at top level, the
\* callback's thread inside a send.
Actor(f) == IF stack[f] = <<>> THEN f ELSE Top(f).cb

Frame(op, w, pc, left) ==
    [op |-> op, win |-> w, gen |-> wgen[w], pc |-> pc, left |-> left,
     dst |-> w, cb |-> NoThread]

SetTop(f, fr) == stack' = [stack EXCEPT ![f][Len(stack[f])] = fr]

Crash(kind) == fault' = kind

-----------------------------------------------------------------------------
(* Window tree *)

\* Mutant of the walk: it stops one entry late, taking w itself for its
\* predecessor.
RECURSIVE UnlinkWalkLate(_, _, _, _)
UnlinkWalkLate(w, prev, cur, n) ==
    IF cur = w THEN [res |-> "found", prev |-> cur]
    ELSE IF cur = 0 THEN [res |-> "null_link", prev |-> prev]
    ELSE IF n = 0 THEN [res |-> "loop", prev |-> prev]
    ELSE UnlinkWalkLate(w, cur, wnext[cur], n - 1)

\* unlink_window's walk p = &parent->first_child; while (*p != this)
\* p = &(*p)->next: the predecessor of w (0 when w heads the list), or the
\* crash the walk ends in (a NULL *p is dereferenced).
RECURSIVE UnlinkWalk(_, _, _, _)
UnlinkWalk(w, prev, cur, n) ==
    IF cur = w THEN [res |-> "found", prev |-> prev]
    ELSE IF cur = 0 THEN [res |-> "null_link", prev |-> prev]
    ELSE IF n = 0 THEN [res |-> "loop", prev |-> prev]
    ELSE UnlinkWalk(w, cur, wnext[cur], n - 1)

\* ~window_tt + operator delete: delete win_dc, unlink_window,
\* free_user_handle(handle), clear active_window, free the slot.
DeleteWindow(w) ==
    LET walk == UnlinkWalk(w, 0, wfirst[wparent[w]], NumWindows)
        isdesk == w = desktop_window
    IN
    IF wdc[w] = "freed" THEN
        /\ Crash("double_delete")
        /\ UNCHANGED <<htvars, inuse, wdc, wnext, wfirst, desktop_window, active_window>>
    ELSE IF ~isdesk /\ wparent[w] = 0 THEN
        /\ Crash("assert_unlink")
        /\ UNCHANGED <<htvars, inuse, wdc, wnext, wfirst, desktop_window, active_window>>
    ELSE IF ~isdesk /\ walk.res # "found" THEN
        /\ Crash(walk.res)
        /\ UNCHANGED <<htvars, inuse, wdc, wnext, wfirst, desktop_window, active_window>>
    ELSE
        /\ wdc' = [wdc EXCEPT ![w] = IF @ = "live" THEN "freed" ELSE @]
        /\ IF isdesk
              THEN /\ desktop_window' = 0
                   /\ UNCHANGED <<wnext, wfirst>>
              ELSE /\ IF walk.prev = 0
                         THEN /\ wfirst' = [wfirst EXCEPT ![wparent[w]] = wnext[w]]
                              /\ wnext' = [wnext EXCEPT ![w] = 0]
                         ELSE /\ wnext' = [wnext EXCEPT ![walk.prev] = wnext[w], ![w] = 0]
                              /\ UNCHANGED wfirst
                   /\ UNCHANGED desktop_window
        /\ UH!FreeUserHandle(whandle[w])
        /\ active_window' = IF active_window = w THEN 0 ELSE active_window
        /\ inuse' = inuse \ {w}
        /\ UNCHANGED fault

\* What DeleteWindow leaves alone, for the actions that call it.
DeleteFrame == <<wgen, wparent, whandle, wthread, wvisible, wregion,
                 queued, classes, connected, exited, terminated, calls, shmvars>>

-----------------------------------------------------------------------------
(* Guest system calls.  A call starts only when no kernel code runs; it is *)
(* made by the thread at top level on its fiber or by the thread a         *)
(* callback on that fiber runs in.                                         *)

GuestEntry(f) ==
    /\ fault = "none" /\ reaper = NoReap /\ GuestMayRun(f)
    /\ Actor(f) \notin terminated
    /\ ProcessOf[Actor(f)] \in connected

GuestCall(f) ==
    /\ GuestEntry(f)
    /\ calls[Actor(f)] < MaxCalls[Actor(f)]
    /\ calls' = [calls EXCEPT ![Actor(f)] = @ + 1]

\* A lookup failed: the call returns FALSE / NULL and changes nothing.
Rejected == UNCHANGED <<htvars, winvars, glbvars, stack, reaper, fault>>

Push(f, frames) ==
    /\ stack' = [stack EXCEPT ![f] = @ \o frames]
    /\ UNCHANGED <<htvars, winvars, glbvars, reaper, fault>>

\* wndcls_tt::from_name: the first class on wndcls_list with the name (its
\* position), 0 if there is none.
FromName(c) ==
    IF \E i \in 1 .. Len(classes) : classes[i] = c
    THEN Min({i \in 1 .. Len(classes) : classes[i] = c})
    ELSE 0

\* NtUserRegisterClassExWOW: the class is appended to wndcls_list even if
\* one of that name exists.  The early returns (a bad user pointer, a wrong
\* Size, new failing) change nothing and are stuttering steps; the atom,
\* the same static 0xc001 for every class, is not used by the kernel.
\* Registrations are bounded by MaxClasses, not by the call budget.
RegisterClassExWOW(f, c) ==
    /\ GuestEntry(f)
    /\ Len(classes) < MaxClasses
    /\ classes' = Append(classes, c)
    /\ UNCHANGED <<htvars, winvars, desktop_window, active_window, queued,
                   connected, exited, terminated, shmvars, ctlvars, fault>>

\* The assertions of link_window on a window new has just zeroed: the parent
\* is not NULL, and the window does not become its own successor.
LinkOk(w, par) == par # 0 /\ wfirst[par] # w

\* window_tt() (memset) and link_window(parent_win): w goes at the head of
\* the parent's child list.
LinkWindow(w, par) ==
    /\ wparent' = [wparent EXCEPT ![w] = par]
    /\ wnext' = [wnext EXCEPT ![w] = wfirst[par]]
    /\ wfirst' = [wfirst EXCEPT ![par] = w, ![w] = 0]

\* NtUserCreateWindowEx / window_tt::do_create, up to the first send: parent
\* from the handle or the desktop, the class by name, new window_tt (first
\* free slot, zeroed), link_window, alloc_user_handle, the thread's queue
\* and an empty invalid region.
CreateWindowEx(f, ph, c, visible) ==
    LET t == Actor(f)
        par == IF ph = 0 THEN desktop_window ELSE WindowFromHandle(ph)
        w == Min(Slot \ inuse)
    IN
    /\ GuestCall(f)
    /\ IF ph # 0 /\ par = 0 THEN Rejected
       ELSE IF FromName(c) = 0 THEN Rejected
       ELSE IF inuse = Slot THEN Rejected
       ELSE IF ~LinkOk(w, par) THEN
            /\ Crash("assert_link")
            /\ UNCHANGED <<htvars, winvars, glbvars, stack, reaper>>
       ELSE IF ~UH!AllocOk THEN
            /\ Crash("assert_alloc")
            /\ UNCHANGED <<htvars, winvars, glbvars, stack, reaper>>
       ELSE
            /\ inuse' = inuse \cup {w}
            /\ wgen' = [wgen EXCEPT ![w] = @ + 1]
            /\ LinkWindow(w, par)
            /\ whandle' = [whandle EXCEPT ![w] = UH!HandleOf(next_user_handle)]
            /\ wthread' = [wthread EXCEPT ![w] = t]
            /\ wvisible' = [wvisible EXCEPT ![w] = visible]
            /\ wregion' = [wregion EXCEPT ![w] = "empty"]
            /\ wdc' = [wdc EXCEPT ![w] = "null"]
            /\ UH!AllocUserHandle(w, ProcessOf[t])
            /\ queued' = queued \cup {t}
            \* GETMINMAXINFO, NCCREATE, NCCALCSIZE, then create_dc
            /\ stack' = [stack EXCEPT ![f] = Append(@,
                   [op |-> "create", win |-> w, gen |-> wgen[w] + 1, pc |-> "dc",
                    left |-> 3, dst |-> w, cb |-> NoThread])]
            /\ UNCHANGED <<desktop_window, active_window, classes, connected,
                           exited, terminated, shmvars, reaper, fault>>

\* NtUserDestroyWindow / window_tt::destroy: set_window_pos(...HIDEWINDOW)
\* runs first, then WM_DESTROY, WM_NCDESTROY and delete this.
DestroyWindow(f, h) ==
    LET w == WindowFromHandle(h) IN
    /\ GuestCall(f)
    /\ IF w = 0 THEN Rejected
       ELSE Push(f, <<Frame("destroy", w, "msgs", 0), Frame("swp_hide", w, "begin", 0)>>)

\* NtUserShowWindow / window_tt::show: one WM_SHOWWINDOW.
ShowWindow(f, h) ==
    LET w == WindowFromHandle(h) IN
    /\ GuestCall(f)
    /\ IF w = 0 THEN Rejected ELSE Push(f, <<Frame("send", w, "ret", 1)>>)

\* NtUserMoveWindow / move_window: POSCHANGING, NCCALCSIZE, POSCHANGED
\* (the rectangles are not modelled).
MoveWindow(f, h) ==
    LET w == WindowFromHandle(h) IN
    /\ GuestCall(f)
    /\ IF w = 0 THEN Rejected ELSE Push(f, <<Frame("send", w, "ret", 3)>>)

\* NtUserDispatchMessage of a WM_PAINT: one paint message.
DispatchMessage(f, h) ==
    LET w == WindowFromHandle(h) IN
    /\ GuestCall(f)
    /\ IF w = 0 THEN Rejected ELSE Push(f, <<Frame("send", w, "ret", 1)>>)

\* NtUserInvalidateRect and NtUserRedrawWindow: set the invalid region of a
\* visible window.
InvalidateRect(f, h) ==
    LET w == WindowFromHandle(h) IN
    /\ GuestCall(f)
    /\ IF w = 0 \/ ~wvisible[w] THEN Rejected
       ELSE IF wregion[w] = "null" THEN
            /\ Crash("null_region")
            /\ UNCHANGED <<htvars, winvars, glbvars, stack, reaper>>
       ELSE /\ wregion' = [wregion EXCEPT ![w] = "set"]
            /\ UNCHANGED <<htvars, inuse, wgen, wparent, wnext, wfirst, whandle,
                           wthread, wvisible, wdc, glbvars, stack, reaper, fault>>

\* NtUserBeginPaint: region->empty_region().
BeginPaint(f, h) ==
    LET w == WindowFromHandle(h) IN
    /\ GuestCall(f)
    /\ IF w = 0 THEN Rejected
       ELSE IF wregion[w] = "null" THEN
            /\ Crash("null_region")
            /\ UNCHANGED <<htvars, winvars, glbvars, stack, reaper>>
       ELSE /\ wregion' = [wregion EXCEPT ![w] = "empty"]
            /\ UNCHANGED <<htvars, inuse, wgen, wparent, wnext, wfirst, whandle,
                           wthread, wvisible, wdc, glbvars, stack, reaper, fault>>

\* NtUserEndPaint: win->get_device_context()->repaint(), unchecked.
EndPaint(f, h) ==
    LET w == WindowFromHandle(h) IN
    /\ GuestCall(f)
    /\ IF w = 0 THEN Rejected
       ELSE IF wdc[w] # "live" THEN
            /\ Crash("null_dc")
            /\ UNCHANGED <<htvars, winvars, glbvars, stack, reaper>>
       ELSE Rejected

-----------------------------------------------------------------------------
(* Kernel frames.  Each step runs the code between two sends of the frame; *)
(* left counts the sends to dst still to make before the next step.       *)

KernelStep(f) ==
    /\ fault = "none" /\ reaper = NoReap
    /\ Running(f) /\ Top(f).left = 0

Advance(f, pc, left) == SetTop(f, [Top(f) EXCEPT !.pc = pc, !.left = left])

\* A routine called by the frame on top: same window and incarnation.
Callee(fr, op) == [fr EXCEPT !.op = op, !.pc = "begin", !.left = 0, !.dst = fr.win]

\* Calling a routine: the caller resumes at pc with left sends afterwards.
Call(f, pc, left, op) ==
    LET s == stack[f] IN
    stack' = [stack EXCEPT ![f] =
                 [s EXCEPT ![Len(s)] = [Top(f) EXCEPT !.pc = pc, !.left = left]]
                 \o <<Callee(Top(f), op)>>]

KernelOnly == UNCHANGED <<htvars, winvars, glbvars, reaper, calls, fault>>

\* window_tt::send: get_win_thread() is dereferenced unchecked; a
\* terminated thread gets nothing; otherwise the guest callback runs.
Send(f) ==
    LET fr == Top(f)
        th == wthread[fr.dst]
    IN
    /\ fault = "none" /\ reaper = NoReap
    /\ Running(f) /\ fr.left > 0
    /\ IF th = NoThread THEN
          /\ Crash("null_thread")
          /\ UNCHANGED <<htvars, winvars, glbvars, ctlvars>>
       ELSE
          /\ SetTop(f, [fr EXCEPT !.left = @ - 1,
                                  !.cb = IF th \in terminated THEN NoThread ELSE th])
          /\ KernelOnly

\* do_user_callback returns: the guest handler has finished (its own nested
\* calls returned) and the kernel resumes on this fiber.
CallbackReturn(f) ==
    /\ fault = "none" /\ reaper = NoReap /\ GuestMayRun(f)
    /\ stack[f] # <<>> /\ Top(f).cb # NoThread
    /\ SetTop(f, [Top(f) EXCEPT !.cb = NoThread])
    /\ KernelOnly

\* The routine returns to its caller (or to the guest).
Return(f) ==
    /\ KernelStep(f) /\ Top(f).pc = "ret"
    /\ stack' = [stack EXCEPT ![f] = SubSeq(@, 1, Len(@) - 1)]
    /\ KernelOnly

\* do_create: style |= WS_CLIPSIBLINGS; create_dc(); WM_CREATE.
CreateDc(f) ==
    LET w == Top(f).win IN
    /\ KernelStep(f) /\ Top(f).op = "create" /\ Top(f).pc = "dc"
    /\ wdc' = [wdc EXCEPT ![w] = "live"]
    /\ Advance(f, "visible", 1)
    /\ UNCHANGED <<htvars, inuse, wgen, wparent, wnext, wfirst, whandle, wthread,
                   wvisible, wregion, glbvars, reaper, calls, fault>>

\* do_create: if WS_VISIBLE, set_window_pos(SWP_SHOWWINDOW | SWP_NOMOVE)
\* and then WM_MOVE.
CreateShow(f) ==
    /\ KernelStep(f) /\ Top(f).op = "create" /\ Top(f).pc = "visible"
    /\ IF wvisible[Top(f).win] THEN Call(f, "ret", 1, "swp_show")
                               ELSE Advance(f, "ret", 0)
    /\ KernelOnly

\* set_window_pos(SWP_SHOWWINDOW | SWP_NOMOVE): if visible, show() sends
\* WM_SHOWWINDOW.
SwpShowBegin(f) ==
    /\ KernelStep(f) /\ Top(f).op = "swp_show" /\ Top(f).pc = "begin"
    /\ IF wvisible[Top(f).win] THEN Advance(f, "region", 1) ELSE Advance(f, "ret", 0)
    /\ KernelOnly

\* rgn->set_rect(rcClient), then WM_WINDOWPOSCHANGING.
SwpShowRegion(f) ==
    LET w == Top(f).win IN
    /\ KernelStep(f) /\ Top(f).op = "swp_show" /\ Top(f).pc = "region"
    /\ IF wregion[w] = "null" THEN
          /\ Crash("null_region")
          /\ UNCHANGED <<htvars, winvars, glbvars, ctlvars>>
       ELSE
          /\ wregion' = [wregion EXCEPT ![w] = "set"]
          /\ Advance(f, "activate", 1)
          /\ UNCHANGED <<htvars, inuse, wgen, wparent, wnext, wfirst, whandle,
                         wthread, wvisible, wdc, glbvars, reaper, calls, fault>>

\* No SWP_NOACTIVATE: activate(), then WM_NCPAINT and WM_ERASEBKGND.
SwpShowActivate(f) ==
    /\ KernelStep(f) /\ Top(f).op = "swp_show" /\ Top(f).pc = "activate"
    /\ Call(f, "changed", 2, "activate")
    /\ KernelOnly

\* WM_WINDOWPOSCHANGED if WS_VISIBLE, then WM_SIZE (show) or WM_NCACTIVATE
\* (hide); SWP_NOMOVE sends no WM_MOVE.
SwpChanged(f) ==
    /\ KernelStep(f) /\ Top(f).op \in {"swp_show", "swp_hide"} /\ Top(f).pc = "changed"
    /\ Advance(f, "ret", (IF wvisible[Top(f).win] THEN 1 ELSE 0) + 1)
    /\ KernelOnly

\* set_window_pos(SWP_NOMOVE|SWP_NOSIZE|SWP_NOZORDER|SWP_NOACTIVATE|
\* SWP_HIDEWINDOW): if visible, WM_WINDOWPOSCHANGING.
SwpHideBegin(f) ==
    /\ KernelStep(f) /\ Top(f).op = "swp_hide" /\ Top(f).pc = "begin"
    /\ IF wvisible[Top(f).win] THEN Advance(f, "changed", 1) ELSE Advance(f, "ret", 0)
    /\ KernelOnly

\* window_tt::activate: nothing if already active; WA_INACTIVE to the
\* previously active window.
ActivateBegin(f) ==
    LET fr == Top(f) IN
    /\ KernelStep(f) /\ fr.op = "activate" /\ fr.pc = "begin"
    /\ IF active_window = fr.win THEN Advance(f, "ret", 0)
       ELSE IF active_window # 0
            THEN SetTop(f, [fr EXCEPT !.pc = "set", !.left = 1, !.dst = active_window])
            ELSE Advance(f, "set", 0)
    /\ KernelOnly

\* Mutant of activate: a fifth message after WM_SETFOCUS.
ActivateSetExtraSend(f) ==
    LET fr == Top(f) IN
    /\ KernelStep(f) /\ fr.op = "activate" /\ fr.pc = "set"
    /\ active_window' = fr.win
    /\ SetTop(f, [fr EXCEPT !.pc = "ret", !.left = 5, !.dst = fr.win])
    /\ UNCHANGED <<htvars, winvars, desktop_window, queued, classes, connected, exited,
                   terminated, shmvars, reaper, calls, fault>>

\* active_window = this; WA_ACTIVE, WM_NCACTIVATE, WM_ACTIVATE, WM_SETFOCUS.
ActivateSet(f) ==
    LET fr == Top(f) IN
    /\ KernelStep(f) /\ fr.op = "activate" /\ fr.pc = "set"
    /\ active_window' = fr.win
    /\ SetTop(f, [fr EXCEPT !.pc = "ret", !.left = 4, !.dst = fr.win])
    /\ UNCHANGED <<htvars, winvars, desktop_window, queued, classes, connected, exited,
                   terminated, shmvars, reaper, calls, fault>>

\* window_tt::destroy after set_window_pos: WM_DESTROY, WM_NCDESTROY.
DestroyMsgs(f) ==
    /\ KernelStep(f) /\ Top(f).op = "destroy" /\ Top(f).pc = "msgs"
    /\ Advance(f, "delete", 2)
    /\ KernelOnly

\* delete this.
DestroyDelete(f) ==
    /\ KernelStep(f) /\ Top(f).op = "destroy" /\ Top(f).pc = "delete"
    /\ DeleteWindow(Top(f).win)
    /\ Advance(f, "ret", 0)
    /\ UNCHANGED DeleteFrame
    /\ UNCHANGED reaper

-----------------------------------------------------------------------------
(* Process start and exit *)

\* Where do_gdi_init can fail: the two create_section calls of
\* init_user_shared_memory while user_shared is NULL, and the mapit calls of
\* map_user_shared_memory ("map").  A create_section or mapit that fails
\* (out of memory, spec section 2) makes the caller return at once.  The
\* views a process has mapped are not kept: nothing the kernel does later
\* reads them, so a failed mapit leaves the kernel state as it was.
GdiFailures ==
    IF ~SectionFaults THEN {}
    ELSE (IF user_shared THEN {} ELSE {"section_handles", "section_shared"})
         \cup {"map"}

\* init_user_shared_memory: while user_shared is NULL, create the handle
\* table section and init_user_handle_table, then the user_shared section.
\* Nothing is allocated from the table before user_shared is set (no
\* process is connected), so the fresh table is the one of Init.
InitUserSharedMemory(out) ==
    /\ user_handle_table' = (user_handle_table \/ (~user_shared /\ out # "section_handles"))
    /\ user_shared' = (user_shared \/ out \notin {"section_handles", "section_shared"})

\* create_desktop_window: if there is none, a zeroed window (NULL thread,
\* region and dc, not visible) whose handle the current process owns.
CreateDesktopWindow(p) ==
    LET w == Min(Slot \ inuse) IN
    IF desktop_window # 0 \/ inuse = Slot THEN
       UNCHANGED <<htvars, winvars, desktop_window, fault>>
    ELSE IF ~UH!AllocOk THEN
       /\ Crash("assert_alloc")
       /\ UNCHANGED <<htvars, winvars, desktop_window>>
    ELSE
       /\ inuse' = inuse \cup {w}
       /\ wgen' = [wgen EXCEPT ![w] = @ + 1]
       /\ wparent' = [wparent EXCEPT ![w] = 0]
       /\ wnext' = [wnext EXCEPT ![w] = 0]
       /\ wfirst' = [wfirst EXCEPT ![w] = 0]
       /\ whandle' = [whandle EXCEPT ![w] = UH!HandleOf(next_user_handle)]
       /\ wthread' = [wthread EXCEPT ![w] = NoThread]
       /\ wvisible' = [wvisible EXCEPT ![w] = FALSE]
       /\ wregion' = [wregion EXCEPT ![w] = "null"]
       /\ wdc' = [wdc EXCEPT ![w] = "null"]
       /\ desktop_window' = w
       /\ UH!AllocUserHandle(w, p)
       /\ UNCHANGED fault

\* do_gdi_init at the start of a GUI process (NtGdiInit, which a process
\* whose call failed may make again): map_user_shared_memory, and on
\* success create_desktop_window.  On failure do_gdi_init returns FALSE.
GdiInit(t) ==
    LET p == ProcessOf[t] IN
    /\ fault = "none" /\ reaper = NoReap /\ GuestMayRun(t)
    /\ stack[t] = <<>> /\ t \notin terminated
    /\ p \notin connected \cup exited
    /\ \E out \in {"ok"} \cup GdiFailures :
          /\ InitUserSharedMemory(out)
          /\ IF out = "ok"
             THEN connected' = connected \cup {p} /\ CreateDesktopWindow(p)
             ELSE UNCHANGED <<connected, htvars, winvars, desktop_window, fault>>
    /\ UNCHANGED <<active_window, queued, classes, exited, terminated, ctlvars>>

\* NtUserProcessConnect, when user32 of a process starts: after the
\* argument checks (which change nothing), map_user_shared_memory.  It sets
\* up the kernel's sections as do_gdi_init would, but creates no desktop,
\* and the caller's NtGdiInit comes later.
ProcessConnect(t) ==
    LET p == ProcessOf[t] IN
    /\ fault = "none" /\ reaper = NoReap /\ GuestMayRun(t)
    /\ stack[t] = <<>> /\ t \notin terminated
    /\ p \notin connected \cup exited
    /\ \E out \in {"ok"} \cup GdiFailures : InitUserSharedMemory(out)
    /\ UNCHANGED <<htvars, winvars, desktop_window, active_window, queued, classes,
                   connected, exited, terminated, fault, ctlvars>>

ThreadsOf(p) == {t \in Thread : ProcessOf[t] = p}

\* The process of t exits from user level (no kernel frame of its threads,
\* no callback into them in progress): its threads are terminated and
\* free_user32_handles(p) runs.  It returns at once while the handle table
\* section was never created, and reads user_shared->max_window_handle
\* unchecked otherwise.
ProcessExit(t) ==
    LET p == ProcessOf[t] IN
    /\ fault = "none" /\ reaper = NoReap /\ GuestMayRun(t)
    /\ t \notin terminated /\ p \notin exited
    /\ \A u \in ThreadsOf(p) : stack[u] = <<>>
    /\ \A f \in Thread : \A k \in 1 .. Len(stack[f]) : stack[f][k].cb \notin ThreadsOf(p)
    /\ exited' = exited \cup {p}
    /\ terminated' = terminated \cup ThreadsOf(p)
    /\ \/ ~user_handle_table /\ UNCHANGED <<reaper, fault>>
       \/ user_handle_table /\ ~user_shared /\ Crash("null_user_shared") /\ UNCHANGED reaper
       \/ user_handle_table /\ user_shared /\ reaper' = [proc |-> p, i |-> 0] /\ UNCHANGED fault
    /\ UNCHANGED <<htvars, winvars, desktop_window, active_window, queued, classes,
                   connected, shmvars, stack, calls>>

\* One iteration of free_user32_handles: for i < max_window_handle, an
\* entry the process owns is deleted (delete_user_object).
Reap ==
    LET i == reaper.i IN
    /\ fault = "none" /\ reaper # NoReap
    /\ IF i >= max_window_handle THEN
          /\ reaper' = NoReap
          /\ UNCHANGED <<htvars, winvars, glbvars, stack, calls, fault>>
       ELSE IF uowner[i] = reaper.proc THEN
          /\ DeleteWindow(uobj[i])
          /\ reaper' = [reaper EXCEPT !.i = i + 1]
          /\ UNCHANGED DeleteFrame
          /\ UNCHANGED stack
       ELSE
          /\ reaper' = [reaper EXCEPT !.i = i + 1]
          /\ UNCHANGED <<htvars, winvars, glbvars, stack, calls, fault>>

-----------------------------------------------------------------------------

Init ==
    /\ UH!InitUserHandleTable
    /\ inuse = {}
    /\ wgen = [w \in Slot |-> 0]
    /\ wparent = [w \in Slot |-> 0]
    /\ wnext = [w \in Slot |-> 0]
    /\ wfirst = [w \in Slot |-> 0]
    /\ whandle = [w \in Slot |-> 0]
    /\ wthread = [w \in Slot |-> NoThread]
    /\ wvisible = [w \in Slot |-> FALSE]
    /\ wregion = [w \in Slot |-> "null"]
    /\ wdc = [w \in Slot |-> "null"]
    /\ desktop_window = 0
    /\ active_window = 0
    /\ queued = {}
    /\ classes = <<>>
    /\ connected = {}
    /\ user_handle_table = FALSE /\ user_shared = FALSE
    /\ exited = {}
    /\ terminated = {}
    /\ stack = [f \in Thread |-> <<>>]
    /\ reaper = NoReap
    /\ calls = [t \in Thread |-> 0]
    /\ fault = "none"

GuestNext(f) ==
    \/ "CreateWindowEx" \in GuestCalls
       /\ \E ph \in Issued \cup {0}, c \in ClassName, vis \in BOOLEAN :
             CreateWindowEx(f, ph, c, vis)
    \/ \E c \in ClassName : RegisterClassExWOW(f, c)
    \/ \E h \in Issued :
          \/ "DestroyWindow" \in GuestCalls /\ DestroyWindow(f, h)
          \/ "ShowWindow" \in GuestCalls /\ ShowWindow(f, h)
          \/ "MoveWindow" \in GuestCalls /\ MoveWindow(f, h)
          \/ "DispatchMessage" \in GuestCalls /\ DispatchMessage(f, h)
          \/ "InvalidateRect" \in GuestCalls /\ InvalidateRect(f, h)
          \/ "BeginPaint" \in GuestCalls /\ BeginPaint(f, h)
          \/ "EndPaint" \in GuestCalls /\ EndPaint(f, h)
    \/ CallbackReturn(f)
    \/ GdiInit(f) \/ ProcessConnect(f)
    \/ "ProcessExit" \in GuestCalls /\ ProcessExit(f)

KernelNext(f) ==
    \/ Send(f)
    \/ Return(f)
    \/ CreateDc(f)
    \/ CreateShow(f)
    \/ SwpShowBegin(f)
    \/ SwpShowRegion(f)
    \/ SwpShowActivate(f)
    \/ SwpChanged(f)
    \/ SwpHideBegin(f)
    \/ ActivateBegin(f)
    \/ ActivateSet(f)
    \/ DestroyMsgs(f)
    \/ DestroyDelete(f)

Next == Reap \/ \E f \in Thread : GuestNext(f) \/ KernelNext(f)

Spec == Init /\ [][Next]_vars

-----------------------------------------------------------------------------
(* Properties *)

Frames == [op : {"create", "swp_show", "swp_hide", "activate", "destroy", "send"},
           win : Slot, gen : Nat, pc : {"begin", "dc", "visible", "region",
           "activate", "changed", "set", "msgs", "delete", "ret"},
           left : 0 .. 4, dst : Slot, cb : Thread \cup {NoThread}]

TypeOK ==
    /\ UH!TypeOK
    /\ inuse \subseteq Slot
    /\ wgen \in [Slot -> Nat]
    /\ wparent \in [Slot -> 0 .. NumWindows]
    /\ wnext \in [Slot -> 0 .. NumWindows]
    /\ wfirst \in [Slot -> 0 .. NumWindows]
    /\ whandle \in [Slot -> Nat]
    /\ wthread \in [Slot -> Thread \cup {NoThread}]
    /\ wvisible \in [Slot -> BOOLEAN]
    /\ wregion \in [Slot -> {"null", "empty", "set"}]
    /\ wdc \in [Slot -> {"null", "live", "freed"}]
    /\ desktop_window \in 0 .. NumWindows
    /\ active_window \in 0 .. NumWindows
    /\ queued \subseteq Thread
    /\ classes \in Seq(ClassName)
    /\ connected \cup exited \subseteq Process
    /\ user_handle_table \in BOOLEAN /\ user_shared \in BOOLEAN
    /\ terminated \subseteq Thread
    /\ stack \in [Thread -> Seq(Frames)]
    /\ calls \in [Thread -> Nat]

\* The child list of window p, following first_child and next (cut after
\* NumWindows + 1 entries: a longer list has a cycle).
RECURSIVE ChildChain(_, _)
ChildChain(c, n) ==
    IF c = 0 \/ n = 0 THEN <<>> ELSE <<c>> \o ChildChain(wnext[c], n - 1)

Children(p) == ChildChain(wfirst[p], NumWindows + 1)

\* The search ends in a NULL dereference (no desktop window).
NullDeref == NumWindows + 1

\* Mutant of the search: a window's children are searched before the
\* window itself (post-order).
RECURSIVE RepaintPostOrder(_, _), RepaintChildrenPostOrder(_, _)
RepaintPostOrder(win, n) ==
    LET r == RepaintChildrenPostOrder(Children(win), n) IN
    IF r # 0 THEN r
    ELSE IF wparent[win] # 0 /\ wregion[win] = "set" THEN win ELSE 0
RepaintChildrenPostOrder(cs, n) ==
    IF cs = <<>> \/ n = 0 THEN 0
    ELSE LET c == WindowFromHandle(whandle[Head(cs)])
             r == IF c = 0 THEN 0 ELSE RepaintPostOrder(c, n - 1)
         IN  IF r # 0 THEN r ELSE RepaintChildrenPostOrder(Tail(cs), n)

\* window_tt::find_window_to_repaint(window_tt*): a window other than the
\* desktop (which has no parent) whose invalid region is not NULLREGION,
\* else the first hit among its children, each looked up again through
\* find_window_to_repaint(p->handle), i.e. window_from_handle.  n bounds
\* the depth; the code itself recurses without a bound.
RECURSIVE RepaintWindow(_, _), RepaintChildren(_, _)
RepaintWindow(win, n) ==
    IF wparent[win] # 0 /\ wregion[win] = "set" THEN win
    ELSE RepaintChildren(Children(win), n)
RepaintChildren(cs, n) ==
    IF cs = <<>> \/ n = 0 THEN 0
    ELSE LET c == WindowFromHandle(whandle[Head(cs)])
             r == IF c = 0 THEN 0 ELSE RepaintWindow(c, n - 1)
         IN  IF r # 0 THEN r ELSE RepaintChildren(Tail(cs), n)

\* window_tt::find_window_to_repaint(HWND): from the window of the handle
\* (0 if it resolves to none), or from desktop_window for handle 0.
FindWindowToRepaint(h) ==
    IF h # 0
    THEN IF WindowFromHandle(h) = 0 THEN 0
         ELSE RepaintWindow(WindowFromHandle(h), NumWindows + 1)
    ELSE IF desktop_window = 0 THEN NullDeref
    ELSE RepaintWindow(desktop_window, NumWindows + 1)

\* Reference: the windows of the tree under w in depth-first pre-order.
RECURSIVE PreOrder(_, _)
PreOrder(w, n) ==
    IF n = 0 THEN <<w>>
    ELSE <<w>> \o FlattenSeq([k \in 1 .. Len(Children(w)) |-> PreOrder(Children(w)[k], n - 1)])

\* The handle table and the windows agree (section 3 of the spec): every
\* live window's handle resolves to it, and every allocated entry names a
\* live window whose handle has that index.  A handle freed twice, never
\* freed, or freed for the wrong window breaks it; window_tt's destructor,
\* free_user32_handles and reentrant destroys all meet here.
HandlesMatchWindows ==
    /\ \A w \in inuse : WindowFromHandle(whandle[w]) = w
    /\ \A i \in 1 .. MaxUserHandles - 1 :
          utype[i] # 0 => uobj[i] \in inuse /\ UH!LowPart(whandle[uobj[i]]) = i

\* The free list of the handle table stays sound (see UserHandleTable)
\* under every sequence of window creations and deletions.
HandleFreeListSound == UH!FreeListSound

\* Every child list of a live window is finite and without repetition, and
\* holds only live windows that name it as their parent: link_window and
\* unlink_window keep the intrusive lists in step with the slots, also when
\* a slot is reused while stale windows still point at it.
ChildListsSound ==
    \A p \in inuse :
        LET ch == Children(p) IN
        /\ Len(ch) <= NumWindows
        /\ \A k \in 1 .. Len(ch) : ch[k] \in inuse /\ wparent[ch[k]] = p
        /\ \A a, b \in 1 .. Len(ch) : a # b => ch[a] # ch[b]

\* Section 4.6 of the spec: find_window_to_repaint, searching from the
\* desktop, returns the first window of a depth-first pre-order walk of the
\* tree, the desktop excepted, whose invalid region is not empty, and NULL
\* when there is none; it never dereferences NULL while a desktop exists.
\* The code decides "desktop" by a NULL parent and reaches every child
\* through its handle, so a stale handle or parent link would break it.
RepaintFindsFirstDirty ==
    desktop_window # 0 =>
        LET dirty == SelectSeq(PreOrder(desktop_window, NumWindows + 1),
                               LAMBDA w : w # desktop_window /\ wregion[w] = "set")
        IN  FindWindowToRepaint(0) = IF dirty = <<>> THEN 0 ELSE Head(dirty)

\* Section 3 of the spec: every window other than the desktop has exactly
\* one parent, a live window whose child list holds it.  destroy() deletes
\* a window without its children, so this is the property at stake.
EveryWindowParented ==
    \A c \in inuse \ {desktop_window} :
        /\ wparent[c] \in inuse
        /\ \E k \in 1 .. Len(Children(wparent[c])) : Children(wparent[c])[k] = c

\* Section 5 of the spec, no torn state across a callback: kernel code that
\* resumes after a send works on the window it started on, still alive in
\* the same incarnation.
NoUseAfterFree ==
    \A f \in Thread :
        (Running(f) /\ ~(Top(f).pc = "ret" /\ Top(f).left = 0)) =>
            /\ Top(f).win \in inuse
            /\ wgen[Top(f).win] = Top(f).gen

\* No message is sent to a window without a thread: window_tt::send
\* dereferences get_win_thread() unchecked, and the desktop has none.
NoSendWithoutThread == fault # "null_thread"

\* Section 5 of the spec: no half-built window is left around a message
\* send.  Whenever guest code runs, every window it can reach by handle,
\* other than the desktop, is complete: it has the device context that
\* NtUserEndPaint dereferences unchecked.
NoHalfBuiltWindow ==
    KernelIdle => \A w \in inuse \ {desktop_window} : wdc[w] = "live"

\* NtUserCreateWindowEx never fails an assertion: a window without a
\* parent handle goes under the desktop window, which link_window asserts.
CreateNeverAsserts == fault # "assert_link"

\* Section 5 of the spec: message delivery to a thread is serialised, the
\* next message cannot be sent to it before the previous callback returned.
\* Nested sends on one fiber are the callback's own calls; two fibers with
\* a callback into the same thread are two deliveries at once.
SerializedDelivery ==
    \A f, g \in Thread : f # g =>
        \A k \in 1 .. Len(stack[f]), l \in 1 .. Len(stack[g]) :
            stack[f][k].cb # NoThread => stack[f][k].cb # stack[g][l].cb

=============================================================================
