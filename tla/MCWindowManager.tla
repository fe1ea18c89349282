--------------------------- MODULE MCWindowManager ---------------------------
(* WindowManager instantiated for TLC: one or two GUI threads, each alone *)
(* in its process, and the system calls and call budgets of each run.     *)
EXTENDS WindowManager, TLC

CONSTANTS t1, t2, p1, p2, nothread, noowner, c1, c2

MCThread == {t1, t2}
MCProcess == {p1, p2}
MCProcessOf == (t1 :> p1) @@ (t2 :> p2)
MCThread1 == {t1}
MCProcessOf1 == (t1 :> p1)

\* Class names: one, or two so that an unregistered name is looked up.
MCClassName == {c1}
MCClassName2 == {c1, c2}

\* Calls per thread.
MCMaxCalls == (t1 :> 2) @@ (t2 :> 2)
MCMaxCalls1 == (t1 :> 3)
MCMaxCalls11 == (t1 :> 1) @@ (t2 :> 1)
MCMaxCalls31 == (t1 :> 3) @@ (t2 :> 1)

AllCalls == {"CreateWindowEx", "DestroyWindow", "ShowWindow", "MoveWindow",
             "DispatchMessage", "InvalidateRect", "BeginPaint", "EndPaint",
             "ProcessExit"}
TreeCalls == {"CreateWindowEx", "DestroyWindow", "ProcessExit"}

=============================================================================
