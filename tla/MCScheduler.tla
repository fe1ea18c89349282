----------------------------- MODULE MCScheduler -----------------------------
(* Two guest fibers, the initial thread and one it may create, under both *)
(* sleepers.                                                               *)
EXTENDS Scheduler

CONSTANTS f1, f2

MCFiber == {f1, f2}
MCBothSleepers == {"default", "sdl"}
MCSdlSleeper == {"sdl"}
=============================================================================
