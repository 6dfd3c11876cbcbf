---------------------------- MODULE MCTimerLoop ----------------------------
(***************************************************************************)
(* Small instances of TimerLoop: two timers, one loop, up to two missed    *)
(* expirations.                                                            *)
(***************************************************************************)
EXTENDS TimerLoop

CONSTANTS t1, t2, fd1, fd2

MCTimers == {t1, t2}
MCFds    == {fd1, fd2}

============================================================================
