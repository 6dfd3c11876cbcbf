---------------------------- MODULE MCEventLoop ----------------------------
(***************************************************************************)
(* Small instances of EventLoop: connections and timers that compete for   *)
(* two descriptor numbers, so numbers are used again, and two nested loops.*)
(***************************************************************************)
EXTENDS EventLoop

CONSTANTS conn1, conn2, timer1, fd1, fd2

MCSources  == {conn1, conn2, timer1}
MCRemoving == {conn1, conn2}
MCFds      == {fd1, fd2}

============================================================================
