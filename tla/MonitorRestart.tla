--------------------------- MODULE MonitorRestart ---------------------------
(***************************************************************************)
(* 'tup monitor' while a monitor is running.  The new monitor takes the    *)
(* shared and the object lock like any command, signals the old one        *)
(* (stop_monitor()), and goes on without waiting for it to be gone.  The   *)
(* old monitor owns the tri lock at that moment, and gives it back when it *)
(* gets round to leaving.                                                  *)
(*                                                                         *)
(* The new process takes over the name Mon; what is left of the old one is *)
(* called Old.                                                             *)
(***************************************************************************)
EXTENDS TriLockCrash

CONSTANT Old         \* the monitor that was told to quit

ASSUME OldAssumption == Old \notin Procs \cup {Mon, None}

VARIABLE opc         \* the next step of the old monitor

rvars == <<cvars, opc>>

RInit == CInit /\ opc = "none"

(***************************************************************************)
(* Command p turns out to be 'tup monitor': it has all the locks it needs, *)
(* and a monitor is waiting for it to close the object lock.  SIGHUP is    *)
(* sent; the pid file still names a live monitor.                          *)
(***************************************************************************)
Replace(p) ==
    /\ opc = "none" /\ opc' = "quit"
    /\ Goto(p, "work", "idle")
    /\ pid = Mon /\ mpc = "loop" /\ ~locked /\ tri = Mon
    /\ sh' = Mon /\ obj' = Mon /\ tri' = Old
    /\ mpc' = "ready"
    /\ locked' = TRUE
    /\ watching' = FALSE /\ dirwatch' = FALSE
    /\ inot' = <<>> /\ event_list' = {} /\ overflow' = FALSE
    /\ UNCHANGED <<seen, parent, pid, files, crashes>>

OldGoto(from, to) == opc = from /\ opc' = to

(* monitor_loop() ends: monitor_set_pid(-1), whoever the file names. *)
OldClearPid ==
    /\ OldGoto("quit", "close")
    /\ pid' = None
    /\ UNCHANGED <<locks, pc, seen, mpc, locked, parent, watching, dirwatch,
                   events, files, crashes>>

(* tup_lock_exit(): the new monitor sees the object lock file closed. *)
OldClose ==
    /\ OldGoto("close", "tri")
    /\ NotifyObj(CloseEvent)
    /\ UNCHANGED <<locks, pc, seen, mon, event_list, overflow, files, crashes>>

OldUnflockTri ==
    /\ OldGoto("tri", "gone")
    /\ tri' = None
    /\ UNCHANGED <<sh, obj, pc, seen, mon, events, files, crashes>>

(* monitor_loop() passes over an IN_CLOSE while it is locked, as when the  *)
(* old monitor closed the file, and an IN_OPEN while it is not, as when    *)
(* the IN_CLOSE of a killed command was lost.                              *)
MonPassOver ==
    /\ \E kind \in {"open", "close"} : ReadEvent(kind) /\ locked = (kind = "close")
    /\ UNCHANGED <<locks, pc, seen, mon, event_list, overflow, files, crashes, opc>>

OldMonitor == OldClearPid \/ OldClose \/ OldUnflockTri

RNext ==
    \/ CNext /\ UNCHANGED opc
    \/ \E p \in Procs : Replace(p)
    \/ OldMonitor
    \/ MonPassOver

RSpec == RInit /\ [][RNext]_rvars

RFairSpec ==
    /\ RSpec
    /\ \A p \in Procs : WF_rvars(Client(p) /\ UNCHANGED <<crashes, opc>>)
    /\ WF_rvars((Monitor /\ UNCHANGED <<crashes, opc>>) \/ MonPassOver)
    /\ WF_rvars(ParentExit /\ UNCHANGED <<crashes, opc>>)
    /\ WF_rvars(OldMonitor)

-----------------------------------------------------------------------------
(* Nobody works on a stale database, whether the monitor was replaced or   *)
(* not.  (After a kill somebody can: tup_lock_exit() did not wait for the  *)
(* tri lock.)                                                              *)
FreshUnlessKilled == crashes = 0 => Fresh

(* Whoever is killed, the commands that are left get their locks, work and *)
(* finish.  (A monitor that replaces another may mistake the old one's     *)
(* close of the object lock for a command's.)                              *)
CommandsFinishWithOne == <>(opc # "none") \/ CommandsFinish
=============================================================================
