----------------------------- MODULE Autoupdate -----------------------------
(***************************************************************************)
(* The monitor in autoupdate mode.  A flush of the event queue that        *)
(* changed something forks 'tup autoupdate', which is a command like any   *)
(* other: it needs the object lock from the monitor that forked it.        *)
(* AUTOUPDATE_PID in the database says that one is on its way, so that its *)
(* own IN_OPEN starts no other one; the update clears it when it ends.     *)
(* wait_thread() in the monitor waits for the children, one at a time.     *)
(* 'tup flush' waits until AUTOUPDATE_PID is clear.                        *)
(*                                                                         *)
(* This module composes module TriLock and the autoupdate.  An event always *)
(* is one that handle_event() calls modified.                              *)
(***************************************************************************)
EXTENDS TriLock

CONSTANTS Kids,      \* the autoupdates there can be at a time
          Exit,      \* AUTOUPDATE_EXIT
          MaxStarts, \* bound on the number of monitors, one after the other
          MaxKills   \* bound on the number of updates that are killed

ASSUME AutoupdateAssumption ==
    /\ Kids \subseteq Procs /\ Exit \notin Kids \cup {None}
    /\ MaxStarts \in Nat /\ MaxKills \in Nat

Users == Procs \ Kids

VARIABLES
    kid,             \* kid[k]: "none", "forked", "running" or "zombie"
    dbpid,           \* AUTOUPDATE_PID
    autoupdate_pid,  \* what the main thread tells wait_thread()
    waiter,          \* the child in waitpid(), None, or Exit when it has ended
    events_handled,  \* flush_queue()'s static variable
    flushing,        \* users in the loop of flush()
    starts, kills,   \* monitors and killed updates so far
    tried            \* edits that an update has found (history)

auto == <<kid, dbpid, autoupdate_pid, waiter, events_handled>>
avars == <<vars, kid, dbpid, autoupdate_pid, waiter, events_handled, flushing,
           starts, kills, tried>>

AInit ==
    /\ Init
    /\ kid = [k \in Kids |-> "none"]
    /\ dbpid = None /\ autoupdate_pid = None /\ waiter = Exit
    /\ events_handled = FALSE
    /\ flushing = {} /\ starts = 0 /\ kills = 0 /\ tried = {}

ATypeOK ==
    /\ kid \in [Kids -> {"none", "forked", "running", "zombie"}]
    /\ dbpid \in Kids \cup {None}
    /\ autoupdate_pid \in Kids \cup {None, Exit}
    /\ waiter \in Kids \cup {None, Exit}
    /\ events_handled \in BOOLEAN
    /\ tried \subseteq db
    /\ flushing \subseteq Users /\ starts \in 0..MaxStarts /\ kills \in 0..MaxKills

-----------------------------------------------------------------------------
\* A child that wait_thread() will not hear of any more is a zombie until the
\* monitor ends; its pid is free for the model.
Left(k, table) == IF table[k] = "zombie" THEN [table EXCEPT ![k] = "none"] ELSE table

(* autoupdate(): autoupdate_pid is overwritten, taken or not. *)
Fork ==
    \E k \in Kids :
        /\ kid[k] = "none"
        /\ kid' = LET table == [kid EXCEPT ![k] = "forked"]
                  IN  IF autoupdate_pid \in Kids THEN Left(autoupdate_pid, table) ELSE table
        /\ autoupdate_pid' = k
        /\ dbpid' = k

(* Mutant: events_handled is not reset. *)
FlushTailKeep(handled, do_autoupdate) ==
    IF ~overflow /\ handled /\ do_autoupdate
    THEN Fork /\ events_handled' = TRUE
    ELSE events_handled' = handled /\ UNCHANGED <<kid, dbpid, autoupdate_pid>>

(* The end of flush_queue(); it is not reached when events were lost. *)
FlushTail(handled, do_autoupdate) ==
    IF ~overflow /\ handled /\ do_autoupdate
    THEN Fork /\ events_handled' = FALSE
    ELSE events_handled' = handled /\ UNCHANGED <<kid, dbpid, autoupdate_pid>>

Handled == events_handled \/ event_list # {}

AMonTimeout ==
    /\ MonTimeout
    /\ FlushTail(Handled, TRUE)
    /\ UNCHANGED <<waiter, flushing, starts, kills, tried>>

(* Mutant: no update is started when the lock is handed over. *)
AMonReadOpenNever ==
    /\ MonReadOpen
    /\ FlushTail(Handled, FALSE)
    /\ UNCHANGED <<waiter, flushing, starts, kills, tried>>

AMonReadOpen ==
    /\ MonReadOpen
    /\ FlushTail(Handled, dbpid = None)
    /\ UNCHANGED <<waiter, flushing, starts, kills, tried>>

(* The scan at the beginning of monitor_loop().  What no update has found  *)
(* yet is flagged, and so is what an update found and could not do.        *)
AMonScan ==
    /\ MonScan
    /\ \/ edits > 0 /\ Fork
       \/ 1..edits \subseteq tried /\ UNCHANGED <<kid, dbpid, autoupdate_pid>>
    /\ UNCHANGED <<waiter, events_handled, flushing, starts, kills, tried>>

(* A new monitor; wait_thread() is created before its first scan. *)
AMonStart ==
    /\ MonStart
    /\ starts < MaxStarts /\ starts' = starts + 1
    /\ waiter' = None /\ autoupdate_pid' = None /\ events_handled' = FALSE
    /\ UNCHANGED <<kid, dbpid, flushing, kills, tried>>

(* Mutant: wait_thread() is not told to exit. *)
AMonQuitSilent ==
    /\ MonQuit
    /\ UNCHANGED <<auto, flushing, starts, kills, tried>>

(* The main thread asks wait_thread() to exit ... *)
AMonQuit ==
    /\ MonQuit
    /\ autoupdate_pid' = Exit
    /\ kid' = IF autoupdate_pid \in Kids THEN Left(autoupdate_pid, kid) ELSE kid
    /\ UNCHANGED <<dbpid, waiter, events_handled, flushing, starts, kills, tried>>

(* ... and joins it, before tup_cleanup() gives the locks back. *)
AMonExitObj ==
    /\ waiter = Exit
    /\ MonExitObj
    /\ UNCHANGED <<auto, flushing, starts, kills, tried>>

(* The other steps of the monitor. *)
AMonOther ==
    /\ \/ MonFlockSh \/ MonOpenObj \/ MonFlockObj \/ MonForeground \/ MonFork
       \/ MonDrain \/ MonUnflockSh \/ MonSetPid
       \/ MonReadEdit \/ MonReadOverflow \/ MonFlockTri \/ MonUnflockObj
       \/ MonReadClose \/ MonReflockObj \/ MonUnflockTri \/ MonRetry \/ MonExitTri
    /\ UNCHANGED <<auto, flushing, starts, kills, tried>>

-----------------------------------------------------------------------------
(* wait_thread() *)

WaiterTake ==
    /\ waiter = None /\ autoupdate_pid # None
    /\ waiter' = autoupdate_pid
    /\ autoupdate_pid' = None
    /\ UNCHANGED <<vars, kid, dbpid, events_handled, flushing, starts, kills, tried>>

WaiterReap ==
    /\ waiter \in Kids /\ kid[waiter] = "zombie"
    /\ kid' = [kid EXCEPT ![waiter] = "none"]
    /\ waiter' = None
    /\ UNCHANGED <<vars, dbpid, autoupdate_pid, events_handled, flushing, starts, kills, tried>>

-----------------------------------------------------------------------------
(* Commands: 'tup autoupdate', 'tup' and 'tup flush'.                      *)

(* Child k is gone. *)
Ended(k) == IF mpc # "off" /\ k \in {waiter, autoupdate_pid} THEN "zombie" ELSE "none"

(* Mutant: the pid is cleared when the update starts. *)
ExecClear(k) ==
    /\ kid[k] = "forked"
    /\ Start(k)
    /\ kid' = [kid EXCEPT ![k] = "running"]
    /\ dbpid' = None
    /\ UNCHANGED <<autoupdate_pid, waiter, events_handled, flushing, starts, kills, tried>>

Exec(k) ==
    /\ kid[k] = "forked"
    /\ Start(k)
    /\ kid' = [kid EXCEPT ![k] = "running"]
    /\ UNCHANGED <<dbpid, autoupdate_pid, waiter, events_handled, flushing, starts, kills, tried>>

(* The update succeeds or fails. *)
UpdateWork(p) ==
    /\ Work(p)
    /\ tried' = db'
    /\ UNCHANGED <<flushing, starts, kills>>

(* Mutant: the pid is not cleared. *)
AutoWorkKeepPid(k) ==
    /\ UpdateWork(k)
    /\ UNCHANGED auto

(* main() of 'tup autoupdate': the pid is cleared, whether the update failed or not. *)
AutoWork(k) ==
    /\ UpdateWork(k)
    /\ dbpid' = None
    /\ UNCHANGED <<kid, autoupdate_pid, waiter, events_handled>>

AutoEnd(k) ==
    /\ UnflockSh(k)
    /\ kid' = [kid EXCEPT ![k] = Ended(k)]
    /\ UNCHANGED <<dbpid, autoupdate_pid, waiter, events_handled, flushing, starts, kills, tried>>

UserStart(u) ==
    /\ Start(u)
    /\ UNCHANGED <<auto, flushing, starts, kills, tried>>

UserWork(u) ==
    /\ u \notin flushing
    /\ UpdateWork(u)
    /\ UNCHANGED auto

(* flush(): it goes on until there is no AUTOUPDATE_PID. *)
FlushWork(u) ==
    /\ Goto(u, "work", "unobj")
    /\ flushing' = IF dbpid = None THEN flushing \ {u} ELSE flushing \cup {u}
    /\ UNCHANGED <<locks, seen, mon, events, files, auto, starts, kills, tried>>

Locking(p) ==
    /\ \/ FlockSh(p) \/ OpenObj(p) \/ FlockObj(p) \/ UnflockObj(p)
       \/ CloseObj(p) \/ FlockTri(p) \/ UnflockTri(p)
       \/ p \in Users /\ UnflockSh(p)
    /\ UNCHANGED <<auto, flushing, starts, kills, tried>>

(* The update is killed; what it opened is closed for it. *)
Kill(k) ==
    /\ kills < MaxKills /\ kills' = kills + 1
    /\ kid[k] \in {"forked", "running"}
    /\ kid' = [kid EXCEPT ![k] = Ended(k)]
    /\ pc' = [pc EXCEPT ![k] = "idle"]
    /\ sh' = IF sh = k THEN None ELSE sh
    /\ obj' = IF obj = k THEN None ELSE obj
    /\ tri' = IF tri = k THEN None ELSE tri
    /\ IF pc[k] \in {"obj", "work", "unobj", "close"} THEN NotifyObj(CloseEvent) ELSE UNCHANGED inot
    /\ UNCHANGED <<seen, mon, event_list, overflow, files, dbpid, autoupdate_pid, waiter,
                   events_handled, flushing, starts, tried>>

AEdit == Edit /\ UNCHANGED <<auto, flushing, starts, kills, tried>>

AParentExit == ParentExit /\ UNCHANGED <<auto, flushing, starts, kills, tried>>

-----------------------------------------------------------------------------
Child(k) == Exec(k) \/ AutoWork(k) \/ AutoEnd(k) \/ Locking(k)

User(u) == \/ UserWork(u) \/ FlushWork(u) \/ Locking(u)
           \/ u \in flushing /\ UserStart(u)

AMonitor == AMonTimeout \/ AMonReadOpen \/ AMonScan \/ AMonExitObj \/ AMonOther

Waiter == WaiterTake \/ WaiterReap

ANext ==
    \/ AEdit
    \/ \E k \in Kids : Child(k)
    \/ \E u \in Users : UserStart(u) \/ User(u)
    \/ AMonStart \/ AMonitor \/ AParentExit \/ AMonQuit
    \/ Waiter
    \/ \E k \in Kids : Kill(k)

ASpec == AInit /\ [][ANext]_avars

(***************************************************************************)
(* Every process and thread goes on.  Whoever waits for a lock that is     *)
(* free again and again gets it some time (hence strong fairness): the     *)
(* kernel wakes the waiting process when the lock is dropped, and flush()  *)
(* sleeps before it tries again.                                           *)
(***************************************************************************)
AFairSpec ==
    /\ ASpec
    /\ \A k \in Kids : SF_avars(Child(k))
    /\ \A u \in Users : SF_avars(User(u))
    /\ SF_avars(AMonitor)
    /\ WF_avars(AParentExit)
    /\ WF_avars(Waiter)

-----------------------------------------------------------------------------
(* Properties.                                                             *)

Stopping == mpc \in {"exit_obj", "exit_tri", "off"}

\* When 'tup flush' says "Flushed." beside a monitor, an update has found every edit
\* that is in the database, whoever was killed: AUTOUPDATE_PID is not cleared by one
\* update on behalf of another.  As long as none was killed, that is every edit made
\* before flush asked for the lock.
FlushedMeansUpdated ==
    \A u \in Users :
        pc[u] = "work" /\ dbpid = None /\ mpc = "loop" /\ pid = Mon
           => db \subseteq tried /\ (kills = 0 => 1..seen[u] \subseteq tried)

\* All edits get updated, whichever of the timeout and the IN_OPEN writes them,
\* unless somebody is killed or the monitor is stopped.
EditsAreUpdated == ~Stopping ~> (1..edits \subseteq tried \/ kills > 0 \/ Stopping)

\* 'tup flush' comes back, unless somebody is killed or the monitor is stopped.
FlushReturns ==
    \A u \in Users : (u \in flushing) ~> (u \notin flushing \/ kills > 0 \/ Stopping)

\* The updates come to an end, unless the monitor is stopped: none starts another
\* one, and none is left.
UpdatesEnd == <>(mpc = "exit_obj") \/ <>[](\A k \in Kids : kid[k] = "none")

\* 'tup stop' ends the monitor, if no update that it forked is under way: wait_thread()
\* is not stuck, whoever was killed.
StopEndsWithoutUpdate ==
    (mpc = "exit_obj" /\ \A k \in Kids : kid[k] \in {"none", "zombie"}) ~> (mpc = "off")

\* 'tup stop' ends the monitor: "Kills the monitor if it is running."
StopEnds == (mpc = "exit_obj") ~> (mpc = "off")
=============================================================================
