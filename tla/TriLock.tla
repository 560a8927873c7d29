------------------------------- MODULE TriLock -------------------------------
(***************************************************************************)
(* The tri-lock protocol: three advisory file locks (.metatup/shared,      *)
(* .metatup/object, .metatup/tri) that serialise the tup commands and the  *)
(* inotify file monitor on one database.                                   *)
(*                                                                         *)
(* A tup command takes the shared lock, opens and takes the object lock,   *)
(* works on the database, and gives the locks back (lock.c).  The monitor  *)
(* normally owns the object lock.  It watches the lock file: an IN_OPEN    *)
(* event tells it to write its queued file events into the database, take  *)
(* the tri lock and drop the object lock; an IN_CLOSE event tells it to    *)
(* take the object lock again and drop the tri lock (monitor_loop).        *)
(*                                                                         *)
(* The commands are whoever calls tup_init(): the user's, and the update   *)
(* that the monitor forks when it is told to (autoupdate).                 *)
(*                                                                         *)
(* Edits of source files are numbered 1, 2, ...; an edit is known to tup   *)
(* once its number is in db.                                               *)
(***************************************************************************)
EXTENDS Naturals, Sequences

CONSTANTS Procs,     \* the tup commands (client processes)
          Mon,       \* the monitor process
          None,      \* "nobody": the owner of a free lock
          MaxEdits,  \* bound on the number of edits of source files
          QueueMax   \* length at which the kernel's inotify queue overflows

ASSUME TriLockAssumption ==
    /\ Mon \notin Procs
    /\ None \notin Procs \cup {Mon}
    /\ MaxEdits \in Nat
    /\ QueueMax \in Nat \ {0}

VARIABLES
    sh, obj, tri,   \* owner of each of the three locks
    pc,             \* pc[p]: the next system call of command p
    seen,           \* seen[p]: the edits made when p opened the object lock
    mpc,            \* the next step of the monitor
    locked,         \* monitor_loop()'s local variable
    parent,         \* the forked monitor's parent still holds the shared lock
    watching,       \* there is a watch on the object lock file (obj_wd)
    dirwatch,       \* the directories of the project are watched
    inot,           \* the kernel's inotify queue
    event_list,     \* edits read from inot and not yet written to the database
    overflow,       \* an overflow event (wd = -1) is in the event list
    pid,            \* contents of the monitor pid file
    edits,          \* number of edits made so far
    db              \* the edits the database knows about

locks  == <<sh, obj, tri>>
events == <<inot, event_list, overflow>>
files  == <<edits, db>>
mon    == <<mpc, locked, parent, watching, dirwatch, pid>>
vars   == <<sh, obj, tri, pc, seen, mpc, locked, parent, watching, dirwatch,
            inot, event_list, overflow, pid, edits, db>>

Owner == Procs \cup {Mon, None}

ClientPC == {"idle", "sh", "open", "obj", "work", "unobj", "close", "tri",
             "untri", "unsh"}

MonPC == {"off", "sh", "open", "obj", "ready", "unsh", "setpid", "scan",
          "loop", "taketri", "dropobj", "takeobj", "droptri", "retry",
          "exit_obj", "exit_tri"}

OpenEvent     == <<"open", 0>>
CloseEvent    == <<"close", 0>>
OverflowEvent == <<"overflow", 0>>
EditEvent(v)  == <<"edit", v>>

Event == {OpenEvent, CloseEvent, OverflowEvent} \cup ({"edit"} \X Nat)

-----------------------------------------------------------------------------
(***************************************************************************)
(* The kernel.  inotify merges an event with an identical last one.  When  *)
(* the queue is full an event is lost and one overflow event is queued,    *)
(* unless the queue holds one already.                                     *)
(***************************************************************************)
Holds(q, e) == \E i \in DOMAIN q : q[i] = e

Enqueue(q, e) ==
    IF q # <<>> /\ q[Len(q)] = e THEN q
    ELSE IF Len(q) < QueueMax THEN Append(q, e)
    ELSE IF Holds(q, OverflowEvent) THEN q
    ELSE Append(q, OverflowEvent)

NotifyObj(e) == inot' = IF watching THEN Enqueue(inot, e) ELSE inot

-----------------------------------------------------------------------------
Init ==
    /\ sh = None /\ obj = None /\ tri = None
    /\ pc = [p \in Procs |-> "idle"]
    /\ seen = [p \in Procs |-> 0]
    /\ mpc = "off"
    /\ locked = TRUE
    /\ parent = FALSE
    /\ watching = FALSE
    /\ dirwatch = FALSE
    /\ inot = <<>>
    /\ event_list = {}
    /\ overflow = FALSE
    /\ pid = None
    /\ edits = 0
    /\ db = {}

(***************************************************************************)
(* Anybody - the user, an editor, a running command - changes a file.      *)
(***************************************************************************)
Edit ==
    /\ edits < MaxEdits
    /\ edits' = edits + 1
    /\ inot' = IF dirwatch THEN Enqueue(inot, EditEvent(edits + 1)) ELSE inot
    /\ UNCHANGED <<locks, pc, seen, mon, event_list, overflow, db>>

-----------------------------------------------------------------------------
(***************************************************************************)
(* A tup command: main() -> tup_init() -> tup_lock_init().                 *)
(***************************************************************************)
Goto(p, from, to) == pc[p] = from /\ pc' = [pc EXCEPT ![p] = to]

Start(p) ==
    /\ Goto(p, "idle", "sh")
    /\ UNCHANGED <<locks, seen, mon, events, files>>

FlockSh(p) ==
    /\ Goto(p, "sh", "open")
    /\ sh = None /\ sh' = p
    /\ UNCHANGED <<obj, tri, seen, mon, events, files>>

OpenObj(p) ==
    /\ Goto(p, "open", "obj")
    /\ seen' = [seen EXCEPT ![p] = edits]
    /\ NotifyObj(OpenEvent)
    /\ UNCHANGED <<locks, mon, event_list, overflow, files>>

(* Mutant: the result of tup_flock(obj_lock) is ignored. *)
FlockObjUnchecked(p) ==
    /\ Goto(p, "obj", "work")
    /\ obj' = p
    /\ UNCHANGED <<sh, tri, seen, mon, events, files>>

FlockObj(p) ==
    /\ Goto(p, "obj", "work")
    /\ obj = None /\ obj' = p
    /\ UNCHANGED <<sh, tri, seen, mon, events, files>>

(* monitor_get_pid(): the pid of a process that is gone does not count,    *)
(* and is removed from the pid file.                                       *)
MonitorPid == IF pid = Mon /\ mpc # "off" THEN Mon ELSE None

(* Mutant: the pid file is written with the pid of whoever reads it. *)
WorkOwnPid(p) ==
    /\ Goto(p, "work", "unobj")
    /\ pid' = p
    /\ db' = IF MonitorPid = None THEN 1..edits ELSE db
    /\ UNCHANGED <<locks, seen, mpc, locked, parent, watching, dirwatch,
                   events, edits>>

(***************************************************************************)
(* The body of the command.  updater() -> run_scan(): without a monitor    *)
(* the file system is scanned into the database.                           *)
(***************************************************************************)
Work(p) ==
    /\ Goto(p, "work", "unobj")
    /\ pid' = MonitorPid
    /\ db' = IF MonitorPid = None THEN 1..edits ELSE db
    /\ UNCHANGED <<locks, seen, mpc, locked, parent, watching, dirwatch,
                   events, edits>>

(* tup_cleanup() -> tup_lock_exit(). *)
UnflockObj(p) ==
    /\ Goto(p, "unobj", "close")
    /\ obj' = None
    /\ UNCHANGED <<sh, tri, seen, mon, events, files>>

(* Mutant: tup_lock_exit() does not close the object lock. *)
CloseObjNever(p) ==
    /\ Goto(p, "close", "tri")
    /\ UNCHANGED <<locks, seen, mon, events, files>>

CloseObj(p) ==
    /\ Goto(p, "close", "tri")
    /\ NotifyObj(CloseEvent)
    /\ UNCHANGED <<locks, seen, mon, event_list, overflow, files>>

FlockTri(p) ==
    /\ Goto(p, "tri", "untri")
    /\ tri = None /\ tri' = p
    /\ UNCHANGED <<sh, obj, seen, mon, events, files>>

UnflockTri(p) ==
    /\ Goto(p, "untri", "unsh")
    /\ tri' = None
    /\ UNCHANGED <<sh, obj, seen, mon, events, files>>

UnflockSh(p) ==
    /\ Goto(p, "unsh", "idle")
    /\ sh' = None
    /\ UNCHANGED <<obj, tri, seen, mon, events, files>>

-----------------------------------------------------------------------------
(***************************************************************************)
(* The monitor comes up: tup_lock_init() like any command, then monitor(). *)
(***************************************************************************)
MGoto(from, to) == mpc = from /\ mpc' = to

MonStart ==
    /\ MGoto("off", "sh")
    /\ locked' = TRUE
    /\ UNCHANGED <<locks, pc, seen, parent, watching, dirwatch, pid, events, files>>

MonFlockSh ==
    /\ MGoto("sh", "open")
    /\ sh = None /\ sh' = Mon
    /\ UNCHANGED <<obj, tri, pc, seen, locked, parent, watching, dirwatch, pid,
                   events, files>>

MonOpenObj ==
    /\ MGoto("open", "obj")
    /\ NotifyObj(OpenEvent)
    /\ UNCHANGED <<locks, pc, seen, locked, parent, watching, dirwatch, pid,
                   event_list, overflow, files>>

MonFlockObj ==
    /\ MGoto("obj", "ready")
    /\ obj = None /\ obj' = Mon
    /\ UNCHANGED <<sh, tri, pc, seen, locked, parent, watching, dirwatch, pid,
                   events, files>>

(* inotify_init(), a watch on the object lock, and foreground mode. *)
MonForeground ==
    /\ ~watching
    /\ MGoto("ready", "unsh")
    /\ watching' = TRUE
    /\ UNCHANGED <<locks, pc, seen, locked, parent, dirwatch, pid, events, files>>

(***************************************************************************)
(* The same in background mode.  The parent of the fork gives the object   *)
(* lock to its child and drops the shared lock when it exits; until then   *)
(* nobody else can contend for the object lock.                            *)
(***************************************************************************)
MonFork ==
    /\ ~watching
    /\ MGoto("ready", "setpid")
    /\ watching' = TRUE
    /\ parent' = TRUE
    /\ UNCHANGED <<locks, pc, seen, locked, dirwatch, pid, events, files>>

ParentExit ==
    /\ parent
    /\ parent' = FALSE
    /\ sh' = None
    /\ UNCHANGED <<obj, tri, pc, seen, mpc, locked, watching, dirwatch, pid,
                   events, files>>

(* After MONITOR_LOOP_RETRY: "Flush the inotify queue". *)
MonDrain ==
    /\ watching
    /\ MGoto("ready", "unsh")
    /\ inot' = <<>>
    /\ UNCHANGED <<locks, pc, seen, locked, parent, watching, dirwatch, pid,
                   event_list, overflow, files>>

MonUnflockSh ==
    /\ MGoto("unsh", "setpid")
    /\ sh' = None
    /\ UNCHANGED <<obj, tri, pc, seen, locked, parent, watching, dirwatch, pid,
                   events, files>>

(* Mutant: the queue is flushed after the shared lock was dropped. *)
MonSetPidDrain ==
    /\ MGoto("setpid", "scan")
    /\ pid' = Mon
    /\ inot' = <<>>
    /\ UNCHANGED <<locks, pc, seen, locked, parent, watching, dirwatch,
                   event_list, overflow, files>>

MonSetPid ==
    /\ MGoto("setpid", "scan")
    /\ pid' = Mon
    /\ UNCHANGED <<locks, pc, seen, locked, parent, watching, dirwatch,
                   events, files>>

(* Mutant: the directories are watched and not scanned. *)
MonScanNot ==
    /\ MGoto("scan", "loop")
    /\ dirwatch' = TRUE
    /\ locked' = TRUE
    /\ UNCHANGED <<locks, pc, seen, parent, watching, pid, events, files>>

(* monitor_loop() starts: watch_path() watches and scans every directory. *)
MonScan ==
    /\ MGoto("scan", "loop")
    /\ dirwatch' = TRUE
    /\ db' = 1..edits
    /\ locked' = TRUE
    /\ UNCHANGED <<locks, pc, seen, parent, watching, pid, events, edits>>

-----------------------------------------------------------------------------
(***************************************************************************)
(* monitor_loop(): one event at a time is taken from the inotify queue.    *)
(* An IN_OPEN while not locked and an IN_CLOSE while locked are passed     *)
(* over; neither occurs with one monitor (OneMonitor in TriLockInv).       *)
(***************************************************************************)

(* Mutant: the event list is emptied and not written. *)
FlushQueueForget(to) ==
    /\ event_list' = {}
    /\ overflow' = FALSE
    /\ mpc' = IF overflow THEN "retry" ELSE to
    /\ UNCHANGED db

(* flush_queue(): write the event list to the database, and start over     *)
(* when events were lost.                                                  *)
FlushQueue(to) ==
    /\ db' = db \cup event_list
    /\ event_list' = {}
    /\ overflow' = FALSE
    /\ mpc' = IF overflow THEN "retry" ELSE to

(* select() times out. *)
MonTimeout ==
    /\ mpc = "loop" /\ inot = <<>> /\ locked
    /\ event_list # {} \/ overflow
    /\ FlushQueue("loop")
    /\ UNCHANGED <<locks, pc, seen, locked, parent, watching, dirwatch, pid,
                   inot, edits>>

ReadEvent(kind) ==
    /\ mpc = "loop" /\ inot # <<>>
    /\ Head(inot)[1] = kind
    /\ inot' = Tail(inot)

(* Any event but those on the lock file goes to queue_event(). *)
MonReadEdit ==
    /\ ReadEvent("edit")
    /\ event_list' = event_list \cup {Head(inot)[2]}
    /\ UNCHANGED <<locks, pc, seen, mon, overflow, files>>

(* Mutant: an overflow is passed over. *)
MonReadOverflowIgnore ==
    /\ ReadEvent("overflow")
    /\ UNCHANGED <<locks, pc, seen, mon, event_list, overflow, files>>

MonReadOverflow ==
    /\ ReadEvent("overflow")
    /\ overflow' = TRUE
    /\ UNCHANGED <<locks, pc, seen, mon, event_list, files>>

MonReadOpen ==
    /\ ReadEvent("open")
    /\ locked
    /\ FlushQueue("taketri")
    /\ locked' = overflow
    /\ UNCHANGED <<locks, pc, seen, parent, watching, dirwatch, pid, edits>>

MonFlockTri ==
    /\ MGoto("taketri", "dropobj")
    /\ tri = None /\ tri' = Mon
    /\ UNCHANGED <<sh, obj, pc, seen, locked, parent, watching, dirwatch, pid,
                   events, files>>

MonUnflockObj ==
    /\ MGoto("dropobj", "loop")
    /\ obj' = None
    /\ UNCHANGED <<sh, tri, pc, seen, locked, parent, watching, dirwatch, pid,
                   events, files>>

MonReadClose ==
    /\ ReadEvent("close")
    /\ ~locked
    /\ mpc' = "takeobj"
    /\ UNCHANGED <<locks, pc, seen, locked, parent, watching, dirwatch, pid,
                   event_list, overflow, files>>

MonReflockObj ==
    /\ MGoto("takeobj", "droptri")
    /\ obj = None /\ obj' = Mon
    /\ UNCHANGED <<sh, tri, pc, seen, locked, parent, watching, dirwatch, pid,
                   events, files>>

(* Mutant: locked is not set again. *)
MonUnflockTriUnlocked ==
    /\ MGoto("droptri", "loop")
    /\ tri' = None
    /\ UNCHANGED <<sh, obj, pc, seen, locked, parent, watching, dirwatch, pid,
                   events, files>>

MonUnflockTri ==
    /\ MGoto("droptri", "loop")
    /\ tri' = None
    /\ locked' = TRUE
    /\ UNCHANGED <<sh, obj, pc, seen, parent, watching, dirwatch, pid,
                   events, files>>

(***************************************************************************)
(* MONITOR_LOOP_RETRY: forget the watches, clear the pid file, close the   *)
(* three lock files (which drops the object lock) and initialise again.    *)
(***************************************************************************)
MonRetry ==
    /\ MGoto("retry", "sh")
    /\ dirwatch' = FALSE
    /\ pid' = None
    /\ obj' = None
    /\ NotifyObj(CloseEvent)
    /\ UNCHANGED <<sh, tri, pc, seen, locked, parent, watching, event_list,
                   overflow, files>>

-----------------------------------------------------------------------------
(* Mutant: the pid file is not cleared. *)
MonQuitKeepPid ==
    /\ pid = Mon
    /\ mpc \in {"loop", "taketri", "takeobj"}
    /\ mpc' = "exit_obj"
    /\ watching' = FALSE
    /\ dirwatch' = FALSE
    /\ inot' = <<>>
    /\ event_list' = {}
    /\ overflow' = FALSE
    /\ UNCHANGED <<locks, pc, seen, locked, parent, pid, files>>

(***************************************************************************)
(* 'tup stop' sends SIGHUP.  The loop ends; a blocked fcntl() fails with   *)
(* EINTR and ends it too.  The pid file is cleared before any lock is      *)
(* given back.                                                             *)
(***************************************************************************)
MonQuit ==
    /\ pid = Mon
    /\ mpc \in {"loop", "taketri", "takeobj"}
    /\ mpc' = "exit_obj"
    /\ pid' = None
    /\ watching' = FALSE
    /\ dirwatch' = FALSE
    /\ inot' = <<>>
    /\ event_list' = {}
    /\ overflow' = FALSE
    /\ UNCHANGED <<locks, pc, seen, locked, parent, files>>

MonExitObj ==
    /\ MGoto("exit_obj", "exit_tri")
    /\ obj' = IF obj = Mon THEN None ELSE obj
    /\ UNCHANGED <<sh, tri, pc, seen, locked, parent, watching, dirwatch, pid,
                   events, files>>

(* flock(tri) succeeds at once when the monitor already owns it. *)
MonExitTri ==
    /\ MGoto("exit_tri", "off")
    /\ tri \in {None, Mon}
    /\ tri' = None
    /\ UNCHANGED <<sh, obj, pc, seen, locked, parent, watching, dirwatch, pid,
                   events, files>>

-----------------------------------------------------------------------------
Client(p) ==
    \/ FlockSh(p) \/ OpenObj(p) \/ FlockObj(p) \/ Work(p)
    \/ UnflockObj(p) \/ CloseObj(p) \/ FlockTri(p) \/ UnflockTri(p)
    \/ UnflockSh(p)

Monitor ==
    \/ MonFlockSh \/ MonOpenObj \/ MonFlockObj \/ MonForeground \/ MonFork
    \/ MonDrain \/ MonUnflockSh \/ MonSetPid \/ MonScan
    \/ MonTimeout \/ MonReadEdit \/ MonReadOverflow \/ MonReadOpen
    \/ MonFlockTri \/ MonUnflockObj \/ MonReadClose
    \/ MonReflockObj \/ MonUnflockTri \/ MonRetry \/ MonExitObj \/ MonExitTri

Next ==
    \/ Edit
    \/ \E p \in Procs : Start(p)
    \/ \E p \in Procs : Client(p)
    \/ MonStart
    \/ Monitor
    \/ ParentExit
    \/ MonQuit

(***************************************************************************)
(* A running process takes its next step.  Nobody has to edit a file or to *)
(* run, start or stop anything.                                            *)
(***************************************************************************)
Fairness ==
    /\ \A p \in Procs : WF_vars(Client(p))
    /\ WF_vars(Monitor)
    /\ WF_vars(ParentExit)

Spec == Init /\ [][Next]_vars

FairSpec == Spec /\ Fairness

-----------------------------------------------------------------------------
ControlTypeOK ==
    /\ sh \in Owner /\ obj \in Owner
    /\ pc \in [Procs -> ClientPC]
    /\ seen \in [Procs -> Nat]
    /\ mpc \in MonPC

FlagTypeOK ==
    /\ locked \in BOOLEAN /\ parent \in BOOLEAN
    /\ watching \in BOOLEAN /\ dirwatch \in BOOLEAN
    /\ overflow \in BOOLEAN

DataTypeOK ==
    /\ inot \in Seq(Event)
    /\ event_list \in SUBSET Nat
    /\ edits \in Nat
    /\ db \in SUBSET Nat

(* What also holds when monitors are killed and replaced. *)
Typed == ControlTypeOK /\ FlagTypeOK /\ DataTypeOK

TypeOK == Typed /\ tri \in Owner /\ pid \in {None, Mon}

(***************************************************************************)
(* The database has one user at a time: a command works on it, or the      *)
(* monitor in its locked phase, and never both (lock.c: "They lock one     *)
(* thing - the database").                                                 *)
(***************************************************************************)
Working(p) == pc[p] \in {"work", "unobj"}

MonitorActive ==
    \/ mpc \in {"scan", "retry", "taketri", "dropobj", "droptri"}
    \/ mpc = "loop" /\ locked

DatabaseExclusive ==
    /\ \A p, q \in Procs : Working(p) /\ Working(q) => p = q
    /\ MonitorActive => \A p \in Procs : ~Working(p)

(***************************************************************************)
(* A command never works on a stale database: every edit made before it    *)
(* opened the object lock is in the database once it has decided whether   *)
(* to scan (run_scan()), be it from the monitor or from its own scan.      *)
(***************************************************************************)
Fresh == \A p \in Procs : pc[p] = "unobj" => 1..seen[p] \subseteq db

(***************************************************************************)
(* The monitor never sleeps on the object lock: while a command waits for  *)
(* a lock the looping monitor owns, an event is on its way that makes the  *)
(* monitor hand it over (or start over).                                   *)
(***************************************************************************)
NoMissedOpen ==
    mpc = "loop" /\ locked /\ (\E p \in Procs : pc[p] = "obj") =>
        Holds(inot, OpenEvent) \/ Holds(inot, OverflowEvent) \/ overflow

(***************************************************************************)
(* While the directories are watched, an edit that is not in the database  *)
(* is in event_list, in the inotify queue, or behind an overflow that will *)
(* make the monitor scan again: none gets lost on the way from the kernel  *)
(* through queue_event() and flush_queue() to the database.                *)
(***************************************************************************)
NoLostEdit ==
    dirwatch /\ mpc # "retry" =>
        \A v \in 1..edits :
            \/ v \in db \/ v \in event_list \/ Holds(inot, EditEvent(v))
            \/ Holds(inot, OverflowEvent) \/ overflow

(***************************************************************************)
(* Every command that has the shared lock gets through tup_lock_init() and *)
(* tup_lock_exit(): whatever the monitor is doing, it hands the object     *)
(* lock over, takes it back and drops the tri lock.                        *)
(***************************************************************************)
CommandsFinish ==
    \A p \in Procs : (pc[p] \notin {"idle", "sh"}) ~> (pc[p] = "idle")
=============================================================================
