----------------------------- MODULE TriLockInv -----------------------------
(***************************************************************************)
(* The inductive invariant of TriLock: who owns which lock, what can be in *)
(* the inotify queue in each phase of the monitor, and where each edit is. *)
(* CoreInv is the part that survives the replacement of a monitor by       *)
(* another (MonitorRestart); OneMonitor is what only a single monitor can  *)
(* rely on.                                                                *)
(***************************************************************************)
EXTENDS TriLock

(* The monitor owns the object lock and reads events. *)
Home == mpc = "loop" /\ locked

(* It has released the object lock, and waits for an IN_CLOSE. *)
Out == mpc = "loop" /\ ~locked

(* It has decided to release the object lock. *)
Leaving == mpc \in {"taketri", "dropobj"}

(* It takes the object lock back. *)
Returning == mpc \in {"takeobj", "droptri"}

HasSh(p) == pc[p] \in {"open", "obj", "work", "unobj", "close", "tri", "untri",
                       "unsh"}

At(pcs) == \E p \in Procs : pc[p] \in pcs

(* Each lock belongs to the process whose program counter says so. *)
ClientLocks ==
    \A p \in Procs :
        /\ sh = p <=> HasSh(p)
        /\ obj = p <=> pc[p] \in {"work", "unobj"}
        /\ tri = p <=> pc[p] = "untri"

MonitorLocks ==
    /\ sh = Mon <=> parent \/ mpc \in {"open", "obj", "ready", "unsh"}
    /\ parent => mpc \notin {"open", "obj", "ready", "unsh"}
    /\ Home \/ Leaving \/ mpc \in {"ready", "unsh", "setpid", "scan", "droptri", "retry"}
          => obj = Mon
    /\ Out \/ mpc \in {"off", "sh", "open", "obj", "takeobj", "exit_tri"}
          => obj # Mon
    /\ Out \/ Returning \/ mpc = "dropobj" => tri = Mon
    /\ tri = Mon => Out \/ Returning \/ mpc \in {"dropobj", "exit_obj", "exit_tri"}
    /\ Leaving \/ Returning => ~locked

(* The pid file and the watches follow the phase of the monitor. *)
MonitorState ==
    /\ pid = Mon => mpc \in {"ready", "unsh", "setpid", "scan", "loop", "taketri",
                             "dropobj", "takeobj", "droptri", "retry"}
    /\ dirwatch <=> mpc \in {"loop", "taketri", "dropobj", "takeobj", "droptri",
                             "retry"}
    /\ dirwatch \/ mpc \in {"unsh", "setpid", "scan"} => watching
    /\ mpc \in {"off", "exit_obj", "exit_tri"} => ~watching
    /\ ~watching => inot = <<>>
    /\ ~dirwatch \/ mpc = "retry" => event_list = {} /\ ~overflow

(* There is at most one e in q. *)
Once(q, e) == \A i, j \in DOMAIN q : q[i] = e /\ q[j] = e => i = j

(* An IN_OPEN in the queue is that of a command which waits, and there is  *)
(* none while the monitor makes way for a command.                         *)
OpenInv ==
    /\ Home \/ mpc \in {"setpid", "scan"} =>
          /\ Once(inot, OpenEvent)
          /\ Holds(inot, OpenEvent) => At({"obj"})
    /\ Out \/ Leaving \/ Returning \/ mpc = "unsh" => ~Holds(inot, OpenEvent)
    /\ Leaving => At({"obj"})
    /\ Out \/ Returning => At({"obj", "work", "unobj", "close", "tri"})

(* Only the monitor writes the pid file, and only commands that it made    *)
(* way for close the lock file.                                            *)
OneMonitor ==
    /\ pid = Mon <=> mpc \in {"scan", "loop", "taketri", "dropobj", "takeobj",
                              "droptri", "retry"}
    /\ mpc = "unsh" => inot = <<>>
    /\ Home \/ mpc \in {"setpid", "scan"} =>
          /\ ~At({"close"})
          /\ ~Holds(inot, CloseEvent)
          /\ At({"obj"}) => Holds(inot, OpenEvent) \/ Holds(inot, OverflowEvent)
                               \/ overflow
    /\ Leaving \/ Returning => ~Holds(inot, CloseEvent)
    /\ Out => Once(inot, CloseEvent) /\ (Holds(inot, CloseEvent) => At({"tri"}))
    /\ Returning => At({"tri"})

(* The edits reported in q are among the first n. *)
EditsUpTo(q, n) == \A i \in DOMAIN q : q[i][1] = "edit" => q[i][2] \in 1..n

(* What is known of the edits is real. *)
EditBounds ==
    /\ db \subseteq 1..edits
    /\ event_list \subseteq 1..edits
    /\ EditsUpTo(inot, edits)
    /\ \A p \in Procs : seen[p] <= edits

(* Every e in q comes after an x. *)
Precedes(q, x, e) ==
    \A i \in DOMAIN q : q[i] = e => \E j \in DOMAIN q : j < i /\ q[j] = x

(* No edit that a command must see is behind its IN_OPEN in the queue, and *)
(* all of them are in the database when the monitor hands it over.         *)
EditOrder ==
    /\ Home => \A p \in Procs : pc[p] = "obj" =>
          \A v \in 1..seen[p] :
              \/ v \in db \/ v \in event_list \/ overflow
              \/ Precedes(inot, EditEvent(v), OpenEvent)
              \/ Precedes(inot, OverflowEvent, OpenEvent)
    /\ Out \/ Leaving \/ mpc = "takeobj" => \A p \in Procs :
          pc[p] \in {"obj", "work", "unobj"} => 1..seen[p] \subseteq db

(***************************************************************************)
(* The inductive invariant of the lock protocol of lock.c and monitor_loop *)
(***************************************************************************)
CoreInv ==
    /\ Typed
    /\ ClientLocks
    /\ MonitorLocks
    /\ MonitorState
    /\ OpenInv
    /\ EditBounds
    /\ NoLostEdit
    /\ EditOrder
    /\ Fresh

IndInv == CoreInv /\ TypeOK /\ OneMonitor

-----------------------------------------------------------------------------
(***************************************************************************)
(* The refinement mapping: the owner of the object lock owns the database, *)
(* and a command asks for the database by opening the lock file.           *)
(***************************************************************************)
Phase(p) ==
    CASE pc[p] = "obj"   -> "waiting"
      [] pc[p] = "work"  -> "entered"
      [] pc[p] = "unobj" -> "using"
      [] OTHER           -> "idle"

FD == INSTANCE FreshDatabase WITH owner <- obj, phase <- [p \in Procs |-> Phase(p)]

(* The locks of lock.c and the hand-over of monitor_loop() implement an    *)
(* exclusively owned database that is never stale for a command.           *)
FreshDatabaseSpec == FD!Spec
=============================================================================
