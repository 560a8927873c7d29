---------------------------- MODULE TriLockCrash ----------------------------
(***************************************************************************)
(* The tri-lock protocol when processes are killed.  The kernel closes the *)
(* files and drops the locks of a dead process, in whatever state it was:  *)
(* nothing of tup_lock_exit() runs.                                        *)
(***************************************************************************)
EXTENDS TriLock

CONSTANTS Stale,      \* the pid of a monitor that is gone
          MaxCrashes  \* bound on the number of killed processes

ASSUME CrashAssumption == Stale \notin {None, Mon} /\ MaxCrashes \in Nat

VARIABLE crashes

cvars == <<vars, crashes>>

Release(lock, x) == IF lock = x THEN None ELSE lock

(* The process has the object lock file open. *)
HasObjOpen(p) == pc[p] \in {"obj", "work", "unobj", "close"}

Crash(p) ==
    /\ crashes < MaxCrashes
    /\ crashes' = crashes + 1
    /\ pc[p] # "idle"
    /\ pc' = [pc EXCEPT ![p] = "idle"]
    /\ sh' = Release(sh, p)
    /\ obj' = Release(obj, p)
    /\ tri' = Release(tri, p)
    /\ IF HasObjOpen(p) THEN NotifyObj(CloseEvent) ELSE UNCHANGED inot
    /\ UNCHANGED <<seen, mon, event_list, overflow, files>>

(* SIGKILL leaves the pid file alone; sighandler() clears it on SIGTERM.   *)
MonCrash ==
    /\ crashes < MaxCrashes
    /\ crashes' = crashes + 1
    /\ mpc # "off"
    /\ mpc' = "off"
    /\ sh' = IF parent THEN sh ELSE Release(sh, Mon)
    /\ obj' = Release(obj, Mon)
    /\ tri' = Release(tri, Mon)
    /\ watching' = FALSE
    /\ dirwatch' = FALSE
    /\ inot' = <<>>
    /\ event_list' = {}
    /\ overflow' = FALSE
    /\ pid' \in (IF pid = Mon THEN {Stale, None} ELSE {pid})
    /\ UNCHANGED <<pc, seen, locked, parent, files>>

CInit == Init /\ crashes = 0

CNext ==
    \/ Next /\ UNCHANGED crashes
    \/ \E p \in Procs : Crash(p)
    \/ MonCrash

CSpec == CInit /\ [][CNext]_cvars

CFairSpec ==
    /\ CSpec
    /\ \A p \in Procs : WF_cvars(Client(p) /\ UNCHANGED crashes)
    /\ WF_cvars(Monitor /\ UNCHANGED crashes)
    /\ WF_cvars(ParentExit /\ UNCHANGED crashes)
=============================================================================
