--------------------------- MODULE AutoupdateInv ----------------------------
(***************************************************************************)
(* The inductive invariant of Autoupdate from which FlushedMeansUpdated    *)
(* follows: that the monitor never writes events to the database without  *)
(* an update to follow, and, as long as no update is killed, that of the   *)
(* lock protocol, but for Fresh (a flush does not scan).                   *)
(***************************************************************************)
EXTENDS Autoupdate, TriLockInv

LockInv ==
    /\ Typed
    /\ ClientLocks
    /\ MonitorLocks
    /\ MonitorState
    /\ OpenInv
    /\ EditBounds
    /\ NoLostEdit
    /\ EditOrder

(* What no update has found yet, AUTOUPDATE_PID announces. *)
UpdatePending ==
    mpc \in {"loop", "taketri", "dropobj", "takeobj", "droptri"} /\ dbpid = None => db \subseteq tried

AInv ==
    /\ kills \in Nat
    /\ UpdatePending
    /\ kills = 0 => LockInv

=============================================================================
