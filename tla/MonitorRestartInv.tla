-------------------------- MODULE MonitorRestartInv --------------------------
(***************************************************************************)
(* The inductive invariant of MonitorRestart: each lock still belongs to   *)
(* the process whose program counter says so, also after kills; as long as *)
(* nobody was killed the rest of TriLock's CoreInv holds too, whether the  *)
(* monitor was replaced or not.                                            *)
(***************************************************************************)
EXTENDS MonitorRestart, TriLockInv

(* The old monitor keeps the tri lock until it is gone. *)
OldInv ==
    /\ opc \in {"none", "quit", "close", "tri", "gone"}
    /\ opc \in {"quit", "close", "tri"} => tri = Old

RInv ==
    /\ crashes \in Nat
    /\ Typed
    /\ ClientLocks
    /\ MonitorLocks
    /\ OldInv
    /\ crashes = 0 => CoreInv
=============================================================================
