-------------------------- MODULE AutoupdateProofs --------------------------
(***************************************************************************)
(* Machine-checked proof that 'tup flush' does not return before an update *)
(* has dealt with the edits, for any number of commands, autoupdates and   *)
(* edits, any number of monitors one after the other, and any length of    *)
(* the inotify queue.                                                      *)
(***************************************************************************)
EXTENDS AutoupdateInv, TriLockProofs

(* 'tup flush' looks at AUTOUPDATE_PID and not at the files. *)
LEMMA FlushWorkLocks ==
    ASSUME LockInv, NEW u \in Procs, FlushWork(u)
    PROVE  LockInv'
<1>1. /\ pc \in [Procs -> ClientPC] /\ pc[u] = "work" /\ pc' = [pc EXCEPT ![u] = "unobj"]
      /\ UNCHANGED <<sh, obj, tri, seen, mpc, locked, parent, watching, dirwatch, pid, inot,
                     event_list, overflow, edits, db>>
  BY DEF LockInv, Typed, ControlTypeOK, FlushWork, Goto, locks, mon, events, files
<1>2. pc'[u] = "unobj" /\ \A p \in Procs \ {u} : pc'[p] = pc[p]
  BY <1>1
<1>3. Typed'
  BY <1>1 DEF LockInv, Typed, ControlTypeOK, FlagTypeOK, DataTypeOK, ClientPC
<1>4. ClientLocks'
  BY <1>1, <1>2 DEF LockInv, ClientLocks, HasSh
<1>5. MonitorLocks' /\ MonitorState' /\ EditBounds' /\ NoLostEdit'
  BY <1>1 DEF LockInv, MonitorLocks, MonitorState, EditBounds, NoLostEdit, Home, Out, Leaving,
              Returning
<1>6. OpenInv'
  <2>1. At({"obj"}) => At({"obj"})'
    BY <1>1, <1>2 DEF At
  <2>2. At({"obj", "work", "unobj", "close", "tri"})'
    BY <1>2 DEF At
  <2> QED
    BY <1>1, <2>1, <2>2 DEF LockInv, OpenInv, Home, Out, Leaving, Returning
<1>7. EditOrder'
  BY <1>1, <1>2 DEF LockInv, EditOrder, Home, Out, Leaving
<1> QED
  BY <1>3, <1>4, <1>5, <1>6, <1>7 DEF LockInv

LEMMA LockInvStep ==
    ASSUME LockInv, [Next]_vars
    PROVE  LockInv'
BY TypedStep, ClientLocksStep, MonitorLocksStep, MonitorStateStep, OpenStep, EditBoundsStep,
   NoLostEditStep, EditOrderStep DEF LockInv

(* What a step of the autoupdate is in the lock protocol. *)
LEMMA StepsOfLocks ==
    ASSUME [ANext]_avars
    PROVE  \/ [Next]_vars
           \/ \E u \in Users : FlushWork(u)
           \/ \E k \in Kids : Kill(k)
<1>1. Kids \subseteq Procs /\ Users \subseteq Procs
  BY AutoupdateAssumption DEF Users
<1>2. ASSUME NEW p \in Procs, Locking(p) PROVE Client(p)
  BY <1>2 DEF Locking, Client
<1>3. ASSUME NEW k \in Kids, Child(k) PROVE Next
  BY <1>1, <1>2, <1>3 DEF Child, Exec, AutoWork, UpdateWork, AutoEnd, Client, Next
<1>4. ASSUME NEW u \in Users, UserStart(u) \/ User(u) PROVE Next \/ FlushWork(u)
  BY <1>1, <1>2, <1>4 DEF User, UserStart, UserWork, UpdateWork, Client, Next
<1>5. CASE AMonitor
  BY <1>5 DEF AMonitor, AMonTimeout, AMonReadOpen, AMonScan, AMonExitObj, AMonOther, Monitor, Next
<1>6. CASE AEdit \/ AMonStart \/ AParentExit \/ AMonQuit
  BY <1>6 DEF AEdit, AMonStart, AParentExit, AMonQuit, Next
<1>7. CASE Waiter \/ UNCHANGED avars
  BY <1>7 DEF Waiter, WaiterTake, WaiterReap, avars
<1> QED
  BY <1>3, <1>4, <1>5, <1>6, <1>7 DEF ANext

(* The number of kills never goes down. *)
LEMMA KillsGrow ==
    ASSUME kills \in Nat, [ANext]_avars
    PROVE  \/ kills' = kills
           \/ kills' = kills + 1 /\ \E k \in Kids : Kill(k)
<1>1. ASSUME NEW k \in Kids, Child(k) PROVE kills' = kills
  BY <1>1 DEF Child, Exec, AutoWork, UpdateWork, AutoEnd, Locking
<1>2. ASSUME NEW u \in Users, UserStart(u) \/ User(u) PROVE kills' = kills
  BY <1>2 DEF User, UserStart, UserWork, UpdateWork, FlushWork, Locking
<1>3. CASE AMonitor \/ AEdit \/ AMonStart \/ AParentExit \/ AMonQuit \/ Waiter
  BY <1>3 DEF AMonitor, AMonTimeout, AMonReadOpen, AMonScan, AMonExitObj, AMonOther, AEdit,
              AMonStart, AParentExit, AMonQuit, Waiter, WaiterTake, WaiterReap
<1>4. CASE UNCHANGED avars
  BY <1>4 DEF avars
<1>5. ASSUME NEW k \in Kids, Kill(k) PROVE kills' = kills + 1
  BY <1>5 DEF Kill
<1> QED
  BY <1>1, <1>2, <1>3, <1>4, <1>5 DEF ANext

-----------------------------------------------------------------------------
(* A forked update announces itself. *)
LEMMA ForkAnnounces == Fork => dbpid' # None
BY AutoupdateAssumption, TriLockAssumption DEF Fork

(* No step leaves edits in the database that neither an update has found   *)
(* nor one that is announced will find.                                    *)
LEMMA UpdatePendingStep ==
    ASSUME UpdatePending, [ANext]_avars
    PROVE  UpdatePending'
<1> USE DEF UpdatePending
<1> DEFINE Going == mpc \in {"loop", "taketri", "dropobj", "takeobj", "droptri"}
           Same  == (Going' => Going) /\ UNCHANGED <<db, dbpid, tried>>
<1>1. ASSUME Same PROVE UpdatePending'
  BY <1>1
<1>2. ASSUME NEW p, UpdateWork(p) PROVE UpdatePending'
  BY <1>2 DEF UpdateWork
<1>3. ASSUME NEW p, Locking(p) PROVE UpdatePending'
  BY <1>3 DEF Locking, FlockSh, OpenObj, FlockObj, UnflockObj, CloseObj, FlockTri, UnflockTri,
              UnflockSh, auto, mon, files
<1>4. ASSUME NEW k \in Kids, Child(k) PROVE UpdatePending'
  BY <1>2, <1>3, <1>4 DEF Child, Exec, Start, AutoWork, AutoEnd, UnflockSh, mon, files
<1>5. ASSUME NEW u \in Users, UserStart(u) \/ User(u) PROVE UpdatePending'
  BY <1>2, <1>3, <1>5 DEF User, UserStart, Start, UserWork, FlushWork, auto, mon, files
<1>6. CASE AMonTimeout
  <2>1. CASE overflow
    BY <1>6, <2>1 DEF AMonTimeout, MonTimeout, FlushQueue
  <2>2. CASE ~overflow
    BY <1>6, <2>2, ForkAnnounces DEF AMonTimeout, MonTimeout, FlushQueue, FlushTail, Handled
  <2> QED
    BY <2>1, <2>2
<1>7. CASE AMonReadOpen
  <2>1. CASE overflow
    BY <1>7, <2>1 DEF AMonReadOpen, MonReadOpen, FlushQueue
  <2>2. CASE ~overflow /\ Handled
    BY <1>7, <2>2, ForkAnnounces DEF AMonReadOpen, FlushTail
  <2>3. CASE ~overflow /\ ~Handled
    <3>1. db' = db /\ tried' = tried /\ dbpid' = dbpid /\ mpc = "loop"
      BY <1>7, <2>3 DEF AMonReadOpen, MonReadOpen, ReadEvent, FlushQueue, FlushTail, Handled
    <3> QED
      BY <3>1
  <2> QED
    BY <2>1, <2>2, <2>3
<1>8. CASE AMonScan
  BY <1>8, ForkAnnounces DEF AMonScan, MonScan
<1>9. CASE AMonExitObj \/ AMonStart \/ AMonQuit
  BY <1>9 DEF AMonExitObj, MonExitObj, AMonStart, MonStart, AMonQuit, MonQuit, MGoto
<1>10. CASE AMonOther
  <2>1. UNCHANGED <<db, dbpid, tried>>
    BY <1>10 DEF AMonOther, auto, files, MonFlockSh, MonOpenObj, MonFlockObj, MonForeground,
       MonFork, MonDrain, MonUnflockSh, MonSetPid, MonReadEdit, MonReadOverflow, MonFlockTri,
       MonUnflockObj, MonReadClose, MonReflockObj, MonUnflockTri, MonRetry, MonExitTri
  <2>2. Going' => Going
    BY <1>10 DEF AMonOther, mon, MGoto, ReadEvent, MonFlockSh, MonOpenObj, MonFlockObj,
       MonForeground, MonFork, MonDrain, MonUnflockSh, MonSetPid, MonReadEdit, MonReadOverflow,
       MonFlockTri, MonUnflockObj, MonReadClose, MonReflockObj, MonUnflockTri, MonRetry, MonExitTri
  <2> QED
    BY <1>1, <2>1, <2>2
<1>11. CASE AEdit \/ AParentExit \/ Waiter \/ UNCHANGED avars
  BY <1>11 DEF AEdit, Edit, AParentExit, ParentExit, Waiter, WaiterTake, WaiterReap, avars, vars,
               auto, mon, files
<1>12. ASSUME NEW k \in Kids, Kill(k) PROVE UpdatePending'
  BY <1>12 DEF Kill, mon, files
<1> QED
  BY <1>4, <1>5, <1>6, <1>7, <1>8, <1>9, <1>10, <1>11, <1>12 DEF ANext, AMonitor

LEMMA AInvStep == AInv /\ [ANext]_avars => AInv'
<1> SUFFICES ASSUME AInv, [ANext]_avars PROVE AInv'
  OBVIOUS
<1>1. kills \in Nat /\ kills' \in Nat
  BY KillsGrow DEF AInv
<1>2. UpdatePending'
  BY UpdatePendingStep DEF AInv
<1>3. ASSUME kills' = 0 PROVE LockInv'
  <2>1. kills = 0 /\ ~\E k \in Kids : Kill(k)
    <3>1. ASSUME NEW k \in Kids, Kill(k) PROVE kills' = kills + 1
      BY <3>1 DEF Kill
    <3> QED
      BY <1>1, <1>3, <3>1, KillsGrow
  <2>2. LockInv /\ Users \subseteq Procs
    BY <2>1 DEF AInv, Users
  <2> QED
    BY <2>1, <2>2, StepsOfLocks, LockInvStep, FlushWorkLocks
<1> QED
  BY <1>1, <1>2, <1>3 DEF AInv

(* The invariant of the lock protocol and of AUTOUPDATE_PID. *)
THEOREM AutoupdateInvariance == ASpec => []AInv
<1>1. AInit => AInv
  <2> SUFFICES ASSUME AInit PROVE AInv
    OBVIOUS
  <2>1. LockInv
    BY InitIndInv DEF AInit, IndInv, CoreInv, LockInv
  <2> QED
    BY <2>1 DEF AInit, Init, AInv, UpdatePending
<1> QED
  BY <1>1, AInvStep, PTL DEF ASpec

(* When 'tup flush' finds no AUTOUPDATE_PID, an update has found every edit *)
(* of the database, and, if nobody was killed, every edit that was made    *)
(* before flush asked for the lock.                                        *)
THEOREM FlushIsHonest == ASpec => []FlushedMeansUpdated
<1>1. AInv => FlushedMeansUpdated
  <2> SUFFICES ASSUME AInv, NEW u \in Users, pc[u] = "work", dbpid = None, mpc = "loop"
               PROVE  db \subseteq tried /\ (kills = 0 => 1..seen[u] \subseteq tried)
    BY DEF FlushedMeansUpdated
  <2>1. db \subseteq tried /\ u \in Procs
    BY DEF AInv, UpdatePending, Users
  <2>2. ASSUME kills = 0 PROVE 1..seen[u] \subseteq tried
    <3>1. LockInv
      BY <2>2 DEF AInv
    <3>2. obj = u /\ u # Mon
      BY <2>1, <3>1, TriLockAssumption DEF LockInv, ClientLocks
    <3>3. Out
      BY <3>1, <3>2 DEF LockInv, MonitorLocks, Home, Out, Typed, FlagTypeOK
    <3> QED
      BY <2>1, <3>1, <3>3 DEF LockInv, EditOrder
  <2> QED
    BY <2>1, <2>2
<1> QED
  BY <1>1, AutoupdateInvariance, PTL

=============================================================================
