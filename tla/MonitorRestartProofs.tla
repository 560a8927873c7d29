------------------------ MODULE MonitorRestartProofs ------------------------
(***************************************************************************)
(* Machine-checked proofs about the lock protocol when processes are       *)
(* killed and a monitor is replaced, for any number of commands, edits and *)
(* kills, and any length of the inotify queue.                             *)
(***************************************************************************)
EXTENDS MonitorRestartInv, TriLockProofs

-----------------------------------------------------------------------------
(***************************************************************************)
(* A step of the protocol itself.                                          *)
(***************************************************************************)
(* Nobody takes the tri lock away from the old monitor. *)
LEMMA OldKeepsTri ==
    ASSUME ClientLocks, MonitorLocks, tri = Old, [Next]_vars
    PROVE  tri' = Old
<1>0. Old \notin Procs /\ Old # Mon /\ Old # None
  BY OldAssumption
<1>1. CASE UNCHANGED tri
  BY <1>1
<1>2. ASSUME NEW p \in Procs, FlockTri(p) \/ UnflockTri(p) PROVE tri' = Old
  BY <1>0, <1>2 DEF FlockTri, UnflockTri, Goto, ClientLocks
<1>3. CASE MonFlockTri \/ MonUnflockTri \/ MonExitTri
  BY <1>0, <1>3 DEF MonFlockTri, MonUnflockTri, MonExitTri, MGoto, MonitorLocks, Returning
<1>4. ASSUME NEW p \in Procs, Start(p) \/ Client(p) PROVE tri' = Old
  BY <1>1, <1>2, <1>4 DEF Client, Start, FlockSh, OpenObj, FlockObj, Work, UnflockObj, CloseObj,
                          UnflockSh, locks
<1>5. CASE Monitor
  BY <1>1, <1>3, <1>5 DEF Monitor, MonFlockSh, MonOpenObj, MonFlockObj, MonForeground, MonFork,
         MonDrain, MonUnflockSh, MonSetPid, MonScan, MonTimeout, MonReadEdit, MonReadOverflow,
         MonReadOpen, MonUnflockObj, MonReadClose, MonReflockObj, MonRetry, MonExitObj, locks
<1>6. CASE Edit \/ MonStart \/ ParentExit \/ MonQuit \/ UNCHANGED vars
  BY <1>1, <1>6 DEF Edit, MonStart, ParentExit, MonQuit, vars, locks
<1> QED
  BY <1>4, <1>5, <1>6 DEF Next

LEMMA ProtocolStep ==
    ASSUME RInv, [Next]_vars, UNCHANGED <<crashes, opc>>
    PROVE  RInv'
<1>1. Typed' /\ ClientLocks' /\ MonitorLocks'
  BY TypedStep, ClientLocksStep, MonitorLocksStep DEF RInv
<1>2. OldInv'
  BY OldKeepsTri DEF RInv, OldInv
<1>3. crashes' = 0 => CoreInv'
  BY CoreInvStep DEF RInv
<1> QED
  BY <1>1, <1>2, <1>3 DEF RInv

-----------------------------------------------------------------------------
(***************************************************************************)
(* A kill: the kernel drops the locks of the dead process.                 *)
(***************************************************************************)
LEMMA CrashStep ==
    ASSUME RInv, NEW p \in Procs, Crash(p), UNCHANGED opc
    PROVE  RInv'
<1>0. p # None /\ p # Mon /\ Mon # None /\ Old # p /\ Old # None
  BY TriLockAssumption, OldAssumption
<1>1. crashes \in Nat /\ crashes' = crashes + 1 /\ crashes' \in Nat /\ crashes' # 0
  BY DEF RInv, Crash
<1>2. Typed'
  <2>1. ControlTypeOK'
    BY DEF RInv, Typed, ControlTypeOK, Owner, ClientPC, Crash, Release, mon
  <2>2. FlagTypeOK'
    BY DEF RInv, Typed, FlagTypeOK, Crash, mon
  <2>3. inot' = inot \/ inot' = Enqueue(inot, CloseEvent)
    BY DEF Crash, NotifyObj
  <2>4. DataTypeOK'
    BY <2>3, EnqueueType, EventFacts DEF RInv, Typed, DataTypeOK, Crash, files
  <2> QED
    BY <2>1, <2>2, <2>4 DEF Typed
<1>3. ClientLocks'
  BY <1>0, TriLockAssumption DEF RInv, Typed, ControlTypeOK, ClientLocks, HasSh, Crash, Release
<1>4. MonitorLocks'
  BY <1>0 DEF RInv, MonitorLocks, Home, Out, Leaving, Returning, Crash, Release, mon
<1>5. OldInv'
  BY <1>0 DEF RInv, OldInv, Crash, Release
<1> QED
  BY <1>1, <1>2, <1>3, <1>4, <1>5 DEF RInv

LEMMA MonCrashStep ==
    ASSUME RInv, MonCrash, UNCHANGED opc
    PROVE  RInv'
<1>0. None \notin Procs /\ Mon \notin Procs /\ Mon # None /\ Old # Mon
  BY TriLockAssumption, OldAssumption
<1>1. crashes \in Nat /\ crashes' = crashes + 1 /\ crashes' \in Nat /\ crashes' # 0
  BY DEF RInv, MonCrash
<1>2. Typed'
  <2>1. ControlTypeOK' /\ FlagTypeOK'
    BY DEF RInv, Typed, ControlTypeOK, FlagTypeOK, Owner, MonPC, MonCrash, Release
  <2>2. DataTypeOK'
    BY DEF RInv, Typed, DataTypeOK, MonCrash, files
  <2> QED
    BY <2>1, <2>2 DEF Typed
<1>3. ClientLocks'
  BY <1>0 DEF RInv, ClientLocks, HasSh, MonCrash, Release
<1>4. MonitorLocks'
  BY <1>0 DEF RInv, MonitorLocks, Home, Out, Leaving, Returning, MonCrash, Release
<1>5. OldInv'
  BY <1>0 DEF RInv, OldInv, MonCrash, Release
<1> QED
  BY <1>1, <1>2, <1>3, <1>4, <1>5 DEF RInv

-----------------------------------------------------------------------------
(***************************************************************************)
(* A monitor is replaced.                                                  *)
(***************************************************************************)
LEMMA ReplaceStep ==
    ASSUME RInv, NEW p \in Procs, Replace(p)
    PROVE  RInv'
<1>0. /\ None \notin Procs /\ Mon \notin Procs /\ Mon # None
      /\ Old \notin Procs /\ Old # Mon /\ Old # None
  BY TriLockAssumption, OldAssumption
<1>1. /\ pc[p] = "work" /\ pc' = [pc EXCEPT ![p] = "idle"]
      /\ mpc = "loop" /\ ~locked /\ tri = Mon
      /\ sh' = Mon /\ obj' = Mon /\ tri' = Old /\ mpc' = "ready" /\ locked' = TRUE
      /\ watching' = FALSE /\ dirwatch' = FALSE
      /\ inot' = <<>> /\ event_list' = {} /\ overflow' = FALSE
      /\ opc' = "quit" /\ UNCHANGED <<seen, parent, pid, edits, db, crashes>>
  BY DEF Replace, Goto, files
<1>2. sh = p /\ obj = p /\ parent = FALSE
  BY <1>0, <1>1 DEF RInv, ClientLocks, HasSh, MonitorLocks, Typed, FlagTypeOK
<1>3. Typed'
  <2>1. ControlTypeOK' /\ FlagTypeOK'
    BY <1>1 DEF RInv, Typed, ControlTypeOK, FlagTypeOK, Owner, ClientPC, MonPC
  <2>2. DataTypeOK'
    BY <1>1 DEF RInv, Typed, DataTypeOK
  <2> QED
    BY <2>1, <2>2 DEF Typed
<1>4. ClientLocks'
  BY <1>0, <1>1, <1>2 DEF RInv, Typed, ControlTypeOK, ClientLocks, HasSh
<1>5. MonitorLocks'
  BY <1>0, <1>1, <1>2 DEF MonitorLocks, Home, Out, Leaving, Returning
<1>6. OldInv'
  BY <1>1 DEF OldInv
<1>7. ASSUME crashes = 0 PROVE CoreInv'
  <2>0. CoreInv
    BY <1>7 DEF RInv
  <2>1. MonitorState'
    BY <1>1 DEF MonitorState
  <2>2. OpenInv' /\ NoLostEdit'
    BY <1>1 DEF OpenInv, NoLostEdit, Home, Out, Leaving, Returning
  <2>3. EditBounds'
    BY <1>1, <2>0 DEF CoreInv, EditBounds, EditsUpTo
  <2>4. EditOrder'
    BY <1>1 DEF EditOrder, Home, Out, Leaving
  <2>5. Fresh'
    BY <1>1, <2>0 DEF CoreInv, Typed, ControlTypeOK, Fresh
  <2> QED
    BY <1>3, <1>4, <1>5, <2>1, <2>2, <2>3, <2>4, <2>5 DEF CoreInv
<1> QED
  BY <1>1, <1>3, <1>4, <1>5, <1>6, <1>7 DEF RInv

LEMMA OldClearPidStep ==
    ASSUME RInv, OldClearPid
    PROVE  RInv'
<1> USE DEF OldClearPid, OldGoto, locks, events, files
<1>1. Typed' /\ ClientLocks' /\ MonitorLocks'
  BY DEF RInv, Typed, ControlTypeOK, FlagTypeOK, DataTypeOK, ClientLocks, HasSh, MonitorLocks,
         Home, Out, Leaving, Returning
<1>2. OldInv'
  BY DEF RInv, OldInv
<1>3. ASSUME CoreInv PROVE CoreInv'
  <2>1. MonitorState'
    BY <1>3, TriLockAssumption DEF CoreInv, MonitorState
  <2>2. OpenInv' /\ NoLostEdit'
    BY <1>3 DEF CoreInv, OpenInv, NoLostEdit, Home, Out, Leaving, Returning, At
  <2>3. EditBounds' /\ EditOrder' /\ Fresh'
    BY <1>3 DEF CoreInv, EditBounds, EditOrder, Fresh, Home, Out, Leaving
  <2> QED
    BY <1>1, <2>1, <2>2, <2>3 DEF CoreInv
<1> QED
  BY <1>1, <1>2, <1>3 DEF RInv

LEMMA OldCloseStep ==
    ASSUME RInv, OldClose
    PROVE  RInv'
<1>0. /\ inot' = IF watching THEN Enqueue(inot, CloseEvent) ELSE inot
      /\ opc = "close" /\ opc' = "tri" /\ crashes' = crashes
      /\ UNCHANGED <<sh, obj, tri, pc, seen, mpc, locked, parent, watching, dirwatch, pid,
                     event_list, overflow, edits, db>>
  BY DEF OldClose, OldGoto, NotifyObj, locks, mon, files
<1>1. DataTypeOK /\ CloseEvent \in Event /\ CloseEvent # OpenEvent /\ OpenEvent \in Event
      /\ OverflowEvent \in Event /\ OpenEvent # OverflowEvent
  BY EventFacts DEF RInv, Typed
<1>2. /\ \A x \in Event : Holds(inot, x) => Holds(inot, x)'
      /\ \A x \in Event : Holds(inot, x)' => Holds(inot, x) \/ x = CloseEvent \/ x = OverflowEvent
      /\ Once(inot, OpenEvent) => Once(inot, OpenEvent)'
      /\ \A x \in Event : Precedes(inot, x, OpenEvent) => Precedes(inot, x, OpenEvent)'
  <2>1. CASE watching
    BY <1>0, <1>1, <2>1, QueueGrows
  <2>2. CASE ~watching
    BY <1>0, <2>2
  <2> QED
    BY <2>1, <2>2
<1>3. Typed' /\ ClientLocks' /\ MonitorLocks'
  <2>1. inot' \in Seq(Event)
    BY <1>0, <1>1, EnqueueType DEF DataTypeOK
  <2> QED
    BY <1>0, <2>1 DEF RInv, Typed, ControlTypeOK, FlagTypeOK, DataTypeOK, ClientLocks, HasSh,
       MonitorLocks, Home, Out, Leaving, Returning
<1>4. OldInv'
  BY <1>0 DEF RInv, OldInv
<1>5. ASSUME CoreInv PROVE CoreInv'
  <2>1. MonitorState'
    BY <1>0, <1>5 DEF CoreInv, MonitorState
  <2>2. OpenInv'
    BY <1>0, <1>1, <1>2, <1>5 DEF CoreInv, OpenInv, Home, Out, Leaving, Returning, At
  <2>3. NoLostEdit'
    BY <1>0, <1>1, <1>2, <1>5, EventFacts DEF CoreInv, NoLostEdit, DataTypeOK
  <2>4. EditBounds'
    <3>1. EditsUpTo(inot', edits)
      <4>1. EditsUpTo(inot, edits) /\ CloseEvent[1] # "edit"
        BY <1>5 DEF CoreInv, EditBounds, CloseEvent
      <4>2. EditsUpTo(Enqueue(inot, CloseEvent), edits)
        BY <1>1, <4>1, EnqueueEditsUpTo DEF DataTypeOK
      <4> QED
        BY <1>0, <4>1, <4>2
    <3> QED
      BY <1>0, <1>5, <3>1 DEF CoreInv, EditBounds
  <2>5. EditOrder'
    <3>1. \A v \in Nat : EditEvent(v) \in Event
      BY EventFacts
    <3>2. \A q \in Procs : seen[q] \in Nat
      BY <1>5 DEF CoreInv, Typed, ControlTypeOK
    <3> QED
      BY <1>0, <1>1, <1>2, <1>5, <3>1, <3>2 DEF CoreInv, EditOrder, Home, Out, Leaving
  <2>6. Fresh'
    BY <1>0, <1>5 DEF CoreInv, Fresh
  <2> QED
    BY <1>3, <2>1, <2>2, <2>3, <2>4, <2>5, <2>6 DEF CoreInv
<1> QED
  BY <1>0, <1>3, <1>4, <1>5 DEF RInv

LEMMA OldUnflockTriStep ==
    ASSUME RInv, OldUnflockTri
    PROVE  RInv'
<1>0. /\ opc = "tri" /\ opc' = "gone" /\ crashes' = crashes /\ tri' = None /\ tri = Old
      /\ UNCHANGED <<sh, obj, pc, seen, mpc, locked, parent, watching, dirwatch, pid,
                     inot, event_list, overflow, edits, db>>
  BY DEF RInv, OldInv, OldUnflockTri, OldGoto, mon, events, files
<1>1. None \notin Procs /\ None # Mon /\ Old \notin Procs /\ Old # Mon
  BY TriLockAssumption, OldAssumption
<1>2. Typed' /\ ClientLocks' /\ MonitorLocks'
  BY <1>0, <1>1 DEF RInv, Typed, ControlTypeOK, FlagTypeOK, DataTypeOK, ClientLocks, HasSh,
     MonitorLocks, Home, Out, Leaving, Returning
<1>3. OldInv'
  BY <1>0 DEF OldInv
<1>4. ASSUME CoreInv PROVE CoreInv'
  BY <1>0, <1>2, <1>4 DEF CoreInv, MonitorState, OpenInv, EditBounds, NoLostEdit, EditOrder,
     Fresh, Home, Out, Leaving, Returning, At
<1> QED
  BY <1>0, <1>2, <1>3, <1>4 DEF RInv

LEMMA PassOverStep ==
    ASSUME RInv, MonPassOver
    PROVE  RInv'
<1>0. /\ mpc = "loop" /\ inot # <<>> /\ inot' = Tail(inot)
      /\ Head(inot)[1] \in {"open", "close"}
      /\ Head(inot)[1] = "open" => ~locked
      /\ UNCHANGED <<sh, obj, tri, pc, seen, mpc, locked, parent, watching, dirwatch, pid,
                     event_list, overflow, edits, db, crashes, opc>>
  BY DEF MonPassOver, ReadEvent, locks, mon, files
<1>1. DataTypeOK /\ OpenEvent \in Event /\ OverflowEvent \in Event
  BY EventFacts DEF RInv, Typed
<1>2. /\ Head(inot) \in Event
      /\ \A x \in Event : Holds(inot, x)' => Holds(inot, x)
      /\ \A x \in Event : Holds(inot, x) => Holds(inot, x)' \/ x = Head(inot)
      /\ Once(inot, OpenEvent) => Once(inot, OpenEvent)'
      /\ \A x \in Event : Precedes(inot, x, OpenEvent) /\ Head(inot) # x
                              => Precedes(inot, x, OpenEvent)'
  BY <1>0, <1>1, QueueShrinks
<1>3. Head(inot) # OverflowEvent /\ \A v \in Nat : EditEvent(v) \in Event /\ EditEvent(v) # Head(inot)
  BY <1>0, EventFacts DEF EditEvent, OverflowEvent
<1>4. inot' \in Seq(Event)
  BY <1>0, <1>1, TailFacts DEF DataTypeOK
<1>5. Typed' /\ ClientLocks' /\ MonitorLocks' /\ OldInv'
  BY <1>0, <1>4 DEF RInv, Typed, ControlTypeOK, FlagTypeOK, DataTypeOK, ClientLocks, HasSh,
     MonitorLocks, Home, Out, Leaving, Returning, OldInv
<1>6. ASSUME CoreInv PROVE CoreInv'
  <2>1. MonitorState'
    BY <1>0, <1>6 DEF CoreInv, MonitorState
  <2>2. OpenInv'
    BY <1>0, <1>1, <1>2, <1>6 DEF CoreInv, OpenInv, Home, Out, Leaving, Returning, At
  <2>3. NoLostEdit'
    BY <1>0, <1>1, <1>2, <1>3, <1>6 DEF CoreInv, NoLostEdit, DataTypeOK
  <2>4. EditBounds'
    <3>1. EditsUpTo(inot', edits)
      BY <1>0, <1>1, <1>6, TailEditsUpTo DEF CoreInv, EditBounds, DataTypeOK
    <3> QED
      BY <1>0, <1>6, <3>1 DEF CoreInv, EditBounds
  <2>5. EditOrder'
    <3>1. \A q \in Procs : seen[q] \in Nat
      BY <1>6 DEF CoreInv, Typed, ControlTypeOK
    <3> QED
      BY <1>0, <1>1, <1>2, <1>3, <1>6, <3>1 DEF CoreInv, EditOrder, Home, Out, Leaving
  <2>6. Fresh'
    BY <1>0, <1>6 DEF CoreInv, Fresh
  <2> QED
    BY <1>5, <2>1, <2>2, <2>3, <2>4, <2>5, <2>6 DEF CoreInv
<1> QED
  BY <1>0, <1>5, <1>6 DEF RInv

-----------------------------------------------------------------------------
(***************************************************************************)
(* The theorems.                                                           *)
(***************************************************************************)
LEMMA InitRInv == RInit => RInv
<1> SUFFICES ASSUME RInit PROVE RInv
  OBVIOUS
<1>1. Init /\ crashes = 0 /\ opc = "none"
  BY DEF RInit, CInit
<1>2. CoreInv
  BY <1>1, InitIndInv DEF IndInv
<1> QED
  BY <1>1, <1>2 DEF RInv, CoreInv, OldInv

LEMMA RInvStep == RInv /\ [RNext]_rvars => RInv'
<1> SUFFICES ASSUME RInv, [RNext]_rvars PROVE RInv'
  OBVIOUS
<1>1. CASE CNext /\ UNCHANGED opc
  BY <1>1, ProtocolStep, CrashStep, MonCrashStep DEF CNext
<1>2. CASE \E p \in Procs : Replace(p)
  BY <1>2, ReplaceStep
<1>3. CASE OldMonitor
  BY <1>3, OldClearPidStep, OldCloseStep, OldUnflockTriStep DEF OldMonitor
<1>4. CASE MonPassOver
  BY <1>4, PassOverStep
<1>5. CASE UNCHANGED rvars
  <2>1. UNCHANGED vars /\ UNCHANGED <<crashes, opc>>
    BY <1>5 DEF rvars, cvars
  <2> QED
    BY <2>1, ProtocolStep
<1> QED
  BY <1>1, <1>2, <1>3, <1>4, <1>5 DEF RNext

(* The locks belong to the processes that think they have them, whoever is *)
(* killed and however often the monitor is replaced.                       *)
THEOREM RestartInvariance == RSpec => []RInv
BY InitRInv, RInvStep, PTL DEF RSpec

(* The locks of lock.c keep the commands and the monitor out of each       *)
(* other's way on the database, also when processes are killed at any      *)
(* moment and when 'tup monitor' replaces a running monitor.               *)
THEOREM CrashSafeExclusion == RSpec => []DatabaseExclusive
<1>1. RInv => DatabaseExclusive
  BY TriLockAssumption DEF RInv, ClientLocks, MonitorLocks, Home, Leaving,
     DatabaseExclusive, Working, MonitorActive
<1> QED
  BY <1>1, RestartInvariance, PTL

(* As long as nobody was killed a command finds every edit made before it  *)
(* opened the object lock (run_scan()), also while the monitor is being    *)
(* replaced by another.                                                    *)
THEOREM FreshAcrossRestart == RSpec => []FreshUnlessKilled
<1>1. RInv => FreshUnlessKilled
  BY DEF RInv, CoreInv, FreshUnlessKilled
<1> QED
  BY <1>1, RestartInvariance, PTL
=============================================================================
