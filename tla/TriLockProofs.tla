---------------------------- MODULE TriLockProofs ----------------------------
(***************************************************************************)
(* Machine-checked proofs about the tri-lock protocol, for any number of   *)
(* commands, any number of edits and any capacity of the inotify queue.    *)
(***************************************************************************)
EXTENDS TriLockInv, SequenceTheorems, TLAPS

-----------------------------------------------------------------------------
(***************************************************************************)
(* Events, and the kernel's queue of them.                                 *)
(***************************************************************************)
LEMMA EventFacts ==
    /\ OpenEvent \in Event /\ CloseEvent \in Event /\ OverflowEvent \in Event
    /\ \A v \in Nat : EditEvent(v) \in Event
    /\ OpenEvent # CloseEvent /\ OpenEvent # OverflowEvent
    /\ CloseEvent # OverflowEvent
    /\ \A v : EditEvent(v) \notin {OpenEvent, CloseEvent, OverflowEvent}
    /\ \A v, w : EditEvent(v) = EditEvent(w) => v = w
BY DEF OpenEvent, CloseEvent, OverflowEvent, EditEvent, Event

LEMMA EventKinds ==
    ASSUME NEW e \in Event
    PROVE  /\ e[1] = "open" <=> e = OpenEvent
           /\ e[1] = "close" <=> e = CloseEvent
           /\ e[1] = "overflow" <=> e = OverflowEvent
           /\ e[1] = "edit" => e = EditEvent(e[2]) /\ e[2] \in Nat
BY DEF OpenEvent, CloseEvent, OverflowEvent, EditEvent, Event

LEMMA EnqueueCases ==
    ASSUME NEW q \in Seq(Event), NEW e \in Event
    PROVE  \/ /\ Enqueue(q, e) = q
              /\ Holds(q, e) \/ Holds(q, OverflowEvent)
           \/ Enqueue(q, e) = Append(q, e)
           \/ Enqueue(q, e) = Append(q, OverflowEvent)
<1>1. CASE q # <<>> /\ q[Len(q)] = e
  <2>1. Len(q) \in DOMAIN q
    BY <1>1
  <2> QED
    BY <1>1, <2>1 DEF Enqueue, Holds
<1>2. CASE ~(q # <<>> /\ q[Len(q)] = e)
  BY <1>2 DEF Enqueue
<1> QED
  BY <1>1, <1>2

LEMMA AppendFacts ==
    ASSUME NEW q \in Seq(Event), NEW e \in Event
    PROVE  /\ Append(q, e) \in Seq(Event)
           /\ DOMAIN Append(q, e) = 1..(Len(q) + 1) /\ DOMAIN q = 1..Len(q)
           /\ Len(q) \in Nat
           /\ \A i \in 1..Len(q) : Append(q, e)[i] = q[i]
           /\ Append(q, e)[Len(q) + 1] = e
BY AppendProperties

LEMMA EnqueueType ==
    ASSUME NEW q \in Seq(Event), NEW e \in Event
    PROVE  Enqueue(q, e) \in Seq(Event)
<1>1. OverflowEvent \in Event
  BY EventFacts
<1> QED
  BY <1>1, EnqueueCases, AppendFacts

(* An appended event is the only thing that changes. *)
LEMMA AppendHolds ==
    ASSUME NEW q \in Seq(Event), NEW e \in Event, NEW x \in Event
    PROVE  Holds(Append(q, e), x) <=> Holds(q, x) \/ x = e
BY AppendFacts DEF Holds

LEMMA EnqueueHolds ==
    ASSUME NEW q \in Seq(Event), NEW e \in Event, NEW x \in Event
    PROVE  /\ Holds(q, x) => Holds(Enqueue(q, e), x)
           /\ Holds(Enqueue(q, e), x) => Holds(q, x) \/ x = e \/ x = OverflowEvent
           /\ Holds(Enqueue(q, e), e) \/ Holds(Enqueue(q, e), OverflowEvent)
<1>1. CASE Enqueue(q, e) = q /\ (Holds(q, e) \/ Holds(q, OverflowEvent))
  BY <1>1
<1>2. ASSUME NEW a \in {e, OverflowEvent}, Enqueue(q, e) = Append(q, a)
      PROVE  /\ Holds(q, x) => Holds(Enqueue(q, e), x)
             /\ Holds(Enqueue(q, e), x) => Holds(q, x) \/ x = a
             /\ Holds(Enqueue(q, e), a)
  BY <1>2, AppendHolds, EventFacts
<1> QED
  BY <1>1, <1>2, EnqueueCases

LEMMA AppendOnce ==
    ASSUME NEW q \in Seq(Event), NEW e \in Event, NEW x \in Event,
           Once(q, x), x = e => ~Holds(q, x)
    PROVE  Once(Append(q, e), x)
BY AppendFacts DEF Once, Holds

LEMMA EnqueueOnce ==
    ASSUME NEW q \in Seq(Event), NEW e \in Event, NEW x \in Event,
           Once(q, x), x = e => ~Holds(q, x), x # OverflowEvent
    PROVE  Once(Enqueue(q, e), x)
<1>1. ASSUME NEW a \in {e, OverflowEvent} PROVE Once(Append(q, a), x)
  <2>1. a \in Event /\ (x = a => ~Holds(q, x))
    BY EventFacts
  <2> QED
    BY <2>1, AppendOnce
<1> QED
  BY <1>1, EnqueueCases

LEMMA AppendPrecedes ==
    ASSUME NEW q \in Seq(Event), NEW e \in Event, NEW x \in Event, NEW y \in Event,
           Precedes(q, x, y), e = y => Holds(q, x)
    PROVE  Precedes(Append(q, e), x, y)
BY AppendFacts DEF Precedes, Holds

LEMMA EnqueuePrecedes ==
    ASSUME NEW q \in Seq(Event), NEW e \in Event, NEW x \in Event, NEW y \in Event,
           Precedes(q, x, y), e = y => Holds(q, x), y # OverflowEvent
    PROVE  Precedes(Enqueue(q, e), x, y)
BY EnqueueCases, AppendPrecedes, EventFacts

LEMMA Absent ==
    ASSUME NEW q \in Seq(Event), NEW y \in Event, ~Holds(q, y)
    PROVE  Once(q, y) /\ \A x \in Event : Precedes(q, x, y)
BY DEF Once, Precedes, Holds

LEMMA EmptyQueue == \A x : ~Holds(<<>>, x)
BY DEF Holds

LEMMA EnqueueEditsUpTo ==
    ASSUME NEW q \in Seq(Event), NEW e \in Event, NEW n \in Nat, NEW m \in Nat,
           EditsUpTo(q, n), n <= m, e[1] = "edit" => e[2] \in 1..m
    PROVE  EditsUpTo(Enqueue(q, e), m)
<1>1. ASSUME NEW x \in Event, x[1] = "edit" => x[2] \in 1..m
      PROVE  EditsUpTo(Append(q, x), m)
  BY <1>1, AppendFacts DEF EditsUpTo
<1>2. EditsUpTo(q, m)
  BY DEF EditsUpTo
<1>3. OverflowEvent[1] # "edit"
  BY DEF OverflowEvent
<1> QED
  BY <1>1, <1>2, <1>3, EnqueueCases, EventFacts

LEMMA TailFacts ==
    ASSUME NEW q \in Seq(Event), q # <<>>
    PROVE  /\ Tail(q) \in Seq(Event) /\ Head(q) \in Event
           /\ Head(q) = q[1] /\ 1 \in DOMAIN q
           /\ DOMAIN q = 1..Len(q) /\ Len(q) \in Nat
           /\ DOMAIN Tail(q) = 1..(Len(q) - 1)
           /\ \A i \in 1..(Len(q) - 1) : Tail(q)[i] = q[i + 1]
BY HeadTailProperties

LEMMA TailHolds ==
    ASSUME NEW q \in Seq(Event), q # <<>>, NEW x \in Event
    PROVE  /\ Holds(Tail(q), x) => Holds(q, x)
           /\ Holds(q, x) => Holds(Tail(q), x) \/ x = Head(q)
           /\ Once(q, x) => Once(Tail(q), x)
           /\ Once(q, x) /\ Head(q) = x => ~Holds(Tail(q), x)
           /\ Holds(q, Head(q))
<1>1. Holds(Tail(q), x) => Holds(q, x)
  BY TailFacts DEF Holds
<1>2. Holds(q, x) => Holds(Tail(q), x) \/ x = Head(q)
  <2> SUFFICES ASSUME NEW i \in DOMAIN q, q[i] = x, i # 1 PROVE Holds(Tail(q), x)
    BY TailFacts DEF Holds
  <2>1. i - 1 \in DOMAIN Tail(q) /\ Tail(q)[i - 1] = q[i]
    BY TailFacts
  <2> QED
    BY <2>1 DEF Holds
<1>3. Once(q, x) => Once(Tail(q), x)
  BY TailFacts DEF Once
<1>4. Once(q, x) /\ Head(q) = x => ~Holds(Tail(q), x)
  BY TailFacts DEF Once, Holds
<1>5. Holds(q, Head(q))
  BY TailFacts DEF Holds
<1> QED
  BY <1>1, <1>2, <1>3, <1>4, <1>5

LEMMA TailPrecedes ==
    ASSUME NEW q \in Seq(Event), q # <<>>, NEW x \in Event, NEW y \in Event,
           Precedes(q, x, y)
    PROVE  /\ Head(q) # y
           /\ Head(q) # x => Precedes(Tail(q), x, y)
<1>1. Head(q) # y
  BY TailFacts DEF Precedes
<1>2. ASSUME Head(q) # x PROVE Precedes(Tail(q), x, y)
  <2> SUFFICES ASSUME NEW i \in DOMAIN Tail(q), Tail(q)[i] = y
               PROVE  \E j \in DOMAIN Tail(q) : j < i /\ Tail(q)[j] = x
    BY DEF Precedes
  <2>1. PICK k \in DOMAIN q : k < i + 1 /\ q[k] = x
    BY TailFacts DEF Precedes
  <2>2. k # 1
    BY <1>2, <2>1, TailFacts
  <2>3. k - 1 \in DOMAIN Tail(q) /\ k - 1 < i /\ Tail(q)[k - 1] = x
    BY <2>1, <2>2, TailFacts
  <2> QED
    BY <2>3
<1> QED
  BY <1>1, <1>2

LEMMA TailEditsUpTo ==
    ASSUME NEW q \in Seq(Event), q # <<>>, NEW n \in Nat, EditsUpTo(q, n)
    PROVE  EditsUpTo(Tail(q), n) /\ (Head(q)[1] = "edit" => Head(q)[2] \in 1..n)
BY TailFacts DEF EditsUpTo

(***************************************************************************)
(* The two ways a step changes the queue, in terms of inot and inot'.      *)
(***************************************************************************)
LEMMA QueueGrows ==
    ASSUME DataTypeOK, NEW e \in Event, inot' = Enqueue(inot, e)
    PROVE  /\ \A x \in Event : Holds(inot, x) => Holds(inot, x)'
           /\ \A x \in Event : Holds(inot, x)' => Holds(inot, x) \/ x = e \/ x = OverflowEvent
           /\ Holds(inot, e)' \/ Holds(inot, OverflowEvent)'
           /\ \A x \in Event :
                 Once(inot, x) /\ (x = e => ~Holds(inot, x)) /\ x # OverflowEvent
                     => Once(inot, x)'
           /\ \A x, y \in Event :
                 Precedes(inot, x, y) /\ (e = y => Holds(inot, x)) /\ y # OverflowEvent
                     => Precedes(inot, x, y)'
<1> USE DEF DataTypeOK
<1>1. /\ \A x \in Event : Holds(inot, x) => Holds(inot, x)'
      /\ \A x \in Event : Holds(inot, x)' => Holds(inot, x) \/ x = e \/ x = OverflowEvent
  BY EnqueueHolds
<1>2. Holds(inot', e) \/ Holds(inot', OverflowEvent)
  BY EnqueueHolds
<1>3. \A x \in Event : Once(inot, x) /\ (x = e => ~Holds(inot, x)) /\ x # OverflowEvent
                        => Once(inot', x)
  BY EnqueueOnce
<1>4. \A x, y \in Event : Precedes(inot, x, y) /\ (e = y => Holds(inot, x)) /\ y # OverflowEvent
                          => Precedes(inot', x, y)
  BY EnqueuePrecedes
<1> QED
  BY <1>1, <1>2, <1>3, <1>4

LEMMA QueueShrinks ==
    ASSUME DataTypeOK, inot # <<>>, inot' = Tail(inot)
    PROVE  /\ Head(inot) \in Event /\ Holds(inot, Head(inot))
           /\ \A x \in Event : Holds(inot, x)' => Holds(inot, x)
           /\ \A x \in Event : Holds(inot, x) => Holds(inot, x)' \/ x = Head(inot)
           /\ \A x \in Event : Once(inot, x) => Once(inot, x)'
           /\ \A x \in Event : Once(inot, x) /\ Head(inot) = x => ~Holds(inot, x)'
           /\ \A x, y \in Event : Precedes(inot, x, y) =>
                 Head(inot) # y /\ (Head(inot) # x => Precedes(inot, x, y)')
<1> USE DEF DataTypeOK
<1>1. Head(inot) \in Event /\ Holds(inot, Head(inot))
  BY TailFacts DEF Holds
<1>2. \A x \in Event :
         /\ Holds(inot', x) => Holds(inot, x)
         /\ Holds(inot, x) => Holds(inot', x) \/ x = Head(inot)
         /\ Once(inot, x) => Once(inot', x)
         /\ Once(inot, x) /\ Head(inot) = x => ~Holds(inot', x)
  BY TailHolds
<1>3. \A x, y \in Event : Precedes(inot, x, y) =>
                 Head(inot) # y /\ (Head(inot) # x => Precedes(inot', x, y))
  BY TailPrecedes
<1> QED
  BY <1>1, <1>2, <1>3

-----------------------------------------------------------------------------
(***************************************************************************)
(* Type correctness.                                                       *)
(***************************************************************************)
(* Locks, program counters and the pid file. *)
LEMMA ControlTypeStep ==
    ASSUME Typed, [Next]_vars
    PROVE  ControlTypeOK'
<1> USE DEF Typed, ControlTypeOK, Owner, ClientPC, MonPC, locks, mon, events, files, Goto, MGoto,
        MonitorPid, FlushQueue
<1>1. ASSUME NEW p \in Procs, Start(p) PROVE ControlTypeOK'
  BY <1>1 DEF Start
<1>2. ASSUME NEW p \in Procs, FlockSh(p) PROVE ControlTypeOK'
  BY <1>2 DEF FlockSh
<1>3. ASSUME NEW p \in Procs, OpenObj(p) PROVE ControlTypeOK'
  BY <1>3 DEF OpenObj, DataTypeOK
<1>4. ASSUME NEW p \in Procs, FlockObj(p) PROVE ControlTypeOK'
  BY <1>4 DEF FlockObj
<1>5. ASSUME NEW p \in Procs, Work(p) PROVE ControlTypeOK'
  BY <1>5 DEF Work
<1>6. ASSUME NEW p \in Procs, UnflockObj(p) PROVE ControlTypeOK'
  BY <1>6 DEF UnflockObj
<1>7. ASSUME NEW p \in Procs, CloseObj(p) PROVE ControlTypeOK'
  BY <1>7 DEF CloseObj
<1>8. ASSUME NEW p \in Procs, FlockTri(p) PROVE ControlTypeOK'
  BY <1>8 DEF FlockTri
<1>9. ASSUME NEW p \in Procs, UnflockTri(p) PROVE ControlTypeOK'
  BY <1>9 DEF UnflockTri
<1>10. ASSUME NEW p \in Procs, UnflockSh(p) PROVE ControlTypeOK'
  BY <1>10 DEF UnflockSh
<1>11. CASE Edit
  BY <1>11 DEF Edit
<1>12. CASE MonStart
  BY <1>12 DEF MonStart
<1>13. CASE MonFlockSh
  BY <1>13 DEF MonFlockSh
<1>14. CASE MonOpenObj
  BY <1>14 DEF MonOpenObj
<1>15. CASE MonFlockObj
  BY <1>15 DEF MonFlockObj
<1>16. CASE MonForeground
  BY <1>16 DEF MonForeground
<1>17. CASE MonFork
  BY <1>17 DEF MonFork
<1>18. CASE ParentExit
  BY <1>18 DEF ParentExit
<1>19. CASE MonDrain
  BY <1>19 DEF MonDrain
<1>20. CASE MonUnflockSh
  BY <1>20 DEF MonUnflockSh
<1>21. CASE MonSetPid
  BY <1>21 DEF MonSetPid
<1>22. CASE MonScan
  BY <1>22 DEF MonScan
<1>23. CASE MonTimeout
  BY <1>23 DEF MonTimeout
<1>24. CASE MonReadEdit
  BY <1>24 DEF MonReadEdit
<1>25. CASE MonReadOverflow
  BY <1>25 DEF MonReadOverflow
<1>26. CASE MonReadOpen
  BY <1>26 DEF MonReadOpen
<1>27. CASE MonFlockTri
  BY <1>27 DEF MonFlockTri
<1>28. CASE MonUnflockObj
  BY <1>28 DEF MonUnflockObj
<1>29. CASE MonReadClose
  BY <1>29 DEF MonReadClose
<1>30. CASE MonReflockObj
  BY <1>30 DEF MonReflockObj
<1>31. CASE MonUnflockTri
  BY <1>31 DEF MonUnflockTri
<1>32. CASE MonRetry
  BY <1>32 DEF MonRetry
<1>33. CASE MonQuit
  BY <1>33 DEF MonQuit
<1>34. CASE MonExitObj
  BY <1>34 DEF MonExitObj
<1>35. CASE MonExitTri
  BY <1>35 DEF MonExitTri
<1>36. CASE UNCHANGED vars
  BY <1>36 DEF vars
<1> QED
  BY <1>1, <1>2, <1>3, <1>4, <1>5, <1>6, <1>7, <1>8, <1>9, <1>10, <1>11,
     <1>12, <1>13, <1>14, <1>15, <1>16, <1>17, <1>18, <1>19, <1>20, <1>21,
     <1>22, <1>23, <1>24, <1>25, <1>26, <1>27, <1>28, <1>29, <1>30,
     <1>31, <1>32, <1>33, <1>34, <1>35, <1>36
     DEF Next, Client, Monitor

(* The monitor's flags. *)
LEMMA FlagTypeStep ==
    ASSUME Typed, [Next]_vars
    PROVE  FlagTypeOK'
<1> USE DEF Typed, FlagTypeOK, locks, mon, events, files, FlushQueue
<1>1. ASSUME NEW p \in Procs, Start(p) PROVE FlagTypeOK'
  BY <1>1 DEF Start
<1>2. ASSUME NEW p \in Procs, FlockSh(p) PROVE FlagTypeOK'
  BY <1>2 DEF FlockSh
<1>3. ASSUME NEW p \in Procs, OpenObj(p) PROVE FlagTypeOK'
  BY <1>3 DEF OpenObj
<1>4. ASSUME NEW p \in Procs, FlockObj(p) PROVE FlagTypeOK'
  BY <1>4 DEF FlockObj
<1>5. ASSUME NEW p \in Procs, Work(p) PROVE FlagTypeOK'
  BY <1>5 DEF Work
<1>6. ASSUME NEW p \in Procs, UnflockObj(p) PROVE FlagTypeOK'
  BY <1>6 DEF UnflockObj
<1>7. ASSUME NEW p \in Procs, CloseObj(p) PROVE FlagTypeOK'
  BY <1>7 DEF CloseObj
<1>8. ASSUME NEW p \in Procs, FlockTri(p) PROVE FlagTypeOK'
  BY <1>8 DEF FlockTri
<1>9. ASSUME NEW p \in Procs, UnflockTri(p) PROVE FlagTypeOK'
  BY <1>9 DEF UnflockTri
<1>10. ASSUME NEW p \in Procs, UnflockSh(p) PROVE FlagTypeOK'
  BY <1>10 DEF UnflockSh
<1>11. CASE Edit
  BY <1>11 DEF Edit
<1>12. CASE MonStart
  BY <1>12 DEF MonStart
<1>13. CASE MonFlockSh
  BY <1>13 DEF MonFlockSh
<1>14. CASE MonOpenObj
  BY <1>14 DEF MonOpenObj
<1>15. CASE MonFlockObj
  BY <1>15 DEF MonFlockObj
<1>16. CASE MonForeground
  BY <1>16 DEF MonForeground
<1>17. CASE MonFork
  BY <1>17 DEF MonFork
<1>18. CASE ParentExit
  BY <1>18 DEF ParentExit
<1>19. CASE MonDrain
  BY <1>19 DEF MonDrain
<1>20. CASE MonUnflockSh
  BY <1>20 DEF MonUnflockSh
<1>21. CASE MonSetPid
  BY <1>21 DEF MonSetPid
<1>22. CASE MonScan
  BY <1>22 DEF MonScan
<1>23. CASE MonTimeout
  BY <1>23 DEF MonTimeout
<1>24. CASE MonReadEdit
  BY <1>24 DEF MonReadEdit
<1>25. CASE MonReadOverflow
  BY <1>25 DEF MonReadOverflow
<1>26. CASE MonReadOpen
  BY <1>26 DEF MonReadOpen
<1>27. CASE MonFlockTri
  BY <1>27 DEF MonFlockTri
<1>28. CASE MonUnflockObj
  BY <1>28 DEF MonUnflockObj
<1>29. CASE MonReadClose
  BY <1>29 DEF MonReadClose
<1>30. CASE MonReflockObj
  BY <1>30 DEF MonReflockObj
<1>31. CASE MonUnflockTri
  BY <1>31 DEF MonUnflockTri
<1>32. CASE MonRetry
  BY <1>32 DEF MonRetry
<1>33. CASE MonQuit
  BY <1>33 DEF MonQuit
<1>34. CASE MonExitObj
  BY <1>34 DEF MonExitObj
<1>35. CASE MonExitTri
  BY <1>35 DEF MonExitTri
<1>36. CASE UNCHANGED vars
  BY <1>36 DEF vars
<1> QED
  BY <1>1, <1>2, <1>3, <1>4, <1>5, <1>6, <1>7, <1>8, <1>9, <1>10, <1>11,
     <1>12, <1>13, <1>14, <1>15, <1>16, <1>17, <1>18, <1>19, <1>20, <1>21,
     <1>22, <1>23, <1>24, <1>25, <1>26, <1>27, <1>28, <1>29, <1>30,
     <1>31, <1>32, <1>33, <1>34, <1>35, <1>36
     DEF Next, Client, Monitor

(* The queue, the event list and the database. *)
LEMMA DataTypeStep ==
    ASSUME Typed, [Next]_vars
    PROVE  DataTypeOK'
<1> USE DEF Typed, DataTypeOK, locks, mon, events, files, ReadEvent, FlushQueue, NotifyObj
<1>1. ASSUME NEW p \in Procs, Start(p) PROVE DataTypeOK'
  BY <1>1 DEF Start
<1>2. ASSUME NEW p \in Procs, FlockSh(p) PROVE DataTypeOK'
  BY <1>2 DEF FlockSh
<1>3. ASSUME NEW p \in Procs, OpenObj(p) PROVE DataTypeOK'
  BY <1>3, EnqueueType, EventFacts DEF OpenObj
<1>4. ASSUME NEW p \in Procs, FlockObj(p) PROVE DataTypeOK'
  BY <1>4 DEF FlockObj
<1>5. ASSUME NEW p \in Procs, Work(p) PROVE DataTypeOK'
  <2>1. 1..edits \in SUBSET Nat
    OBVIOUS
  <2> QED
    BY <1>5, <2>1 DEF Work
<1>6. ASSUME NEW p \in Procs, UnflockObj(p) PROVE DataTypeOK'
  BY <1>6 DEF UnflockObj
<1>7. ASSUME NEW p \in Procs, CloseObj(p) PROVE DataTypeOK'
  BY <1>7, EnqueueType, EventFacts DEF CloseObj
<1>8. ASSUME NEW p \in Procs, FlockTri(p) PROVE DataTypeOK'
  BY <1>8 DEF FlockTri
<1>9. ASSUME NEW p \in Procs, UnflockTri(p) PROVE DataTypeOK'
  BY <1>9 DEF UnflockTri
<1>10. ASSUME NEW p \in Procs, UnflockSh(p) PROVE DataTypeOK'
  BY <1>10 DEF UnflockSh
<1>11. CASE Edit
  <2>1. edits + 1 \in Nat
    OBVIOUS
  <2>2. inot' \in Seq(Event)
    BY <1>11, <2>1, EnqueueType, EventFacts DEF Edit
  <2> QED
    BY <1>11, <2>1, <2>2 DEF Edit
<1>12. CASE MonStart
  BY <1>12 DEF MonStart
<1>13. CASE MonFlockSh
  BY <1>13 DEF MonFlockSh
<1>14. CASE MonOpenObj
  BY <1>14, EnqueueType, EventFacts DEF MonOpenObj
<1>15. CASE MonFlockObj
  BY <1>15 DEF MonFlockObj
<1>16. CASE MonForeground
  BY <1>16 DEF MonForeground
<1>17. CASE MonFork
  BY <1>17 DEF MonFork
<1>18. CASE ParentExit
  BY <1>18 DEF ParentExit
<1>19. CASE MonDrain
  <2>1. <<>> \in Seq(Event)
    OBVIOUS
  <2> QED
    BY <1>19, <2>1 DEF MonDrain
<1>20. CASE MonUnflockSh
  BY <1>20 DEF MonUnflockSh
<1>21. CASE MonSetPid
  BY <1>21 DEF MonSetPid
<1>22. CASE MonScan
  <2>1. 1..edits \in SUBSET Nat
    OBVIOUS
  <2> QED
    BY <1>22, <2>1 DEF MonScan
<1>23. CASE MonTimeout
  BY <1>23 DEF MonTimeout
<1>24. CASE MonReadEdit
  <2>1. inot' \in Seq(Event) /\ Head(inot) \in Event
    BY <1>24, TailFacts DEF MonReadEdit
  <2>2. Head(inot)[2] \in Nat
    BY <1>24, <2>1, EventKinds DEF MonReadEdit
  <2> QED
    BY <1>24, <2>1, <2>2 DEF MonReadEdit
<1>25. CASE MonReadOverflow
  <2>1. inot' \in Seq(Event)
    BY <1>25, TailFacts DEF MonReadOverflow
  <2> QED
    BY <1>25, <2>1 DEF MonReadOverflow
<1>26. CASE MonReadOpen
  <2>1. inot' \in Seq(Event)
    BY <1>26, TailFacts DEF MonReadOpen
  <2> QED
    BY <1>26, <2>1 DEF MonReadOpen
<1>27. CASE MonFlockTri
  BY <1>27 DEF MonFlockTri
<1>28. CASE MonUnflockObj
  BY <1>28 DEF MonUnflockObj
<1>29. CASE MonReadClose
  <2>1. inot' \in Seq(Event)
    BY <1>29, TailFacts DEF MonReadClose
  <2> QED
    BY <1>29, <2>1 DEF MonReadClose
<1>30. CASE MonReflockObj
  BY <1>30 DEF MonReflockObj
<1>31. CASE MonUnflockTri
  BY <1>31 DEF MonUnflockTri
<1>32. CASE MonRetry
  BY <1>32, EnqueueType, EventFacts DEF MonRetry
<1>33. CASE MonQuit
  <2>1. <<>> \in Seq(Event)
    OBVIOUS
  <2> QED
    BY <1>33, <2>1 DEF MonQuit
<1>34. CASE MonExitObj
  BY <1>34 DEF MonExitObj
<1>35. CASE MonExitTri
  BY <1>35 DEF MonExitTri
<1>36. CASE UNCHANGED vars
  BY <1>36 DEF vars
<1> QED
  BY <1>1, <1>2, <1>3, <1>4, <1>5, <1>6, <1>7, <1>8, <1>9, <1>10, <1>11,
     <1>12, <1>13, <1>14, <1>15, <1>16, <1>17, <1>18, <1>19, <1>20, <1>21,
     <1>22, <1>23, <1>24, <1>25, <1>26, <1>27, <1>28, <1>29, <1>30,
     <1>31, <1>32, <1>33, <1>34, <1>35, <1>36
     DEF Next, Client, Monitor

LEMMA InitTyped == Init => TypeOK
<1> SUFFICES ASSUME Init PROVE TypeOK
  OBVIOUS
<1>1. ControlTypeOK
  BY DEF Init, ControlTypeOK, Owner, ClientPC, MonPC
<1>2. FlagTypeOK
  BY DEF Init, FlagTypeOK
<1>3. DataTypeOK
  BY DEF Init, DataTypeOK
<1> QED
  BY <1>1, <1>2, <1>3 DEF Init, Owner, Typed, TypeOK

LEMMA TypedStep == Typed /\ [Next]_vars => Typed'
BY ControlTypeStep, FlagTypeStep, DataTypeStep DEF Typed

(* The owner of the tri lock, and the pid file. *)
LEMMA OwnerStep ==
    ASSUME tri \in Owner, pid \in {None, Mon}, [Next]_vars
    PROVE  tri' \in Owner /\ pid' \in {None, Mon}
<1> USE DEF Owner, locks, mon, events, files, MonitorPid
<1>1. CASE Edit \/ MonStart \/ ParentExit \/ MonQuit
  BY <1>1 DEF Edit, MonStart, ParentExit, MonQuit
<1>2. ASSUME NEW p \in Procs, Start(p) \/ Client(p) PROVE tri' \in Owner /\ pid' \in {None, Mon}
  BY <1>2 DEF Start, Client, FlockSh, OpenObj, FlockObj, Work, UnflockObj, CloseObj, FlockTri,
              UnflockTri, UnflockSh
<1>3. CASE Monitor
  BY <1>3 DEF Monitor, MonFlockSh, MonOpenObj, MonFlockObj, MonForeground, MonFork, MonDrain,
              MonUnflockSh, MonSetPid, MonScan, MonTimeout, MonReadEdit, MonReadOverflow,
              MonReadOpen, MonFlockTri, MonUnflockObj, MonReadClose, MonReflockObj,
              MonUnflockTri, MonRetry, MonExitObj, MonExitTri
<1>4. CASE UNCHANGED vars
  BY <1>4 DEF vars
<1> QED
  BY <1>1, <1>2, <1>3, <1>4 DEF Next

LEMMA TypeStep == TypeOK /\ [Next]_vars => TypeOK'
BY TypedStep, OwnerStep DEF TypeOK

(***************************************************************************)
(* The locks, the queue and the database of the protocol are always        *)
(* well-typed: in particular a lock never belongs to anyone but a command, *)
(* the monitor or nobody, and the queue holds nothing but known events.    *)
(***************************************************************************)
THEOREM TypeCorrect == Spec => []TypeOK
BY InitTyped, TypeStep, PTL DEF Spec

-----------------------------------------------------------------------------
(***************************************************************************)
(* The inductive invariant, one conjunct at a time.                        *)
(***************************************************************************)
(* Who owns which lock: the commands. *)
LEMMA ClientLocksStep ==
    ASSUME Typed, ClientLocks, MonitorLocks, [Next]_vars
    PROVE  ClientLocks'
<1> USE DEF Typed, ControlTypeOK, ClientLocks, HasSh, MonitorLocks, Home, Out,
        Leaving, Returning, Owner, locks, mon, events, files, Goto, MGoto, FlushQueue
<1>1. ASSUME NEW p \in Procs, Start(p) PROVE ClientLocks'
  BY <1>1, TriLockAssumption DEF Start
<1>2. ASSUME NEW p \in Procs, FlockSh(p) PROVE ClientLocks'
  BY <1>2, TriLockAssumption DEF FlockSh
<1>3. ASSUME NEW p \in Procs, OpenObj(p) PROVE ClientLocks'
  BY <1>3, TriLockAssumption DEF OpenObj
<1>4. ASSUME NEW p \in Procs, FlockObj(p) PROVE ClientLocks'
  BY <1>4, TriLockAssumption DEF FlockObj
<1>5. ASSUME NEW p \in Procs, Work(p) PROVE ClientLocks'
  BY <1>5, TriLockAssumption DEF Work
<1>6. ASSUME NEW p \in Procs, UnflockObj(p) PROVE ClientLocks'
  BY <1>6, TriLockAssumption DEF UnflockObj
<1>7. ASSUME NEW p \in Procs, CloseObj(p) PROVE ClientLocks'
  BY <1>7, TriLockAssumption DEF CloseObj
<1>8. ASSUME NEW p \in Procs, FlockTri(p) PROVE ClientLocks'
  BY <1>8, TriLockAssumption DEF FlockTri
<1>9. ASSUME NEW p \in Procs, UnflockTri(p) PROVE ClientLocks'
  BY <1>9, TriLockAssumption DEF UnflockTri
<1>10. ASSUME NEW p \in Procs, UnflockSh(p) PROVE ClientLocks'
  BY <1>10, TriLockAssumption DEF UnflockSh
<1>11. CASE Edit
  BY <1>11, TriLockAssumption DEF Edit
<1>12. CASE MonStart
  BY <1>12, TriLockAssumption DEF MonStart
<1>13. CASE MonFlockSh
  BY <1>13, TriLockAssumption DEF MonFlockSh
<1>14. CASE MonOpenObj
  BY <1>14, TriLockAssumption DEF MonOpenObj
<1>15. CASE MonFlockObj
  BY <1>15, TriLockAssumption DEF MonFlockObj
<1>16. CASE MonForeground
  BY <1>16, TriLockAssumption DEF MonForeground
<1>17. CASE MonFork
  BY <1>17, TriLockAssumption DEF MonFork
<1>18. CASE ParentExit
  BY <1>18, TriLockAssumption DEF ParentExit
<1>19. CASE MonDrain
  BY <1>19, TriLockAssumption DEF MonDrain
<1>20. CASE MonUnflockSh
  BY <1>20, TriLockAssumption DEF MonUnflockSh
<1>21. CASE MonSetPid
  BY <1>21, TriLockAssumption DEF MonSetPid
<1>22. CASE MonScan
  BY <1>22, TriLockAssumption DEF MonScan
<1>23. CASE MonTimeout
  BY <1>23, TriLockAssumption DEF MonTimeout
<1>24. CASE MonReadEdit
  BY <1>24, TriLockAssumption DEF MonReadEdit
<1>25. CASE MonReadOverflow
  BY <1>25, TriLockAssumption DEF MonReadOverflow
<1>26. CASE MonReadOpen
  BY <1>26, TriLockAssumption DEF MonReadOpen
<1>27. CASE MonFlockTri
  BY <1>27, TriLockAssumption DEF MonFlockTri
<1>28. CASE MonUnflockObj
  BY <1>28, TriLockAssumption DEF MonUnflockObj
<1>29. CASE MonReadClose
  BY <1>29, TriLockAssumption DEF MonReadClose
<1>30. CASE MonReflockObj
  BY <1>30, TriLockAssumption DEF MonReflockObj
<1>31. CASE MonUnflockTri
  BY <1>31, TriLockAssumption DEF MonUnflockTri
<1>32. CASE MonRetry
  BY <1>32, TriLockAssumption DEF MonRetry
<1>33. CASE MonQuit
  BY <1>33, TriLockAssumption DEF MonQuit
<1>34. CASE MonExitObj
  BY <1>34, TriLockAssumption DEF MonExitObj
<1>35. CASE MonExitTri
  BY <1>35, TriLockAssumption DEF MonExitTri
<1>36. CASE UNCHANGED vars
  BY <1>36 DEF vars
<1> QED
  BY <1>1, <1>2, <1>3, <1>4, <1>5, <1>6, <1>7, <1>8, <1>9, <1>10, <1>11,
     <1>12, <1>13, <1>14, <1>15, <1>16, <1>17, <1>18, <1>19, <1>20, <1>21,
     <1>22, <1>23, <1>24, <1>25, <1>26, <1>27, <1>28, <1>29, <1>30,
     <1>31, <1>32, <1>33, <1>34, <1>35, <1>36
     DEF Next, Client, Monitor

(* Who owns which lock: the monitor. *)
LEMMA MonitorLocksStep ==
    ASSUME Typed, ClientLocks, MonitorLocks, [Next]_vars
    PROVE  MonitorLocks'
<1> USE DEF Typed, FlagTypeOK, ClientLocks, HasSh, MonitorLocks, Home, Out,
        Leaving, Returning, locks, mon, events, files, Goto, MGoto, FlushQueue, ReadEvent
<1>1. ASSUME NEW p \in Procs, Start(p) PROVE MonitorLocks'
  BY <1>1, TriLockAssumption DEF Start
<1>2. ASSUME NEW p \in Procs, FlockSh(p) PROVE MonitorLocks'
  BY <1>2, TriLockAssumption DEF FlockSh
<1>3. ASSUME NEW p \in Procs, OpenObj(p) PROVE MonitorLocks'
  BY <1>3, TriLockAssumption DEF OpenObj
<1>4. ASSUME NEW p \in Procs, FlockObj(p) PROVE MonitorLocks'
  BY <1>4, TriLockAssumption DEF FlockObj
<1>5. ASSUME NEW p \in Procs, Work(p) PROVE MonitorLocks'
  BY <1>5, TriLockAssumption DEF Work
<1>6. ASSUME NEW p \in Procs, UnflockObj(p) PROVE MonitorLocks'
  BY <1>6, TriLockAssumption DEF UnflockObj
<1>7. ASSUME NEW p \in Procs, CloseObj(p) PROVE MonitorLocks'
  BY <1>7, TriLockAssumption DEF CloseObj
<1>8. ASSUME NEW p \in Procs, FlockTri(p) PROVE MonitorLocks'
  BY <1>8, TriLockAssumption DEF FlockTri
<1>9. ASSUME NEW p \in Procs, UnflockTri(p) PROVE MonitorLocks'
  BY <1>9, TriLockAssumption DEF UnflockTri
<1>10. ASSUME NEW p \in Procs, UnflockSh(p) PROVE MonitorLocks'
  BY <1>10, TriLockAssumption DEF UnflockSh
<1>11. CASE Edit
  BY <1>11, TriLockAssumption DEF Edit
<1>12. CASE MonStart
  BY <1>12, TriLockAssumption DEF MonStart
<1>13. CASE MonFlockSh
  BY <1>13, TriLockAssumption DEF MonFlockSh
<1>14. CASE MonOpenObj
  BY <1>14, TriLockAssumption DEF MonOpenObj
<1>15. CASE MonFlockObj
  BY <1>15, TriLockAssumption DEF MonFlockObj
<1>16. CASE MonForeground
  BY <1>16, TriLockAssumption DEF MonForeground
<1>17. CASE MonFork
  BY <1>17, TriLockAssumption DEF MonFork
<1>18. CASE ParentExit
  BY <1>18, TriLockAssumption DEF ParentExit
<1>19. CASE MonDrain
  BY <1>19, TriLockAssumption DEF MonDrain
<1>20. CASE MonUnflockSh
  BY <1>20, TriLockAssumption DEF MonUnflockSh
<1>21. CASE MonSetPid
  BY <1>21, TriLockAssumption DEF MonSetPid
<1>22. CASE MonScan
  BY <1>22, TriLockAssumption DEF MonScan
<1>23. CASE MonTimeout
  BY <1>23, TriLockAssumption DEF MonTimeout
<1>24. CASE MonReadEdit
  BY <1>24, TriLockAssumption DEF MonReadEdit
<1>25. CASE MonReadOverflow
  BY <1>25, TriLockAssumption DEF MonReadOverflow
<1>26. CASE MonReadOpen
  BY <1>26, TriLockAssumption DEF MonReadOpen
<1>27. CASE MonFlockTri
  BY <1>27, TriLockAssumption DEF MonFlockTri
<1>28. CASE MonUnflockObj
  BY <1>28, TriLockAssumption DEF MonUnflockObj
<1>29. CASE MonReadClose
  BY <1>29, TriLockAssumption DEF MonReadClose
<1>30. CASE MonReflockObj
  BY <1>30, TriLockAssumption DEF MonReflockObj
<1>31. CASE MonUnflockTri
  BY <1>31, TriLockAssumption DEF MonUnflockTri
<1>32. CASE MonRetry
  BY <1>32, TriLockAssumption DEF MonRetry
<1>33. CASE MonQuit
  BY <1>33, TriLockAssumption DEF MonQuit
<1>34. CASE MonExitObj
  BY <1>34, TriLockAssumption DEF MonExitObj
<1>35. CASE MonExitTri
  BY <1>35, TriLockAssumption DEF MonExitTri
<1>36. CASE UNCHANGED vars
  BY <1>36 DEF vars
<1> QED
  BY <1>1, <1>2, <1>3, <1>4, <1>5, <1>6, <1>7, <1>8, <1>9, <1>10, <1>11,
     <1>12, <1>13, <1>14, <1>15, <1>16, <1>17, <1>18, <1>19, <1>20, <1>21,
     <1>22, <1>23, <1>24, <1>25, <1>26, <1>27, <1>28, <1>29, <1>30,
     <1>31, <1>32, <1>33, <1>34, <1>35, <1>36
     DEF Next, Client, Monitor

(* The pid file and the watches. *)
LEMMA MonitorStateStep ==
    ASSUME Typed, ClientLocks, MonitorLocks, MonitorState, [Next]_vars
    PROVE  MonitorState'
<1> USE DEF Typed, FlagTypeOK, ControlTypeOK, ClientLocks, HasSh, MonitorLocks,
        MonitorState, NotifyObj, locks, mon, events, files, Goto, MGoto, FlushQueue,
        ReadEvent, MonitorPid
<1>1. ASSUME NEW p \in Procs, Start(p) PROVE MonitorState'
  BY <1>1, TriLockAssumption DEF Start
<1>2. ASSUME NEW p \in Procs, FlockSh(p) PROVE MonitorState'
  BY <1>2, TriLockAssumption DEF FlockSh
<1>3. ASSUME NEW p \in Procs, OpenObj(p) PROVE MonitorState'
  BY <1>3, TriLockAssumption DEF OpenObj
<1>4. ASSUME NEW p \in Procs, FlockObj(p) PROVE MonitorState'
  BY <1>4, TriLockAssumption DEF FlockObj
<1>5. ASSUME NEW p \in Procs, Work(p) PROVE MonitorState'
  BY <1>5, TriLockAssumption DEF Work
<1>6. ASSUME NEW p \in Procs, UnflockObj(p) PROVE MonitorState'
  BY <1>6, TriLockAssumption DEF UnflockObj
<1>7. ASSUME NEW p \in Procs, CloseObj(p) PROVE MonitorState'
  BY <1>7, TriLockAssumption DEF CloseObj
<1>8. ASSUME NEW p \in Procs, FlockTri(p) PROVE MonitorState'
  BY <1>8, TriLockAssumption DEF FlockTri
<1>9. ASSUME NEW p \in Procs, UnflockTri(p) PROVE MonitorState'
  BY <1>9, TriLockAssumption DEF UnflockTri
<1>10. ASSUME NEW p \in Procs, UnflockSh(p) PROVE MonitorState'
  BY <1>10, TriLockAssumption DEF UnflockSh
<1>11. CASE Edit
  BY <1>11, TriLockAssumption DEF Edit
<1>12. CASE MonStart
  BY <1>12, TriLockAssumption DEF MonStart
<1>13. CASE MonFlockSh
  BY <1>13, TriLockAssumption DEF MonFlockSh
<1>14. CASE MonOpenObj
  BY <1>14, TriLockAssumption DEF MonOpenObj
<1>15. CASE MonFlockObj
  BY <1>15, TriLockAssumption DEF MonFlockObj
<1>16. CASE MonForeground
  BY <1>16, TriLockAssumption DEF MonForeground
<1>17. CASE MonFork
  BY <1>17, TriLockAssumption DEF MonFork
<1>18. CASE ParentExit
  BY <1>18, TriLockAssumption DEF ParentExit
<1>19. CASE MonDrain
  BY <1>19, TriLockAssumption DEF MonDrain
<1>20. CASE MonUnflockSh
  BY <1>20, TriLockAssumption DEF MonUnflockSh
<1>21. CASE MonSetPid
  BY <1>21, TriLockAssumption DEF MonSetPid
<1>22. CASE MonScan
  BY <1>22, TriLockAssumption DEF MonScan
<1>23. CASE MonTimeout
  BY <1>23, TriLockAssumption DEF MonTimeout
<1>24. CASE MonReadEdit
  BY <1>24, TriLockAssumption DEF MonReadEdit
<1>25. CASE MonReadOverflow
  BY <1>25, TriLockAssumption DEF MonReadOverflow
<1>26. CASE MonReadOpen
  BY <1>26, TriLockAssumption DEF MonReadOpen
<1>27. CASE MonFlockTri
  BY <1>27, TriLockAssumption DEF MonFlockTri
<1>28. CASE MonUnflockObj
  BY <1>28, TriLockAssumption DEF MonUnflockObj
<1>29. CASE MonReadClose
  BY <1>29, TriLockAssumption DEF MonReadClose
<1>30. CASE MonReflockObj
  BY <1>30, TriLockAssumption DEF MonReflockObj
<1>31. CASE MonUnflockTri
  BY <1>31, TriLockAssumption DEF MonUnflockTri
<1>32. CASE MonRetry
  BY <1>32, TriLockAssumption DEF MonRetry
<1>33. CASE MonQuit
  BY <1>33, TriLockAssumption DEF MonQuit
<1>34. CASE MonExitObj
  BY <1>34, TriLockAssumption DEF MonExitObj
<1>35. CASE MonExitTri
  BY <1>35, TriLockAssumption DEF MonExitTri
<1>36. CASE UNCHANGED vars
  BY <1>36 DEF vars
<1> QED
  BY <1>1, <1>2, <1>3, <1>4, <1>5, <1>6, <1>7, <1>8, <1>9, <1>10, <1>11,
     <1>12, <1>13, <1>14, <1>15, <1>16, <1>17, <1>18, <1>19, <1>20, <1>21,
     <1>22, <1>23, <1>24, <1>25, <1>26, <1>27, <1>28, <1>29, <1>30,
     <1>31, <1>32, <1>33, <1>34, <1>35, <1>36
     DEF Next, Client, Monitor

(* The IN_OPEN events. *)
LEMMA OpenStep ==
    ASSUME Typed, ClientLocks, MonitorLocks, MonitorState, OpenInv, [Next]_vars
    PROVE  OpenInv'
<1> USE DEF Typed, FlagTypeOK, ControlTypeOK, NotifyObj, MonitorState,
        MonitorLocks, ClientLocks, Home, Out, Leaving, Returning, HasSh, OpenInv,
        At, locks, mon, events, files, Goto, MGoto, FlushQueue, ReadEvent
<1>1. ASSUME NEW p \in Procs, Start(p) PROVE OpenInv'
  BY <1>1, TriLockAssumption DEF Start
<1>2. ASSUME NEW p \in Procs, FlockSh(p) PROVE OpenInv'
  BY <1>2, TriLockAssumption DEF FlockSh
<1>3. ASSUME NEW p \in Procs, OpenObj(p) PROVE OpenInv'
  BY <1>3, TriLockAssumption, QueueGrows, EventFacts DEF OpenObj
<1>4. ASSUME NEW p \in Procs, FlockObj(p) PROVE OpenInv'
  BY <1>4, TriLockAssumption DEF FlockObj
<1>5. ASSUME NEW p \in Procs, Work(p) PROVE OpenInv'
  BY <1>5, TriLockAssumption DEF Work
<1>6. ASSUME NEW p \in Procs, UnflockObj(p) PROVE OpenInv'
  BY <1>6, TriLockAssumption DEF UnflockObj
<1>7. ASSUME NEW p \in Procs, CloseObj(p) PROVE OpenInv'
  BY <1>7, TriLockAssumption, QueueGrows, EventFacts DEF CloseObj
<1>8. ASSUME NEW p \in Procs, FlockTri(p) PROVE OpenInv'
  BY <1>8, TriLockAssumption DEF FlockTri
<1>9. ASSUME NEW p \in Procs, UnflockTri(p) PROVE OpenInv'
  BY <1>9, TriLockAssumption DEF UnflockTri
<1>10. ASSUME NEW p \in Procs, UnflockSh(p) PROVE OpenInv'
  BY <1>10, TriLockAssumption DEF UnflockSh
<1>11. CASE Edit
  <2>1. EditEvent(edits + 1) \in Event
    BY EventFacts DEF DataTypeOK
  <2> QED
    BY <1>11, <2>1, QueueGrows, EventFacts DEF Edit
<1>12. CASE MonStart
  BY <1>12, TriLockAssumption DEF MonStart
<1>13. CASE MonFlockSh
  BY <1>13, TriLockAssumption DEF MonFlockSh
<1>14. CASE MonOpenObj
  BY <1>14, TriLockAssumption, QueueGrows, EventFacts DEF MonOpenObj
<1>15. CASE MonFlockObj
  BY <1>15, TriLockAssumption DEF MonFlockObj
<1>16. CASE MonForeground
  <2>1. inot' = <<>>
    BY <1>16 DEF MonForeground
  <2> QED
    BY <1>16, <2>1, EmptyQueue DEF MonForeground
<1>17. CASE MonFork
  <2>1. inot = <<>>
    BY <1>17 DEF MonFork
  <2> QED
    BY <1>17, <2>1, TriLockAssumption, EmptyQueue, EventFacts, Absent DEF MonFork, DataTypeOK
<1>18. CASE ParentExit
  BY <1>18, TriLockAssumption DEF ParentExit
<1>19. CASE MonDrain
  <2>1. inot' = <<>> /\ mpc' = "unsh"
    BY <1>19 DEF MonDrain
  <2> QED
    BY <2>1, EmptyQueue
<1>20. CASE MonUnflockSh
  BY <1>20, Absent, EventFacts DEF MonUnflockSh, DataTypeOK
<1>21. CASE MonSetPid
  BY <1>21, TriLockAssumption DEF MonSetPid
<1>22. CASE MonScan
  BY <1>22, TriLockAssumption DEF MonScan
<1>23. CASE MonTimeout
  BY <1>23, TriLockAssumption DEF MonTimeout
<1>24. CASE MonReadEdit
  BY <1>24, TriLockAssumption, QueueShrinks, EventFacts, EventKinds DEF MonReadEdit
<1>25. CASE MonReadOverflow
  BY <1>25, TriLockAssumption, QueueShrinks, EventFacts, EventKinds DEF MonReadOverflow
<1>26. CASE MonReadOpen
  BY <1>26, TriLockAssumption, QueueShrinks, EventFacts, EventKinds DEF MonReadOpen
<1>27. CASE MonFlockTri
  BY <1>27, TriLockAssumption DEF MonFlockTri
<1>28. CASE MonUnflockObj
  BY <1>28, Absent, EventFacts DEF MonUnflockObj, DataTypeOK
<1>29. CASE MonReadClose
  BY <1>29, TriLockAssumption, QueueShrinks, EventFacts, EventKinds DEF MonReadClose
<1>30. CASE MonReflockObj
  BY <1>30, TriLockAssumption DEF MonReflockObj
<1>31. CASE MonUnflockTri
  BY <1>31, Absent, EventFacts DEF MonUnflockTri, DataTypeOK
<1>32. CASE MonRetry
  BY <1>32, TriLockAssumption, QueueGrows, EventFacts DEF MonRetry
<1>33. CASE MonQuit
  BY <1>33, TriLockAssumption DEF MonQuit
<1>34. CASE MonExitObj
  BY <1>34, TriLockAssumption DEF MonExitObj
<1>35. CASE MonExitTri
  BY <1>35, TriLockAssumption DEF MonExitTri
<1>36. CASE UNCHANGED vars
  BY <1>36 DEF vars
<1> QED
  BY <1>1, <1>2, <1>3, <1>4, <1>5, <1>6, <1>7, <1>8, <1>9, <1>10, <1>11,
     <1>12, <1>13, <1>14, <1>15, <1>16, <1>17, <1>18, <1>19, <1>20, <1>21,
     <1>22, <1>23, <1>24, <1>25, <1>26, <1>27, <1>28, <1>29, <1>30,
     <1>31, <1>32, <1>33, <1>34, <1>35, <1>36
     DEF Next, Client, Monitor

(* What a single monitor relies on. *)
LEMMA OneMonitorStep ==
    ASSUME Typed, ClientLocks, MonitorLocks, MonitorState, OpenInv, OneMonitor,
           [Next]_vars
    PROVE  OneMonitor'
<1> USE DEF Typed, FlagTypeOK, ControlTypeOK, NotifyObj, MonitorState,
        MonitorLocks, ClientLocks, Home, Out, Leaving, Returning, HasSh, OpenInv, OneMonitor, MonitorPid,
        At, locks, mon, events, files, Goto, MGoto, FlushQueue, ReadEvent
<1>1. ASSUME NEW p \in Procs, Start(p) PROVE OneMonitor'
  BY <1>1, TriLockAssumption DEF Start
<1>2. ASSUME NEW p \in Procs, FlockSh(p) PROVE OneMonitor'
  BY <1>2, TriLockAssumption DEF FlockSh
<1>3. ASSUME NEW p \in Procs, OpenObj(p) PROVE OneMonitor'
  BY <1>3, TriLockAssumption, QueueGrows, EventFacts DEF OpenObj
<1>4. ASSUME NEW p \in Procs, FlockObj(p) PROVE OneMonitor'
  BY <1>4, TriLockAssumption DEF FlockObj
<1>5. ASSUME NEW p \in Procs, Work(p) PROVE OneMonitor'
  BY <1>5, TriLockAssumption DEF Work
<1>6. ASSUME NEW p \in Procs, UnflockObj(p) PROVE OneMonitor'
  BY <1>6, TriLockAssumption DEF UnflockObj
<1>7. ASSUME NEW p \in Procs, CloseObj(p) PROVE OneMonitor'
  BY <1>7, TriLockAssumption, QueueGrows, EventFacts DEF CloseObj
<1>8. ASSUME NEW p \in Procs, FlockTri(p) PROVE OneMonitor'
  BY <1>8, TriLockAssumption DEF FlockTri
<1>9. ASSUME NEW p \in Procs, UnflockTri(p) PROVE OneMonitor'
  BY <1>9, TriLockAssumption DEF UnflockTri
<1>10. ASSUME NEW p \in Procs, UnflockSh(p) PROVE OneMonitor'
  BY <1>10, TriLockAssumption DEF UnflockSh
<1>11. CASE Edit
  <2>1. EditEvent(edits + 1) \in Event
    BY EventFacts DEF DataTypeOK
  <2> QED
    BY <1>11, <2>1, QueueGrows, EventFacts DEF Edit
<1>12. CASE MonStart
  BY <1>12, TriLockAssumption DEF MonStart
<1>13. CASE MonFlockSh
  BY <1>13, TriLockAssumption DEF MonFlockSh
<1>14. CASE MonOpenObj
  BY <1>14, TriLockAssumption, QueueGrows, EventFacts DEF MonOpenObj
<1>15. CASE MonFlockObj
  BY <1>15, TriLockAssumption DEF MonFlockObj
<1>16. CASE MonForeground
  BY <1>16, TriLockAssumption DEF MonForeground
<1>17. CASE MonFork
  <2>1. inot = <<>>
    BY <1>17 DEF MonFork
  <2> QED
    BY <1>17, <2>1, TriLockAssumption, EmptyQueue, EventFacts, Absent DEF MonFork, DataTypeOK
<1>18. CASE ParentExit
  BY <1>18, TriLockAssumption DEF ParentExit
<1>19. CASE MonDrain
  BY <1>19, TriLockAssumption DEF MonDrain
<1>20. CASE MonUnflockSh
  <2>1. inot = <<>>
    BY <1>20 DEF MonUnflockSh
  <2> QED
    BY <1>20, <2>1, TriLockAssumption, EmptyQueue, EventFacts, Absent DEF MonUnflockSh, DataTypeOK
<1>21. CASE MonSetPid
  BY <1>21, TriLockAssumption DEF MonSetPid
<1>22. CASE MonScan
  BY <1>22, TriLockAssumption DEF MonScan
<1>23. CASE MonTimeout
  BY <1>23, TriLockAssumption DEF MonTimeout
<1>24. CASE MonReadEdit
  BY <1>24, TriLockAssumption, QueueShrinks, EventFacts, EventKinds DEF MonReadEdit
<1>25. CASE MonReadOverflow
  BY <1>25, TriLockAssumption, QueueShrinks, EventFacts, EventKinds DEF MonReadOverflow
<1>26. CASE MonReadOpen
  BY <1>26, TriLockAssumption, QueueShrinks, EventFacts, EventKinds DEF MonReadOpen
<1>27. CASE MonFlockTri
  BY <1>27, TriLockAssumption DEF MonFlockTri
<1>28. CASE MonUnflockObj
  BY <1>28, Absent, EventFacts DEF MonUnflockObj, DataTypeOK
<1>29. CASE MonReadClose
  BY <1>29, TriLockAssumption, QueueShrinks, EventFacts, EventKinds DEF MonReadClose
<1>30. CASE MonReflockObj
  BY <1>30, TriLockAssumption DEF MonReflockObj
<1>31. CASE MonUnflockTri
  BY <1>31, Absent, EventFacts DEF MonUnflockTri, DataTypeOK
<1>32. CASE MonRetry
  BY <1>32, TriLockAssumption, QueueGrows, EventFacts DEF MonRetry
<1>33. CASE MonQuit
  BY <1>33, TriLockAssumption DEF MonQuit
<1>34. CASE MonExitObj
  BY <1>34, TriLockAssumption DEF MonExitObj
<1>35. CASE MonExitTri
  BY <1>35, TriLockAssumption DEF MonExitTri
<1>36. CASE UNCHANGED vars
  BY <1>36 DEF vars
<1> QED
  BY <1>1, <1>2, <1>3, <1>4, <1>5, <1>6, <1>7, <1>8, <1>9, <1>10, <1>11,
     <1>12, <1>13, <1>14, <1>15, <1>16, <1>17, <1>18, <1>19, <1>20, <1>21,
     <1>22, <1>23, <1>24, <1>25, <1>26, <1>27, <1>28, <1>29, <1>30,
     <1>31, <1>32, <1>33, <1>34, <1>35, <1>36
     DEF Next, Client, Monitor

(* Only real edits are known. *)
LEMMA EditBoundsStep ==
    ASSUME Typed, EditBounds, [Next]_vars
    PROVE  EditBounds'
<1> USE DEF Typed, DataTypeOK, ControlTypeOK, NotifyObj, EditBounds, locks, mon, events, files,
        FlushQueue, ReadEvent
<1>1. ASSUME NEW p \in Procs, Start(p) PROVE EditBounds'
  BY <1>1 DEF Start
<1>2. ASSUME NEW p \in Procs, FlockSh(p) PROVE EditBounds'
  BY <1>2 DEF FlockSh
<1>3. ASSUME NEW p \in Procs, OpenObj(p) PROVE EditBounds'
  <2>1. OpenEvent \in Event /\ (OpenEvent[1] # "edit")
    BY EventFacts DEF OpenEvent
  <2> QED
    BY <1>3, <2>1, EnqueueEditsUpTo DEF OpenObj
<1>4. ASSUME NEW p \in Procs, FlockObj(p) PROVE EditBounds'
  BY <1>4 DEF FlockObj
<1>5. ASSUME NEW p \in Procs, Work(p) PROVE EditBounds'
  BY <1>5 DEF Work
<1>6. ASSUME NEW p \in Procs, UnflockObj(p) PROVE EditBounds'
  BY <1>6 DEF UnflockObj
<1>7. ASSUME NEW p \in Procs, CloseObj(p) PROVE EditBounds'
  <2>1. CloseEvent \in Event /\ (CloseEvent[1] # "edit")
    BY EventFacts DEF CloseEvent
  <2> QED
    BY <1>7, <2>1, EnqueueEditsUpTo DEF CloseObj
<1>8. ASSUME NEW p \in Procs, FlockTri(p) PROVE EditBounds'
  BY <1>8 DEF FlockTri
<1>9. ASSUME NEW p \in Procs, UnflockTri(p) PROVE EditBounds'
  BY <1>9 DEF UnflockTri
<1>10. ASSUME NEW p \in Procs, UnflockSh(p) PROVE EditBounds'
  BY <1>10 DEF UnflockSh
<1>11. CASE Edit
  <2>1. EditEvent(edits + 1) \in Event /\ edits <= edits + 1 /\ edits + 1 \in Nat
    BY EventFacts
  <2>2. EditEvent(edits + 1)[1] = "edit" => EditEvent(edits + 1)[2] \in 1..(edits + 1)
    BY DEF EditEvent
  <2>3. EditsUpTo(inot', edits + 1)
    <3>1. CASE dirwatch
      BY <1>11, <2>1, <2>2, <3>1, EnqueueEditsUpTo DEF Edit
    <3>2. CASE ~dirwatch
      BY <1>11, <3>2 DEF Edit, EditsUpTo
    <3> QED
      BY <3>1, <3>2
  <2> QED
    BY <1>11, <2>1, <2>3 DEF Edit
<1>12. CASE MonStart
  BY <1>12 DEF MonStart
<1>13. CASE MonFlockSh
  BY <1>13 DEF MonFlockSh
<1>14. CASE MonOpenObj
  <2>1. OpenEvent \in Event /\ (OpenEvent[1] # "edit")
    BY EventFacts DEF OpenEvent
  <2> QED
    BY <1>14, <2>1, EnqueueEditsUpTo DEF MonOpenObj
<1>15. CASE MonFlockObj
  BY <1>15 DEF MonFlockObj
<1>16. CASE MonForeground
  BY <1>16 DEF MonForeground
<1>17. CASE MonFork
  BY <1>17 DEF MonFork
<1>18. CASE ParentExit
  BY <1>18 DEF ParentExit
<1>19. CASE MonDrain
  <2>1. EditsUpTo(inot, edits)'
    BY <1>19 DEF MonDrain, EditsUpTo
  <2> QED
    BY <1>19, <2>1 DEF MonDrain
<1>20. CASE MonUnflockSh
  BY <1>20 DEF MonUnflockSh
<1>21. CASE MonSetPid
  BY <1>21 DEF MonSetPid
<1>22. CASE MonScan
  BY <1>22 DEF MonScan
<1>23. CASE MonTimeout
  BY <1>23 DEF MonTimeout
<1>24. CASE MonReadEdit
  <2>1. EditsUpTo(inot, edits)' /\ Head(inot)[2] \in 1..edits
    BY <1>24, TailEditsUpTo DEF MonReadEdit
  <2> QED
    BY <1>24, <2>1 DEF MonReadEdit
<1>25. CASE MonReadOverflow
  BY <1>25, TailEditsUpTo DEF MonReadOverflow
<1>26. CASE MonReadOpen
  BY <1>26, TailEditsUpTo DEF MonReadOpen
<1>27. CASE MonFlockTri
  BY <1>27 DEF MonFlockTri
<1>28. CASE MonUnflockObj
  BY <1>28 DEF MonUnflockObj
<1>29. CASE MonReadClose
  BY <1>29, TailEditsUpTo DEF MonReadClose
<1>30. CASE MonReflockObj
  BY <1>30 DEF MonReflockObj
<1>31. CASE MonUnflockTri
  BY <1>31 DEF MonUnflockTri
<1>32. CASE MonRetry
  <2>1. CloseEvent \in Event /\ (CloseEvent[1] # "edit")
    BY EventFacts DEF CloseEvent
  <2> QED
    BY <1>32, <2>1, EnqueueEditsUpTo DEF MonRetry
<1>33. CASE MonQuit
  <2>1. EditsUpTo(inot, edits)'
    BY <1>33 DEF MonQuit, EditsUpTo
  <2> QED
    BY <1>33, <2>1 DEF MonQuit
<1>34. CASE MonExitObj
  BY <1>34 DEF MonExitObj
<1>35. CASE MonExitTri
  BY <1>35 DEF MonExitTri
<1>36. CASE UNCHANGED vars
  BY <1>36 DEF vars
<1> QED
  BY <1>1, <1>2, <1>3, <1>4, <1>5, <1>6, <1>7, <1>8, <1>9, <1>10, <1>11,
     <1>12, <1>13, <1>14, <1>15, <1>16, <1>17, <1>18, <1>19, <1>20, <1>21,
     <1>22, <1>23, <1>24, <1>25, <1>26, <1>27, <1>28, <1>29, <1>30,
     <1>31, <1>32, <1>33, <1>34, <1>35, <1>36
     DEF Next, Client, Monitor

(* Where each edit is. *)
LEMMA NoLostEditStep ==
    ASSUME Typed, MonitorState, EditBounds, NoLostEdit, [Next]_vars
    PROVE  NoLostEdit'
<1> USE DEF Typed, FlagTypeOK, DataTypeOK, ControlTypeOK, NotifyObj, MonitorState,
        EditBounds, NoLostEdit, locks, mon, events, files, Goto, MGoto, FlushQueue, ReadEvent,
        MonitorPid
<1>1. ASSUME NEW p \in Procs, Start(p) PROVE NoLostEdit'
  BY <1>1 DEF Start
<1>2. ASSUME NEW p \in Procs, FlockSh(p) PROVE NoLostEdit'
  BY <1>2 DEF FlockSh
<1>3. ASSUME NEW p \in Procs, OpenObj(p) PROVE NoLostEdit'
  BY <1>3, QueueGrows, EventFacts DEF OpenObj
<1>4. ASSUME NEW p \in Procs, FlockObj(p) PROVE NoLostEdit'
  BY <1>4 DEF FlockObj
<1>5. ASSUME NEW p \in Procs, Work(p) PROVE NoLostEdit'
  BY <1>5 DEF Work
<1>6. ASSUME NEW p \in Procs, UnflockObj(p) PROVE NoLostEdit'
  BY <1>6 DEF UnflockObj
<1>7. ASSUME NEW p \in Procs, CloseObj(p) PROVE NoLostEdit'
  BY <1>7, QueueGrows, EventFacts DEF CloseObj
<1>8. ASSUME NEW p \in Procs, FlockTri(p) PROVE NoLostEdit'
  BY <1>8 DEF FlockTri
<1>9. ASSUME NEW p \in Procs, UnflockTri(p) PROVE NoLostEdit'
  BY <1>9 DEF UnflockTri
<1>10. ASSUME NEW p \in Procs, UnflockSh(p) PROVE NoLostEdit'
  BY <1>10 DEF UnflockSh
<1>11. CASE Edit
  BY <1>11, QueueGrows, EventFacts DEF Edit
<1>12. CASE MonStart
  BY <1>12 DEF MonStart
<1>13. CASE MonFlockSh
  BY <1>13 DEF MonFlockSh
<1>14. CASE MonOpenObj
  BY <1>14, QueueGrows, EventFacts DEF MonOpenObj
<1>15. CASE MonFlockObj
  BY <1>15 DEF MonFlockObj
<1>16. CASE MonForeground
  BY <1>16 DEF MonForeground
<1>17. CASE MonFork
  BY <1>17 DEF MonFork
<1>18. CASE ParentExit
  BY <1>18 DEF ParentExit
<1>19. CASE MonDrain
  BY <1>19 DEF MonDrain
<1>20. CASE MonUnflockSh
  BY <1>20 DEF MonUnflockSh
<1>21. CASE MonSetPid
  BY <1>21 DEF MonSetPid
<1>22. CASE MonScan
  BY <1>22 DEF MonScan
<1>23. CASE MonTimeout
  BY <1>23 DEF MonTimeout
<1>24. CASE MonReadEdit
  <2>1. Head(inot) \in Event /\ Head(inot) = EditEvent(Head(inot)[2])
    BY <1>24, QueueShrinks, EventKinds DEF MonReadEdit
  <2>2. \A v \in Nat : EditEvent(v) \in Event /\ (EditEvent(v) = Head(inot) => v = Head(inot)[2])
    BY <2>1, EventFacts
  <2>3. \A x \in Event : Holds(inot, x) => Holds(inot, x)' \/ x = Head(inot)
    BY <1>24, QueueShrinks DEF MonReadEdit
  <2>4. OverflowEvent \in Event /\ OverflowEvent # Head(inot)
    BY <2>1, EventFacts
  <2> QED
    BY <1>24, <2>2, <2>3, <2>4 DEF MonReadEdit
<1>25. CASE MonReadOverflow
  BY <1>25, QueueShrinks, EventFacts, EventKinds DEF MonReadOverflow
<1>26. CASE MonReadOpen
  BY <1>26, QueueShrinks, EventFacts, EventKinds DEF MonReadOpen
<1>27. CASE MonFlockTri
  BY <1>27 DEF MonFlockTri
<1>28. CASE MonUnflockObj
  BY <1>28 DEF MonUnflockObj
<1>29. CASE MonReadClose
  BY <1>29, QueueShrinks, EventFacts, EventKinds DEF MonReadClose
<1>30. CASE MonReflockObj
  BY <1>30 DEF MonReflockObj
<1>31. CASE MonUnflockTri
  BY <1>31 DEF MonUnflockTri
<1>32. CASE MonRetry
  BY <1>32, QueueGrows, EventFacts DEF MonRetry
<1>33. CASE MonQuit
  BY <1>33 DEF MonQuit
<1>34. CASE MonExitObj
  BY <1>34 DEF MonExitObj
<1>35. CASE MonExitTri
  BY <1>35 DEF MonExitTri
<1>36. CASE UNCHANGED vars
  BY <1>36 DEF vars
<1> QED
  BY <1>1, <1>2, <1>3, <1>4, <1>5, <1>6, <1>7, <1>8, <1>9, <1>10, <1>11,
     <1>12, <1>13, <1>14, <1>15, <1>16, <1>17, <1>18, <1>19, <1>20, <1>21,
     <1>22, <1>23, <1>24, <1>25, <1>26, <1>27, <1>28, <1>29, <1>30,
     <1>31, <1>32, <1>33, <1>34, <1>35, <1>36
     DEF Next, Client, Monitor

(* Every edit a command must see is ahead of its IN_OPEN. *)
LEMMA EditOrderStep ==
    ASSUME Typed, ClientLocks, MonitorLocks, MonitorState, OpenInv, EditBounds,
           NoLostEdit, EditOrder, [Next]_vars
    PROVE  EditOrder'
<1> USE DEF Typed, FlagTypeOK, ControlTypeOK, DataTypeOK, NotifyObj, MonitorState,
        MonitorLocks, ClientLocks, Home, Out, Leaving, Returning, HasSh, OpenInv,
        At, EditBounds, EditOrder, locks, mon, events, files, Goto, MGoto, FlushQueue, ReadEvent,
        MonitorPid
<1>1. ASSUME NEW p \in Procs, Start(p) PROVE EditOrder'
  BY <1>1, TriLockAssumption DEF Start
<1>2. ASSUME NEW p \in Procs, FlockSh(p) PROVE EditOrder'
  BY <1>2, TriLockAssumption DEF FlockSh
<1>3. ASSUME NEW p \in Procs, OpenObj(p) PROVE EditOrder'
  <2>1. \A r \in Procs : pc[r] # "obj" /\ (pc'[r] = "obj" => r = p)
    BY <1>3 DEF OpenObj
  <2>2. ~(Out \/ Leaving \/ mpc = "takeobj")'
    BY <1>3, <2>1 DEF OpenObj
  <2>3. ASSUME Home' PROVE \A v \in 1..edits :
          \/ v \in db \/ v \in event_list \/ overflow
          \/ Precedes(inot, EditEvent(v), OpenEvent)'
          \/ Precedes(inot, OverflowEvent, OpenEvent)'
    <3>1. Home /\ watching /\ dirwatch /\ inot' = Enqueue(inot, OpenEvent)
      BY <1>3, <2>3 DEF OpenObj
    <3>2. ~Holds(inot, OpenEvent)
      BY <2>1, <3>1
    <3>3. \A x \in Event : Precedes(inot, x, OpenEvent)
      BY <3>2, Absent, EventFacts
    <3>4. \A x \in Event : Holds(inot, x) => Precedes(inot, x, OpenEvent)'
      BY <3>1, <3>3, QueueGrows, EventFacts
    <3> QED
      BY <3>1, <3>4, EventFacts DEF NoLostEdit
  <2>4. seen' = [seen EXCEPT ![p] = edits] /\ UNCHANGED <<db, event_list, overflow>>
    BY <1>3 DEF OpenObj
  <2> QED
    BY <2>1, <2>2, <2>3, <2>4
<1>4. ASSUME NEW p \in Procs, FlockObj(p) PROVE EditOrder'
  BY <1>4, TriLockAssumption DEF FlockObj
<1>5. ASSUME NEW p \in Procs, Work(p) PROVE EditOrder'
  BY <1>5, TriLockAssumption DEF Work
<1>6. ASSUME NEW p \in Procs, UnflockObj(p) PROVE EditOrder'
  BY <1>6, TriLockAssumption DEF UnflockObj
<1>7. ASSUME NEW p \in Procs, CloseObj(p) PROVE EditOrder'
  BY <1>7, TriLockAssumption, QueueGrows, EventFacts DEF CloseObj
<1>8. ASSUME NEW p \in Procs, FlockTri(p) PROVE EditOrder'
  BY <1>8, TriLockAssumption DEF FlockTri
<1>9. ASSUME NEW p \in Procs, UnflockTri(p) PROVE EditOrder'
  BY <1>9, TriLockAssumption DEF UnflockTri
<1>10. ASSUME NEW p \in Procs, UnflockSh(p) PROVE EditOrder'
  BY <1>10, TriLockAssumption DEF UnflockSh
<1>11. CASE Edit
  <2>1. EditEvent(edits + 1) \in Event /\ EditEvent(edits + 1) # OpenEvent
    BY EventFacts
  <2>2. \A v \in Nat : EditEvent(v) \in Event
    BY EventFacts
  <2>3. \A x \in Event : Precedes(inot, x, OpenEvent) => Precedes(inot, x, OpenEvent)'
    BY <1>11, <2>1, QueueGrows, EventFacts DEF Edit
  <2> QED
    BY <1>11, <2>2, <2>3, EventFacts DEF Edit
<1>12. CASE MonStart
  BY <1>12, TriLockAssumption DEF MonStart
<1>13. CASE MonFlockSh
  BY <1>13, TriLockAssumption DEF MonFlockSh
<1>14. CASE MonOpenObj
  BY <1>14, TriLockAssumption, QueueGrows, EventFacts DEF MonOpenObj
<1>15. CASE MonFlockObj
  BY <1>15, TriLockAssumption DEF MonFlockObj
<1>16. CASE MonForeground
  BY <1>16, TriLockAssumption DEF MonForeground
<1>17. CASE MonFork
  BY <1>17, TriLockAssumption DEF MonFork
<1>18. CASE ParentExit
  BY <1>18, TriLockAssumption DEF ParentExit
<1>19. CASE MonDrain
  BY <1>19, TriLockAssumption DEF MonDrain
<1>20. CASE MonUnflockSh
  BY <1>20, TriLockAssumption DEF MonUnflockSh
<1>21. CASE MonSetPid
  BY <1>21, TriLockAssumption DEF MonSetPid
<1>22. CASE MonScan
  BY <1>22, TriLockAssumption DEF MonScan
<1>23. CASE MonTimeout
  BY <1>23, TriLockAssumption DEF MonTimeout
<1>24. CASE MonReadEdit
  <2>1. Head(inot) \in Event /\ Head(inot) = EditEvent(Head(inot)[2])
    BY <1>24, QueueShrinks, EventKinds DEF MonReadEdit
  <2>2. \A v \in Nat : EditEvent(v) \in Event /\ (EditEvent(v) = Head(inot) => v = Head(inot)[2])
    BY <2>1, EventFacts
  <2>3. \A x \in Event : Precedes(inot, x, OpenEvent) /\ Head(inot) # x
                            => Precedes(inot, x, OpenEvent)'
    BY <1>24, QueueShrinks, EventFacts DEF MonReadEdit
  <2>4. OverflowEvent \in Event /\ OverflowEvent # Head(inot)
    BY <2>1, EventFacts
  <2> QED
    BY <1>24, <2>2, <2>3, <2>4 DEF MonReadEdit
<1>25. CASE MonReadOverflow
  BY <1>25, TriLockAssumption, QueueShrinks, EventFacts, EventKinds DEF MonReadOverflow
<1>26. CASE MonReadOpen
  BY <1>26, TriLockAssumption, QueueShrinks, EventFacts, EventKinds DEF MonReadOpen
<1>27. CASE MonFlockTri
  BY <1>27, TriLockAssumption DEF MonFlockTri
<1>28. CASE MonUnflockObj
  BY <1>28, TriLockAssumption DEF MonUnflockObj
<1>29. CASE MonReadClose
  BY <1>29, TriLockAssumption, QueueShrinks, EventFacts, EventKinds DEF MonReadClose
<1>30. CASE MonReflockObj
  BY <1>30, TriLockAssumption DEF MonReflockObj
<1>31. CASE MonUnflockTri
  <2>1. \A x \in Event : Precedes(inot', x, OpenEvent)
    BY <1>31, Absent, EventFacts DEF MonUnflockTri
  <2>2. Home' /\ ~(Out \/ Leaving \/ mpc = "takeobj")'
    BY <1>31 DEF MonUnflockTri
  <2> QED
    BY <2>1, <2>2, EventFacts
<1>32. CASE MonRetry
  BY <1>32, TriLockAssumption, QueueGrows, EventFacts DEF MonRetry
<1>33. CASE MonQuit
  BY <1>33, TriLockAssumption DEF MonQuit
<1>34. CASE MonExitObj
  BY <1>34, TriLockAssumption DEF MonExitObj
<1>35. CASE MonExitTri
  BY <1>35, TriLockAssumption DEF MonExitTri
<1>36. CASE UNCHANGED vars
  BY <1>36 DEF vars
<1> QED
  BY <1>1, <1>2, <1>3, <1>4, <1>5, <1>6, <1>7, <1>8, <1>9, <1>10, <1>11,
     <1>12, <1>13, <1>14, <1>15, <1>16, <1>17, <1>18, <1>19, <1>20, <1>21,
     <1>22, <1>23, <1>24, <1>25, <1>26, <1>27, <1>28, <1>29, <1>30,
     <1>31, <1>32, <1>33, <1>34, <1>35, <1>36
     DEF Next, Client, Monitor

(* What a command finds in the database. *)
LEMMA FreshStep ==
    ASSUME Typed, ClientLocks, MonitorLocks, MonitorState, OpenInv, EditBounds,
           EditOrder, Fresh, [Next]_vars
    PROVE  Fresh'
<1> USE DEF Typed, FlagTypeOK, ControlTypeOK, DataTypeOK, NotifyObj, MonitorState,
        MonitorLocks, ClientLocks, Home, Out, Leaving, Returning, HasSh, OpenInv,
        At, EditBounds, EditOrder, locks, mon, events, files, Goto, MGoto, FlushQueue, ReadEvent,
        MonitorPid, Fresh
<1>1. ASSUME NEW p \in Procs, Start(p) PROVE Fresh'
  BY <1>1, TriLockAssumption DEF Start
<1>2. ASSUME NEW p \in Procs, FlockSh(p) PROVE Fresh'
  BY <1>2, TriLockAssumption DEF FlockSh
<1>3. ASSUME NEW p \in Procs, OpenObj(p) PROVE Fresh'
  BY <1>3, TriLockAssumption DEF OpenObj
<1>4. ASSUME NEW p \in Procs, FlockObj(p) PROVE Fresh'
  BY <1>4, TriLockAssumption DEF FlockObj
<1>5. ASSUME NEW p \in Procs, Work(p) PROVE Fresh'
  BY <1>5, TriLockAssumption DEF Work
<1>6. ASSUME NEW p \in Procs, UnflockObj(p) PROVE Fresh'
  BY <1>6, TriLockAssumption DEF UnflockObj
<1>7. ASSUME NEW p \in Procs, CloseObj(p) PROVE Fresh'
  BY <1>7, TriLockAssumption DEF CloseObj
<1>8. ASSUME NEW p \in Procs, FlockTri(p) PROVE Fresh'
  BY <1>8, TriLockAssumption DEF FlockTri
<1>9. ASSUME NEW p \in Procs, UnflockTri(p) PROVE Fresh'
  BY <1>9, TriLockAssumption DEF UnflockTri
<1>10. ASSUME NEW p \in Procs, UnflockSh(p) PROVE Fresh'
  BY <1>10, TriLockAssumption DEF UnflockSh
<1>11. CASE Edit
  BY <1>11, TriLockAssumption DEF Edit
<1>12. CASE MonStart
  BY <1>12, TriLockAssumption DEF MonStart
<1>13. CASE MonFlockSh
  BY <1>13, TriLockAssumption DEF MonFlockSh
<1>14. CASE MonOpenObj
  BY <1>14, TriLockAssumption DEF MonOpenObj
<1>15. CASE MonFlockObj
  BY <1>15, TriLockAssumption DEF MonFlockObj
<1>16. CASE MonForeground
  BY <1>16, TriLockAssumption DEF MonForeground
<1>17. CASE MonFork
  BY <1>17, TriLockAssumption DEF MonFork
<1>18. CASE ParentExit
  BY <1>18, TriLockAssumption DEF ParentExit
<1>19. CASE MonDrain
  BY <1>19, TriLockAssumption DEF MonDrain
<1>20. CASE MonUnflockSh
  BY <1>20, TriLockAssumption DEF MonUnflockSh
<1>21. CASE MonSetPid
  BY <1>21, TriLockAssumption DEF MonSetPid
<1>22. CASE MonScan
  BY <1>22, TriLockAssumption DEF MonScan
<1>23. CASE MonTimeout
  BY <1>23, TriLockAssumption DEF MonTimeout
<1>24. CASE MonReadEdit
  BY <1>24, TriLockAssumption DEF MonReadEdit
<1>25. CASE MonReadOverflow
  BY <1>25, TriLockAssumption DEF MonReadOverflow
<1>26. CASE MonReadOpen
  BY <1>26, TriLockAssumption DEF MonReadOpen
<1>27. CASE MonFlockTri
  BY <1>27, TriLockAssumption DEF MonFlockTri
<1>28. CASE MonUnflockObj
  BY <1>28, TriLockAssumption DEF MonUnflockObj
<1>29. CASE MonReadClose
  BY <1>29, TriLockAssumption DEF MonReadClose
<1>30. CASE MonReflockObj
  BY <1>30, TriLockAssumption DEF MonReflockObj
<1>31. CASE MonUnflockTri
  BY <1>31, TriLockAssumption DEF MonUnflockTri
<1>32. CASE MonRetry
  BY <1>32, TriLockAssumption DEF MonRetry
<1>33. CASE MonQuit
  BY <1>33, TriLockAssumption DEF MonQuit
<1>34. CASE MonExitObj
  BY <1>34, TriLockAssumption DEF MonExitObj
<1>35. CASE MonExitTri
  BY <1>35, TriLockAssumption DEF MonExitTri
<1>36. CASE UNCHANGED vars
  BY <1>36 DEF vars
<1> QED
  BY <1>1, <1>2, <1>3, <1>4, <1>5, <1>6, <1>7, <1>8, <1>9, <1>10, <1>11,
     <1>12, <1>13, <1>14, <1>15, <1>16, <1>17, <1>18, <1>19, <1>20, <1>21,
     <1>22, <1>23, <1>24, <1>25, <1>26, <1>27, <1>28, <1>29, <1>30,
     <1>31, <1>32, <1>33, <1>34, <1>35, <1>36
     DEF Next, Client, Monitor

-----------------------------------------------------------------------------
LEMMA InitIndInv == Init => IndInv
<1> SUFFICES ASSUME Init PROVE IndInv
  OBVIOUS
<1>1. TypeOK
  BY InitTyped
<1>2. ClientLocks
  BY TriLockAssumption DEF Init, ClientLocks, HasSh
<1>3. MonitorLocks
  BY TriLockAssumption DEF Init, MonitorLocks, Home, Out, Leaving, Returning
<1>4. MonitorState
  BY TriLockAssumption DEF Init, MonitorState
<1>5. OpenInv /\ OneMonitor
  BY TriLockAssumption DEF Init, OpenInv, OneMonitor, Home, Out, Leaving, Returning
<1>6. EditBounds
  BY DEF Init, EditBounds, EditsUpTo
<1>7. NoLostEdit /\ EditOrder /\ Fresh
  BY DEF Init, NoLostEdit, EditOrder, Fresh, Home, Out, Leaving
<1> QED
  BY <1>1, <1>2, <1>3, <1>4, <1>5, <1>6, <1>7 DEF IndInv, CoreInv, TypeOK

LEMMA CoreInvStep == CoreInv /\ [Next]_vars => CoreInv'
BY TypedStep, ClientLocksStep, MonitorLocksStep, MonitorStateStep, OpenStep,
   EditBoundsStep, NoLostEditStep, EditOrderStep, FreshStep DEF CoreInv

LEMMA IndInvStep == IndInv /\ [Next]_vars => IndInv'
<1> SUFFICES ASSUME IndInv, [Next]_vars PROVE IndInv'
  OBVIOUS
<1>1. OneMonitor'
  BY OneMonitorStep DEF IndInv, CoreInv
<1> QED
  BY <1>1, CoreInvStep, TypeStep DEF IndInv

(***************************************************************************)
(* IndInv holds in every reachable state of the lock protocol.             *)
(***************************************************************************)
THEOREM Invariance == Spec => []IndInv
BY InitIndInv, IndInvStep, PTL DEF Spec

(***************************************************************************)
(* The three locks of lock.c give the database one user at a time: never   *)
(* two commands, and never a command and the monitor.                      *)
(***************************************************************************)
THEOREM Exclusion == Spec => []DatabaseExclusive
<1>1. IndInv => DatabaseExclusive
  BY TriLockAssumption DEF IndInv, CoreInv, ClientLocks, MonitorLocks, Home, Leaving,
     DatabaseExclusive, Working, MonitorActive
<1> QED
  BY <1>1, Invariance, PTL

(***************************************************************************)
(* The monitor never sleeps in monitor_loop() on an object lock somebody   *)
(* waits for.                                                              *)
(***************************************************************************)
THEOREM OpenIsNoticed == Spec => []NoMissedOpen
<1>1. IndInv => NoMissedOpen
  BY DEF IndInv, OneMonitor, At, Home, NoMissedOpen
<1> QED
  BY <1>1, Invariance, PTL

(***************************************************************************)
(* An edit made while the directories are watched is in the database, on   *)
(* its way there, or an overflow event forces a full scan.                 *)
(***************************************************************************)
THEOREM EditsAreKept == Spec => []NoLostEdit
<1>1. IndInv => NoLostEdit
  BY DEF IndInv, CoreInv
<1> QED
  BY <1>1, Invariance, PTL

(***************************************************************************)
(* A command that leaves the scanning to the monitor (run_scan()) finds    *)
(* every edit that was made before it opened the object lock.              *)
(***************************************************************************)
THEOREM NeverStale == Spec => []Fresh
<1>1. IndInv => Fresh
  BY DEF IndInv, CoreInv
<1> QED
  BY <1>1, Invariance, PTL

-----------------------------------------------------------------------------
(***************************************************************************)
(* Refinement: each step is a step of FreshDatabase, or leaves it alone.   *)
(***************************************************************************)
LEMMA PhaseUnchanged ==
    ASSUME pc' = pc
    PROVE  [r \in Procs |-> Phase(r)]' = [r \in Procs |-> Phase(r)]
BY DEF Phase
(* Every step of the protocol is a step of FreshDatabase or a stutter. *)
LEMMA RefinementStep ==
    ASSUME IndInv, [Next]_vars
    PROVE  [FD!Next]_(FD!vars)
<1> USE DEF locks, mon, events, files, Goto, MGoto, FlushQueue, ReadEvent, FD!vars
<1> DEFINE ph == [r \in Procs |-> Phase(r)]
<1>0. ControlTypeOK
  BY DEF IndInv, TypeOK, Typed
<1>1. ASSUME NEW p \in Procs, Start(p) PROVE [FD!Next]_(FD!vars)
  <2>1. pc[p] = "idle" /\ pc' = [pc EXCEPT ![p] = "sh"]
    BY <1>1 DEF Start
  <2>2. ph' = ph
    BY <1>0, <2>1 DEF Phase, ControlTypeOK
  <2> QED
    BY <1>1, <2>2 DEF Start
<1>2. ASSUME NEW p \in Procs, FlockSh(p) PROVE [FD!Next]_(FD!vars)
  <2>1. pc[p] = "sh" /\ pc' = [pc EXCEPT ![p] = "open"]
    BY <1>2 DEF FlockSh
  <2>2. ph' = ph
    BY <1>0, <2>1 DEF Phase, ControlTypeOK
  <2> QED
    BY <1>2, <2>2 DEF FlockSh
<1>3. ASSUME NEW p \in Procs, OpenObj(p) PROVE [FD!Next]_(FD!vars)
  <2>1. pc[p] = "open" /\ pc' = [pc EXCEPT ![p] = "obj"]
    BY <1>3 DEF OpenObj
  <2>2. ph[p] = "idle" /\ ph' = [ph EXCEPT ![p] = "waiting"]
    BY <1>0, <2>1 DEF Phase, ControlTypeOK
  <2>4. FD!Ask(p)
    BY <1>3, <2>2 DEF OpenObj, FD!Ask, FD!Become
  <2> QED
    BY <2>4 DEF FD!Next
<1>4. ASSUME NEW p \in Procs, FlockObj(p) PROVE [FD!Next]_(FD!vars)
  <2>1. pc[p] = "obj" /\ pc' = [pc EXCEPT ![p] = "work"]
    BY <1>4 DEF FlockObj
  <2>2. ph[p] = "waiting" /\ ph' = [ph EXCEPT ![p] = "entered"]
    BY <1>0, <2>1 DEF Phase, ControlTypeOK
  <2>4. FD!Enter(p)
    BY <1>4, <2>2 DEF FlockObj, FD!Enter, FD!Become
  <2> QED
    BY <2>4 DEF FD!Next
<1>5. ASSUME NEW p \in Procs, Work(p) PROVE [FD!Next]_(FD!vars)
  <2>1. pc[p] = "work" /\ pc' = [pc EXCEPT ![p] = "unobj"]
    BY <1>5 DEF Work
  <2>2. ph[p] = "entered" /\ ph' = [ph EXCEPT ![p] = "using"]
    BY <1>0, <2>1 DEF Phase, ControlTypeOK
  <2>3. obj = p /\ db' \in {db, 1..edits} /\ 1..seen[p] \subseteq db'
    BY <1>5, <1>0, <2>1, IndInvStep DEF Work, IndInv, CoreInv, ClientLocks, Fresh, ControlTypeOK
  <2>4. FD!Use(p)
    BY <1>5, <2>2, <2>3 DEF Work, FD!Use, FD!Become
  <2> QED
    BY <2>4 DEF FD!Next
<1>6. ASSUME NEW p \in Procs, UnflockObj(p) PROVE [FD!Next]_(FD!vars)
  <2>1. pc[p] = "unobj" /\ pc' = [pc EXCEPT ![p] = "close"]
    BY <1>6 DEF UnflockObj
  <2>2. ph[p] = "using" /\ ph' = [ph EXCEPT ![p] = "idle"]
    BY <1>0, <2>1 DEF Phase, ControlTypeOK
  <2>3. obj = p
    BY <2>1 DEF IndInv, CoreInv, ClientLocks
  <2>4. FD!Leave(p)
    BY <1>6, <2>2, <2>3 DEF UnflockObj, FD!Leave, FD!Become
  <2> QED
    BY <2>4 DEF FD!Next
<1>7. ASSUME NEW p \in Procs, CloseObj(p) PROVE [FD!Next]_(FD!vars)
  <2>1. pc[p] = "close" /\ pc' = [pc EXCEPT ![p] = "tri"]
    BY <1>7 DEF CloseObj
  <2>2. ph' = ph
    BY <1>0, <2>1 DEF Phase, ControlTypeOK
  <2> QED
    BY <1>7, <2>2 DEF CloseObj
<1>8. ASSUME NEW p \in Procs, FlockTri(p) PROVE [FD!Next]_(FD!vars)
  <2>1. pc[p] = "tri" /\ pc' = [pc EXCEPT ![p] = "untri"]
    BY <1>8 DEF FlockTri
  <2>2. ph' = ph
    BY <1>0, <2>1 DEF Phase, ControlTypeOK
  <2> QED
    BY <1>8, <2>2 DEF FlockTri
<1>9. ASSUME NEW p \in Procs, UnflockTri(p) PROVE [FD!Next]_(FD!vars)
  <2>1. pc[p] = "untri" /\ pc' = [pc EXCEPT ![p] = "unsh"]
    BY <1>9 DEF UnflockTri
  <2>2. ph' = ph
    BY <1>0, <2>1 DEF Phase, ControlTypeOK
  <2> QED
    BY <1>9, <2>2 DEF UnflockTri
<1>10. ASSUME NEW p \in Procs, UnflockSh(p) PROVE [FD!Next]_(FD!vars)
  <2>1. pc[p] = "unsh" /\ pc' = [pc EXCEPT ![p] = "idle"]
    BY <1>10 DEF UnflockSh
  <2>2. ph' = ph
    BY <1>0, <2>1 DEF Phase, ControlTypeOK
  <2> QED
    BY <1>10, <2>2 DEF UnflockSh
<1>11. CASE Edit
  <2>1. FD!Edit
    BY <1>11, PhaseUnchanged DEF Edit, FD!Edit
  <2> QED
    BY <2>1 DEF FD!Next
<1>12. CASE MonStart
  BY <1>12, PhaseUnchanged DEF MonStart
<1>13. CASE MonFlockSh
  BY <1>13, PhaseUnchanged DEF MonFlockSh
<1>14. CASE MonOpenObj
  BY <1>14, PhaseUnchanged DEF MonOpenObj
<1>15. CASE MonFlockObj
  <2>1. FD!MonitorEnter
    BY <1>15, PhaseUnchanged DEF MonFlockObj, FD!MonitorEnter
  <2> QED
    BY <2>1 DEF FD!Next
<1>16. CASE MonForeground
  BY <1>16, PhaseUnchanged DEF MonForeground
<1>17. CASE MonFork
  BY <1>17, PhaseUnchanged DEF MonFork
<1>18. CASE ParentExit
  BY <1>18, PhaseUnchanged DEF ParentExit
<1>19. CASE MonDrain
  BY <1>19, PhaseUnchanged DEF MonDrain
<1>20. CASE MonUnflockSh
  BY <1>20, PhaseUnchanged DEF MonUnflockSh
<1>21. CASE MonSetPid
  BY <1>21, PhaseUnchanged DEF MonSetPid
<1>22. CASE MonScan
  <2>1. FD!MonitorRecord
    BY <1>22, PhaseUnchanged DEF MonScan, FD!MonitorRecord, IndInv, CoreInv, MonitorLocks,
       EditBounds, Home
  <2> QED
    BY <2>1 DEF FD!Next
<1>23. CASE MonTimeout
  <2>1. FD!MonitorRecord
    BY <1>23, PhaseUnchanged DEF MonTimeout, FD!MonitorRecord, IndInv, CoreInv, MonitorLocks,
       EditBounds, Home
  <2> QED
    BY <2>1 DEF FD!Next
<1>24. CASE MonReadEdit
  BY <1>24, PhaseUnchanged DEF MonReadEdit
<1>25. CASE MonReadOverflow
  BY <1>25, PhaseUnchanged DEF MonReadOverflow
<1>26. CASE MonReadOpen
  <2>1. FD!MonitorRecord
    BY <1>26, PhaseUnchanged DEF MonReadOpen, FD!MonitorRecord, IndInv, CoreInv, MonitorLocks,
       EditBounds, Home
  <2> QED
    BY <2>1 DEF FD!Next
<1>27. CASE MonFlockTri
  BY <1>27, PhaseUnchanged DEF MonFlockTri
<1>28. CASE MonUnflockObj
  <2>1. FD!MonitorLeave
    BY <1>28, PhaseUnchanged DEF MonUnflockObj, FD!MonitorLeave, IndInv, CoreInv, MonitorLocks,
       Leaving
  <2> QED
    BY <2>1 DEF FD!Next
<1>29. CASE MonReadClose
  BY <1>29, PhaseUnchanged DEF MonReadClose
<1>30. CASE MonReflockObj
  <2>1. FD!MonitorEnter
    BY <1>30, PhaseUnchanged DEF MonReflockObj, FD!MonitorEnter
  <2> QED
    BY <2>1 DEF FD!Next
<1>31. CASE MonUnflockTri
  BY <1>31, PhaseUnchanged DEF MonUnflockTri
<1>32. CASE MonRetry
  <2>1. FD!MonitorLeave
    BY <1>32, PhaseUnchanged DEF MonRetry, FD!MonitorLeave, IndInv, CoreInv, MonitorLocks,
       Leaving
  <2> QED
    BY <2>1 DEF FD!Next
<1>33. CASE MonQuit
  BY <1>33, PhaseUnchanged DEF MonQuit
<1>34. CASE MonExitObj
  <2>1. CASE obj = Mon
    BY <1>34, <2>1, PhaseUnchanged DEF MonExitObj, FD!MonitorLeave, FD!Next
  <2>2. CASE obj # Mon
    BY <1>34, <2>2, PhaseUnchanged DEF MonExitObj
  <2> QED
    BY <2>1, <2>2
<1>35. CASE MonExitTri
  BY <1>35, PhaseUnchanged DEF MonExitTri
<1>36. CASE UNCHANGED vars
  BY <1>36, PhaseUnchanged DEF vars
<1> QED
  BY <1>1, <1>2, <1>3, <1>4, <1>5, <1>6, <1>7, <1>8, <1>9, <1>10, <1>11,
     <1>12, <1>13, <1>14, <1>15, <1>16, <1>17, <1>18, <1>19, <1>20, <1>21,
     <1>22, <1>23, <1>24, <1>25, <1>26, <1>27, <1>28, <1>29, <1>30,
     <1>31, <1>32, <1>33, <1>34, <1>35, <1>36
     DEF Next, Client, Monitor

(***************************************************************************)
(* The locks of lock.c with the monitor of monitor_loop() implement the    *)
(* exclusively owned, never stale database of FreshDatabase.               *)
(***************************************************************************)
THEOREM Refinement == Spec => FreshDatabaseSpec
<1>1. Init => FD!Init
  BY DEF Init, FD!Init, Phase
<1>2. IndInv /\ [Next]_vars => [FD!Next]_(FD!vars)
  BY RefinementStep
<1> QED
  BY <1>1, <1>2, Invariance, PTL DEF Spec, FreshDatabaseSpec, FD!Spec
=============================================================================
